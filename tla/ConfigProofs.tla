----------------------------- MODULE ConfigProofs -----------------------------
(***************************************************************************)
(* Theorems about Config, for any tabs, keys and actions, any default      *)
(* configuration that has a tab order, and any number of user's lines; and *)
(* about Format, for strings of any length and nesting.                    *)
(***************************************************************************)
EXTENDS Config, Format, FiniteSetTheorems, SequenceTheorems, WellFoundedInduction, TLAPS

Texts == {"new", "default"}

AllLines == UNION {LinesFor(option, word) : option \in Options, word \in Texts}

\* The types.
ConfigTypes ==
  /\ config \in [tabs : Seq(TabTypes), default_tab : TabTypes,
                 wraparound : {"old"} \union Texts, border : {"old"} \union Texts,
                 separator : Nat, format : Nat]
  /\ binds \in [Keycodes -> Nat]
  /\ objects \in Seq([value : Actions \union Texts, freed : BOOLEAN])
  /\ line \in AllLines \union {NoLine}
  /\ tokens \in Seq(TabNames) /\ res \in Seq(TabTypes)
  /\ default_read \in 0..Len(DefaultLines) /\ user_read \in Nat
  /\ valid \in BOOLEAN
  /\ tab_index \in Int

\* AllAllocated lead to what was allocated.
AllAllocated ==
  /\ config.separator \in 0..Len(objects) /\ config.format \in 0..Len(objects)
  /\ \A k \in Keycodes : binds[k] \in 0..Len(objects)

\* A bind that is not freed is in the map, once, and one that is in the map is not
\* freed.
Owned ==
  /\ \A k, m \in Keycodes : binds[k] = binds[m] /\ binds[k] # None => k = m
  /\ \A k \in Keycodes : binds[k] # None =>
       objects[binds[k]].value \in Actions /\ ~objects[binds[k]].freed
  /\ \A p \in 1..Len(objects) : objects[p].value \in Actions /\ ~objects[p].freed =>
       \E k \in Keycodes : binds[k] = p

\* What the parser of tab-order has accepted and what is to come make up the line.
Halves(val, s, t) ==
  /\ Len(val) = Len(s) + Len(t)
  /\ \A i \in 1..Len(s) : val[i] = s[i]
  /\ \A i \in 1..Len(t) : val[Len(s) + i] = t[i]

Distinct(s) == \A i, j \in 1..Len(s) : s[i] = s[j] => i = j

ParserInv ==
  /\ Parsing("tab-order") => Halves(line.val, res, tokens)
  /\ ~Parsing("tab-order") => tokens = <<>> /\ res = <<>>
  /\ Distinct(res)

\* The default lines come first, and the program starts last.
Progress ==
  /\ user_read > 0 => default_read = Len(DefaultLines)
  /\ tab_index # -1 => line = NoLine /\ default_read = Len(DefaultLines)
  /\ line # NoLine /\ user_read = 0 => default_read > 0 /\ line = DefaultLines[default_read]

\* A parser that is not done has changed nothing.
BeforeInv == line # NoLine => before = Settings

OrdersTabs(l) == l.option = "tab-order" /\ TabList(l.val)

\* A tab order that has been read has left tabs.
TabsInv ==
  /\ Distinct(config.tabs)
  /\ \A i \in 1..default_read :
       OrdersTabs(DefaultLines[i]) /\ (line # NoLine /\ user_read = 0 => i # default_read)
         => config.tabs # <<>>
  /\ tab_index # -1 =>
       /\ tab_index \in 0..Len(config.tabs) - 1
       /\ (\E i \in DOMAIN config.tabs : config.tabs[i] = config.default_tab)
            => config.tabs[tab_index + 1] = config.default_tab

ConfigInv == ConfigTypes /\ AllAllocated /\ Owned /\ ParserInv /\ Progress /\ BeforeInv /\ TabsInv

\* What LinesApplyWhole says of a step.
Applies ==
  line # NoLine /\ line' = NoLine =>
    IF ValidLine(line)
    THEN Settings' = Meaning(line, before) /\ valid' = valid
    ELSE /\ Unbordered(Settings') = Unbordered(before)
         /\ line.option # "border" => Settings' = before
         /\ user_read > 0 => ~valid'

-----------------------------------------------------------------------------
(* Lines.                                                                  *)

\* The forms of the lines.
LEMMA LineForms ==
  ASSUME NEW l \in AllLines
  PROVE  /\ l.option \in Options /\ l # NoLine
         /\ l.option = "tab-order" => l.val \in Seq(TabNames)
         /\ l.option = "default-tab" => l.val \in TabNames
         /\ l.option = "border" =>
              l.val = <<>> \/ \E t \in Texts : l.val = <<t>> \/ l.val = <<t, "more">>
         /\ l.option = "bind" =>
              l.val \in Keycodes \union {Invalid} /\ l.action \in Actions \union {"unbind", Invalid}
         /\ l.option = "unknown" => l.val = Invalid
         /\ l.option \in {"wraparound", "separator", "format"} => l.val \in Texts \union {Invalid}
<1>1. PICK option \in Options, word \in Texts : l \in LinesFor(option, word)
  BY DEF AllLines
<1>2. CASE option = "tab-order"
  <2>1. l \in [option : {option}, val :
                UNION {[1..n -> TabNames] : n \in 0..Cardinality(TabTypes) + 1}]
    BY <1>1, <1>2 DEF LinesFor
  <2>2. Cardinality(TabTypes) \in Nat
    BY FS_CardinalityType, ConfigAssumption
  <2>3. PICK n \in 0..Cardinality(TabTypes) + 1 : l.val \in [1..n -> TabNames]
    BY <2>1
  <2>4. n \in Nat
    BY <2>2
  <2>5. l.val \in Seq(TabNames)
    BY <2>3, <2>4, SeqDef
  <2>. QED  BY <1>2, <2>1, <2>5 DEF Options, NoLine
<1>3. CASE option = "default-tab"
  <2>1. l \in [option : {option}, val : TabNames]
    BY <1>1, <1>3 DEF LinesFor
  <2>. QED  BY <1>3, <2>1 DEF Options, NoLine
<1>4. CASE option = "border"
  <2>1. l \in [option : {option}, val : {<<>>, <<word>>, <<word, "more">>}]
    BY <1>1, <1>4 DEF LinesFor
  <2>. QED  BY <1>4, <2>1 DEF Options, NoLine
<1>5. CASE option = "bind"
  <2>1. l \in [option : {option}, val : Keycodes \union {Invalid},
               action : Actions \union {"unbind", Invalid}]
    BY <1>1, <1>5 DEF LinesFor
  <2>. QED  BY <1>5, <2>1 DEF Options, NoLine
<1>6. CASE option = "unknown"
  <2>1. l \in [option : {option}, val : {Invalid}]
    BY <1>1, <1>6 DEF LinesFor
  <2>. QED  BY <1>6, <2>1 DEF Options, NoLine
<1>7. CASE option \in {"wraparound", "separator", "format"}
  <2>1. l \in [option : {option}, val : {word, Invalid}]
    BY <1>1, <1>7 DEF LinesFor
  <2>. QED  BY <1>7, <2>1 DEF Options, NoLine
<1>. QED  BY <1>2, <1>3, <1>4, <1>5, <1>6, <1>7 DEF Options

\* The default lines are lines.
LEMMA DefaultIsLine == ASSUME NEW i \in 1..Len(DefaultLines)  PROVE DefaultLines[i] \in AllLines
<1>1. DOMAIN DefaultLines = 1..Len(DefaultLines)
  BY DefaultsAssumption
<1>2. DefaultLines[i].option \in Options
      /\ DefaultLines[i] \in LinesFor(DefaultLines[i].option, "default")
  BY <1>1, DefaultsAssumption
<1>. QED  BY <1>2 DEF AllLines, Texts

LEMMA UserIsLine ==
  ASSUME NEW option \in Options, NEW l \in LinesFor(option, "new")
  PROVE  l \in AllLines
BY DEF AllLines, Texts

\* There is a default tab order, so there are tabs.
LEMMA DefaultOrder ==
  \E i \in 1..Len(DefaultLines) : OrdersTabs(DefaultLines[i])
<1>1. DOMAIN DefaultLines = 1..Len(DefaultLines)
  BY DefaultsAssumption
<1>. QED  BY <1>1, DefaultsAssumption DEF OrdersTabs

LEMMA SomeTab == TabTypes # {}
<1>1. PICK i \in 1..Len(DefaultLines) : OrdersTabs(DefaultLines[i])
  BY DefaultOrder
<1>. DEFINE v == DefaultLines[i].val
<1>2. v \in Seq(TabNames)
  BY <1>1, DefaultIsLine, LineForms DEF OrdersTabs
<1>3. v # <<>> /\ \A j \in DOMAIN v : v[j] # Invalid
  BY <1>1 DEF OrdersTabs, TabList
<1>. HIDE DEF v
<1>4. 1 \in DOMAIN v /\ v[1] \in TabNames
  BY <1>2, <1>3, EmptySeq, LenProperties, ElementOfSeq
<1>. QED  BY <1>3, <1>4 DEF TabNames

-----------------------------------------------------------------------------
(* The beginning.                                                          *)

LEMMA InitInv == ConfigInit => ConfigInv
<1>. SUFFICES ASSUME ConfigInit PROVE ConfigInv
  OBVIOUS
<1>1. (CHOOSE t \in TabTypes : TRUE) \in TabTypes
  BY SomeTab
<1>2. Len(DefaultLines) \in Nat
  BY DefaultsAssumption
<1>3. ConfigTypes
  <2>1. config \in [tabs : Seq(TabTypes), default_tab : TabTypes,
                   wraparound : {"old"} \union Texts, border : {"old"} \union Texts,
                   separator : Nat, format : Nat]
    BY <1>1, EmptySeq DEF ConfigInit, None
  <2>2. binds \in [Keycodes -> Nat] /\ default_read \in 0..Len(DefaultLines)
    BY <1>2 DEF ConfigInit, None
  <2>3. objects \in Seq([value : Actions \union Texts, freed : BOOLEAN])
        /\ tokens \in Seq(TabNames) /\ res \in Seq(TabTypes)
    BY EmptySeq DEF ConfigInit
  <2>. QED  BY <2>1, <2>2, <2>3 DEF ConfigTypes, ConfigInit
<1>4. AllAllocated /\ Owned
  BY DEF ConfigInit, AllAllocated, Owned, None
<1>5. ParserInv /\ Progress /\ BeforeInv
  BY DEF ConfigInit, ParserInv, Progress, BeforeInv, Parsing, Distinct
<1>6. TabsInv
  BY DEF ConfigInit, TabsInv, Distinct
<1>. QED  BY <1>3, <1>4, <1>5, <1>6 DEF ConfigInv

-----------------------------------------------------------------------------
(* Reading lines.                                                          *)

\* A line begins: nothing is known to be accepted of it.
LEMMA NextLineInv ==
  ASSUME ConfigInv, line = NoLine, tab_index = -1, NEW l \in AllLines, NextLine(l),
         \/ /\ user_read = 0 /\ user_read' = 0 /\ default_read' \in 1..Len(DefaultLines)
            /\ default_read' = default_read + 1 /\ l = DefaultLines[default_read']
         \/ /\ user_read' = user_read + 1 /\ default_read' = default_read
            /\ default_read = Len(DefaultLines)
  PROVE  ConfigInv'
<1>. USE DEF ConfigInv
<1>0. /\ line' = l /\ res' = <<>> /\ before' = Settings
      /\ tokens' = IF l.option = "tab-order" THEN l.val ELSE <<>>
      /\ UNCHANGED <<config, binds, objects, valid, tab_index>>
  BY DEF NextLine
<1>1. l # NoLine /\ (l.option = "tab-order" => l.val \in Seq(TabNames))
  BY LineForms
<1>2. tokens' \in Seq(TabNames) /\ res' \in Seq(TabTypes) /\ Len(res') = 0
  BY <1>0, <1>1, EmptySeq
<1>3. user_read' \in Nat /\ default_read' \in 0..Len(DefaultLines)
  BY DEF ConfigTypes
<1>4. ConfigTypes'
  BY <1>0, <1>2, <1>3 DEF ConfigTypes
<1>5. AllAllocated' /\ Owned'
  BY <1>0 DEF AllAllocated, Owned
<1>6. ParserInv'
  <2>1. ASSUME l.option = "tab-order"
        PROVE  Halves(l.val, res', tokens')
    <3>1. tokens' = l.val /\ Len(l.val) \in Nat
      BY <1>0, <1>1, <2>1, LenProperties
    <3>. QED  BY <1>2, <3>1 DEF Halves
  <2>2. l.option # "tab-order" => tokens' = <<>>
    BY <1>0
  <2>. QED  BY <1>0, <1>1, <1>2, <2>1, <2>2 DEF ParserInv, Parsing, Distinct
<1>7. Progress'
  BY <1>0, <1>1 DEF Progress, ConfigTypes
<1>8. BeforeInv'
  BY <1>0 DEF BeforeInv, Settings, At
<1>9. TabsInv'
  <2>1. \A i \in 1..default_read : OrdersTabs(DefaultLines[i]) => config.tabs # <<>>
    BY DEF TabsInv
  <2>2. ASSUME NEW i \in 1..default_read', OrdersTabs(DefaultLines[i]),
               line' # NoLine /\ user_read' = 0 => i # default_read'
        PROVE  i \in 1..default_read
    BY <1>0, <1>1, <2>2, DefaultsAssumption DEF ConfigTypes
  <2>3. ASSUME NEW i \in 1..default_read', OrdersTabs(DefaultLines[i]),
               line' # NoLine /\ user_read' = 0 => i # default_read'
        PROVE  config'.tabs # <<>>
    BY <1>0, <2>1, <2>2, <2>3
  <2>. QED  BY <1>0, <2>3 DEF TabsInv
<1>. QED  BY <1>4, <1>5, <1>6, <1>7, <1>8, <1>9

LEMMA ReadDefaultInv == ASSUME ConfigInv, ReadDefault  PROVE ConfigInv' /\ Applies
<1>1. line = NoLine /\ tab_index = -1 /\ user_read = 0 /\ default_read < Len(DefaultLines)
      /\ NextLine(DefaultLines[default_read + 1]) /\ default_read' = default_read + 1
      /\ user_read' = 0
  BY DEF ReadDefault
<1>2. default_read + 1 \in 1..Len(DefaultLines)
  BY <1>1, DefaultsAssumption DEF ConfigInv, ConfigTypes
<1>3. DefaultLines[default_read + 1] \in AllLines
  BY <1>2, DefaultIsLine
<1>4. ConfigInv'
  BY <1>1, <1>2, <1>3, NextLineInv
<1>. QED  BY <1>1, <1>4 DEF Applies

LEMMA ReadUserInv ==
  ASSUME ConfigInv, NEW option \in Options, NEW l \in LinesFor(option, "new"), ReadUser(l)
  PROVE  ConfigInv' /\ Applies
<1>1. line = NoLine /\ tab_index = -1 /\ default_read = Len(DefaultLines)
      /\ NextLine(l) /\ user_read' = user_read + 1 /\ default_read' = default_read
  BY DEF ReadUser
<1>2. l \in AllLines
  BY UserIsLine
<1>3. ConfigInv'
  BY <1>1, <1>2, NextLineInv
<1>. QED  BY <1>1, <1>3 DEF Applies

-----------------------------------------------------------------------------
(* A line is done.                                                         *)

\* What a parser that returns leaves, unless it was that of tab-order and took the
\* line.
LEMMA DoneInv ==
  ASSUME ConfigInv, line # NoLine, Done, UNCHANGED counters, ~OrdersTabs(line),
         config'.tabs = config.tabs
  PROVE  /\ line' = NoLine /\ ParserInv' /\ Progress' /\ BeforeInv' /\ TabsInv'
         /\ tokens' \in Seq(TabNames) /\ res' \in Seq(TabTypes)
<1>. USE DEF ConfigInv
<1>0. line' = NoLine /\ tokens' = <<>> /\ res' = <<>> /\ tab_index' = tab_index
      /\ default_read' = default_read /\ user_read' = user_read /\ tab_index = -1
  BY DEF Done, counters, Progress
<1>1. tokens' \in Seq(TabNames) /\ res' \in Seq(TabTypes)
  BY <1>0, EmptySeq
<1>2. ParserInv' /\ Progress' /\ BeforeInv'
  BY <1>0 DEF ParserInv, Parsing, Progress, BeforeInv, Distinct
<1>3. TabsInv'
  <2>1. ASSUME NEW i \in 1..default_read, OrdersTabs(DefaultLines[i])
        PROVE  config.tabs # <<>>
    <3>1. line # NoLine /\ user_read = 0 => i # default_read
      BY <2>1 DEF Progress
    <3>. QED  BY <2>1, <3>1 DEF TabsInv
  <2>. QED  BY <1>0, <2>1 DEF TabsInv
<1>. QED  BY <1>0, <1>1, <1>2, <1>3

\* With the settings as they were, a line that is refused has been refused whole.
LEMMA RefusedApplies ==
  ASSUME ConfigInv, line # NoLine, Rejected, ~ValidLine(line), UNCHANGED <<config, binds, objects>>
  PROVE  Applies
<1>1. before = Settings /\ Settings' = Settings
  BY DEF ConfigInv, BeforeInv, Settings, At
<1>2. user_read > 0 => ~valid'
  <2>1. user_read > 0 => ~(user_read = 0)
    OBVIOUS
  <2>. QED  BY <2>1, Zenon DEF Rejected
<1>. QED  BY <1>1, <1>2 DEF Applies

LEMMA RefusedInv ==
  ASSUME ConfigInv, line # NoLine, Rejected, ~ValidLine(line),
         UNCHANGED <<config, binds, objects, counters>>
  PROVE  ConfigInv' /\ Applies
<1>. USE DEF ConfigInv
<1>1. ~OrdersTabs(line)
  BY DEF OrdersTabs, ValidLine, Options
<1>2. /\ line' = NoLine /\ ParserInv' /\ Progress' /\ BeforeInv' /\ TabsInv'
      /\ tokens' \in Seq(TabNames) /\ res' \in Seq(TabTypes)
  BY <1>1, DoneInv DEF Rejected
<1>3. valid' \in BOOLEAN
  BY DEF Rejected
<1>4. ConfigTypes' /\ AllAllocated' /\ Owned'
  BY <1>2, <1>3 DEF ConfigTypes, AllAllocated, Owned, counters
<1>. QED  BY <1>2, <1>4, RefusedApplies

\* What a pointer leads to does not depend on what is allocated later, or freed.
LEMMA SameValues ==
  ASSUME AllAllocated, objects' \in Seq([value : Actions \union Texts, freed : BOOLEAN]),
         \A p \in 1..Len(objects) : objects'[p].value = objects[p].value,
         NEW p \in 0..Len(objects)
  PROVE  At(p)' = At(p)
BY DEF At, None

-----------------------------------------------------------------------------
(* The parsers of single values.                                           *)

\* wraparound and default-tab, whose values the configuration holds.
LEMMA StoreValueInv ==
  ASSUME ConfigInv,
         StoreValue("wraparound", "wraparound") \/ StoreValue("default-tab", "default_tab")
  PROVE  ConfigInv' /\ Applies
<1>. USE DEF ConfigInv
<1>1. /\ line # NoLine /\ line.option \in {"wraparound", "default-tab"} /\ line \in AllLines
      /\ UNCHANGED <<binds, objects, counters>>
  BY DEF StoreValue, Parsing, ConfigTypes
<1>2. CASE line.val = Invalid
  <2>1. Rejected /\ UNCHANGED config
    BY <1>2 DEF StoreValue
  <2>2. ~ValidLine(line)
    BY <1>1, <1>2 DEF ValidLine
  <2>. QED  BY <1>1, <2>1, <2>2, RefusedInv
<1>3. CASE line.val # Invalid
  <2>1. Taken /\ \/ line.option = "wraparound"  /\ config' = [config EXCEPT !.wraparound = line.val]
                 \/ line.option = "default-tab" /\ config' = [config EXCEPT !.default_tab = line.val]
    BY <1>3 DEF StoreValue, Parsing
  <2>2. /\ line.option = "wraparound" => line.val \in Texts
        /\ line.option = "default-tab" => line.val \in TabTypes
    BY <1>1, <1>3, LineForms DEF TabNames
  <2>3. config' \in [tabs : Seq(TabTypes), default_tab : TabTypes,
                    wraparound : {"old"} \union Texts, border : {"old"} \union Texts,
                    separator : Nat, format : Nat]
        /\ config'.tabs = config.tabs /\ config'.separator = config.separator
        /\ config'.format = config.format /\ config'.border = config.border
        /\ config'.wraparound = (IF line.option = "wraparound" THEN line.val ELSE config.wraparound)
        /\ config'.default_tab = (IF line.option = "default-tab" THEN line.val ELSE config.default_tab)
    BY <2>1, <2>2 DEF ConfigTypes
  <2>4. /\ line' = NoLine /\ ParserInv' /\ Progress' /\ BeforeInv' /\ TabsInv'
        /\ tokens' \in Seq(TabNames) /\ res' \in Seq(TabTypes)
    BY <1>1, <2>1, <2>3, DoneInv DEF Taken, OrdersTabs
  <2>5. ConfigTypes' /\ AllAllocated' /\ Owned'
    BY <1>1, <2>1, <2>3, <2>4 DEF ConfigTypes, AllAllocated, Owned, counters, Taken
  <2>6. ValidLine(line)
    BY <1>1, <1>3 DEF ValidLine
  <2>7. before = Settings
    BY <1>1 DEF BeforeInv
  <2>8. Settings' = Meaning(line, Settings)
    <3>1. At(config.separator)' = At(config.separator) /\ At(config.format)' = At(config.format)
          /\ [k \in Keycodes |-> At(binds[k])]' = [k \in Keycodes |-> At(binds[k])]
      BY <1>1, <2>3 DEF At
    <3>. QED  BY <1>1, <2>3, <3>1 DEF Settings, Meaning
  <2>. QED  BY <2>1, <2>4, <2>5, <2>6, <2>7, <2>8 DEF Applies, Taken
<1>. QED  BY <1>2, <1>3

\* separator and format, whose values are allocated.
LEMMA StorePointerInv ==
  ASSUME ConfigInv,
         StorePointer("separator", "separator") \/ StorePointer("format", "format")
  PROVE  ConfigInv' /\ Applies
<1>. USE DEF ConfigInv
<1>1. /\ line # NoLine /\ line.option \in {"separator", "format"} /\ line \in AllLines
      /\ UNCHANGED <<binds, counters>>
  BY DEF StorePointer, Parsing, ConfigTypes
<1>2. CASE line.val = Invalid
  <2>1. Rejected /\ UNCHANGED <<config, objects>>
    BY <1>2 DEF StorePointer
  <2>2. ~ValidLine(line)
    BY <1>1, <1>2 DEF ValidLine
  <2>. QED  BY <1>1, <2>1, <2>2, RefusedInv
<1>3. CASE line.val # Invalid
  <2>. DEFINE object == [value |-> line.val, freed |-> FALSE]
  <2>1. /\ Taken /\ objects' = Append(objects, object)
        /\ \/ line.option = "separator" /\ config' = [config EXCEPT !.separator = Len(objects) + 1]
           \/ line.option = "format"    /\ config' = [config EXCEPT !.format = Len(objects) + 1]
    BY <1>3 DEF StorePointer, Parsing
  <2>2. line.val \in Texts /\ line.val \notin Actions
    BY <1>1, <1>3, LineForms, ConfigAssumption DEF Texts
  <2>3. object \in [value : Actions \union Texts, freed : BOOLEAN]
        /\ object.value = line.val
    BY <2>2
  <2>. HIDE DEF object
  <2>4. /\ objects' \in Seq([value : Actions \union Texts, freed : BOOLEAN])
        /\ Len(objects') = Len(objects) + 1 /\ Len(objects) \in Nat
        /\ objects'[Len(objects) + 1] = object
        /\ \A p \in 1..Len(objects) : objects'[p] = objects[p]
    BY <2>1, <2>3 DEF ConfigTypes
  <2>5. config' \in [tabs : Seq(TabTypes), default_tab : TabTypes,
                    wraparound : {"old"} \union Texts, border : {"old"} \union Texts,
                    separator : Nat, format : Nat]
        /\ config'.tabs = config.tabs /\ config'.border = config.border
        /\ config'.wraparound = config.wraparound /\ config'.default_tab = config.default_tab
        /\ config'.separator = (IF line.option = "separator" THEN Len(objects) + 1
                                                             ELSE config.separator)
        /\ config'.format = (IF line.option = "format" THEN Len(objects) + 1 ELSE config.format)
    BY <1>1, <2>1, <2>4, SMTT(30) DEF ConfigTypes
  <2>6. /\ line' = NoLine /\ ParserInv' /\ Progress' /\ BeforeInv' /\ TabsInv'
        /\ tokens' \in Seq(TabNames) /\ res' \in Seq(TabTypes)
    BY <1>1, <2>1, <2>5, DoneInv DEF Taken, OrdersTabs
  <2>7. ConfigTypes'
    BY <1>1, <2>1, <2>4, <2>5, <2>6 DEF ConfigTypes, counters, Taken
  <2>8. AllAllocated'
    BY <1>1, <2>4, <2>5 DEF AllAllocated
  <2>9. Owned'
    <3>1. ASSUME NEW k \in Keycodes, binds[k] # None
          PROVE  binds[k] \in 1..Len(objects) /\ objects'[binds[k]] = objects[binds[k]]
      BY <2>4, <3>1 DEF AllAllocated, None
    <3>2. ASSUME NEW p \in 1..Len(objects'), objects'[p].value \in Actions, ~objects'[p].freed
          PROVE  \E k \in Keycodes : binds[k] = p
      <4>1. p # Len(objects) + 1
        BY <2>2, <2>3, <2>4, <3>2
      <4>2. p \in 1..Len(objects)
        BY <2>4, <4>1
      <4>. QED  BY <2>4, <3>2, <4>2 DEF Owned
    <3>. QED  BY <1>1, <3>1, <3>2 DEF Owned
  <2>10. ValidLine(line) /\ before = Settings
    BY <1>1, <1>3 DEF ValidLine, BeforeInv
  <2>11. Settings' = Meaning(line, Settings)
    <3>1. \A p \in 0..Len(objects) : At(p)' = At(p)
      BY <2>4 DEF At, None
    <3>2. [k \in Keycodes |-> At(binds[k])]' = [k \in Keycodes |-> At(binds[k])]
      <4>1. \A k \in Keycodes : At(binds[k])' = At(binds[k])
        BY <1>1, <2>4 DEF At, AllAllocated, None
      <4>. QED  BY <4>1
    <3>3. At(config.separator)' = (IF line.option = "separator" THEN line.val ELSE At(config.separator))
          /\ At(config.format)' = (IF line.option = "format" THEN line.val ELSE At(config.format))
      BY <1>1, <2>3, <2>4, <2>5 DEF At, AllAllocated, None
    <3>. QED  BY <1>1, <2>5, <3>2, <3>3 DEF Settings, Meaning
  <2>. QED  BY <2>1, <2>6, <2>7, <2>8, <2>9, <2>10, <2>11 DEF Applies, Taken
<1>. QED  BY <1>2, <1>3

\* border, whose first character is stored in any case.
LEMMA BorderInv == ASSUME ConfigInv, Border  PROVE ConfigInv' /\ Applies
<1>. USE DEF ConfigInv
<1>1. /\ line # NoLine /\ line.option = "border" /\ line \in AllLines
      /\ UNCHANGED <<binds, objects, counters>>
  BY DEF Border, Parsing, ConfigTypes
<1>2. CASE line.val = <<>>
  <2>1. Rejected /\ UNCHANGED config
    BY <1>2 DEF Border
  <2>2. ~ValidLine(line)
    BY <1>1, <1>2 DEF ValidLine
  <2>. QED  BY <1>1, <2>1, <2>2, RefusedInv
<1>3. CASE line.val # <<>>
  <2>1. PICK t \in Texts : line.val = <<t>> \/ line.val = <<t, "more">>
    BY <1>1, <1>3, LineForms
  <2>2. config' = [config EXCEPT !.border = t] /\ (Rejected \/ Taken)
        /\ (line.val = <<t>> => Taken /\ Len(line.val) = 1 /\ line.val[1] = t)
        /\ (line.val = <<t, "more">> => Rejected /\ Len(line.val) = 2)
    <3>1. line.val = <<t>> => Len(line.val) = 1 /\ Head(line.val) = t /\ line.val[1] = t
      OBVIOUS
    <3>2. line.val = <<t, "more">> => Len(line.val) = 2 /\ Head(line.val) = t
      OBVIOUS
    <3>3. config' = [config EXCEPT !.border = Head(line.val)]
          /\ IF Len(line.val) > 1 THEN Rejected ELSE Taken
      BY <1>3 DEF Border
    <3>. QED  BY <2>1, <3>1, <3>2, <3>3
  <2>3. config' \in [tabs : Seq(TabTypes), default_tab : TabTypes,
                    wraparound : {"old"} \union Texts, border : {"old"} \union Texts,
                    separator : Nat, format : Nat]
        /\ config'.tabs = config.tabs /\ config'.separator = config.separator
        /\ config'.format = config.format /\ config'.border = t
        /\ config'.wraparound = config.wraparound /\ config'.default_tab = config.default_tab
    BY <2>2 DEF ConfigTypes
  <2>4. /\ line' = NoLine /\ ParserInv' /\ Progress' /\ BeforeInv' /\ TabsInv'
        /\ tokens' \in Seq(TabNames) /\ res' \in Seq(TabTypes)
    BY <1>1, <2>2, <2>3, DoneInv DEF Taken, Rejected, OrdersTabs
  <2>5. valid' \in BOOLEAN
    BY <2>2 DEF Taken, Rejected, ConfigTypes
  <2>6. ConfigTypes' /\ AllAllocated' /\ Owned'
    BY <1>1, <2>3, <2>4, <2>5 DEF ConfigTypes, AllAllocated, Owned, counters
  <2>7. before = Settings
    BY <1>1 DEF BeforeInv
  <2>8. Settings' = [Settings EXCEPT !.border = t]
    <3>1. At(config.separator)' = At(config.separator) /\ At(config.format)' = At(config.format)
          /\ [k \in Keycodes |-> At(binds[k])]' = [k \in Keycodes |-> At(binds[k])]
      BY <1>1, <2>3 DEF At
    <3>. DEFINE sep == At(config.separator)
                form == At(config.format)
                map == [k \in Keycodes |-> At(binds[k])]
    <3>2. Settings' = [tabs |-> config.tabs, default_tab |-> config.default_tab,
                       wraparound |-> config.wraparound, border |-> t,
                       separator |-> sep, format |-> form, binds |-> map]
      BY <2>3, <3>1 DEF Settings
    <3>3. Settings = [tabs |-> config.tabs, default_tab |-> config.default_tab,
                      wraparound |-> config.wraparound, border |-> config.border,
                      separator |-> sep, format |-> form, binds |-> map]
      BY DEF Settings
    <3>. HIDE DEF sep, form, map
    <3>. QED  BY <3>2, <3>3
  <2>9. CASE line.val = <<t>>
    <3>1. ValidLine(line) /\ Meaning(line, Settings) = [Settings EXCEPT !.border = t]
      BY <1>1, <2>2, <2>9 DEF ValidLine, Meaning
    <3>. QED  BY <2>2, <2>4, <2>6, <2>7, <2>8, <2>9, <3>1 DEF Applies, Taken
  <2>10. CASE line.val = <<t, "more">>
    <3>1. ~ValidLine(line)
      BY <1>1, <2>2, <2>10 DEF ValidLine
    <3>2. Unbordered(Settings') = Unbordered(Settings)
      BY <2>8 DEF Unbordered, Settings
    <3>3. user_read > 0 => ~valid'
      <4>1. user_read > 0 => ~(user_read = 0)
        OBVIOUS
      <4>. QED  BY <2>2, <2>10, <4>1, Zenon DEF Rejected
    <3>. QED  BY <1>1, <2>4, <2>6, <2>7, <3>1, <3>2, <3>3 DEF Applies
  <2>. QED  BY <2>1, <2>9, <2>10
<1>. QED  BY <1>2, <1>3

-----------------------------------------------------------------------------
(* The tab order.                                                          *)

\* The next name is the one of the line that follows those accepted.
LEMMA HalvesStep ==
  ASSUME NEW val, NEW s \in Seq(TabTypes), NEW t \in Seq(TabNames), t # <<>>,
         Halves(val, s, t), Head(t) \in TabTypes
  PROVE  Halves(val, Append(s, Head(t)), Tail(t))
<1>1. /\ Tail(t) \in Seq(TabNames) /\ Len(Tail(t)) = Len(t) - 1
      /\ Head(t) = t[1] /\ Len(t) \in Nat \ {0}
      /\ \A i \in 1..Len(t) - 1 : Tail(t)[i] = t[i + 1]
  OBVIOUS
<1>. DEFINE r == Append(s, Head(t))
<1>2. /\ Len(r) = Len(s) + 1 /\ Len(s) \in Nat /\ r[Len(s) + 1] = Head(t)
      /\ \A i \in 1..Len(s) : r[i] = s[i]
  OBVIOUS
<1>. HIDE DEF r
<1>. DEFINE u == Tail(t)
<1>. HIDE DEF u
<1>3. Len(val) = Len(r) + Len(u)
  BY <1>1, <1>2 DEF Halves, u
<1>4. \A i \in 1..Len(r) : val[i] = r[i]
  <2>. SUFFICES ASSUME NEW i \in 1..Len(r) PROVE val[i] = r[i]
    OBVIOUS
  <2>1. CASE i \in 1..Len(s)
    BY <1>2, <2>1 DEF Halves
  <2>2. CASE i = Len(s) + 1
    <3>1. val[Len(s) + 1] = t[1]
      BY <1>1 DEF Halves
    <3>. QED  BY <1>1, <1>2, <2>2, <3>1
  <2>. QED  BY <1>2, <2>1, <2>2
<1>5. \A i \in 1..Len(u) : val[Len(r) + i] = u[i]
  <2>. SUFFICES ASSUME NEW i \in 1..Len(u) PROVE val[Len(r) + i] = u[i]
    OBVIOUS
  <2>1. i \in 1..Len(t) - 1 /\ i + 1 \in 1..Len(t) /\ Len(r) + i = Len(s) + (i + 1)
    BY <1>1, <1>2 DEF u
  <2>2. val[Len(s) + (i + 1)] = t[i + 1]
    BY <2>1 DEF Halves
  <2>. QED  BY <1>1, <2>1, <2>2 DEF u
<1>6. Halves(val, r, u)
  BY <1>3, <1>4, <1>5 DEF Halves
<1>. QED  BY <1>6 DEF r, u

\* A name that is refused makes the list unacceptable.
LEMMA RefusedName ==
  ASSUME NEW val \in Seq(TabNames), NEW s \in Seq(TabTypes), NEW t \in Seq(TabNames),
         t # <<>>, Halves(val, s, t),
         Head(t) = Invalid \/ \E i \in DOMAIN s : s[i] = Head(t)
  PROVE  ~TabList(val)
<1>1. Head(t) = t[1] /\ Len(t) \in Nat \ {0} /\ Len(s) \in Nat /\ DOMAIN s = 1..Len(s)
      /\ DOMAIN val = 1..Len(val)
  BY LenProperties
<1>2. Len(val) = Len(s) + Len(t) /\ val[Len(s) + 1] = t[1]
  BY <1>1 DEF Halves
<1>3. Len(s) + 1 \in DOMAIN val
  BY <1>1, <1>2
<1>4. CASE Head(t) = Invalid
  BY <1>1, <1>2, <1>3, <1>4 DEF TabList
<1>5. ASSUME NEW i \in DOMAIN s, s[i] = Head(t)  PROVE ~TabList(val)
  <2>1. val[i] = s[i] /\ i \in DOMAIN val /\ i # Len(s) + 1
    BY <1>1, <1>2 DEF Halves
  <2>. QED  BY <1>1, <1>2, <1>3, <1>5, <2>1 DEF TabList
<1>. QED  BY <1>4, <1>5

LEMMA TabTokenInv == ASSUME ConfigInv, TabToken  PROVE ConfigInv' /\ Applies
<1>. USE DEF ConfigInv
<1>1. /\ line # NoLine /\ line.option = "tab-order" /\ line \in AllLines /\ tokens # <<>>
      /\ UNCHANGED <<config, binds, objects, counters>>
  BY DEF TabToken, Parsing, ConfigTypes
<1>2. line.val \in Seq(TabNames) /\ tokens \in Seq(TabNames) /\ res \in Seq(TabTypes)
      /\ Halves(line.val, res, tokens)
  BY <1>1, LineForms DEF ConfigTypes, ParserInv, Parsing
<1>3. CASE Head(tokens) = Invalid \/ \E i \in DOMAIN res : res[i] = Head(tokens)
  <2>1. Rejected
    BY <1>3 DEF TabToken
  <2>2. ~TabList(line.val)
    BY <1>1, <1>2, <1>3, RefusedName
  <2>3. ~ValidLine(line)
    BY <1>1, <2>2 DEF ValidLine
  <2>. QED  BY <1>1, <2>1, <2>3, RefusedInv
<1>4. CASE Head(tokens) # Invalid /\ \A i \in DOMAIN res : res[i] # Head(tokens)
  <2>1. tokens' = Tail(tokens) /\ res' = Append(res, Head(tokens)) /\ line' = line /\ valid' = valid
    BY <1>4 DEF TabToken
  <2>2. Head(tokens) \in TabTypes
    BY <1>1, <1>2, <1>4 DEF TabNames
  <2>3. tokens' \in Seq(TabNames) /\ res' \in Seq(TabTypes)
    BY <1>1, <1>2, <2>1, <2>2
  <2>4. Halves(line.val, res', tokens')
    BY <1>1, <1>2, <2>1, <2>2, HalvesStep
  <2>5. Distinct(res')
    <3>1. /\ Len(res') = Len(res) + 1 /\ Len(res) \in Nat /\ res'[Len(res) + 1] = Head(tokens)
          /\ \A i \in 1..Len(res) : res'[i] = res[i] /\ res[i] # Head(tokens)
      BY <1>2, <1>4, <2>1, <2>2, LenProperties
    <3>. QED  BY <3>1 DEF ParserInv, Distinct
  <2>6. ParserInv'
    BY <1>1, <2>1, <2>4, <2>5 DEF ParserInv, Parsing
  <2>7. ConfigTypes'
    BY <1>1, <2>1, <2>3 DEF ConfigTypes, counters
  <2>8. AllAllocated' /\ Owned' /\ Progress'
    BY <1>1, <2>1 DEF AllAllocated, Owned, Progress, counters
  <2>9. BeforeInv' /\ TabsInv'
    BY <1>1, <2>1 DEF BeforeInv, TabsInv, counters, Settings, At
  <2>. QED  BY <1>1, <2>1, <2>6, <2>7, <2>8, <2>9 DEF Applies
<1>. QED  BY <1>3, <1>4

\* The parser has come to the end of the list: what it has accepted is the list.
LEMMA AllAccepted ==
  ASSUME NEW val \in Seq(TabNames), NEW s \in Seq(TabTypes), Halves(val, s, <<>>), Distinct(s)
  PROVE  val = s /\ (s # <<>> => TabList(val))
<1>1. Len(val) = Len(s) /\ Len(s) \in Nat /\ \A i \in 1..Len(s) : val[i] = s[i]
  BY LenProperties DEF Halves
<1>2. val = [i \in 1..Len(val) |-> val[i]] /\ s = [i \in 1..Len(s) |-> s[i]]
  BY LenProperties
<1>3. val = s
  BY <1>1, <1>2
<1>4. \A i \in DOMAIN s : s[i] # Invalid
  BY ConfigAssumption, ElementOfSeq, LenProperties
<1>. QED  BY <1>3, <1>4, LenProperties DEF TabList, Distinct

LEMMA TabOrderInv == ASSUME ConfigInv, TabOrder  PROVE ConfigInv' /\ Applies
<1>. USE DEF ConfigInv
<1>1. /\ line # NoLine /\ line.option = "tab-order" /\ line \in AllLines /\ tokens = <<>>
      /\ UNCHANGED <<binds, objects, counters>>
  BY DEF TabOrder, Parsing, ConfigTypes
<1>2. line.val \in Seq(TabNames) /\ res \in Seq(TabTypes)
      /\ Halves(line.val, res, <<>>) /\ Distinct(res)
  BY <1>1, LineForms DEF ConfigTypes, ParserInv, Parsing
<1>3. line.val = res /\ (res # <<>> => TabList(line.val))
  BY <1>2, AllAccepted
<1>4. CASE res = <<>>
  <2>1. Rejected /\ UNCHANGED config
    BY <1>4 DEF TabOrder
  <2>2. ~ValidLine(line)
    BY <1>1, <1>3, <1>4 DEF ValidLine, TabList
  <2>. QED  BY <1>1, <2>1, <2>2, RefusedInv
<1>5. CASE res # <<>>
  <2>1. Taken /\ config' = [config EXCEPT !.tabs = res]
    BY <1>5 DEF TabOrder
  <2>2. config' \in [tabs : Seq(TabTypes), default_tab : TabTypes,
                    wraparound : {"old"} \union Texts, border : {"old"} \union Texts,
                    separator : Nat, format : Nat]
        /\ config'.tabs = res /\ config'.separator = config.separator
        /\ config'.format = config.format /\ config'.border = config.border
        /\ config'.wraparound = config.wraparound /\ config'.default_tab = config.default_tab
    BY <1>2, <2>1 DEF ConfigTypes
  <2>3. line' = NoLine /\ tokens' = <<>> /\ res' = <<>> /\ valid' = valid
    BY <2>1 DEF Taken, Done
  <2>4. ConfigTypes'
    BY <1>1, <2>2, <2>3, EmptySeq DEF ConfigTypes, counters
  <2>5. AllAllocated' /\ Owned'
    BY <1>1, <2>2 DEF AllAllocated, Owned
  <2>6. ParserInv' /\ Progress' /\ BeforeInv' /\ tab_index' = -1
    BY <1>1, <2>3 DEF ParserInv, Parsing, Progress, BeforeInv, counters, Distinct
  <2>7. TabsInv'
    BY <1>2, <1>5, <2>2, <2>6 DEF TabsInv
  <2>8. ValidLine(line) /\ before = Settings
    BY <1>1, <1>3, <1>5 DEF ValidLine, BeforeInv
  <2>9. Settings' = Meaning(line, Settings)
    <3>1. At(config.separator)' = At(config.separator) /\ At(config.format)' = At(config.format)
          /\ [k \in Keycodes |-> At(binds[k])]' = [k \in Keycodes |-> At(binds[k])]
      BY <1>1, <2>2 DEF At
    <3>. QED  BY <1>1, <1>3, <2>2, <3>1 DEF Settings, Meaning
  <2>. QED  BY <2>3, <2>4, <2>5, <2>6, <2>7, <2>8, <2>9 DEF Applies
<1>. QED  BY <1>4, <1>5

-----------------------------------------------------------------------------
(* Binds.                                                                  *)

\* The objects f are those of now, but that the one at p is freed.
FreedAt(f, p) ==
  /\ f \in Seq([value : Actions \union Texts, freed : BOOLEAN])
  /\ Len(f) = Len(objects) /\ Len(objects) \in Nat
  /\ \A i \in 1..Len(objects) :
       /\ f[i].value = objects[i].value
       /\ f[i].freed <=> (objects[i].freed \/ i = p)

LEMMA FreeingIs ==
  ASSUME ConfigTypes, NEW p \in Nat
  PROVE  FreedAt(Freeing(p), p)
<1>. DEFINE f == Freeing(p)
<1>. DEFINE O == [value : Actions \union Texts, freed : BOOLEAN]
<1>1. objects \in Seq(O) /\ DOMAIN objects = 1..Len(objects) /\ Len(objects) \in Nat
  BY LenProperties DEF ConfigTypes
<1>2. DOMAIN f = 1..Len(objects)
  BY <1>1 DEF Freeing
<1>3. ASSUME NEW i \in 1..Len(objects)
      PROVE  /\ f[i].value = objects[i].value /\ (f[i].freed <=> (objects[i].freed \/ i = p))
             /\ f[i] \in O
  <2>1. objects[i] \in O
    BY <1>1, ElementOfSeq
  <2>2. f[i] = IF i = p THEN [objects[i] EXCEPT !.freed = TRUE] ELSE objects[i]
    BY <1>1 DEF Freeing
  <2>. QED  BY <2>1, <2>2
<1>4. f \in [1..Len(objects) -> O]
  <2>1. f = [i \in 1..Len(objects) |-> f[i]]
    BY <1>1 DEF Freeing
  <2>. HIDE DEF O
  <2>. QED  BY <1>3, <2>1
<1>5. f \in Seq(O) /\ Len(f) = Len(objects)
  BY <1>1, <1>2, <1>4, SeqDef, LenProperties
<1>. HIDE DEF f
<1>6. FreedAt(f, p)
  BY <1>1, <1>3, <1>5 DEF FreedAt
<1>. QED  BY <1>6 DEF f

LEMMA UnbindInv == ASSUME ConfigInv, Unbind  PROVE ConfigInv' /\ Applies
<1>. USE DEF ConfigInv
<1>. DEFINE O == [value : Actions \union Texts, freed : BOOLEAN]
            key == line.val
<1>1. /\ line # NoLine /\ line.option = "bind" /\ line \in AllLines /\ key \in Keycodes
      /\ line.action = "unbind" /\ Taken /\ UNCHANGED <<config, counters>>
      /\ binds' = [binds EXCEPT ![key] = None] /\ objects' = Freeing(binds[key])
  <2>1. Parsing("bind") /\ line.val # Invalid /\ line \in AllLines
    BY DEF Unbind, Parsing, ConfigTypes
  <2>2. line.val \in Keycodes \union {Invalid}
    BY <2>1, LineForms DEF Parsing
  <2>. QED  BY <2>1, <2>2 DEF Unbind, Parsing
<1>. DEFINE old == binds[key]
<1>2. binds \in [Keycodes -> Nat] /\ old \in Nat
  BY <1>1 DEF ConfigTypes
<1>3. /\ objects' \in Seq(O) /\ Len(objects') = Len(objects) /\ Len(objects) \in Nat
      /\ \A i \in 1..Len(objects) : /\ objects'[i].value = objects[i].value
                                   /\ (objects'[i].freed <=> (objects[i].freed \/ i = old))
  <2>1. ConfigTypes
    OBVIOUS
  <2>2. PICK p \in Nat : p = old
    BY <1>2
  <2>3. FreedAt(Freeing(p), p)
    <3>. HIDE DEF ConfigInv
    <3>. QED  BY <2>1, FreeingIs
  <2>4. FreedAt(objects', old)
    BY <1>1, <2>2, <2>3
  <2>. QED  BY <2>4 DEF FreedAt
<1>4. binds' \in [Keycodes -> Nat] /\ \A k \in Keycodes : binds'[k] = IF k = key THEN None ELSE binds[k]
  BY <1>1, <1>2 DEF None
<1>. HIDE DEF O, key, old
<1>5. ~OrdersTabs(line)
  BY <1>1 DEF OrdersTabs
<1>6. /\ line' = NoLine /\ ParserInv' /\ Progress' /\ BeforeInv' /\ TabsInv'
      /\ tokens' \in Seq(TabNames) /\ res' \in Seq(TabTypes)
  BY <1>1, <1>5, DoneInv DEF Taken
<1>7. ConfigTypes'
  BY <1>1, <1>3, <1>4, <1>6 DEF ConfigTypes, counters, Taken, O
<1>8. AllAllocated'
  BY <1>1, <1>3, <1>4 DEF AllAllocated, None
<1>9. Owned'
  <2>1. ASSUME NEW k \in Keycodes, binds'[k] # None
        PROVE  /\ k # key /\ binds'[k] = binds[k] /\ binds[k] \in 1..Len(objects) /\ binds[k] # old
               /\ objects[binds[k]].value \in Actions /\ ~objects[binds[k]].freed
    <3>1. k # key /\ binds'[k] = binds[k]
      BY <1>4, <2>1
    <3>2. binds[k] \in 1..Len(objects)
      BY <2>1, <3>1 DEF AllAllocated, None
    <3>. QED  BY <1>1, <2>1, <3>1, <3>2 DEF Owned, old
  <2>2. ASSUME NEW p \in 1..Len(objects'), objects'[p].value \in Actions, ~objects'[p].freed
        PROVE  \E k \in Keycodes : binds'[k] = p
    <3>1. p \in 1..Len(objects) /\ objects[p].value \in Actions /\ ~objects[p].freed /\ p # old
      BY <1>3, <2>2
    <3>2. PICK k \in Keycodes : binds[k] = p
      BY <3>1 DEF Owned
    <3>. QED  BY <1>4, <3>1, <3>2 DEF old
  <2>3. ASSUME NEW k \in Keycodes, binds'[k] # None
        PROVE  objects'[binds'[k]].value \in Actions /\ ~objects'[binds'[k]].freed
    BY <1>3, <2>1, <2>3
  <2>4. ASSUME NEW k \in Keycodes, NEW m \in Keycodes, binds'[k] = binds'[m], binds'[k] # None
        PROVE  k = m
    BY <2>1, <2>4 DEF Owned
  <2>. QED  BY <2>2, <2>3, <2>4 DEF Owned
<1>10. ValidLine(line) /\ before = Settings
  <2>1. "unbind" # Invalid /\ line.val # Invalid
    BY ConfigAssumption DEF Unbind
  <2>. QED  BY <1>1, <2>1 DEF ValidLine, BeforeInv
<1>11. Settings' = Meaning(line, Settings)
  <2>1. \A p \in 0..Len(objects) : At(p)' = At(p)
    BY <1>3 DEF At, None
  <2>2. At(config.separator)' = At(config.separator) /\ At(config.format)' = At(config.format)
    BY <1>1, <1>3 DEF AllAllocated, At, None
  <2>3. ASSUME NEW k \in Keycodes
        PROVE  At(binds[k])' = IF k = key THEN "old" ELSE At(binds[k])
    BY <1>3, <1>4 DEF AllAllocated, At, None
  <2>4. [k \in Keycodes |-> At(binds[k])]' =
          [[k \in Keycodes |-> At(binds[k])] EXCEPT ![key] = "old"]
    BY <1>1, <2>3
  <2>. QED  BY <1>1, <2>2, <2>4 DEF Settings, Meaning, key
<1>. QED  BY <1>1, <1>6, <1>7, <1>8, <1>9, <1>10, <1>11 DEF Applies, Taken

LEMMA AddBindInv == ASSUME ConfigInv, AddBind  PROVE ConfigInv' /\ Applies
<1>. USE DEF ConfigInv
<1>. DEFINE O == [value : Actions \union Texts, freed : BOOLEAN]
            key == line.val
            old == binds[key]
            new == Len(objects) + 1
            object == [value |-> line.action, freed |-> FALSE]
<1>1. /\ line # NoLine /\ line.option = "bind" /\ line \in AllLines /\ key \in Keycodes
      /\ line.action \in Actions /\ Taken /\ UNCHANGED <<config, counters>>
      /\ binds' = [binds EXCEPT ![key] = new] /\ objects' = Append(Freeing(old), object)
  <2>1. Parsing("bind") /\ line.val # Invalid /\ line \in AllLines
    BY DEF AddBind, Parsing, ConfigTypes
  <2>2. line.val \in Keycodes \union {Invalid}
    BY <2>1, LineForms DEF Parsing
  <2>. QED  BY <2>1, <2>2 DEF AddBind, Parsing
<1>2. binds \in [Keycodes -> Nat] /\ old \in Nat /\ object \in O
  BY <1>1 DEF ConfigTypes
<1>3. PICK f : f = Freeing(old)
  OBVIOUS
<1>4. /\ f \in Seq(O) /\ Len(f) = Len(objects) /\ Len(objects) \in Nat
      /\ \A i \in 1..Len(objects) : /\ f[i].value = objects[i].value
                                   /\ (f[i].freed <=> (objects[i].freed \/ i = old))
  <2>1. ConfigTypes
    OBVIOUS
  <2>2. PICK p \in Nat : p = old
    BY <1>2
  <2>3. FreedAt(Freeing(p), p)
    <3>. HIDE DEF ConfigInv
    <3>. QED  BY <2>1, FreeingIs
  <2>4. FreedAt(f, old)
    BY <1>3, <2>2, <2>3
  <2>. QED  BY <2>4 DEF FreedAt
<1>5. object.value = line.action /\ object.freed = FALSE
  OBVIOUS
<1>. HIDE DEF O, object
<1>6. /\ objects' \in Seq(O) /\ Len(objects') = new /\ objects'[new] = object
      /\ \A i \in 1..Len(objects) : objects'[i] = f[i]
  BY <1>1, <1>2, <1>3, <1>4
<1>7. \A i \in 1..Len(objects) : /\ objects'[i].value = objects[i].value
                               /\ (objects'[i].freed <=> (objects[i].freed \/ i = old))
  BY <1>4, <1>6
<1>8. binds' \in [Keycodes -> Nat] /\ \A k \in Keycodes : binds'[k] = IF k = key THEN new ELSE binds[k]
  BY <1>1, <1>2, <1>4
<1>9. new \in Nat \ {0} /\ new \notin 1..Len(objects) /\ Len(objects) \in Nat
      /\ Len(objects') = Len(objects) + 1
  BY <1>4, <1>6
<1>. HIDE DEF key, old, new
<1>10. ~OrdersTabs(line)
  BY <1>1 DEF OrdersTabs
<1>11. /\ line' = NoLine /\ ParserInv' /\ Progress' /\ BeforeInv' /\ TabsInv'
       /\ tokens' \in Seq(TabNames) /\ res' \in Seq(TabTypes)
  BY <1>1, <1>10, DoneInv DEF Taken
<1>12. ConfigTypes'
  BY <1>1, <1>6, <1>8, <1>11 DEF ConfigTypes, counters, Taken, O
<1>13. AllAllocated'
  BY <1>1, <1>8, <1>9 DEF AllAllocated, None, new
<1>14. Owned'
  <2>1. ASSUME NEW k \in Keycodes, k # key, binds'[k] # None
        PROVE  /\ binds'[k] = binds[k] /\ binds[k] \in 1..Len(objects) /\ binds[k] # old
               /\ objects[binds[k]].value \in Actions /\ ~objects[binds[k]].freed
    <3>1. binds'[k] = binds[k]
      BY <1>8, <2>1
    <3>2. binds[k] \in 1..Len(objects)
      BY <2>1, <3>1 DEF AllAllocated, None
    <3>. QED  BY <1>1, <2>1, <3>1, <3>2 DEF Owned, old
  <2>2. ASSUME NEW p \in 1..Len(objects'), objects'[p].value \in Actions, ~objects'[p].freed
        PROVE  \E k \in Keycodes : binds'[k] = p
    <3>1. CASE p = new
      BY <1>1, <1>8, <3>1
    <3>2. CASE p # new
      <4>1. p \in 1..Len(objects)
        BY <1>9, <3>2 DEF new
      <4>2. objects[p].value \in Actions /\ ~objects[p].freed /\ p # old
        BY <1>7, <2>2, <4>1
      <4>3. PICK k \in Keycodes : binds[k] = p
        BY <4>1, <4>2 DEF Owned
      <4>. QED  BY <1>8, <4>2, <4>3 DEF old
    <3>. QED  BY <3>1, <3>2
  <2>3. ASSUME NEW k \in Keycodes, binds'[k] # None
        PROVE  objects'[binds'[k]].value \in Actions /\ ~objects'[binds'[k]].freed
    <3>1. CASE k = key
      BY <1>1, <1>5, <1>6, <1>8, <3>1
    <3>2. CASE k # key
      BY <1>7, <2>1, <2>3, <3>2
    <3>. QED  BY <3>1, <3>2
  <2>4. ASSUME NEW k \in Keycodes, NEW m \in Keycodes, binds'[k] = binds'[m], binds'[k] # None
        PROVE  k = m
    <3>1. CASE k = key
      BY <1>8, <1>9, <2>1, <2>4, <3>1
    <3>2. CASE m = key
      BY <1>8, <1>9, <2>1, <2>4, <3>2
    <3>3. CASE k # key /\ m # key
      BY <2>1, <2>4, <3>3 DEF Owned
    <3>. QED  BY <3>1, <3>2, <3>3
  <2>. QED  BY <2>2, <2>3, <2>4 DEF Owned
<1>15. ValidLine(line) /\ before = Settings
  <2>1. line.action # Invalid /\ line.val # Invalid
    BY <1>1, ConfigAssumption DEF AddBind
  <2>. QED  BY <1>1, <2>1 DEF ValidLine, BeforeInv
<1>16. Settings' = Meaning(line, Settings)
  <2>1. At(config.separator)' = At(config.separator) /\ At(config.format)' = At(config.format)
    BY <1>1, <1>7, <1>9 DEF AllAllocated, At, None
  <2>2. ASSUME NEW k \in Keycodes
        PROVE  At(binds[k])' = IF k = key THEN line.action ELSE At(binds[k])
    BY <1>5, <1>6, <1>7, <1>8, <1>9 DEF AllAllocated, At, None
  <2>3. [k \in Keycodes |-> At(binds[k])]' =
          [[k \in Keycodes |-> At(binds[k])] EXCEPT ![key] = line.action]
    BY <1>1, <2>2
  <2>4. line.action # "unbind"
    BY <1>1, ConfigAssumption
  <2>. QED  BY <1>1, <2>1, <2>3, <2>4 DEF Settings, Meaning, key
<1>. QED  BY <1>1, <1>11, <1>12, <1>13, <1>14, <1>15, <1>16 DEF Applies, Taken

LEMMA BadLineInv == ASSUME ConfigInv, BadLine  PROVE ConfigInv' /\ Applies
<1>1. /\ line # NoLine /\ line \in AllLines /\ Rejected
      /\ UNCHANGED <<config, binds, objects, counters>>
      /\ \/ line.option = "bind" /\ (line.val = Invalid \/ line.action = Invalid)
         \/ line.option = "unknown"
  BY DEF BadLine, Parsing, ConfigInv, ConfigTypes
<1>2. ~ValidLine(line)
  BY <1>1, LineForms DEF ValidLine
<1>. QED  BY <1>1, <1>2, RefusedInv

-----------------------------------------------------------------------------
(* The program starts.                                                     *)

\* All default lines have been read, and one of them is a tab order.
LEMMA SomeTabs ==
  ASSUME ConfigInv, default_read = Len(DefaultLines), line = NoLine
  PROVE  config.tabs # <<>>
<1>1. PICK i \in 1..Len(DefaultLines) : OrdersTabs(DefaultLines[i])
  BY DefaultOrder
<1>. QED  BY <1>1 DEF ConfigInv, TabsInv

LEMMA StartInv == ASSUME ConfigInv, Start  PROVE ConfigInv' /\ Applies
<1>. USE DEF ConfigInv
<1>1. /\ line = NoLine /\ line' = NoLine /\ default_read = Len(DefaultLines) /\ tab_index' = StartTab
      /\ UNCHANGED <<config, binds, objects, parser_vars, default_read, user_read, before>>
  BY DEF Start, parser_vars
<1>. DEFINE tabs == config.tabs
            Is(i) == tabs[i] = config.default_tab
<1>2. tabs # <<>> /\ DOMAIN tabs = 1..Len(tabs) /\ Len(tabs) \in Nat \ {0}
  BY <1>1, SomeTabs, EmptySeq, LenProperties DEF ConfigTypes
<1>3. StartTab \in 0..Len(tabs) - 1 /\ ((\E i \in DOMAIN tabs : Is(i)) => Is(StartTab + 1))
  <2>1. CASE \E i \in DOMAIN tabs : Is(i)
    <3>. DEFINE c == CHOOSE i \in DOMAIN tabs : Is(i)
    <3>1. StartTab = c - 1
      BY <2>1 DEF StartTab
    <3>2. c \in DOMAIN tabs /\ Is(c)
      BY <2>1
    <3>. HIDE DEF c
    <3>3. StartTab + 1 = c /\ StartTab \in 0..Len(tabs) - 1
      BY <1>2, <3>1, <3>2
    <3>. QED  BY <3>2, <3>3
  <2>2. CASE ~\E i \in DOMAIN tabs : Is(i)
    BY <1>2, <2>2 DEF StartTab
  <2>. QED  BY <2>1, <2>2
<1>4. valid' \in BOOLEAN
  BY DEF Start, ConfigTypes
<1>5. ConfigTypes'
  BY <1>1, <1>2, <1>3, <1>4 DEF ConfigTypes, parser_vars
<1>6. AllAllocated' /\ Owned' /\ Progress' /\ ParserInv' /\ BeforeInv'
  BY <1>1 DEF AllAllocated, Owned, Progress, ParserInv, BeforeInv, Parsing, parser_vars
<1>7. TabsInv'
  BY <1>1, <1>3 DEF TabsInv
<1>. QED  BY <1>1, <1>5, <1>6, <1>7 DEF Applies

-----------------------------------------------------------------------------
(* The theorems.                                                           *)

LEMMA StutterInv == ASSUME ConfigInv, UNCHANGED config_vars  PROVE ConfigInv'
<1>. USE DEF config_vars, parser_vars
<1>1. ConfigTypes' /\ AllAllocated' /\ Owned'
  BY DEF ConfigInv, ConfigTypes, AllAllocated, Owned
<1>2. ParserInv' /\ Progress' /\ TabsInv'
  BY DEF ConfigInv, ParserInv, Progress, TabsInv, Parsing
<1>3. BeforeInv'
  BY DEF ConfigInv, BeforeInv, Settings, At
<1>. QED  BY <1>1, <1>2, <1>3 DEF ConfigInv

\* Every step keeps the invariant, and a line that is done has applied as a whole.
LEMMA StepInv == ASSUME ConfigInv, ConfigNext  PROVE ConfigInv' /\ Applies
<1>1. CASE ReadDefault \/ \E option \in Options : \E l \in LinesFor(option, "new") : ReadUser(l)
  BY <1>1, ReadDefaultInv, ReadUserInv
<1>2. CASE StoreValue("wraparound", "wraparound") \/ StoreValue("default-tab", "default_tab")
  BY <1>2, StoreValueInv
<1>3. CASE StorePointer("separator", "separator") \/ StorePointer("format", "format")
  BY <1>3, StorePointerInv
<1>4. CASE Border \/ TabToken \/ TabOrder
  BY <1>4, BorderInv, TabTokenInv, TabOrderInv
<1>5. CASE Unbind \/ AddBind \/ BadLine \/ Start
  BY <1>5, UnbindInv, AddBindInv, BadLineInv, StartInv
<1>. QED  BY <1>1, <1>2, <1>3, <1>4, <1>5 DEF ConfigNext

THEOREM InvHolds == ConfigSpec => []ConfigInv
<1>1. ConfigInv /\ [ConfigNext]_config_vars => ConfigInv'
  BY StepInv, StutterInv
<1>. QED  BY <1>1, InitInv, PTL DEF ConfigSpec

\* A line applies as a whole or not at all, whatever lines came before it
\* (config.c:94-220, 275-407).
THEOREM LinesAreApplied == ConfigSpec => LinesApplyWhole
<1>1. ConfigInv /\ [ConfigNext]_config_vars => [Applies]_config_vars
  BY StepInv
<1>2. ConfigSpec => [][Applies]_config_vars
  BY <1>1, InvHolds, PTL DEF ConfigSpec
<1>. QED  BY <1>2 DEF LinesApplyWhole, Applies

\* As many types as have been accepted are different.
LEMMA DistinctFit ==
  ASSUME NEW s \in Seq(TabTypes), Distinct(s)
  PROVE  Len(s) <= Cardinality(TabTypes)
<1>1. Len(s) \in Nat /\ s \in [1..Len(s) -> TabTypes]
  BY LenProperties, ElementOfSeq
<1>2. s \in Injection(1..Len(s), TabTypes)
  BY <1>1 DEF Distinct, Injection, IsInjective
<1>3. Cardinality(1..Len(s)) <= Cardinality(TabTypes)
  BY <1>2, FS_Injection, ConfigAssumption
<1>4. Cardinality(1..Len(s)) = Len(s)
  BY <1>1, FS_Interval
<1>. QED  BY <1>3, <1>4

\* Tabs to show, none twice; room in the array of the parser; and the default tab
\* first, if it is shown (config.c:118-158, tui.c:1404-1415).
THEOREM TabsAreUsable == ConfigSpec => []TabsUsable
<1>1. ASSUME ConfigInv PROVE TabsUsable
  <2>1. Len(res) <= Cardinality(TabTypes)
    BY <1>1, DistinctFit DEF ConfigInv, ConfigTypes, ParserInv
  <2>2. DOMAIN config.tabs = 1..Len(config.tabs)
    BY <1>1, LenProperties DEF ConfigInv, ConfigTypes
  <2>3. default_read = Len(DefaultLines) /\ line = NoLine => config.tabs # <<>>
    BY <1>1, SomeTabs
  <2>. QED  BY <1>1, <2>1, <2>2, <2>3 DEF ConfigInv, TabsInv, TabsUsable, Distinct
<1>. QED  BY <1>1, InvHolds, PTL

\* The map owns all binds that are allocated, each for one key, and frees a bind
\* with its last use (config.c:44-51, 282-288).
THEOREM BindsAreOwned == ConfigSpec => []BindsOwned
<1>1. ASSUME ConfigInv PROVE BindsOwned
  <2>. SUFFICES ASSUME NEW p \in DOMAIN objects, objects[p].value \in Actions
                PROVE  Cardinality({k \in Keycodes : binds[k] = p})
                         = IF objects[p].freed THEN 0 ELSE 1
    BY DEF BindsOwned
  <2>. DEFINE holders == {k \in Keycodes : binds[k] = p}
  <2>1. p \in 1..Len(objects) /\ p # None
    BY <1>1, LenProperties DEF ConfigInv, ConfigTypes, None
  <2>2. CASE objects[p].freed
    <3>1. holders = {}
      BY <1>1, <2>1, <2>2 DEF ConfigInv, Owned
    <3>. QED  BY <2>2, <3>1, FS_EmptySet
  <2>3. CASE ~objects[p].freed
    <3>1. PICK k \in Keycodes : binds[k] = p
      BY <1>1, <2>1, <2>3 DEF ConfigInv, Owned
    <3>2. holders = {k}
      BY <1>1, <2>1, <3>1 DEF ConfigInv, Owned
    <3>. QED  BY <2>3, <3>2, FS_Singleton
  <2>. QED  BY <2>2, <2>3
<1>. QED  BY <1>1, InvHolds, PTL

(***************************************************************************)
(* Format strings: wherever the parser stops, its tree can be freed.       *)
(***************************************************************************)

Chars      == Plain \union Escapable
Lookaheads == Chars \union {Unread, End, Broken}
Literals  == [kind : {"literal"}, str : Seq(Chars)]
Substs    == [kind : {"subst"}, key : Seq(Chars),
              type : {"basic", "if exists", "if absent", "ternary", "fallback"},
              if_true : Int, if_false : Int]
FormatObjects == [kind : {"format"}, nodes : Seq(Int)]

OfFormat  == {"format", "node"}
OfLiteral == {"literal", "escaped"}
OfSubst   == {"open", "key", "then", "else", "close"}

FormatHeap == Literals \union Substs \union FormatObjects
Frames     == [fn : OfFormat \union OfLiteral \union OfSubst, object : Nat]

FormatTypes ==
  /\ text \in Seq(Lookaheads)
  /\ wchar \in Lookaheads
  /\ heap \in Seq(FormatHeap)
  /\ Len(heap) > 0
  /\ frames \in Seq(Frames)
  /\ state \in {"parsing", "parsed", "failed"}

\* The pointers of each object.
Tree == [p \in 1..Len(heap) |-> Pointers(heap[p])]

\* A pointer that is set leads to a later object, and each object but the first
\* has one that leads to it.
Downwards(tree) ==
  \A p \in 1..Len(tree) : \A i \in DOMAIN tree[p] :
    tree[p][i] \in {Null, Junk} \/ (p < tree[p][i] /\ tree[p][i] <= Len(tree))

OwnedOnce(tree) ==
  \A o \in 2..Len(tree) :
    \E p \in 1..Len(tree) : \E i \in DOMAIN tree[p] :
      /\ tree[p][i] = o
      /\ \A q \in 1..Len(tree) : \A j \in DOMAIN tree[q] :
           tree[q][j] = o => q = p /\ j = i

\* A substitution with a type to which an else may be added.
OpenTypes == {"basic", "if exists", "fallback"}

\* What a function that runs, or waits for one that it has called, fills next is
\* not in use.
FrameFills(frame, object) ==
  /\ frame.fn \in OfFormat <=> object \in FormatObjects
  /\ frame.fn \in OfLiteral <=> object \in Literals
  /\ frame.fn \in OfSubst <=> object \in Substs
  /\ frame.fn = "node" => /\ Len(object.nodes) > 0
                          /\ object.nodes[Len(object.nodes)] = Junk
  /\ frame.fn \in {"open", "key", "then"} =>
       object.type = "basic" /\ object.if_true = Null /\ object.if_false = Null
  /\ frame.fn = "else" => object.type \in OpenTypes /\ object.if_false = Null

FramesInv ==
  /\ \A i \in 1..Len(frames) :
       frames[i].object \in 1..Len(heap) /\ FrameFills(frames[i], heap[frames[i].object])
  /\ \A i, j \in 1..Len(frames) : i < j =>
       frames[i].fn # "node" /\ frames[i].object < frames[j].object
  /\ state # "parsing" => frames = <<>>

\* The slot that realloc has added is filled by what runs, which has looked ahead.
JunkInv ==
  /\ \A p \in 1..Len(heap) : \A i \in DOMAIN Pointers(heap[p]) :
       Pointers(heap[p])[i] = Junk =>
         frames # <<>> /\ Top = Frame("node", p) /\ i = Len(Pointers(heap[p]))
  /\ frames # <<>> /\ Top.fn = "node" => wchar # Unread

TreeInv == FormatTypes /\ Downwards(Tree) /\ OwnedOnce(Tree) /\ FramesInv /\ JunkInv

-----------------------------------------------------------------------------
(* Facts about trees.                                                      *)

IsTree(tree) == /\ Len(tree) \in Nat
                /\ \A p \in 1..Len(tree) : \A i \in DOMAIN tree[p] : tree[p][i] \in Int

\* The pointer i of the object p is set to a new object, which has none.
Hooked(tree, more, p, i) ==
  /\ Len(more) = Len(tree) + 1
  /\ \A q \in 1..Len(tree) : q # p => more[q] = tree[q]
  /\ DOMAIN more[p] = DOMAIN tree[p]
  /\ \A j \in DOMAIN tree[p] : more[p][j] = IF j = i THEN Len(tree) + 1 ELSE tree[p][j]
  /\ \A j \in DOMAIN more[Len(tree) + 1] : more[Len(tree) + 1][j] = Null

LEMMA HookKeepsTree ==
  ASSUME NEW tree, IsTree(tree), Downwards(tree), OwnedOnce(tree),
         NEW p \in 1..Len(tree), NEW i \in DOMAIN tree[p], tree[p][i] \in {Null, Junk},
         NEW more, Hooked(tree, more, p, i)
  PROVE  Downwards(more) /\ OwnedOnce(more)
<1>. DEFINE n == Len(tree)
<1>0. n \in Nat /\ Len(more) = n + 1 /\ p \in 1..n
  BY DEF IsTree, Hooked
<1>1. ASSUME NEW q \in 1..n, NEW j \in DOMAIN more[q]
      PROVE  /\ j \in DOMAIN tree[q]
             /\ more[q][j] = IF q = p /\ j = i THEN n + 1 ELSE tree[q][j]
  <2>1. CASE q = p
    BY <1>1, <2>1 DEF Hooked
  <2>2. CASE q # p
    BY <1>1, <2>2 DEF Hooked
  <2>. QED  BY <2>1, <2>2
<1>2. ASSUME NEW q \in 1..n, NEW j \in DOMAIN tree[q]
      PROVE  j \in DOMAIN more[q]
  <2>1. CASE q = p
    BY <1>2, <2>1 DEF Hooked
  <2>2. CASE q # p
    BY <1>2, <2>2 DEF Hooked
  <2>. QED  BY <2>1, <2>2
<1>3. \A j \in DOMAIN more[n + 1] : more[n + 1][j] = Null
  BY DEF Hooked
<1>4. \A q \in 1..n : \A j \in DOMAIN tree[q] :
        tree[q][j] \in Int /\ (tree[q][j] \in {0, -1} \/ (q < tree[q][j] /\ tree[q][j] <= n))
  BY DEF IsTree, Downwards, Null, Junk
<1>5. Downwards(more)
  <2>. SUFFICES ASSUME NEW q \in 1..n + 1, NEW j \in DOMAIN more[q]
                PROVE  more[q][j] \in {0, -1} \/ (q < more[q][j] /\ more[q][j] <= n + 1)
    BY <1>0 DEF Downwards, Null, Junk
  <2>1. CASE q = n + 1
    BY <1>3, <2>1 DEF Null
  <2>2. CASE q \in 1..n
    BY <1>0, <1>1, <1>4, <2>2
  <2>. QED  BY <1>0, <2>1, <2>2
<1>6. OwnedOnce(more)
  <2>. SUFFICES ASSUME NEW o \in 2..n + 1
                PROVE  \E q \in 1..n + 1 : \E j \in DOMAIN more[q] :
                         /\ more[q][j] = o
                         /\ \A r \in 1..n + 1 : \A k \in DOMAIN more[r] :
                              more[r][k] = o => r = q /\ k = j
    BY <1>0 DEF OwnedOnce
  <2>1. CASE o = n + 1
    <3>1. i \in DOMAIN more[p] /\ more[p][i] = o /\ p \in 1..n + 1
      BY <1>0, <1>1, <1>2, <2>1
    <3>2. ASSUME NEW r \in 1..n + 1, NEW k \in DOMAIN more[r], more[r][k] = o
          PROVE  r = p /\ k = i
      <4>1. r # n + 1
        BY <1>0, <1>3, <2>1, <3>2 DEF Null
      <4>2. r \in 1..n
        BY <1>0, <4>1
      <4>. QED  BY <1>0, <1>1, <1>4, <2>1, <3>2, <4>2
    <3>. QED  BY <3>1, <3>2
  <2>2. CASE o \in 2..n
    <3>1. PICK q \in 1..n : \E j \in DOMAIN tree[q] :
            /\ tree[q][j] = o
            /\ \A r \in 1..n : \A k \in DOMAIN tree[r] : tree[r][k] = o => r = q /\ k = j
      BY <2>2 DEF OwnedOnce
    <3>2. PICK j \in DOMAIN tree[q] :
            /\ tree[q][j] = o
            /\ \A r \in 1..n : \A k \in DOMAIN tree[r] : tree[r][k] = o => r = q /\ k = j
      BY <3>1
    <3>3. ~(q = p /\ j = i)
      BY <2>2, <3>2 DEF Null, Junk
    <3>4. j \in DOMAIN more[q] /\ more[q][j] = o /\ q \in 1..n + 1
      BY <1>0, <1>1, <1>2, <3>2, <3>3
    <3>5. ASSUME NEW r \in 1..n + 1, NEW k \in DOMAIN more[r], more[r][k] = o
          PROVE  r = q /\ k = j
      <4>1. r # n + 1
        BY <1>0, <1>3, <2>2, <3>5 DEF Null
      <4>2. r \in 1..n
        BY <1>0, <4>1
      <4>3. k \in DOMAIN tree[r] /\ tree[r][k] = o
        BY <1>0, <1>1, <2>2, <3>5, <4>2
      <4>. QED  BY <3>2, <4>2, <4>3
    <3>. QED  BY <3>4, <3>5
  <2>. QED  BY <1>0, <2>1, <2>2
<1>. QED  BY <1>5, <1>6

\* The array of the object p gets a slot for which nothing is allocated.
Widened(tree, more, p) ==
  /\ Len(more) = Len(tree)
  /\ \A q \in 1..Len(tree) : q # p => more[q] = tree[q]
  /\ DOMAIN tree[p] \subseteq DOMAIN more[p]
  /\ \A j \in DOMAIN more[p] : more[p][j] = IF j \in DOMAIN tree[p] THEN tree[p][j] ELSE Junk

LEMMA WideningKeepsTree ==
  ASSUME NEW tree, IsTree(tree), Downwards(tree), OwnedOnce(tree),
         NEW p \in 1..Len(tree), NEW more, Widened(tree, more, p)
  PROVE  Downwards(more) /\ OwnedOnce(more)
<1>. DEFINE n == Len(tree)
<1>0. n \in Nat /\ Len(more) = n
  BY DEF IsTree, Widened
<1>1. ASSUME NEW q \in 1..n, NEW j \in DOMAIN more[q]
      PROVE  more[q][j] = IF j \in DOMAIN tree[q] THEN tree[q][j] ELSE Junk
  BY <1>1 DEF Widened
<1>2. ASSUME NEW q \in 1..n, NEW j \in DOMAIN tree[q]
      PROVE  j \in DOMAIN more[q]
  BY <1>2 DEF Widened
<1>3. Downwards(more)
  <2>. SUFFICES ASSUME NEW q \in 1..n, NEW j \in DOMAIN more[q]
                PROVE  more[q][j] \in {Null, Junk} \/ (q < more[q][j] /\ more[q][j] <= n)
    BY <1>0 DEF Downwards
  <2>. QED  BY <1>1 DEF Downwards
<1>4. OwnedOnce(more)
  <2>. SUFFICES ASSUME NEW o \in 2..n
                PROVE  \E q \in 1..n : \E j \in DOMAIN more[q] :
                         /\ more[q][j] = o
                         /\ \A r \in 1..n : \A k \in DOMAIN more[r] :
                              more[r][k] = o => r = q /\ k = j
    BY <1>0 DEF OwnedOnce
  <2>1. PICK q \in 1..n : \E j \in DOMAIN tree[q] :
          /\ tree[q][j] = o
          /\ \A r \in 1..n : \A k \in DOMAIN tree[r] : tree[r][k] = o => r = q /\ k = j
    BY DEF OwnedOnce
  <2>2. PICK j \in DOMAIN tree[q] :
          /\ tree[q][j] = o
          /\ \A r \in 1..n : \A k \in DOMAIN tree[r] : tree[r][k] = o => r = q /\ k = j
    BY <2>1
  <2>3. j \in DOMAIN more[q] /\ more[q][j] = o
    BY <1>1, <1>2, <2>2
  <2>4. ASSUME NEW r \in 1..n, NEW k \in DOMAIN more[r], more[r][k] = o
        PROVE  r = q /\ k = j
    <3>1. o # Junk
      BY <1>0 DEF Junk
    <3>. QED  BY <1>1, <2>2, <2>4, <3>1
  <2>. QED  BY <2>3, <2>4
<1>. QED  BY <1>3, <1>4

-----------------------------------------------------------------------------
(* What the functions of the parser do to the tree.                        *)

LEMMA PointersOf ==
  ASSUME NEW x \in FormatHeap
  PROVE  /\ x \in Literals => x \notin Substs /\ x \notin FormatObjects /\ Pointers(x) = <<>>
         /\ x \in Substs => /\ x \notin Literals /\ x \notin FormatObjects
                            /\ Pointers(x) = <<x.if_true, x.if_false>>
         /\ x \in FormatObjects => /\ x \notin Literals /\ x \notin Substs
                                   /\ Pointers(x) = x.nodes
         /\ Pointers(x) \in Seq(Int)
<1>1. CASE x \in Literals
  <2>1. x.kind = "literal"
    BY <1>1 DEF Literals
  <2>2. x \notin Substs /\ x \notin FormatObjects
    BY <2>1 DEF Substs, FormatObjects
  <2>3. Pointers(x) = <<>>
    BY <2>1 DEF Pointers
  <2>. QED  BY <1>1, <2>2, <2>3
<1>2. CASE x \in Substs
  <2>1. x.kind = "subst" /\ x.if_true \in Int /\ x.if_false \in Int
    BY <1>2 DEF Substs
  <2>2. x \notin Literals /\ x \notin FormatObjects
    BY <2>1 DEF Literals, FormatObjects
  <2>3. Pointers(x) = <<x.if_true, x.if_false>>
    BY <2>1 DEF Pointers
  <2>. QED  BY <1>2, <2>1, <2>2, <2>3
<1>3. CASE x \in FormatObjects
  <2>1. x.kind = "format" /\ x.nodes \in Seq(Int)
    BY <1>3 DEF FormatObjects
  <2>2. x \notin Literals /\ x \notin Substs
    BY <2>1 DEF Literals, Substs
  <2>3. Pointers(x) = x.nodes
    BY <2>1 DEF Pointers
  <2>. QED  BY <1>3, <2>1, <2>2, <2>3
<1>. QED  BY <1>1, <1>2, <1>3 DEF FormatHeap

LEMMA TreeIs ==
  ASSUME FormatTypes
  PROVE  /\ Len(heap) \in Nat /\ Len(Tree) = Len(heap) /\ IsTree(Tree)
         /\ \A p \in 1..Len(heap) : heap[p] \in FormatHeap /\ Tree[p] = Pointers(heap[p])
<1>1. Len(heap) \in Nat /\ \A p \in 1..Len(heap) : heap[p] \in FormatHeap
  BY LenProperties, ElementOfSeq DEF FormatTypes
<1>2. Len(Tree) = Len(heap) /\ \A p \in 1..Len(heap) : Tree[p] = Pointers(heap[p])
  BY <1>1 DEF Tree
<1>3. ASSUME NEW p \in 1..Len(heap), NEW i \in DOMAIN Pointers(heap[p])
      PROVE  Pointers(heap[p])[i] \in Int
  <2>1. Pointers(heap[p]) \in Seq(Int)
    BY <1>1, PointersOf
  <2>. HIDE DEF Pointers
  <2>. QED  BY <2>1, ElementOfSeq, LenProperties
<1>. QED  BY <1>1, <1>2, <1>3 DEF IsTree

LEMMA TreeIsNext ==
  ASSUME FormatTypes'
  PROVE  /\ Len(heap') \in Nat /\ Len(Tree') = Len(heap')
         /\ \A p \in 1..Len(heap') : heap'[p] \in FormatHeap /\ Tree'[p] = Pointers(heap'[p])
<1>1. Len(heap') \in Nat /\ \A p \in 1..Len(heap') : heap'[p] \in FormatHeap
  BY LenProperties, ElementOfSeq DEF FormatTypes
<1>2. Len(Tree') = Len(heap') /\ \A p \in 1..Len(heap') : Tree'[p] = Pointers(heap'[p])
  BY <1>1 DEF Tree
<1>. QED  BY <1>1, <1>2

\* What is known of the function that runs.
LEMMA TopFills ==
  ASSUME TreeInv, frames # <<>>
  PROVE  /\ state = "parsing"
         /\ Len(frames) \in Nat /\ Len(frames) > 0
         /\ Top \in Frames /\ Top.object \in 1..Len(heap)
         /\ Object \in FormatHeap /\ FrameFills(Top, Object)
         /\ Below \in Seq(Frames) /\ Len(Below) = Len(frames) - 1
         /\ \A i \in 1..Len(Below) : Below[i] = frames[i]
<1>1. frames \in Seq(Frames) /\ state = "parsing"
  BY DEF TreeInv, FormatTypes, FramesInv
<1>2. Len(frames) \in Nat /\ Len(frames) > 0
  BY <1>1, EmptySeq, LenProperties
<1>3. Top \in Frames
  BY <1>1, <1>2, ElementOfSeq DEF Top
<1>4. Top.object \in 1..Len(heap) /\ FrameFills(Top, Object)
  BY <1>2 DEF TreeInv, FramesInv, Top, Object
<1>5. Object \in FormatHeap
  BY <1>4, TreeIs DEF TreeInv, Object
<1>6. \A i \in 1..Len(frames) - 1 : frames[i] \in Frames
  BY <1>1, <1>2, ElementOfSeq
<1>7. /\ Below \in Seq(Frames) /\ Len(Below) = Len(frames) - 1
      /\ \A i \in 1..Len(frames) - 1 : Below[i] = frames[i]
  <2>. DEFINE n == Len(frames) - 1
  <2>1. n \in Int /\ 1 \in Int /\ n >= 0
    BY <1>2
  <2>2. \A i \in 1..n : frames[i] \in Frames
    BY <1>6
  <2>3. /\ SubSeq(frames, 1, n) \in Seq(Frames)
        /\ Len(SubSeq(frames, 1, n)) = IF 1 <= n THEN n - 1 + 1 ELSE 0
        /\ \A i \in 1..n - 1 + 1 : SubSeq(frames, 1, n)[i] = frames[1 + i - 1]
    BY <2>1, <2>2, SubSeqProperties
  <2>4. Below = SubSeq(frames, 1, n) /\ n = Len(frames) - 1
    BY DEF Below
  <2>. HIDE DEF n
  <2>. DEFINE front == SubSeq(frames, 1, n)
  <2>. HIDE DEF front
  <2>5. /\ front \in Seq(Frames) /\ Len(front) = n
        /\ \A i \in 1..n : front[i] = frames[i]
    <3>1. Len(front) = n
      BY <2>1, <2>3 DEF front
    <3>2. ASSUME NEW i \in 1..n PROVE front[i] = frames[i]
      <4>1. i \in 1..n - 1 + 1 /\ 1 + i - 1 = i
        BY <2>1
      <4>. QED  BY <2>3, <4>1 DEF front
    <3>. QED  BY <2>3, <3>1, <3>2 DEF front
  <2>. QED  BY <2>4, <2>5 DEF front
<1>. QED  BY <1>1, <1>2, <1>3, <1>4, <1>5, <1>6, <1>7

\* No slot waits to be filled, unless the function that runs has just added it.
NoJunk(some) ==
  \A p \in 1..Len(some) : \A i \in DOMAIN Pointers(some[p]) : Pointers(some[p])[i] # Junk

LEMMA NoJunkNow ==
  ASSUME TreeInv, frames = <<>> \/ Top.fn # "node"
  PROVE  NoJunk(heap)
<1>. SUFFICES ASSUME NEW p \in 1..Len(heap), NEW i \in DOMAIN Pointers(heap[p]),
                     Pointers(heap[p])[i] = Junk
              PROVE  FALSE
  BY DEF NoJunk
<1>1. frames # <<>> /\ Top = Frame("node", p)
  BY DEF TreeInv, JunkInv
<1>. QED  BY <1>1 DEF Frame

\* PARSER_ERROR, and the end of the string.
LEMMA StopKeepsTree ==
  ASSUME TreeInv, frames = <<>> \/ Top.fn # "node", frames' = <<>>, heap' = heap,
         text' = text, wchar' \in Lookaheads,
         state' \in {"parsing", "parsed", "failed"}
  PROVE  TreeInv'
<1>1. NoJunk(heap)
  BY NoJunkNow
<1>2. FormatTypes'
  BY EmptySeq DEF TreeInv, FormatTypes
<1>3. Tree' = Tree
  BY DEF Tree
<1>4. \A i : i \notin 1..Len(frames')
  <2>1. Len(frames') = 0
    BY EmptySeq
  <2>. QED  BY <2>1
<1>5. FramesInv'
  BY <1>4 DEF FramesInv
<1>6. JunkInv'
  BY <1>1 DEF JunkInv, NoJunk
<1>. QED  BY <1>2, <1>3, <1>5, <1>6 DEF TreeInv

\* A function that has returned.
LEMMA ReturnKeepsTree ==
  ASSUME TreeInv, frames # <<>>, Top.fn # "node", Return, heap' = heap, state' = state,
         text' \in Seq(Lookaheads), wchar' \in Lookaheads
  PROVE  TreeInv'
<1>1. NoJunk(heap)
  BY NoJunkNow
<1>2. /\ state = "parsing" /\ Len(frames) \in Nat
      /\ frames' \in Seq(Frames) /\ Len(frames') = Len(frames) - 1
      /\ \A i \in 1..Len(frames') : frames'[i] = frames[i]
  BY TopFills DEF Return
<1>3. FormatTypes'
  BY <1>2 DEF TreeInv, FormatTypes
<1>4. Tree' = Tree
  BY DEF Tree
<1>5. FramesInv'
  <2>1. ASSUME NEW i \in 1..Len(frames')
        PROVE  /\ frames'[i].object \in 1..Len(heap')
               /\ FrameFills(frames'[i], heap'[frames'[i].object])
    BY <1>2 DEF TreeInv, FramesInv
  <2>2. ASSUME NEW i \in 1..Len(frames'), NEW j \in 1..Len(frames'), i < j
        PROVE  frames'[i].fn # "node" /\ frames'[i].object < frames'[j].object
    <3>1. i \in 1..Len(frames) /\ j \in 1..Len(frames)
      BY <1>2
    <3>2. frames[i].fn # "node" /\ frames[i].object < frames[j].object
      BY <2>2, <3>1 DEF TreeInv, FramesInv
    <3>3. frames'[i] = frames[i] /\ frames'[j] = frames[j]
      BY <1>2
    <3>. QED  BY <3>2, <3>3
  <2>. QED  BY <1>2, <2>1, <2>2 DEF FramesInv
<1>6. frames' # <<>> => Top'.fn # "node"
  <2>. SUFFICES ASSUME frames' # <<>> PROVE Top'.fn # "node"
    OBVIOUS
  <2>1. Len(frames') > 0
    BY <1>2, EmptySeq, LenProperties
  <2>2. Top' = frames[Len(frames) - 1] /\ Len(frames) - 1 \in 1..Len(frames)
        /\ Len(frames) \in 1..Len(frames)
    BY <1>2, <2>1 DEF Top
  <2>. QED  BY <2>2 DEF TreeInv, FramesInv
<1>7. JunkInv'
  BY <1>1, <1>6 DEF JunkInv, NoJunk
<1>. QED  BY <1>3, <1>4, <1>5, <1>7 DEF TreeInv

\* A function that goes on, with what it has stored: no pointer has changed.
LEMMA StoreKeepsTree ==
  ASSUME TreeInv, frames # <<>>, Top.fn # "node",
         NEW fn \in OfFormat \union OfLiteral \union OfSubst, fn # "node", Goto(fn),
         NEW object \in FormatHeap, Store(object), Pointers(object) = Pointers(Object),
         FrameFills(Frame(fn, Top.object), object),
         state' = state, text' \in Seq(Lookaheads), wchar' \in Lookaheads
  PROVE  TreeInv'
<1>. DEFINE n == Len(frames)
<1>1. NoJunk(heap)
  BY NoJunkNow
<1>2. /\ state = "parsing" /\ n \in Nat /\ n > 0 /\ Top = frames[n]
      /\ Top \in Frames /\ Top.object \in 1..Len(heap)
      /\ Below \in Seq(Frames) /\ Len(Below) = n - 1
      /\ \A i \in 1..n - 1 : Below[i] = frames[i]
  BY TopFills DEF Top
<1>3. Frame(fn, Top.object) \in Frames /\ Frame(fn, Top.object).object = Top.object
      /\ Frame(fn, Top.object).fn = fn
  BY <1>2 DEF Frame, Frames
<1>4. /\ frames' \in Seq(Frames) /\ Len(frames') = n
      /\ \A i \in 1..n : frames'[i] = IF i = n THEN Frame(fn, Top.object) ELSE frames[i]
  BY <1>2, <1>3, AppendProperties DEF Goto
<1>5. /\ heap' \in Seq(FormatHeap) /\ Len(heap') = Len(heap) /\ Len(heap) \in Nat
      /\ \A p \in 1..Len(heap) : heap'[p] = IF p = Top.object THEN object ELSE heap[p]
  <2>1. heap \in Seq(FormatHeap)
    BY DEF TreeInv, FormatTypes
  <2>. QED  BY <1>2, <2>1, ExceptSeq, LenProperties DEF Store
<1>6. FormatTypes'
  BY <1>4, <1>5 DEF TreeInv, FormatTypes
<1>7. \A p \in 1..Len(heap) : Pointers(heap'[p]) = Pointers(heap[p])
  BY <1>5 DEF Object
<1>8. Tree' = Tree
  BY <1>5, <1>7 DEF Tree
<1>9. FramesInv'
  <2>1. ASSUME NEW i \in 1..n
        PROVE  frames'[i].object = frames[i].object
    BY <1>2, <1>3, <1>4
  <2>2. ASSUME NEW i \in 1..n, i # n
        PROVE  frames'[i] = frames[i] /\ frames[i].object \in 1..Len(heap)
               /\ frames[i].object # Top.object /\ FrameFills(frames[i], heap[frames[i].object])
               /\ frames[i].fn # "node"
    <3>1. i < n /\ n \in 1..n
      BY <1>2, <2>2
    <3>2. frames[i].object < frames[n].object /\ frames[i].fn # "node"
      BY <3>1 DEF TreeInv, FramesInv
    <3>3. frames[i].object \in 1..Len(heap) /\ FrameFills(frames[i], heap[frames[i].object])
      BY DEF TreeInv, FramesInv
    <3>. QED  BY <1>2, <1>4, <1>5, <2>2, <3>2, <3>3
  <2>3. ASSUME NEW i \in 1..n
        PROVE  /\ frames'[i].object \in 1..Len(heap)
               /\ FrameFills(frames'[i], heap'[frames'[i].object])
    <3>1. CASE i = n
      <4>1. frames'[i] = Frame(fn, Top.object) /\ frames'[i].object = Top.object
        BY <1>3, <1>4, <3>1
      <4>2. heap'[Top.object] = object
        BY <1>2, <1>5
      <4>. QED  BY <1>2, <4>1, <4>2
    <3>2. CASE i # n
      BY <1>5, <2>2, <3>2
    <3>. QED  BY <3>1, <3>2
  <2>4. ASSUME NEW i \in 1..n, NEW j \in 1..n, i < j
        PROVE  frames'[i].fn # "node" /\ frames'[i].object < frames'[j].object
    <3>1. i # n
      BY <1>2, <2>4
    <3>2. frames[i].object < frames[j].object
      BY <2>4 DEF TreeInv, FramesInv
    <3>. QED  BY <2>1, <2>2, <3>1, <3>2
  <2>. QED  BY <1>2, <1>4, <1>5, <2>3, <2>4 DEF FramesInv
<1>10. JunkInv'
  <2>1. NoJunk(heap')
    BY <1>1, <1>5, <1>7 DEF NoJunk
  <2>2. Top'.fn # "node"
    BY <1>2, <1>3, <1>4 DEF Top
  <2>. QED  BY <2>1, <2>2 DEF JunkInv, NoJunk
<1>. QED  BY <1>6, <1>8, <1>9, <1>10 DEF TreeInv

\* A function that has allocated an object, put it where it belongs, and called
\* the function that fills it.
LEMMA AllocateKeepsTree ==
  ASSUME TreeInv, frames # <<>>,
         NEW fn \in OfFormat \union OfLiteral \union OfSubst, fn # "node",
         NEW callee \in OfFormat \union OfLiteral \union OfSubst, callee # "node",
         Call(fn, callee),
         NEW object \in FormatHeap, NEW new \in FormatHeap, Allocate(object, new),
         NEW slot \in DOMAIN Pointers(Object), Pointers(Object)[slot] \in {Null, Junk},
         DOMAIN Pointers(object) = DOMAIN Pointers(Object),
         \A j \in DOMAIN Pointers(Object) :
           Pointers(object)[j] = IF j = slot THEN New ELSE Pointers(Object)[j],
         \A j \in DOMAIN Pointers(object) : Pointers(object)[j] # Junk,
         \A j \in DOMAIN Pointers(new) : Pointers(new)[j] = Null,
         FrameFills(Frame(fn, Top.object), object), FrameFills(Frame(callee, New), new),
         state' = state, text' \in Seq(Lookaheads), wchar' \in Lookaheads
  PROVE  TreeInv'
<1>. DEFINE n == Len(frames)
            m == Len(heap)
<1>2. /\ state = "parsing" /\ n \in Nat /\ n > 0 /\ Top = frames[n]
      /\ Top \in Frames /\ Top.object \in 1..m
      /\ Below \in Seq(Frames) /\ Len(Below) = n - 1
      /\ \A i \in 1..n - 1 : Below[i] = frames[i]
  BY TopFills DEF Top
<1>1. \A p \in 1..m : p # Top.object =>
        \A i \in DOMAIN Pointers(heap[p]) : Pointers(heap[p])[i] # Junk
  <2>. SUFFICES ASSUME NEW p \in 1..m, p # Top.object, NEW i \in DOMAIN Pointers(heap[p]),
                       Pointers(heap[p])[i] = Junk
                PROVE  FALSE
    OBVIOUS
  <2>1. Top = Frame("node", p)
    BY DEF TreeInv, JunkInv
  <2>. QED  BY <2>1 DEF Frame
<1>3. /\ m \in Nat /\ New = m + 1
      /\ heap' \in Seq(FormatHeap) /\ Len(heap') = m + 1
      /\ \A p \in 1..m : heap'[p] = IF p = Top.object THEN object ELSE heap[p]
      /\ heap'[m + 1] = new
  <2>. DEFINE h == [heap EXCEPT ![Top.object] = object]
  <2>1. heap \in Seq(FormatHeap)
    BY DEF TreeInv, FormatTypes
  <2>2. m \in Nat /\ h \in Seq(FormatHeap) /\ Len(h) = m
        /\ \A p \in 1..m : h[p] = IF p = Top.object THEN object ELSE heap[p]
    BY <1>2, <2>1, ExceptSeq, LenProperties
  <2>3. heap' = Append(h, new)
    BY DEF Allocate
  <2>. HIDE DEF h
  <2>. QED  BY <2>2, <2>3, AppendProperties DEF New
<1>4. /\ Frame(fn, Top.object) \in Frames /\ Frame(fn, Top.object).object = Top.object
      /\ Frame(fn, Top.object).fn = fn
      /\ Frame(callee, New) \in Frames /\ Frame(callee, New).object = m + 1
      /\ Frame(callee, New).fn = callee
  BY <1>2, <1>3 DEF Frame, Frames
<1>5. /\ frames' \in Seq(Frames) /\ Len(frames') = n + 1
      /\ \A i \in 1..n - 1 : frames'[i] = frames[i]
      /\ frames'[n] = Frame(fn, Top.object) /\ frames'[n + 1] = Frame(callee, New)
  <2>. DEFINE top == Frame(fn, Top.object)
              called == Frame(callee, New)
  <2>1. top \in Frames /\ called \in Frames /\ frames' = Below \o <<top, called>>
    BY <1>4 DEF Call
  <2>. HIDE DEF top, called
  <2>2. /\ frames' \in Seq(Frames) /\ Len(frames') = n + 1
        /\ \A i \in 1..n - 1 : frames'[i] = frames[i]
        /\ frames'[n] = top /\ frames'[n + 1] = called
    <3>1. <<top, called>> \in Seq(Frames) /\ Len(<<top, called>>) = 2
          /\ <<top, called>>[1] = top /\ <<top, called>>[2] = called
      BY <2>1
    <3>2. /\ frames' \in Seq(Frames) /\ Len(frames') = Len(Below) + 2
          /\ \A i \in 1..Len(Below) + 2 :
               frames'[i] = IF i <= Len(Below) THEN Below[i]
                            ELSE <<top, called>>[i - Len(Below)]
      BY <1>2, <2>1, <3>1, ConcatProperties
    <3>3. ASSUME NEW i \in 1..n - 1 PROVE frames'[i] = frames[i]
      <4>1. i \in 1..Len(Below) + 2 /\ i <= Len(Below)
        BY <1>2
      <4>. QED  BY <1>2, <3>2, <4>1
    <3>4. frames'[n] = <<top, called>>[1] /\ frames'[n + 1] = <<top, called>>[2]
      <4>1. n \in 1..Len(Below) + 2 /\ n + 1 \in 1..Len(Below) + 2
            /\ n - Len(Below) = 1 /\ n + 1 - Len(Below) = 2
            /\ ~(n <= Len(Below)) /\ ~(n + 1 <= Len(Below))
        BY <1>2
      <4>. QED  BY <3>2, <4>1
    <3>. QED  BY <1>2, <3>1, <3>2, <3>3, <3>4
  <2>. QED  BY <2>2 DEF top, called
<1>6. FormatTypes'
  BY <1>3, <1>5 DEF TreeInv, FormatTypes
<1>7. \A p \in 1..m : p # Top.object => Pointers(heap'[p]) = Pointers(heap[p])
  BY <1>3
<1>8. Downwards(Tree') /\ OwnedOnce(Tree')
  <2>1. /\ Len(Tree) = m /\ IsTree(Tree) /\ Downwards(Tree) /\ OwnedOnce(Tree)
        /\ \A p \in 1..m : Tree[p] = Pointers(heap[p])
    BY TreeIs DEF TreeInv
  <2>2. Len(Tree') = m + 1 /\ \A p \in 1..m + 1 : Tree'[p] = Pointers(heap'[p])
    BY <1>3, <1>6, TreeIsNext
  <2>3. /\ Tree[Top.object] = Pointers(Object) /\ Tree'[Top.object] = Pointers(object)
        /\ Tree'[m + 1] = Pointers(new)
    BY <1>2, <1>3, <2>1, <2>2 DEF Object
  <2>4. \A q \in 1..m : q # Top.object => Tree'[q] = Tree[q]
    BY <1>3, <1>7, <2>1, <2>2
  <2>5. Hooked(Tree, Tree', Top.object, slot)
    BY <1>3, <2>1, <2>2, <2>3, <2>4 DEF Hooked
  <2>. QED  BY <1>2, <2>1, <2>3, <2>5, HookKeepsTree
<1>9. FramesInv'
  <2>1. ASSUME NEW i \in 1..n - 1
        PROVE  /\ frames'[i] = frames[i] /\ frames[i].object \in 1..m
               /\ frames[i].object < Top.object /\ FrameFills(frames[i], heap[frames[i].object])
               /\ frames[i].fn # "node"
    <3>1. i < n /\ n \in 1..n /\ i \in 1..n
      BY <1>2
    <3>2. frames[i].object < frames[n].object /\ frames[i].fn # "node"
      BY <3>1 DEF TreeInv, FramesInv
    <3>3. frames[i].object \in 1..m /\ FrameFills(frames[i], heap[frames[i].object])
      BY <3>1 DEF TreeInv, FramesInv
    <3>. QED  BY <1>2, <1>5, <3>2, <3>3
  <2>2. ASSUME NEW i \in 1..n - 1, NEW j \in 1..n - 1, i < j
        PROVE  frames[i].object < frames[j].object
    <3>1. i \in 1..n /\ j \in 1..n
      BY <1>2
    <3>. QED  BY <2>2, <3>1 DEF TreeInv, FramesInv
  <2>3. ASSUME NEW i \in 1..n + 1
        PROVE  /\ frames'[i].object \in 1..m + 1
               /\ FrameFills(frames'[i], heap'[frames'[i].object])
    <3>1. CASE i = n + 1
      BY <1>3, <1>4, <1>5, <3>1
    <3>2. CASE i = n
      <4>1. frames'[i] = Frame(fn, Top.object) /\ frames'[i].object = Top.object
        BY <1>4, <1>5, <3>2
      <4>2. heap'[Top.object] = object
        BY <1>2, <1>3
      <4>. QED  BY <1>2, <1>3, <4>1, <4>2
    <3>3. CASE i \in 1..n - 1
      <4>1. heap'[frames[i].object] = heap[frames[i].object]
        <5>1. frames[i].object \in 1..m /\ frames[i].object < Top.object
          BY <2>1, <3>3
        <5>2. frames[i].object # Top.object
          BY <1>2, <5>1
        <5>. QED  BY <1>3, <5>1, <5>2
      <4>. QED  BY <1>3, <2>1, <3>3, <4>1
    <3>. QED  BY <1>2, <3>1, <3>2, <3>3
  <2>4. ASSUME NEW i \in 1..n + 1, NEW j \in 1..n + 1, i < j
        PROVE  frames'[i].fn # "node" /\ frames'[i].object < frames'[j].object
    <3>1. CASE i = n
      <4>1. j = n + 1
        BY <1>2, <2>4, <3>1
      <4>. QED  BY <1>2, <1>3, <1>4, <1>5, <3>1, <4>1
    <3>2. CASE i \in 1..n - 1
      <4>1. frames'[i] = frames[i] /\ frames[i].fn # "node" /\ frames[i].object < Top.object
            /\ frames[i].object \in 1..m
        BY <2>1, <3>2
      <4>2. CASE j \in 1..n - 1
        <5>1. frames'[j] = frames[j]
          BY <1>5, <4>2
        <5>. QED  BY <2>2, <2>4, <3>2, <4>1, <4>2, <5>1
      <4>3. CASE j = n
        BY <1>4, <1>5, <4>1, <4>3
      <4>4. CASE j = n + 1
        BY <1>2, <1>3, <1>4, <1>5, <4>1, <4>4
      <4>. QED  BY <1>2, <4>2, <4>3, <4>4
    <3>. QED  BY <1>2, <2>4, <3>1, <3>2
  <2>. QED  BY <1>2, <1>3, <1>5, <2>3, <2>4 DEF FramesInv
<1>10. JunkInv'
  <2>1. NoJunk(heap')
    <3>. SUFFICES ASSUME NEW p \in 1..m + 1, NEW i \in DOMAIN Pointers(heap'[p])
                  PROVE  Pointers(heap'[p])[i] # Junk
      BY <1>3 DEF NoJunk
    <3>1. CASE p = m + 1
      BY <1>3, <3>1 DEF Null, Junk
    <3>2. CASE p = Top.object
      BY <1>2, <1>3, <3>2
    <3>3. CASE p # m + 1 /\ p # Top.object
      <4>1. p \in 1..m
        BY <1>3, <3>3
      <4>. QED  BY <1>1, <1>7, <3>3, <4>1
    <3>. QED  BY <3>1, <3>2, <3>3
  <2>2. Top'.fn # "node"
    BY <1>2, <1>4, <1>5 DEF Top
  <2>. QED  BY <2>1, <2>2 DEF JunkInv, NoJunk
<1>. QED  BY <1>6, <1>8, <1>9, <1>10 DEF TreeInv

-----------------------------------------------------------------------------
(* The steps of the parser.                                                *)

LEMMA FormatFills ==
  ASSUME NEW x \in FormatObjects, NEW o
  PROVE  x \in FormatHeap /\ FrameFills(Frame("format", o), x)
<1>1. x \in FormatHeap
  BY DEF FormatHeap
<1>2. x \notin Literals /\ x \notin Substs
  BY <1>1, PointersOf
<1>3. Frame("format", o).fn = "format"
  BY DEF Frame
<1>. QED  BY <1>1, <1>2, <1>3 DEF FrameFills, OfFormat, OfLiteral, OfSubst

LEMMA LiteralFills ==
  ASSUME NEW x \in Literals, NEW o, NEW fn \in OfLiteral
  PROVE  x \in FormatHeap /\ FrameFills(Frame(fn, o), x)
<1>1. x \in FormatHeap
  BY DEF FormatHeap
<1>2. x \notin FormatObjects /\ x \notin Substs
  BY <1>1, PointersOf
<1>3. Frame(fn, o).fn = fn
  BY DEF Frame
<1>. QED  BY <1>1, <1>2, <1>3 DEF FrameFills, OfFormat, OfLiteral, OfSubst

LEMMA SubstFills ==
  ASSUME NEW x \in Substs, NEW o, NEW fn \in OfSubst,
         fn # "close" => x.if_false = Null,
         fn \notin {"else", "close"} => x.if_true = Null /\ x.type = "basic",
         fn = "else" => x.type \in OpenTypes
  PROVE  x \in FormatHeap /\ FrameFills(Frame(fn, o), x)
<1>1. x \in FormatHeap
  BY DEF FormatHeap
<1>2. x \notin FormatObjects /\ x \notin Literals
  BY <1>1, PointersOf
<1>3. Frame(fn, o).fn = fn
  BY DEF Frame
<1>. QED  BY <1>1, <1>2, <1>3 DEF FrameFills, OfFormat, OfLiteral, OfSubst

\* What is known where a function is in control.
LEMMA InFormat ==
  ASSUME TreeInv, In("format")
  PROVE  /\ frames # <<>> /\ Top.fn # "node" /\ Object \in FormatObjects
  BY TopFills DEF In, FrameFills, OfFormat

LEMMA InLiteral ==
  ASSUME TreeInv, NEW fn \in OfLiteral, In(fn)
  PROVE  /\ frames # <<>> /\ Top.fn # "node" /\ Object \in Literals
  BY TopFills DEF In, FrameFills, OfLiteral

LEMMA InSubst ==
  ASSUME TreeInv, NEW fn \in OfSubst, In(fn)
  PROVE  /\ frames # <<>> /\ Top.fn # "node" /\ Object \in Substs
         /\ fn # "close" => Object.if_false = Null
         /\ fn \notin {"else", "close"} => Object.if_true = Null /\ Object.type = "basic"
         /\ fn = "else" => Object.type \in OpenTypes
  BY TopFills DEF In, FrameFills, OfSubst

\* The lookahead stays or is consumed.
LEMMA Lookahead ==
  ASSUME TreeInv, Peek \/ Consume
  PROVE  text' \in Seq(Lookaheads) /\ wchar' \in Lookaheads
<1>1. text \in Seq(Lookaheads) /\ wchar \in Lookaheads
  BY DEF TreeInv, FormatTypes
<1>2. CASE Peek
  BY <1>1, <1>2 DEF Peek
<1>3. CASE Consume
  <2>1. text' = Append(text, wchar) /\ wchar' = Unread
    BY <1>3 DEF Consume
  <2>2. Append(text, wchar) \in Seq(Lookaheads)
    BY <1>1, AppendProperties
  <2>. QED  BY <2>1, <2>2 DEF Lookaheads
<1>. QED  BY <1>2, <1>3

\* A function that goes on without having stored anything.
LEMMA GotoKeepsTree ==
  ASSUME TreeInv, frames # <<>>, Top.fn # "node",
         NEW fn \in OfFormat \union OfLiteral \union OfSubst, fn # "node", Goto(fn),
         UNCHANGED heap, FrameFills(Frame(fn, Top.object), Object),
         state' = state, text' \in Seq(Lookaheads), wchar' \in Lookaheads
  PROVE  TreeInv'
<1>1. heap \in Seq(FormatHeap) /\ Object \in FormatHeap /\ Top.object \in 1..Len(heap)
  BY TopFills DEF TreeInv, FormatTypes
<1>2. /\ [heap EXCEPT ![Top.object] = Object] \in Seq(FormatHeap)
      /\ Len([heap EXCEPT ![Top.object] = Object]) = Len(heap)
      /\ \A p \in 1..Len(heap) : [heap EXCEPT ![Top.object] = Object][p] = heap[p]
  BY <1>1, ExceptSeq DEF Object
<1>3. Store(Object)
  BY <1>1, <1>2, SeqEqual DEF Store
<1>. QED  BY <1>1, <1>3, StoreKeepsTree

LEMMA ErrorKeepsTree ==
  ASSUME TreeInv, frames = <<>> \/ Top.fn # "node", Error
  PROVE  TreeInv'
  BY StopKeepsTree DEF Error, TreeInv, FormatTypes

LEMMA DecodeTree ==
  ASSUME TreeInv, Decode
  PROVE  TreeInv'
<1>1. /\ state = "parsing" /\ wchar = Unread /\ UNCHANGED <<text, heap>>
      /\ wchar' \in Lookaheads
      /\ IF wchar' = Broken THEN state' = "failed" /\ frames' = <<>>
                           ELSE UNCHANGED <<state, frames>>
  BY DEF Decode, Chars, Lookaheads
<1>2. frames = <<>> \/ Top.fn # "node"
  BY <1>1 DEF TreeInv, JunkInv
<1>3. CASE wchar' = Broken
  BY <1>1, <1>2, <1>3, StopKeepsTree
<1>4. CASE wchar' # Broken
  <2>1. FormatTypes'
    BY <1>1, <1>4 DEF TreeInv, FormatTypes
  <2>2. Tree' = Tree /\ Top' = Top
    BY <1>1, <1>4 DEF Tree, Top
  <2>3. FramesInv'
    BY <1>1, <1>4 DEF TreeInv, FramesInv
  <2>4. JunkInv'
    <3>1. NoJunk(heap)
      BY <1>2, NoJunkNow
    <3>. QED  BY <1>1, <1>2, <1>4, <2>2, <3>1 DEF NoJunk, JunkInv
  <2>. QED  BY <2>1, <2>2, <2>3, <2>4 DEF TreeInv
<1>. QED  BY <1>3, <1>4

LEMMA LiteralTree ==
  ASSUME TreeInv, LiteralChar \/ LiteralEscaped \/ LiteralEnd
  PROVE  TreeInv'
<1>1. "literal" \in OfLiteral /\ "escaped" \in OfLiteral
  BY DEF OfLiteral
<1>2. ASSUME NEW c \in Chars, Object \in Literals
      PROVE  /\ [Object EXCEPT !.str = Append(@, c)] \in Literals
             /\ Pointers([Object EXCEPT !.str = Append(@, c)]) = Pointers(Object)
  <2>1. Append(Object.str, c) \in Seq(Chars)
    BY <1>2 DEF Literals
  <2>2. [Object EXCEPT !.str = Append(@, c)] \in Literals
    BY <1>2, <2>1 DEF Literals
  <2>. QED  BY <1>2, <2>2, PointersOf DEF FormatHeap
<1>3. CASE LiteralChar
  <2>1. In("literal") /\ wchar \in Chars /\ Consume /\ state' = state
    BY <1>3 DEF LiteralChar, Chars, Escapable
  <2>2. frames # <<>> /\ Top.fn # "node" /\ Object \in Literals
    BY <1>1, <2>1, InLiteral
  <2>3. text' \in Seq(Lookaheads) /\ wchar' \in Lookaheads
    BY <2>1, Lookahead
  <2>4. CASE Goto("escaped") /\ UNCHANGED heap
    BY <1>1, <2>1, <2>2, <2>3, <2>4, LiteralFills, GotoKeepsTree DEF OfLiteral
  <2>5. CASE Goto("literal") /\ Store([Object EXCEPT !.str = Append(@, wchar)])
    BY <1>1, <1>2, <2>1, <2>2, <2>3, <2>5, LiteralFills, StoreKeepsTree
  <2>. QED  BY <1>3, <2>4, <2>5 DEF LiteralChar
<1>4. CASE LiteralEscaped
  <2>1. In("escaped")
    BY <1>4 DEF LiteralEscaped
  <2>2. frames # <<>> /\ Top.fn # "node" /\ Object \in Literals
    BY <1>1, <2>1, InLiteral
  <2>3. CASE Error
    BY <2>2, <2>3, ErrorKeepsTree
  <2>4. CASE ~Error
    <3>1. /\ wchar \in Chars /\ Goto("literal") /\ Consume /\ state' = state
          /\ Store([Object EXCEPT !.str = Append(@, wchar)])
      BY <1>4, <2>4 DEF LiteralEscaped, Chars
    <3>2. text' \in Seq(Lookaheads) /\ wchar' \in Lookaheads
      BY <3>1, Lookahead
    <3>. QED  BY <1>1, <1>2, <2>2, <3>1, <3>2, LiteralFills, StoreKeepsTree
  <2>. QED  BY <2>3, <2>4
<1>5. CASE LiteralEnd
  <2>1. In("literal")
    BY <1>5 DEF LiteralEnd
  <2>2. frames # <<>> /\ Top.fn # "node"
    BY <1>1, <2>1, InLiteral
  <2>3. CASE Error
    BY <2>2, <2>3, ErrorKeepsTree
  <2>4. CASE ~Error
    <3>1. Return /\ UNCHANGED heap /\ Peek /\ state' = state
      BY <1>5, <2>4 DEF LiteralEnd
    <3>2. text' \in Seq(Lookaheads) /\ wchar' \in Lookaheads
      BY <3>1, Lookahead
    <3>. QED  BY <2>2, <3>1, <3>2, ReturnKeepsTree
  <2>. QED  BY <2>3, <2>4
<1>. QED  BY <1>3, <1>4, <1>5

LEMMA SubstKeeps ==
  ASSUME Object \in Substs, NEW c \in Chars
  PROVE  /\ [Object EXCEPT !.key = Append(@, c)] \in Substs
         /\ [Object EXCEPT !.key = Append(@, c)].if_true = Object.if_true
         /\ [Object EXCEPT !.key = Append(@, c)].if_false = Object.if_false
         /\ [Object EXCEPT !.key = Append(@, c)].type = Object.type
         /\ [Object EXCEPT !.type = "fallback"] \in Substs
         /\ [Object EXCEPT !.type = "fallback"].type = "fallback"
         /\ [Object EXCEPT !.type = "fallback"].if_true = Object.if_true
         /\ [Object EXCEPT !.type = "fallback"].if_false = Object.if_false
<1>1. Object.key \in Seq(Chars)
  BY DEF Substs
<1>2. Append(Object.key, c) \in Seq(Chars)
  BY <1>1, AppendProperties
<1>3. [Object EXCEPT !.key = Append(@, c)] \in Substs
  BY <1>2 DEF Substs
<1>4. [Object EXCEPT !.type = "fallback"] \in Substs
  BY DEF Substs
<1>. QED  BY <1>3, <1>4 DEF Substs

\* Where a substitution hooks its formats in.
LEMMA SubstGetsFormat ==
  ASSUME TreeInv, Object \in Substs, frames # <<>>, Top.fn # "node",
         NEW object \in Substs, Allocate(object, NewFormat),
         \/ /\ object.if_true = New /\ Object.if_true = Null
            /\ object.if_false = Null /\ Object.if_false = Null /\ object.type \in OpenTypes
            /\ Call("else", "format")
         \/ /\ object.if_true = Object.if_true
            /\ object.if_false = New /\ Object.if_false = Null /\ Call("close", "format"),
         state' = state, text' \in Seq(Lookaheads), wchar' \in Lookaheads
  PROVE  TreeInv'
<1>1. /\ Object \in FormatHeap /\ Top.object \in 1..Len(heap)
      /\ Pointers(Object) = <<Object.if_true, Object.if_false>>
  BY TopFills, PointersOf
<1>2. object \in FormatHeap /\ Pointers(object) = <<object.if_true, object.if_false>>
  BY PointersOf DEF FormatHeap
<1>3. NewFormat \in FormatObjects
  BY EmptySeq DEF NewFormat, FormatObjects
<1>4. NewFormat \in FormatHeap /\ FrameFills(Frame("format", New), NewFormat)
      /\ Pointers(NewFormat) = NewFormat.nodes
  BY <1>3, FormatFills, PointersOf
<1>5. \A j \in DOMAIN Pointers(NewFormat) : Pointers(NewFormat)[j] = Null
  <2>1. Pointers(NewFormat) = <<>>
    BY <1>4 DEF NewFormat
  <2>2. DOMAIN <<>> = {}
    BY EmptySeq
  <2>. QED  BY <2>1, <2>2
<1>6. /\ "format" \in OfFormat /\ "format" # "node"
      /\ "else" \in OfSubst /\ "else" # "node" /\ "close" \in OfSubst /\ "close" # "node"
  BY DEF OfFormat, OfSubst
<1>7. New # Junk
  BY <1>1, LenProperties DEF TreeInv, FormatTypes, New, Junk
<1>8. Object.if_true # Junk /\ Object.if_false # Junk
  <2>1. NoJunk(heap)
    BY NoJunkNow
  <2>2. 1 \in DOMAIN Pointers(Object) /\ Pointers(Object)[1] = Object.if_true
        /\ 2 \in DOMAIN Pointers(Object) /\ Pointers(Object)[2] = Object.if_false
    BY <1>1
  <2>. QED  BY <1>1, <2>1, <2>2 DEF NoJunk, Object
<1>9. /\ DOMAIN Pointers(Object) = {1, 2} /\ DOMAIN Pointers(object) = {1, 2}
      /\ Pointers(Object)[1] = Object.if_true /\ Pointers(Object)[2] = Object.if_false
      /\ Pointers(object)[1] = object.if_true /\ Pointers(object)[2] = object.if_false
  BY <1>1, <1>2
<1>10. CASE /\ object.if_true = New /\ Object.if_true = Null
            /\ object.if_false = Null /\ Object.if_false = Null /\ object.type \in OpenTypes
            /\ Call("else", "format")
  <2>1. FrameFills(Frame("else", Top.object), object)
    BY <1>6, <1>10, SubstFills
  <2>2. 1 \in DOMAIN Pointers(Object) /\ Pointers(Object)[1] \in {Null, Junk}
        /\ DOMAIN Pointers(object) = DOMAIN Pointers(Object)
    BY <1>9, <1>10
  <2>3. \A j \in DOMAIN Pointers(Object) :
          Pointers(object)[j] = IF j = 1 THEN New ELSE Pointers(Object)[j]
    BY <1>9, <1>10
  <2>4. \A j \in DOMAIN Pointers(object) : Pointers(object)[j] # Junk
    BY <1>7, <1>9, <1>10 DEF Null, Junk
  <2>. QED  BY <1>2, <1>4, <1>5, <1>6, <1>10, <2>1, <2>2, <2>3, <2>4, AllocateKeepsTree
<1>11. CASE /\ object.if_true = Object.if_true
            /\ object.if_false = New /\ Object.if_false = Null /\ Call("close", "format")
  <2>1. FrameFills(Frame("close", Top.object), object)
    BY <1>6, SubstFills
  <2>2. 2 \in DOMAIN Pointers(Object) /\ Pointers(Object)[2] \in {Null, Junk}
        /\ DOMAIN Pointers(object) = DOMAIN Pointers(Object)
    BY <1>9, <1>11
  <2>3. \A j \in DOMAIN Pointers(Object) :
          Pointers(object)[j] = IF j = 2 THEN New ELSE Pointers(Object)[j]
    BY <1>9, <1>11
  <2>4. \A j \in DOMAIN Pointers(object) : Pointers(object)[j] # Junk
    BY <1>7, <1>8, <1>9, <1>11
  <2>. QED  BY <1>2, <1>4, <1>5, <1>6, <1>11, <2>1, <2>2, <2>3, <2>4, AllocateKeepsTree
<1>. QED  BY <1>10, <1>11

LEMMA SubstTree ==
  ASSUME TreeInv, SubstOpen \/ KeyChar \/ KeyEnd \/ Then \/ Else \/ SubstClose
  PROVE  TreeInv'
<1>1. /\ "open" \in OfSubst /\ "key" \in OfSubst /\ "then" \in OfSubst /\ "else" \in OfSubst
      /\ "close" \in OfSubst /\ \A fn \in OfSubst : fn # "node"
  BY DEF OfSubst
<1>2. ASSUME frames # <<>>, Object \in Substs
      PROVE  Object \in FormatHeap /\ Pointers(Object) = <<Object.if_true, Object.if_false>>
  BY <1>2, PointersOf DEF FormatHeap
<1>3. "k" \in Chars /\ "?" \in Chars /\ "!" \in Chars /\ "}" \in Chars
  BY DEF Chars, Plain, Escapable
<1>4. ASSUME NEW fn \in OfSubst, NEW new \in OfSubst, In(fn), Goto(new), UNCHANGED heap,
             state' = state, Peek \/ Consume,
             fn \in {"open", "key", "then", "else"},
             fn = "else" => new = "close"
      PROVE  TreeInv'
  <2>1. /\ frames # <<>> /\ Top.fn # "node" /\ Object \in Substs
        /\ Object.if_false = Null
        /\ fn # "else" => Object.if_true = Null /\ Object.type = "basic"
    BY <1>1, <1>4, InSubst
  <2>2. FrameFills(Frame(new, Top.object), Object)
    BY <1>4, <2>1, SubstFills DEF OpenTypes
  <2>. QED  BY <1>1, <1>4, <2>1, <2>2, Lookahead, GotoKeepsTree
<1>5. ASSUME NEW fn \in OfSubst, In(fn), Error
      PROVE  TreeInv'
  BY <1>5, InSubst, ErrorKeepsTree
<1>6. CASE SubstOpen
  BY <1>1, <1>4, <1>6 DEF SubstOpen
<1>7. CASE KeyChar
  <2>1. /\ In("key") /\ Store([Object EXCEPT !.key = Append(@, wchar)]) /\ wchar \in Chars
        /\ Consume /\ frames' = frames /\ state' = state
    BY <1>7 DEF KeyChar, Chars, Plain
  <2>2. /\ frames # <<>> /\ Top.fn = "key" /\ Top.fn # "node" /\ Object \in Substs
        /\ Object.if_false = Null /\ Object.if_true = Null /\ Object.type = "basic"
    BY <1>1, <2>1, InSubst DEF In
  <2>3. Goto("key")
    <3>1. /\ Top \in Frames /\ Below \in Seq(Frames) /\ Len(frames) \in Nat /\ Len(frames) > 0
          /\ Len(Below) = Len(frames) - 1 /\ \A i \in 1..Len(Below) : Below[i] = frames[i]
      BY <2>2, TopFills
    <3>2. Frame("key", Top.object) = Top
      BY <2>2, <3>1 DEF Frame, Frames
    <3>3. /\ Append(Below, Top) \in Seq(Frames) /\ Len(Append(Below, Top)) = Len(frames)
          /\ \A i \in 1..Len(frames) : Append(Below, Top)[i] = frames[i]
      BY <3>1, AppendProperties DEF Top
    <3>4. frames \in Seq(Frames)
      BY DEF TreeInv, FormatTypes
    <3>5. Append(Below, Top) = frames
      BY <3>3, <3>4, SeqEqual
    <3>. QED  BY <2>1, <3>2, <3>5 DEF Goto
  <2>. DEFINE new == [Object EXCEPT !.key = Append(@, wchar)]
  <2>4. /\ new \in Substs /\ new.if_true = Null /\ new.if_false = Null /\ new.type = "basic"
        /\ Store(new)
    BY <2>1, <2>2, SubstKeeps
  <2>. HIDE DEF new
  <2>5. /\ new \in FormatHeap /\ FrameFills(Frame("key", Top.object), new)
    BY <1>1, <2>4, SubstFills
  <2>6. Pointers(new) = Pointers(Object)
    BY <1>2, <2>2, <2>4, <2>5, PointersOf
  <2>. QED  BY <1>1, <2>1, <2>2, <2>3, <2>4, <2>5, <2>6, Lookahead, StoreKeepsTree
<1>8. CASE KeyEnd
  BY <1>1, <1>4, <1>5, <1>8 DEF KeyEnd
<1>9. CASE Then
  <2>1. In("then") /\ Peek /\ state' = state
    BY <1>9 DEF Then
  <2>2. /\ frames # <<>> /\ Top.fn # "node" /\ Object \in Substs
        /\ Object.if_false = Null /\ Object.if_true = Null /\ Object.type = "basic"
    BY <1>1, <2>1, InSubst
  <2>3. text' \in Seq(Lookaheads) /\ wchar' \in Lookaheads
    BY <2>1, Lookahead
  <2>4. CASE wchar = "!"
    <3>. DEFINE new == [Object EXCEPT !.type = "fallback"]
    <3>1. /\ new \in Substs /\ new.if_true = Null /\ new.if_false = Null
          /\ new.type \in OpenTypes
      BY <1>3, <2>2, SubstKeeps DEF OpenTypes
    <3>2. Store(new) /\ Goto("else")
      BY <1>9, <2>4 DEF Then
    <3>. HIDE DEF new
    <3>3. new \in FormatHeap /\ FrameFills(Frame("else", Top.object), new)
      BY <1>1, <3>1, SubstFills
    <3>4. Pointers(new) = Pointers(Object)
      BY <1>2, <2>2, <3>1, <3>3, PointersOf
    <3>. QED  BY <1>1, <2>1, <2>2, <2>3, <3>2, <3>3, <3>4, StoreKeepsTree
  <2>5. CASE wchar # "!"
    <3>. DEFINE new == [Object EXCEPT !.type = "if exists", !.if_true = New]
    <3>1. New \in Int
      BY LenProperties DEF New, TreeInv, FormatTypes
    <3>2. new \in Substs /\ new.if_true = New /\ new.if_false = Null /\ new.type \in OpenTypes
      BY <2>2, <3>1 DEF Substs, OpenTypes
    <3>3. Allocate(new, NewFormat) /\ Call("else", "format")
      BY <1>9, <2>5 DEF Then
    <3>. HIDE DEF new
    <3>. QED  BY <2>1, <2>2, <2>3, <3>2, <3>3, SubstGetsFormat
  <2>. QED  BY <2>4, <2>5
<1>10. CASE Else
  <2>1. In("else") /\ state' = state
    BY <1>10 DEF Else
  <2>2. /\ frames # <<>> /\ Top.fn # "node" /\ Object \in Substs /\ Object.if_false = Null
        /\ Object.type \in OpenTypes
    BY <1>1, <2>1, InSubst
  <2>3. CASE wchar # "!"
    <3>1. Goto("close") /\ Peek /\ UNCHANGED heap
      BY <1>10, <2>3 DEF Else
    <3>. QED  BY <1>1, <1>4, <2>1, <3>1
  <2>4. CASE wchar = "!"
    <3>. DEFINE type == CASE Object.type = "basic"     -> "if absent"
                          [] Object.type = "if exists" -> "ternary"
                          [] Object.type = "fallback"  -> "fallback"
                new  == [Object EXCEPT !.type = type, !.if_false = New]
    <3>1. New \in Int
      BY LenProperties DEF New, TreeInv, FormatTypes
    <3>2. type \in {"basic", "if exists", "if absent", "ternary", "fallback"}
      BY <2>2 DEF OpenTypes
    <3>3. Allocate(new, NewFormat) /\ Call("close", "format") /\ Consume
      BY <1>10, <2>4 DEF Else
    <3>. HIDE DEF type
    <3>4. new \in Substs /\ new.if_true = Object.if_true /\ new.if_false = New
      BY <2>2, <3>1, <3>2 DEF Substs
    <3>. HIDE DEF new
    <3>. QED  BY <2>1, <2>2, <3>3, <3>4, Lookahead, SubstGetsFormat
  <2>. QED  BY <2>3, <2>4
<1>11. CASE SubstClose
  <2>1. In("close")
    BY <1>11 DEF SubstClose
  <2>2. CASE Error
    BY <1>1, <1>5, <2>1, <2>2
  <2>3. CASE ~Error
    <3>1. Return /\ Consume /\ UNCHANGED heap /\ state' = state
      BY <1>11, <2>3 DEF SubstClose
    <3>2. frames # <<>> /\ Top.fn # "node"
      BY <1>1, <2>1, InSubst
    <3>. QED  BY <3>1, <3>2, Lookahead, ReturnKeepsTree
  <2>. QED  BY <2>2, <2>3
<1>. QED  BY <1>6, <1>7, <1>8, <1>9, <1>10, <1>11

LEMMA GrowTree ==
  ASSUME TreeInv, Grow
  PROVE  TreeInv'
<1>. DEFINE o    == Top.object
            n    == Len(frames)
            wide == [Object EXCEPT !.nodes = Append(@, Junk)]
<1>1. /\ In("format") /\ wchar # Unread /\ Peek /\ state' = state /\ Goto("node")
      /\ heap' = [heap EXCEPT ![o].nodes = Append(@, Junk)]
  BY DEF Grow, Peeked
<1>2. frames # <<>> /\ Top.fn # "node" /\ Object \in FormatObjects
  BY <1>1, InFormat
<1>3. NoJunk(heap)
  BY <1>2, NoJunkNow
<1>4. /\ state = "parsing" /\ n \in Nat /\ n > 0 /\ Top = frames[n]
      /\ Top \in Frames /\ o \in 1..Len(heap)
      /\ Below \in Seq(Frames) /\ Len(Below) = n - 1
      /\ \A i \in 1..n - 1 : Below[i] = frames[i]
  BY <1>2, TopFills DEF Top
<1>5. /\ Object.nodes \in Seq(Int) /\ Len(Object.nodes) \in Nat
      /\ wide \in FormatObjects /\ wide.nodes \in Seq(Int)
      /\ Len(wide.nodes) = Len(Object.nodes) + 1
      /\ \A i \in 1..Len(Object.nodes) : wide.nodes[i] = Object.nodes[i]
      /\ wide.nodes[Len(Object.nodes) + 1] = Junk
  <2>1. Object.nodes \in Seq(Int) /\ Junk \in Int
    BY <1>2 DEF FormatObjects, Junk
  <2>2. /\ Append(Object.nodes, Junk) \in Seq(Int) /\ Len(Object.nodes) \in Nat
        /\ Len(Append(Object.nodes, Junk)) = Len(Object.nodes) + 1
        /\ \A i \in 1..Len(Object.nodes) : Append(Object.nodes, Junk)[i] = Object.nodes[i]
        /\ Append(Object.nodes, Junk)[Len(Object.nodes) + 1] = Junk
    BY <2>1, AppendProperties, LenProperties
  <2>3. wide \in FormatObjects /\ wide.nodes = Append(Object.nodes, Junk)
    BY <1>2, <2>2 DEF FormatObjects
  <2>. QED  BY <2>1, <2>2, <2>3
<1>6. wide \in FormatHeap /\ Pointers(wide) = wide.nodes /\ Pointers(Object) = Object.nodes
      /\ wide \notin Literals /\ wide \notin Substs
  BY <1>2, <1>5, PointersOf DEF FormatHeap
<1>7. Store(wide)
  BY <1>1, <1>4 DEF Store, Object
<1>. HIDE DEF wide
<1>8. /\ heap' \in Seq(FormatHeap) /\ Len(heap') = Len(heap) /\ Len(heap) \in Nat
      /\ \A p \in 1..Len(heap) : heap'[p] = IF p = o THEN wide ELSE heap[p]
  <2>1. heap \in Seq(FormatHeap)
    BY DEF TreeInv, FormatTypes
  <2>. QED  BY <1>4, <1>6, <1>7, <2>1, ExceptSeq, LenProperties DEF Store
<1>9. Frame("node", o) \in Frames /\ Frame("node", o).object = o /\ Frame("node", o).fn = "node"
  BY <1>4 DEF Frame, Frames, OfFormat
<1>10. /\ frames' \in Seq(Frames) /\ Len(frames') = n
       /\ \A i \in 1..n : frames'[i] = IF i = n THEN Frame("node", o) ELSE frames[i]
  BY <1>1, <1>4, <1>9, AppendProperties DEF Goto
<1>11. FormatTypes'
  BY <1>1, <1>8, <1>10, Lookahead DEF TreeInv, FormatTypes
<1>12. Downwards(Tree') /\ OwnedOnce(Tree')
  <2>1. /\ Len(Tree) = Len(heap) /\ IsTree(Tree) /\ Downwards(Tree) /\ OwnedOnce(Tree)
        /\ \A p \in 1..Len(heap) : Tree[p] = Pointers(heap[p])
    BY TreeIs DEF TreeInv
  <2>2. Len(Tree') = Len(heap) /\ \A p \in 1..Len(heap) : Tree'[p] = Pointers(heap'[p])
    BY <1>8, <1>11, TreeIsNext
  <2>3. Tree[o] = Object.nodes /\ Tree'[o] = wide.nodes
    BY <1>4, <1>6, <1>8, <2>1, <2>2 DEF Object
  <2>4. \A q \in 1..Len(heap) : q # o => Tree'[q] = Tree[q]
    BY <1>8, <2>1, <2>2
  <2>5. /\ DOMAIN Object.nodes = 1..Len(Object.nodes)
        /\ DOMAIN wide.nodes = 1..Len(Object.nodes) + 1
    BY <1>5, LenProperties
  <2>6. Widened(Tree, Tree', o)
    <3>1. DOMAIN Tree[o] \subseteq DOMAIN Tree'[o]
      BY <1>5, <2>3, <2>5
    <3>2. ASSUME NEW j \in DOMAIN Tree'[o]
          PROVE  Tree'[o][j] = IF j \in DOMAIN Tree[o] THEN Tree[o][j] ELSE Junk
      <4>1. j \in 1..Len(Object.nodes) + 1 /\ DOMAIN Tree[o] = 1..Len(Object.nodes)
        BY <2>3, <2>5, <3>2
      <4>2. CASE j \in 1..Len(Object.nodes)
        BY <1>5, <2>3, <4>1, <4>2
      <4>3. CASE j = Len(Object.nodes) + 1
        <5>1. j \notin DOMAIN Tree[o]
          BY <1>5, <4>1, <4>3
        <5>. QED  BY <1>5, <2>3, <4>3, <5>1
      <4>. QED  BY <1>5, <4>1, <4>2, <4>3
    <3>. QED  BY <2>1, <2>2, <2>4, <3>1, <3>2 DEF Widened
  <2>. QED  BY <1>4, <2>1, <2>6, WideningKeepsTree
<1>13. FrameFills(Frame("node", o), wide)
  <2>1. Len(wide.nodes) > 0 /\ wide.nodes[Len(wide.nodes)] = Junk
    BY <1>5
  <2>. QED  BY <1>5, <1>6, <1>9, <2>1 DEF FrameFills, OfFormat, OfLiteral, OfSubst
<1>14. FramesInv'
  <2>2. ASSUME NEW i \in 1..n, i # n
        PROVE  frames'[i] = frames[i] /\ frames[i].object \in 1..Len(heap)
               /\ frames[i].object # o /\ FrameFills(frames[i], heap[frames[i].object])
               /\ frames[i].fn # "node"
    <3>1. i < n /\ n \in 1..n
      BY <1>4, <2>2
    <3>2. frames[i].object < frames[n].object /\ frames[i].fn # "node"
      BY <3>1 DEF TreeInv, FramesInv
    <3>3. frames[i].object \in 1..Len(heap) /\ FrameFills(frames[i], heap[frames[i].object])
      BY DEF TreeInv, FramesInv
    <3>. QED  BY <1>4, <1>8, <1>10, <2>2, <3>2, <3>3
  <2>1. ASSUME NEW i \in 1..n
        PROVE  frames'[i].object = frames[i].object
    BY <1>4, <1>9, <1>10
  <2>3. ASSUME NEW i \in 1..n
        PROVE  /\ frames'[i].object \in 1..Len(heap)
               /\ FrameFills(frames'[i], heap'[frames'[i].object])
    <3>1. CASE i = n
      <4>1. frames'[i] = Frame("node", o) /\ frames'[i].object = o
        BY <1>9, <1>10, <3>1
      <4>2. heap'[o] = wide
        BY <1>4, <1>8
      <4>. QED  BY <1>4, <1>13, <4>1, <4>2
    <3>2. CASE i # n
      BY <1>8, <2>2, <3>2
    <3>. QED  BY <3>1, <3>2
  <2>4. ASSUME NEW i \in 1..n, NEW j \in 1..n, i < j
        PROVE  frames'[i].fn # "node" /\ frames'[i].object < frames'[j].object
    <3>1. i # n
      BY <1>4, <2>4
    <3>2. frames[i].object < frames[j].object
      BY <2>4 DEF TreeInv, FramesInv
    <3>. QED  BY <2>1, <2>2, <3>1, <3>2
  <2>. QED  BY <1>1, <1>4, <1>8, <1>10, <2>3, <2>4 DEF FramesInv
<1>15. JunkInv'
  <2>1. Top' = Frame("node", o) /\ frames' # <<>>
    BY <1>4, <1>10, EmptySeq DEF Top
  <2>2. wchar' # Unread
    BY <1>1 DEF Peek
  <2>3. ASSUME NEW p \in 1..Len(heap), NEW i \in DOMAIN Pointers(heap'[p]),
               Pointers(heap'[p])[i] = Junk
        PROVE  p = o /\ i = Len(Pointers(heap'[p]))
    <3>1. CASE p # o
      BY <1>3, <1>8, <2>3, <3>1 DEF NoJunk
    <3>2. CASE p = o
      <4>1. heap'[p] = wide /\ heap[p] = Object /\ DOMAIN wide.nodes = 1..Len(Object.nodes) + 1
            /\ DOMAIN Object.nodes = 1..Len(Object.nodes)
        BY <1>4, <1>5, <1>8, <3>2, LenProperties DEF Object
      <4>2. ASSUME i \in 1..Len(Object.nodes) PROVE FALSE
        <5>1. Pointers(heap[p])[i] = Junk /\ i \in DOMAIN Pointers(heap[p])
          BY <1>5, <1>6, <2>3, <4>1, <4>2
        <5>. QED  BY <1>3, <5>1 DEF NoJunk
      <4>3. i \in 1..Len(Object.nodes) + 1 /\ Len(Pointers(heap'[p])) = Len(Object.nodes) + 1
        BY <1>5, <1>6, <2>3, <4>1
      <4>. QED  BY <1>5, <3>2, <4>2, <4>3
    <3>. QED  BY <3>1, <3>2
  <2>. QED  BY <1>8, <2>1, <2>2, <2>3 DEF JunkInv
<1>. QED  BY <1>11, <1>12, <1>14, <1>15 DEF TreeInv

LEMMA NodeTree ==
  ASSUME TreeInv, Node
  PROVE  TreeInv'
<1>. DEFINE slot == Len(Object.nodes)
            filled == [Object EXCEPT !.nodes[slot] = New]
<1>1. In("node") /\ Peek /\ state' = state
  BY DEF Node
<1>2. /\ frames # <<>> /\ Top.fn = "node" /\ Object \in FormatObjects
      /\ Len(Object.nodes) > 0 /\ Object.nodes[slot] = Junk /\ Top.object \in 1..Len(heap)
  BY <1>1, TopFills DEF In, FrameFills, OfFormat
<1>3. New \in Int /\ New # Junk
  BY LenProperties DEF TreeInv, FormatTypes, New, Junk
<1>4. /\ Object.nodes \in Seq(Int) /\ slot \in 1..slot /\ slot \in Nat
      /\ DOMAIN Object.nodes = 1..slot
  <2>1. Object.nodes \in Seq(Int)
    BY <1>2 DEF FormatObjects
  <2>. QED  BY <1>2, <2>1, LenProperties
<1>5. /\ [Object.nodes EXCEPT ![slot] = New] \in Seq(Int)
      /\ Len([Object.nodes EXCEPT ![slot] = New]) = slot
      /\ \A j \in 1..slot :
           [Object.nodes EXCEPT ![slot] = New][j] = IF j = slot THEN New ELSE Object.nodes[j]
  BY <1>3, <1>4, ExceptSeq
<1>6. filled \in FormatObjects /\ filled.nodes = [Object.nodes EXCEPT ![slot] = New]
  BY <1>2, <1>5 DEF FormatObjects
<1>7. /\ Object \in FormatHeap /\ Pointers(Object) = Object.nodes
      /\ filled \in FormatHeap /\ Pointers(filled) = [Object.nodes EXCEPT ![slot] = New]
      /\ FrameFills(Frame("format", Top.object), filled)
  BY <1>2, <1>6, PointersOf, FormatFills DEF FormatHeap
<1>8. /\ slot \in DOMAIN Pointers(Object) /\ Pointers(Object)[slot] \in {Null, Junk}
      /\ DOMAIN Pointers(filled) = DOMAIN Pointers(Object)
      /\ \A j \in DOMAIN Pointers(Object) :
           Pointers(filled)[j] = IF j = slot THEN New ELSE Pointers(Object)[j]
  BY <1>2, <1>4, <1>5, <1>7, LenProperties
<1>9. \A j \in DOMAIN Pointers(filled) : Pointers(filled)[j] # Junk
  <2>. SUFFICES ASSUME NEW j \in DOMAIN Pointers(Object), j # slot,
                       Pointers(Object)[j] = Junk
                PROVE  FALSE
    BY <1>3, <1>8
  <2>1. j = Len(Pointers(heap[Top.object]))
    BY <1>2 DEF TreeInv, JunkInv, Object
  <2>. QED  BY <1>7, <2>1 DEF Object
<1>10. /\ "format" \in OfFormat /\ "format" # "node"
       /\ "open" \in OfSubst /\ "open" # "node" /\ "literal" \in OfLiteral /\ "literal" # "node"
  BY DEF OfFormat, OfSubst, OfLiteral
<1>11. text' \in Seq(Lookaheads) /\ wchar' \in Lookaheads
  BY <1>1, Lookahead
<1>12. CASE wchar = "{"
  <2>1. Allocate(filled, NewSubst) /\ Call("format", "open")
    BY <1>12 DEF Node
  <2>2. NewSubst \in Substs /\ NewSubst.if_true = Null /\ NewSubst.if_false = Null
        /\ NewSubst.type = "basic"
    BY EmptySeq DEF NewSubst, Substs, Null
  <2>3. NewSubst \in FormatHeap /\ FrameFills(Frame("open", New), NewSubst)
        /\ Pointers(NewSubst) = <<Null, Null>>
    BY <1>10, <2>2, SubstFills, PointersOf
  <2>4. \A j \in DOMAIN Pointers(NewSubst) : Pointers(NewSubst)[j] = Null
    BY <2>3
  <2>. HIDE DEF filled
  <2>5. /\ "format" \in OfFormat \union OfLiteral \union OfSubst
        /\ "open" \in OfFormat \union OfLiteral \union OfSubst
        /\ "format" # "node" /\ "open" # "node"
    BY <1>10
  <2>6. /\ filled \in FormatHeap /\ NewSubst \in FormatHeap
        /\ FrameFills(Frame("format", Top.object), filled)
        /\ FrameFills(Frame("open", New), NewSubst)
        /\ frames # <<>> /\ state' = state
    BY <1>1, <1>2, <1>7, <2>3, Zenon
  <2>. QED  BY <1>8, <1>9, <1>11, <2>1, <2>4, <2>5, <2>6, AllocateKeepsTree, ZenonT(30)
<1>13. CASE wchar # "{"
  <2>1. Allocate(filled, NewLiteral) /\ Call("format", "literal")
    BY <1>13 DEF Node
  <2>2. NewLiteral \in Literals
    BY EmptySeq DEF NewLiteral, Literals
  <2>3. NewLiteral \in FormatHeap /\ FrameFills(Frame("literal", New), NewLiteral)
        /\ Pointers(NewLiteral) = <<>>
    BY <1>10, <2>2, LiteralFills, PointersOf
  <2>4. \A j \in DOMAIN Pointers(NewLiteral) : Pointers(NewLiteral)[j] = Null
    BY <2>3, EmptySeq
  <2>. HIDE DEF filled
  <2>5. /\ "format" \in OfFormat \union OfLiteral \union OfSubst
        /\ "literal" \in OfFormat \union OfLiteral \union OfSubst
        /\ "format" # "node" /\ "literal" # "node"
    BY <1>10
  <2>6. /\ filled \in FormatHeap /\ NewLiteral \in FormatHeap
        /\ FrameFills(Frame("format", Top.object), filled)
        /\ FrameFills(Frame("literal", New), NewLiteral)
        /\ frames # <<>> /\ state' = state
    BY <1>1, <1>2, <1>7, <2>3, Zenon
  <2>. QED  BY <1>8, <1>9, <1>11, <2>1, <2>4, <2>5, <2>6, AllocateKeepsTree, ZenonT(30)
<1>. QED  BY <1>12, <1>13

LEMMA EndTree ==
  ASSUME TreeInv, FormatEnd \/ ParseEnd
  PROVE  TreeInv'
<1>1. CASE FormatEnd
  <2>1. In("format")
    BY <1>1 DEF FormatEnd
  <2>2. frames # <<>> /\ Top.fn # "node"
    BY <2>1, InFormat
  <2>3. CASE Error
    BY <2>2, <2>3, ErrorKeepsTree
  <2>4. CASE ~Error
    <3>1. Return /\ UNCHANGED heap /\ Peek /\ state' = state
      BY <1>1, <2>4 DEF FormatEnd
    <3>. QED  BY <2>2, <3>1, Lookahead, ReturnKeepsTree
  <2>. QED  BY <2>3, <2>4
<1>2. CASE ParseEnd
  <2>1. frames = <<>>
    BY <1>2 DEF ParseEnd
  <2>2. CASE Error
    BY <2>1, <2>2, ErrorKeepsTree
  <2>3. CASE ~Error
    <3>1. state' = "parsed" /\ UNCHANGED <<text, wchar, heap, frames>>
      BY <1>2, <2>3 DEF ParseEnd
    <3>. QED  BY <2>1, <3>1, StopKeepsTree DEF TreeInv, FormatTypes
  <2>. QED  BY <2>2, <2>3
<1>. QED  BY <1>1, <1>2

LEMMA InitTree == FormatInit => TreeInv
<1>. SUFFICES ASSUME FormatInit PROVE TreeInv
  OBVIOUS
<1>1. /\ text = <<>> /\ wchar = Unread /\ heap = <<NewFormat>>
      /\ frames = <<Frame("format", 1)>> /\ state = "parsing"
  BY DEF FormatInit
<1>2. NewFormat \in FormatObjects /\ NewFormat.nodes = <<>>
  BY EmptySeq DEF NewFormat, FormatObjects
<1>3. NewFormat \in FormatHeap /\ FrameFills(Frame("format", 1), NewFormat)
      /\ Pointers(NewFormat) = <<>>
  BY <1>2, FormatFills, PointersOf
<1>4. Frame("format", 1) \in Frames /\ Frame("format", 1).fn = "format"
      /\ Frame("format", 1).object = 1
  BY DEF Frame, Frames, OfFormat
<1>. DEFINE first == NewFormat
            frame == Frame("format", 1)
<1>. HIDE DEF first, frame
<1>5. /\ heap \in Seq(FormatHeap) /\ Len(heap) = 1 /\ heap[1] = NewFormat
  <2>1. heap = <<first>> /\ first \in FormatHeap
    BY <1>1, <1>3 DEF first
  <2>. QED  BY <2>1 DEF first
<1>6. /\ frames \in Seq(Frames) /\ Len(frames) = 1 /\ frames[1] = Frame("format", 1)
  <2>1. frames = <<frame>> /\ frame \in Frames
    BY <1>1, <1>4 DEF frame
  <2>. QED  BY <2>1 DEF frame
<1>7. FormatTypes
  BY <1>1, <1>5, <1>6, EmptySeq DEF FormatTypes, Lookaheads
<1>8. \A p \in 1..Len(heap) : \A i \in DOMAIN Pointers(heap[p]) : FALSE
  <2>1. \A p \in 1..Len(heap) : Pointers(heap[p]) = <<>>
    BY <1>3, <1>5
  <2>2. \A i : i \notin DOMAIN <<>>
    BY EmptySeq
  <2>. QED  BY <2>1, <2>2
<1>9. Downwards(Tree) /\ OwnedOnce(Tree)
  <2>1. Len(Tree) = 1 /\ \A p \in 1..1 : Tree[p] = Pointers(heap[p])
    BY <1>5, <1>7, TreeIs
  <2>2. \A i : i \notin 2..1
    OBVIOUS
  <2>. QED  BY <1>5, <1>8, <2>1, <2>2 DEF Downwards, OwnedOnce
<1>10. FramesInv
  BY <1>1, <1>3, <1>4, <1>5, <1>6 DEF FramesInv
<1>11. JunkInv
  BY <1>4, <1>6, <1>8 DEF JunkInv, Top
<1>. QED  BY <1>7, <1>9, <1>10, <1>11 DEF TreeInv

\* The parser keeps its tree whole, for strings of any length and nesting: pointers
\* lead down, each object has one that leads to it, and what is not set yet is what
\* the running functions fill next (format.c:228-264).
THEOREM TreeHolds == FormatSpec => []TreeInv
<1>1. FormatInit => TreeInv
  BY InitTree
<1>2. TreeInv /\ [FormatNext]_format_vars => TreeInv'
  <2>. SUFFICES ASSUME TreeInv, [FormatNext]_format_vars PROVE TreeInv'
    OBVIOUS
  <2>1. CASE UNCHANGED format_vars
    <3>1. UNCHANGED <<text, wchar, heap, frames, state>>
      BY <2>1 DEF format_vars
    <3>2. FormatTypes' /\ Tree' = Tree /\ FramesInv' /\ JunkInv'
      BY <3>1 DEF TreeInv, FormatTypes, Tree, FramesInv, JunkInv, Top
    <3>. QED  BY <3>2 DEF TreeInv
  <2>. QED  BY <2>1, DecodeTree, GrowTree, NodeTree, EndTree, LiteralTree, SubstTree
            DEF FormatNext
<1>. QED  BY <1>1, <1>2, PTL DEF FormatSpec

\* Wherever the parser gives up or ends, format_free reaches all that was allocated,
\* once, and no pointer that was not set (format.c:246-248, 322-350).
THEOREM TreesCanBeFreed == FormatSpec => []TreeCanBeFreed
<1>1. TreeInv => TreeCanBeFreed
  <2>. SUFFICES ASSUME TreeInv, state # "parsing" PROVE TreeCanBeFreed
    BY DEF TreeCanBeFreed
  <2>1. /\ Len(heap) \in Nat /\ Len(heap) > 0 /\ Len(Tree) = Len(heap)
        /\ Downwards(Tree) /\ OwnedOnce(Tree)
        /\ \A p \in 1..Len(heap) : Tree[p] = Pointers(heap[p])
        /\ \A p \in 1..Len(heap) : \A i \in DOMAIN Pointers(heap[p]) : Pointers(heap[p])[i] \in Int
    BY TreeIs DEF TreeInv, FormatTypes, IsTree
  <2>2. NoJunk(heap)
    BY NoJunkNow DEF TreeInv, FramesInv
  <2>3. \A s : s \in Slots <=>
          \E p \in 1..Len(heap) : \E i \in DOMAIN Pointers(heap[p]) : s = <<p, i>>
    BY DEF Slots
  <2>4. \A p \in 1..Len(heap) : \A i \in DOMAIN Pointers(heap[p]) :
          Pointers(heap[p])[i] = Null \/ (p < Pointers(heap[p])[i] /\ Pointers(heap[p])[i] <= Len(heap))
    BY <2>1, <2>2 DEF Downwards, NoJunk
  <2>5. \A o, s : s \in Owners(o) <=>
          \E p \in 1..Len(heap) : \E i \in DOMAIN Pointers(heap[p]) :
            s = <<p, i>> /\ Pointers(heap[p])[i] = o
    <3>. TAKE o, s
    <3>1. \A p, i : <<p, i>>[1] = p /\ <<p, i>>[2] = i
      OBVIOUS
    <3>2. s \in Owners(o) <=> s \in Slots /\ Pointers(heap[s[1]])[s[2]] = o
      BY DEF Owners
    <3>3. ASSUME s \in Owners(o)
          PROVE  \E p \in 1..Len(heap) : \E i \in DOMAIN Pointers(heap[p]) :
                   s = <<p, i>> /\ Pointers(heap[p])[i] = o
      <4>1. PICK p \in 1..Len(heap) : \E i \in DOMAIN Pointers(heap[p]) : s = <<p, i>>
        BY <2>3, <3>2, <3>3
      <4>2. PICK i \in DOMAIN Pointers(heap[p]) : s = <<p, i>>
        BY <4>1
      <4>3. s[1] = p /\ s[2] = i
        BY <4>2
      <4>4. Pointers(heap[p])[i] = o
        BY <3>2, <3>3, <4>3
      <4>. QED  BY <4>2, <4>4
    <3>4. ASSUME NEW p \in 1..Len(heap), NEW i \in DOMAIN Pointers(heap[p]),
                 s = <<p, i>>, Pointers(heap[p])[i] = o
          PROVE  s \in Owners(o)
      <4>1. s[1] = p /\ s[2] = i /\ s \in Slots
        BY <2>3, <3>4
      <4>. QED  BY <3>2, <3>4, <4>1
    <3>. QED  BY <3>3, <3>4
  <2>6. Owners(Junk) = {}
    BY <2>2, <2>5, Zenon DEF NoJunk
  <2>7. Cardinality(Owners(1)) = 0
    <3>1. Owners(1) = {}
      <4>. SUFFICES ASSUME NEW s \in Owners(1) PROVE FALSE
        OBVIOUS
      <4>1. PICK p \in 1..Len(heap) : \E i \in DOMAIN Pointers(heap[p]) : Pointers(heap[p])[i] = 1
        BY <2>5
      <4>2. PICK i \in DOMAIN Pointers(heap[p]) : Pointers(heap[p])[i] = 1
        BY <4>1
      <4>3. 1 = 0 \/ p < 1
        BY <2>4, <4>2 DEF Null
      <4>. QED  BY <2>1, <4>3
    <3>. QED  BY <3>1, FS_EmptySet
  <2>8. ASSUME NEW o \in 2..Len(heap) PROVE Cardinality(Owners(o)) = 1
    <3>1. PICK p \in 1..Len(heap) : \E i \in DOMAIN Tree[p] :
            /\ Tree[p][i] = o
            /\ \A q \in 1..Len(heap) : \A j \in DOMAIN Tree[q] : Tree[q][j] = o => q = p /\ j = i
      BY <2>1, <2>8 DEF OwnedOnce
    <3>2. PICK i \in DOMAIN Tree[p] :
            /\ Tree[p][i] = o
            /\ \A q \in 1..Len(heap) : \A j \in DOMAIN Tree[q] : Tree[q][j] = o => q = p /\ j = i
      BY <3>1
    <3>3. /\ i \in DOMAIN Pointers(heap[p]) /\ Pointers(heap[p])[i] = o
          /\ \A q \in 1..Len(heap) : \A j \in DOMAIN Pointers(heap[q]) :
               Pointers(heap[q])[j] = o => q = p /\ j = i
      BY <2>1, <3>2
    <3>4. \A s : s \in Owners(o) <=> s = <<p, i>>
      <4>. TAKE s
      <4>1. s \in Owners(o) <=>
              \E q \in 1..Len(heap) : \E j \in DOMAIN Pointers(heap[q]) :
                s = <<q, j>> /\ Pointers(heap[q])[j] = o
        BY <2>5
      <4>2. ASSUME s \in Owners(o) PROVE s = <<p, i>>
        <5>1. PICK q \in 1..Len(heap) : \E j \in DOMAIN Pointers(heap[q]) :
                s = <<q, j>> /\ Pointers(heap[q])[j] = o
          BY <4>1, <4>2
        <5>2. PICK j \in DOMAIN Pointers(heap[q]) : s = <<q, j>> /\ Pointers(heap[q])[j] = o
          BY <5>1
        <5>3. q = p /\ j = i
          BY <3>3, <5>2
        <5>. QED  BY <5>2, <5>3
      <4>3. ASSUME s = <<p, i>> PROVE s \in Owners(o)
        BY <3>3, <4>1, <4>3
      <4>. QED  BY <4>2, <4>3
    <3>5. Owners(o) = {<<p, i>>}
      BY <3>4
    <3>. QED  BY <3>5, FS_Singleton
  <2>9. \A o \in 1..Len(heap) : o = 1 \/ o \in 2..Len(heap)
    BY <2>1
  <2>10. \A o \in 1..Len(heap) : Cardinality(Owners(o)) = IF o = 1 THEN 0 ELSE 1
    BY <2>7, <2>8, <2>9
  <2>. QED  BY <2>4, <2>6, <2>10 DEF TreeCanBeFreed
<1>. QED  BY <1>1, TreeHolds, PTL


(***************************************************************************)
(* Format strings: what is accepted is rendered as documented, and what is *)
(* refused is no documented string.                                        *)
(***************************************************************************)

\* The sentences of n characters, made of the shorter ones that f gives.
FormatsOf(f, n) ==
  LET Singles == IF n = 1 THEN {<<<<c>>, Always(<<c>>)>> : c \in Plain}
               ELSE IF n = 2 THEN {<<<<"\\", c>>, Always(<<c>>)>> : c \in Escapable}
               ELSE {}
      Basic(k) == IF n = Len(k) + 2
                  THEN {<<Braced(k), IfPresent(k, Always(ValueOf(k)), Always(<<>>))>>}
                  ELSE {}
      One(k) ==
        IF n < Len(k) + 4 THEN {}
        ELSE UNION {{<<Braced(k \o <<"?">> \o g[1]), IfPresent(k, g[2], Always(<<>>))>>,
                     <<Braced(k \o <<"!">> \o g[1]), IfPresent(k, Always(<<>>), g[2])>>} :
                     g \in f[n - Len(k) - 3]}
      Two(k) ==
        UNION {{<<Braced(k \o <<"?">> \o g[1] \o <<"!">> \o h[1]), IfPresent(k, g[2], h[2])>> :
                  g \in f[i], h \in f[n - Len(k) - 4 - i]} :
                i \in 1..n - Len(k) - 5}
      Shortcut(k) ==
        IF n < Len(k) + 5 THEN {}
        ELSE {<<Braced(k \o <<"?", "!">> \o g[1]), IfPresent(k, Always(ValueOf(k)), g[2])>> :
                g \in f[n - Len(k) - 4]}
      Substitutions == UNION {Basic(Key(a)) \union One(Key(a)) \union Two(Key(a)) \union Shortcut(Key(a)) :
                         a \in 1..n - 2}
      Longer == UNION {{<<g[1] \o h[1], [d \in Dicts |-> g[2][d] \o h[2][d]]>> :
                          g \in f[i], h \in f[n - i]} : i \in 1..n - 1}
  IN  IF n = 0 THEN {} ELSE Singles \union Substitutions \union Longer

LEMMA FormatsChoice ==
  Formats = CHOOSE f : f = [n \in 0..MaxText |-> FormatsOf(f, n)]
BY DEF Formats, FormatsOf

\* One sentence after another.
Joined(g, h) == <<g[1] \o h[1], [d \in Dicts |-> g[2][d] \o h[2][d]]>>

\* A substitution with key k: without a format, with one, with two, a fallback.
IsBasic(k, s)    == s = <<Braced(k), IfPresent(k, Always(ValueOf(k)), Always(<<>>))>>
IsOne(F, k, s)   ==
  \E g \in F : \/ s = <<Braced(k \o <<"?">> \o g[1]), IfPresent(k, g[2], Always(<<>>))>>
              \/ s = <<Braced(k \o <<"!">> \o g[1]), IfPresent(k, Always(<<>>), g[2])>>
IsTwo(F, H, k, s) ==
  \E g \in F, h \in H :
    s = <<Braced(k \o <<"?">> \o g[1] \o <<"!">> \o h[1]), IfPresent(k, g[2], h[2])>>
IsShortcut(F, k, s) ==
  \E g \in F : s = <<Braced(k \o <<"?", "!">> \o g[1]), IfPresent(k, Always(ValueOf(k)), g[2])>>

IsSubst(f, n, k, s) ==
  \/ n = Len(k) + 2 /\ IsBasic(k, s)
  \/ ~(n < Len(k) + 4) /\ IsOne(f[n - Len(k) - 3], k, s)
  \/ \E i \in 1..n - Len(k) - 5 : IsTwo(f[i], f[n - Len(k) - 4 - i], k, s)
  \/ ~(n < Len(k) + 5) /\ IsShortcut(f[n - Len(k) - 4], k, s)

IsSentence(f, n, s) ==
  \/ n = 1 /\ \E c \in Plain : s = <<<<c>>, Always(<<c>>)>>
  \/ n = 2 /\ \E c \in Escapable : s = <<<<"\\", c>>, Always(<<c>>)>>
  \/ \E a \in 1..n - 2 : IsSubst(f, n, Key(a), s)
  \/ \E i \in 1..n - 1 : \E g \in f[i], h \in f[n - i] : s = Joined(g, h)

LEMMA FormatsMembers ==
  ASSUME NEW f, NEW n \in Nat, n # 0, NEW s
  PROVE  s \in FormatsOf(f, n) <=> IsSentence(f, n, s)
<1>. DEFINE Singles == IF n = 1 THEN {<<<<c>>, Always(<<c>>)>> : c \in Plain}
               ELSE IF n = 2 THEN {<<<<"\\", c>>, Always(<<c>>)>> : c \in Escapable}
               ELSE {}
      Basic(k) == IF n = Len(k) + 2
                  THEN {<<Braced(k), IfPresent(k, Always(ValueOf(k)), Always(<<>>))>>}
                  ELSE {}
      One(k) ==
        IF n < Len(k) + 4 THEN {}
        ELSE UNION {{<<Braced(k \o <<"?">> \o g[1]), IfPresent(k, g[2], Always(<<>>))>>,
                     <<Braced(k \o <<"!">> \o g[1]), IfPresent(k, Always(<<>>), g[2])>>} :
                     g \in f[n - Len(k) - 3]}
      Two(k) ==
        UNION {{<<Braced(k \o <<"?">> \o g[1] \o <<"!">> \o h[1]), IfPresent(k, g[2], h[2])>> :
                  g \in f[i], h \in f[n - Len(k) - 4 - i]} :
                i \in 1..n - Len(k) - 5}
      Shortcut(k) ==
        IF n < Len(k) + 5 THEN {}
        ELSE {<<Braced(k \o <<"?", "!">> \o g[1]), IfPresent(k, Always(ValueOf(k)), g[2])>> :
                g \in f[n - Len(k) - 4]}
      Substitutions == UNION {Basic(Key(a)) \union One(Key(a)) \union Two(Key(a)) \union Shortcut(Key(a)) :
                         a \in 1..n - 2}
      Longer == UNION {{<<g[1] \o h[1], [d \in Dicts |-> g[2][d] \o h[2][d]]>> :
                          g \in f[i], h \in f[n - i]} : i \in 1..n - 1}
<1>1. s \in Singles <=> \/ n = 1 /\ \E c \in Plain : s = <<<<c>>, Always(<<c>>)>>
                        \/ n = 2 /\ \E c \in Escapable : s = <<<<"\\", c>>, Always(<<c>>)>>
  <2>1. CASE n = 1
    <3>1. n # 2 /\ Singles = {<<<<c>>, Always(<<c>>)>> : c \in Plain}
      BY <2>1
    <3>. HIDE DEF Singles
    <3>. QED  BY <2>1, <3>1, Zenon
  <2>2. CASE n = 2
    <3>1. n # 1 /\ Singles = {<<<<"\\", c>>, Always(<<c>>)>> : c \in Escapable}
      BY <2>2
    <3>. HIDE DEF Singles
    <3>. QED  BY <2>2, <3>1, Zenon
  <2>3. CASE n # 1 /\ n # 2
    <3>1. Singles = {}
      BY <2>3
    <3>. HIDE DEF Singles
    <3>. QED  BY <2>3, <3>1, Zenon
  <2>. QED  BY <2>1, <2>2, <2>3
<1>2. ASSUME NEW k
      PROVE  s \in Basic(k) \union One(k) \union Two(k) \union Shortcut(k) <=> IsSubst(f, n, k, s)
  <2>1. s \in Basic(k) <=> n = Len(k) + 2 /\ IsBasic(k, s)
    BY ZenonT(30) DEF IsBasic
  <2>2. s \in One(k) <=> ~(n < Len(k) + 4) /\ IsOne(f[n - Len(k) - 3], k, s)
    BY ZenonT(30) DEF IsOne
  <2>3. s \in Two(k) <=> \E i \in 1..n - Len(k) - 5 : IsTwo(f[i], f[n - Len(k) - 4 - i], k, s)
    <3>. DEFINE Both(g, h) == <<Braced(k \o <<"?">> \o g[1] \o <<"!">> \o h[1]), IfPresent(k, g[2], h[2])>>
                Part(i) == {Both(g, h) : g \in f[i], h \in f[n - Len(k) - 4 - i]}
    <3>1. Two(k) = UNION {Part(i) : i \in 1..n - Len(k) - 5}
      OBVIOUS
    <3>2. \A i : IsTwo(f[i], f[n - Len(k) - 4 - i], k, s) <=>
                  \E g \in f[i], h \in f[n - Len(k) - 4 - i] : s = Both(g, h)
      BY DEF IsTwo
    <3>. HIDE DEF Both, Two
    <3>3. \A i : s \in Part(i) <=> \E g \in f[i], h \in f[n - Len(k) - 4 - i] : s = Both(g, h)
      BY SMT
    <3>. HIDE DEF Part
    <3>4. s \in Two(k) <=> \E i \in 1..n - Len(k) - 5 : s \in Part(i)
      BY <3>1, Zenon
    <3>. QED  BY <3>2, <3>3, <3>4, Zenon
  <2>4. s \in Shortcut(k) <=> ~(n < Len(k) + 5) /\ IsShortcut(f[n - Len(k) - 4], k, s)
    BY ZenonT(30) DEF IsShortcut
  <2>. HIDE DEF Basic, One, Two, Shortcut
  <2>. QED  BY <2>1, <2>2, <2>3, <2>4, ZenonT(30) DEF IsSubst
<1>3. s \in Substitutions <=> \E a \in 1..n - 2 : IsSubst(f, n, Key(a), s)
  <2>. DEFINE All(k) == Basic(k) \union One(k) \union Two(k) \union Shortcut(k)
  <2>1. \A k : s \in All(k) <=> s \in Basic(k) \/ s \in One(k) \/ s \in Two(k) \/ s \in Shortcut(k)
    <3>. HIDE DEF Basic, One, Two, Shortcut
    <3>. QED  BY Zenon
  <2>2. Substitutions = UNION {All(Key(a)) : a \in 1..n - 2}
    OBVIOUS
  <2>. HIDE DEF Basic, One, Two, Shortcut, Substitutions, All
  <2>3. s \in Substitutions <=> \E a \in 1..n - 2 : s \in All(Key(a))
    BY <2>2, Zenon
  <2>. QED  BY <1>2, <2>1, <2>3, Zenon
<1>4. s \in Longer <=> \E i \in 1..n - 1 : \E g \in f[i], h \in f[n - i] : s = Joined(g, h)
  <2>1. Longer = UNION {{Joined(g, h) : g \in f[i], h \in f[n - i]} : i \in 1..n - 1}
    BY DEF Joined
  <2>. HIDE DEF Longer
  <2>. QED  BY <2>1, SMTT(30)
<1>5. FormatsOf(f, n) = Singles \union Substitutions \union Longer
  <2>1. FormatsOf(f, n) = IF n = 0 THEN {} ELSE Singles \union Substitutions \union Longer
    BY DEF FormatsOf
  <2>. HIDE DEF Singles, Substitutions, Longer
  <2>. QED  BY <2>1
<1>. HIDE DEF Singles, Substitutions, Longer
<1>. QED  BY <1>1, <1>3, <1>4, <1>5, ZenonT(30) DEF IsSentence

LEMMA KeyIs == ASSUME NEW a \in Nat  PROVE Key(a) \in Seq({"k"}) /\ Len(Key(a)) = a
BY DEF Key

\* The sentences of n characters depend on the shorter ones only.
LEMMA FormatsLocal ==
  ASSUME NEW f, NEW h, NEW n \in Nat, \A i \in 0..n - 1 : f[i] = h[i]
  PROVE  FormatsOf(f, n) = FormatsOf(h, n)
<1>1. CASE n = 0
  BY <1>1 DEF FormatsOf
<1>2. CASE n # 0
  <2>1. ASSUME NEW s, NEW a \in 1..n - 2  PROVE IsSubst(f, n, Key(a), s) <=> IsSubst(h, n, Key(a), s)
    <3>. DEFINE k == Key(a)
    <3>1. Len(k) = a /\ a \in Nat /\ a >= 1
      BY KeyIs
    <3>. HIDE DEF k
    <3>2. ~(n < Len(k) + 4) => n - Len(k) - 3 \in 0..n - 1
      BY <3>1
    <3>3. ~(n < Len(k) + 5) => n - Len(k) - 4 \in 0..n - 1
      BY <3>1
    <3>4. \A i \in 1..n - Len(k) - 5 : i \in 0..n - 1 /\ n - Len(k) - 4 - i \in 0..n - 1
      BY <3>1
    <3>5. /\ ~(n < Len(k) + 4) => f[n - Len(k) - 3] = h[n - Len(k) - 3]
          /\ ~(n < Len(k) + 5) => f[n - Len(k) - 4] = h[n - Len(k) - 4]
          /\ \A i \in 1..n - Len(k) - 5 : f[i] = h[i] /\ f[n - Len(k) - 4 - i] = h[n - Len(k) - 4 - i]
      BY <3>2, <3>3, <3>4
    <3>6. (\E i \in 1..n - Len(k) - 5 : IsTwo(f[i], f[n - Len(k) - 4 - i], k, s))
          <=> \E i \in 1..n - Len(k) - 5 : IsTwo(h[i], h[n - Len(k) - 4 - i], k, s)
      BY <3>5, Zenon
    <3>7. ~(n < Len(k) + 4) /\ IsOne(f[n - Len(k) - 3], k, s)
          <=> ~(n < Len(k) + 4) /\ IsOne(h[n - Len(k) - 3], k, s)
      BY <3>5, Zenon
    <3>8. ~(n < Len(k) + 5) /\ IsShortcut(f[n - Len(k) - 4], k, s)
          <=> ~(n < Len(k) + 5) /\ IsShortcut(h[n - Len(k) - 4], k, s)
      BY <3>5, Zenon
    <3>9. IsSubst(f, n, k, s) <=> IsSubst(h, n, k, s)
      BY <3>6, <3>7, <3>8, Zenon DEF IsSubst
    <3>. QED  BY <3>9 DEF k
  <2>2. \A i \in 1..n - 1 : f[i] = h[i] /\ f[n - i] = h[n - i]
    OBVIOUS
  <2>3. ASSUME NEW s  PROVE IsSentence(f, n, s) <=> IsSentence(h, n, s)
    BY <2>1, <2>2, ZenonT(30) DEF IsSentence
  <2>4. \A s : s \in FormatsOf(f, n) <=> s \in FormatsOf(h, n)
    BY <1>2, <2>3, FormatsMembers
  <2>. QED  BY <2>4, ZenonT(30)
<1>. QED  BY <1>1, <1>2

LEMMA NaturalsFounded == IsWellFoundedOn({pair \in Nat \X Nat : pair[1] < pair[2]}, Nat)
BY NatLessThanWellFounded DEF OpToRel

\* The sentences of each length are what the definition says.
LEMMA FormatsAre == Formats = [n \in 0..MaxText |-> FormatsOf(Formats, n)]
<1>. DEFINE Recursive(f, m) == f = [n \in 0..m |-> FormatsOf(f, n)]
            Bad == {m \in Nat : ~\E f : Recursive(f, m)}
<1>1. Bad = {}
  <2>. SUFFICES ASSUME Bad # {} PROVE FALSE
    OBVIOUS
  <2>1. PICK m \in Bad : \A x \in Bad : ~(<<x, m>> \in {pair \in Nat \X Nat : pair[1] < pair[2]})
    <3>. HIDE DEF Bad
    <3>1. Bad \subseteq Nat
      BY DEF Bad
    <3>. QED  BY <3>1, NaturalsFounded, WFMin
  <2>2. m \in Nat /\ \A x \in Nat : x < m => \E f : Recursive(f, x)
    BY <2>1
  <2>3. PICK f : \A n \in 0..m - 1 : f[n] = FormatsOf(f, n)
    <3>1. CASE m = 0
      BY <3>1, <2>2
    <3>2. CASE m # 0
      <4>1. PICK f : Recursive(f, m - 1)
        BY <2>2, <3>2
      <4>. QED  BY <4>1
    <3>. QED  BY <3>1, <3>2
  <2>. DEFINE h == [n \in 0..m |-> FormatsOf(f, n)]
  <2>4. \A n \in 0..m - 1 : h[n] = f[n]
    BY <2>2, <2>3
  <2>5. \A n \in 0..m : FormatsOf(h, n) = FormatsOf(f, n)
    <3>. TAKE n \in 0..m
    <3>. HIDE DEF h
    <3>1. n \in Nat /\ \A i \in 0..n - 1 : i \in 0..m - 1
      BY <2>2
    <3>2. \A i \in 0..n - 1 : f[i] = h[i]
      BY <2>4, <3>1
    <3>3. FormatsOf(f, n) = FormatsOf(h, n)
      BY <3>1, <3>2, FormatsLocal
    <3>. QED  BY <3>3
  <2>6. Recursive(h, m)
    <3>1. h = [n \in 0..m |-> FormatsOf(f, n)]
      OBVIOUS
    <3>. HIDE DEF h
    <3>. QED  BY <2>5, <3>1, Zenon
  <2>7. ~\E f2 : Recursive(f2, m)
    BY <2>1
  <2>. HIDE DEF h, Recursive
  <2>. QED  BY <2>6, <2>7
<1>2. \E f : Recursive(f, MaxText)
  BY <1>1, FormatAssumption
<1>3. Formats = CHOOSE f : Recursive(f, MaxText)
  BY FormatsChoice
<1>. HIDE DEF Recursive
<1>4. Recursive(Formats, MaxText)
  BY <1>2, <1>3
<1>. QED  BY <1>4 DEF Recursive

-----------------------------------------------------------------------------
(* The sentences are closed under the forms of the manual.                 *)

\* The text t is a sentence, and m what it expands to.
Says(t, m) == t \in Seq(Chars) /\ Len(t) \in 1..MaxText /\ <<t, m>> \in Formats[Len(t)]

Both(m1, m2) == [d \in Dicts |-> m1[d] \o m2[d]]

LEMMA SaysIf ==
  ASSUME NEW t \in Seq(Chars), NEW m, Len(t) \in 1..MaxText, IsSentence(Formats, Len(t), <<t, m>>)
  PROVE  Says(t, m)
<1>1. Len(t) \in 0..MaxText /\ Len(t) \in Nat /\ Len(t) # 0
  BY FormatAssumption
<1>2. Formats[Len(t)] = FormatsOf(Formats, Len(t))
  BY <1>1, FormatsAre
<1>. QED  BY <1>1, <1>2, FormatsMembers DEF Says

LEMMA SentenceForms ==
  ASSUME NEW n \in 1..MaxText, NEW s
  PROVE  s \in Formats[n] <=> IsSentence(Formats, n, s)
<1>1. n \in 0..MaxText /\ n \in Nat /\ n # 0
  BY FormatAssumption
<1>2. Formats[n] = FormatsOf(Formats, n)
  BY <1>1, FormatsAre
<1>. QED  BY <1>1, <1>2, FormatsMembers

LEMMA CharsAre ==
  /\ Plain \subseteq Chars /\ Escapable \subseteq Chars
  /\ "k" \in Chars /\ "x" \in Chars /\ "?" \in Chars /\ "!" \in Chars /\ "\\" \in Chars
  /\ "{" \in Chars /\ "}" \in Chars
BY Zenon DEF Chars, Plain, Escapable

LEMMA One ==
  ASSUME NEW S, NEW c \in S
  PROVE  <<c>> \in Seq(S) /\ Len(<<c>>) = 1 /\ <<c>>[1] = c
OBVIOUS

LEMMA Two ==
  ASSUME NEW S, NEW c \in S, NEW e \in S
  PROVE  /\ <<c, e>> \in Seq(S) /\ Len(<<c, e>>) = 2 /\ <<c, e>>[1] = c /\ <<c, e>>[2] = e
         /\ <<c>> \o <<e>> = <<c, e>>
<1>1. <<c>> \in Seq(S) /\ <<e>> \in Seq(S) /\ Len(<<c>>) = 1 /\ Len(<<e>>) = 1
  OBVIOUS
<1>2. /\ <<c>> \o <<e>> \in Seq(S) /\ Len(<<c>> \o <<e>>) = 2
      /\ (<<c>> \o <<e>>)[1] = c /\ (<<c>> \o <<e>>)[2] = e
  BY <1>1, ConcatProperties
<1>3. <<c, e>> \in Seq(S) /\ Len(<<c, e>>) = 2 /\ <<c, e>>[1] = c /\ <<c, e>>[2] = e
  OBVIOUS
<1>4. \A i \in 1..2 : (<<c>> \o <<e>>)[i] = <<c, e>>[i]
  BY <1>2, <1>3
<1>. DEFINE one == <<c>> \o <<e>>
            two == <<c, e>>
<1>. HIDE DEF one, two
<1>5. one = two
  <2>1. one \in Seq(S) /\ two \in Seq(S) /\ Len(one) = 2 /\ Len(two) = 2 /\ \A i \in 1..2 : one[i] = two[i]
    BY <1>2, <1>3, <1>4 DEF one, two
  <2>. QED  BY <2>1, SeqEqual
<1>. QED  BY <1>3, <1>5 DEF one, two

LEMMA KeyChars == ASSUME NEW a \in Nat  PROVE Key(a) \in Seq(Chars) /\ Len(Key(a)) = a
<1>1. "k" \in Chars
  BY CharsAre
<1>. QED  BY <1>1, SMT DEF Key

LEMMA Assoc ==
  ASSUME NEW S, NEW s \in Seq(S), NEW t \in Seq(S), NEW u \in Seq(S)
  PROVE  (s \o t) \o u = s \o (t \o u) /\ s \o t \in Seq(S) /\ Len(s \o t) = Len(s) + Len(t)
BY ConcatAssociative, ConcatProperties

LEMMA Glued ==
  \A s, t \in Seq(Chars) : s \o t \in Seq(Chars) /\ Len(s \o t) = Len(s) + Len(t)
BY ConcatProperties

\* Texts one after another, however they are grouped.
Groups(s, t, u) == (s \o t) \o u = s \o (t \o u)

LEMMA GroupsAll == \A s, t, u \in Seq(Chars) : Groups(s, t, u)
BY Assoc DEF Groups

LEMMA BracedIs ==
  ASSUME NEW s \in Seq(Chars)
  PROVE  Braced(s) \in Seq(Chars) /\ Len(Braced(s)) = Len(s) + 2
<1>. DEFINE open == <<"{">>
            close == <<"}">>
<1>1. open \in Seq(Chars) /\ Len(open) = 1 /\ close \in Seq(Chars) /\ Len(close) = 1
  BY CharsAre, One, Zenon
<1>2. Braced(s) = open \o s \o close
  BY DEF Braced
<1>. HIDE DEF open, close
<1>3. open \o s \in Seq(Chars) /\ Len(open \o s) = 1 + Len(s) /\ Len(s) \in Nat
  <2>1. open \o s \in Seq(Chars) /\ Len(open \o s) = Len(open) + Len(s)
    BY <1>1, Glued, Zenon
  <2>. QED  BY <1>1, <2>1, LenProperties
<1>4. (open \o s) \o close \in Seq(Chars) /\ Len((open \o s) \o close) = Len(s) + 2
  BY <1>1, <1>3, Glued
<1>. QED  BY <1>2, <1>4

LEMMA SaysPlain ==
  ASSUME NEW c \in Plain, 1 <= MaxText
  PROVE  Says(<<c>>, Always(<<c>>))
<1>1. <<c>> \in Seq(Chars) /\ Len(<<c>>) = 1
  BY CharsAre, One
<1>2. IsSentence(Formats, 1, <<<<c>>, Always(<<c>>)>>)
  BY DEF IsSentence
<1>3. 1 \in 1..MaxText
  BY FormatAssumption
<1>. QED  BY <1>1, <1>2, <1>3, SaysIf

LEMMA SaysEscaped ==
  ASSUME NEW c \in Escapable, 2 <= MaxText
  PROVE  Says(<<"\\", c>>, Always(<<c>>))
<1>1. <<"\\", c>> \in Seq(Chars) /\ Len(<<"\\", c>>) = 2
  BY CharsAre, Two, Zenon
<1>2. IsSentence(Formats, 2, <<<<"\\", c>>, Always(<<c>>)>>)
  BY Zenon DEF IsSentence
<1>3. 2 \in 1..MaxText
  BY FormatAssumption
<1>. QED  BY <1>1, <1>2, <1>3, SaysIf

LEMMA SaysBoth ==
  ASSUME NEW t, NEW m, NEW t2, NEW m2, Says(t, m), Says(t2, m2), Len(t) + Len(t2) <= MaxText
  PROVE  Says(t \o t2, Both(m, m2))
<1>1. t \in Seq(Chars) /\ t2 \in Seq(Chars) /\ Len(t) \in 1..MaxText /\ Len(t2) \in 1..MaxText
      /\ <<t, m>> \in Formats[Len(t)] /\ <<t2, m2>> \in Formats[Len(t2)]
  BY DEF Says
<1>2. t \o t2 \in Seq(Chars) /\ Len(t \o t2) = Len(t) + Len(t2)
  BY <1>1, Assoc
<1>. DEFINE n == Len(t \o t2)
<1>3. n \in 1..MaxText /\ Len(t) \in 1..n - 1 /\ n - Len(t) = Len(t2)
  BY <1>1, <1>2, FormatAssumption
<1>4. Joined(<<t, m>>, <<t2, m2>>) = <<t \o t2, Both(m, m2)>>
  BY DEF Joined, Both
<1>5. IsSentence(Formats, n, <<t \o t2, Both(m, m2)>>)
  <2>. HIDE DEF n
  <2>1. \E g \in Formats[Len(t)], h \in Formats[n - Len(t)] : <<t \o t2, Both(m, m2)>> = Joined(g, h)
    BY <1>1, <1>3, <1>4
  <2>. QED  BY <1>3, <2>1 DEF IsSentence
<1>. QED  BY <1>2, <1>3, <1>5, SaysIf

\* A substitution.
LEMMA SaysSubst ==
  ASSUME NEW s \in Seq(Chars), NEW m, Len(s) + 2 <= MaxText, NEW a \in Nat \ {0}, a <= Len(s),
         IsSubst(Formats, Len(s) + 2, Key(a), <<Braced(s), m>>)
  PROVE  Says(Braced(s), m)
<1>1. Braced(s) \in Seq(Chars) /\ Len(Braced(s)) = Len(s) + 2 /\ Len(s) \in Nat
  BY BracedIs
<1>2. a \in 1..(Len(s) + 2) - 2 /\ Len(s) + 2 \in 1..MaxText
  BY <1>1, FormatAssumption
<1>3. IsSentence(Formats, Len(s) + 2, <<Braced(s), m>>)
  BY <1>2 DEF IsSentence
<1>. QED  BY <1>1, <1>2, <1>3, SaysIf

LEMMA SaysBasic ==
  ASSUME NEW a \in Nat \ {0}, Len(Key(a)) + 2 <= MaxText
  PROVE  Says(Braced(Key(a)), IfPresent(Key(a), Always(ValueOf(Key(a))), Always(<<>>)))
<1>1. Key(a) \in Seq(Chars) /\ Len(Key(a)) = a
  BY KeyChars
<1>2. IsSubst(Formats, Len(Key(a)) + 2, Key(a),
              <<Braced(Key(a)), IfPresent(Key(a), Always(ValueOf(Key(a))), Always(<<>>))>>)
  BY <1>1 DEF IsSubst, IsBasic
<1>. QED  BY <1>1, <1>2, SaysSubst

\* One format, behind a question mark or an exclamation mark.
LEMMA SaysOne ==
  ASSUME NEW a \in Nat \ {0}, NEW t, NEW m, Says(t, m), NEW c \in {"?", "!"},
         Len(Key(a) \o <<c>> \o t) + 2 <= MaxText
  PROVE  /\ c = "?" => Says(Braced(Key(a) \o <<c>> \o t), IfPresent(Key(a), m, Always(<<>>)))
         /\ c = "!" => Says(Braced(Key(a) \o <<c>> \o t), IfPresent(Key(a), Always(<<>>), m))
<1>. DEFINE k == Key(a)
            s == k \o <<c>> \o t
<1>1. k \in Seq(Chars) /\ Len(k) = a /\ <<c>> \in Seq(Chars) /\ Len(<<c>>) = 1
      /\ t \in Seq(Chars) /\ Len(t) \in 1..MaxText /\ <<t, m>> \in Formats[Len(t)]
  BY KeyChars, CharsAre, One DEF Says
<1>. HIDE DEF k
<1>2. s \in Seq(Chars) /\ Len(s) = a + 1 + Len(t)
  BY <1>1, Glued
<1>3. ~(Len(s) + 2 < Len(k) + 4) /\ Len(s) + 2 - Len(k) - 3 = Len(t) /\ a <= Len(s) /\ Len(s) + 2 <= MaxText
  BY <1>1, <1>2 DEF k
<1>4. ASSUME NEW x, IsOne(Formats[Len(t)], k, <<Braced(s), x>>)  PROVE Says(Braced(s), x)
  <2>. HIDE DEF s
  <2>1. IsSubst(Formats, Len(s) + 2, k, <<Braced(s), x>>)
    BY <1>3, <1>4 DEF IsSubst
  <2>. QED  BY <1>2, <1>3, <2>1, SaysSubst DEF k
<1>5. CASE c = "?"
  <2>1. IsOne(Formats[Len(t)], k, <<Braced(s), IfPresent(k, m, Always(<<>>))>>)
    BY <1>1, <1>5 DEF IsOne
  <2>. QED  BY <1>4, <1>5, <2>1 DEF k
<1>6. CASE c = "!"
  <2>1. IsOne(Formats[Len(t)], k, <<Braced(s), IfPresent(k, Always(<<>>), m)>>)
    BY <1>1, <1>6 DEF IsOne
  <2>. QED  BY <1>4, <1>6, <2>1 DEF k
<1>. QED  BY <1>5, <1>6

LEMMA SaysTwo ==
  ASSUME NEW a \in Nat \ {0}, NEW t, NEW m, Says(t, m), NEW t2, NEW m2, Says(t2, m2),
         Len(Key(a) \o <<"?">> \o t \o <<"!">> \o t2) + 2 <= MaxText
  PROVE  Says(Braced(Key(a) \o <<"?">> \o t \o <<"!">> \o t2), IfPresent(Key(a), m, m2))
<1>. DEFINE k == Key(a)
            s == k \o <<"?">> \o t \o <<"!">> \o t2
<1>1. /\ k \in Seq(Chars) /\ Len(k) = a /\ t \in Seq(Chars) /\ Len(t) \in 1..MaxText
      /\ t2 \in Seq(Chars) /\ Len(t2) \in 1..MaxText
      /\ <<t, m>> \in Formats[Len(t)] /\ <<t2, m2>> \in Formats[Len(t2)]
      /\ <<"?">> \in Seq(Chars) /\ Len(<<"?">>) = 1 /\ <<"!">> \in Seq(Chars) /\ Len(<<"!">>) = 1
  BY KeyChars, CharsAre, One DEF Says
<1>. HIDE DEF k
<1>2. s \in Seq(Chars) /\ Len(s) = a + 2 + Len(t) + Len(t2)
  <2>1. k \o <<"?">> \in Seq(Chars) /\ Len(k \o <<"?">>) = a + 1
    BY <1>1, Glued
  <2>2. k \o <<"?">> \o t \in Seq(Chars) /\ Len(k \o <<"?">> \o t) = a + 1 + Len(t)
    BY <1>1, <2>1, Glued
  <2>3. /\ k \o <<"?">> \o t \o <<"!">> \in Seq(Chars)
        /\ Len(k \o <<"?">> \o t \o <<"!">>) = a + 2 + Len(t)
    <3>. DEFINE front == k \o <<"?">> \o t
    <3>1. front \in Seq(Chars) /\ Len(front) = a + 1 + Len(t)
      BY <2>2
    <3>. HIDE DEF front
    <3>2. front \o <<"!">> \in Seq(Chars) /\ Len(front \o <<"!">>) = Len(front) + Len(<<"!">>)
      BY <1>1, <3>1, Glued, Zenon
    <3>3. Len(front \o <<"!">>) = a + 2 + Len(t)
      <4>1. Len(<<"!">>) = 1 /\ Len(t) \in Nat
        BY <1>1
      <4>. QED  BY <3>1, <3>2, <4>1
    <3>. QED  BY <3>2, <3>3 DEF front
  <2>. QED  BY <1>1, <2>3, Glued
<1>3. /\ Len(t) \in 1..(Len(s) + 2) - Len(k) - 5 /\ Len(s) + 2 - Len(k) - 4 - Len(t) = Len(t2)
      /\ a <= Len(s) /\ Len(s) + 2 <= MaxText
  BY <1>1, <1>2 DEF k
<1>4. IsTwo(Formats[Len(t)], Formats[Len(t2)], k, <<Braced(s), IfPresent(k, m, m2)>>)
  BY <1>1 DEF IsTwo
<1>. HIDE DEF s
<1>5. IsSubst(Formats, Len(s) + 2, k, <<Braced(s), IfPresent(k, m, m2)>>)
  <2>1. IsTwo(Formats[Len(t)], Formats[Len(s) + 2 - Len(k) - 4 - Len(t)], k,
              <<Braced(s), IfPresent(k, m, m2)>>)
    BY <1>3, <1>4
  <2>2. \E i \in 1..(Len(s) + 2) - Len(k) - 5 :
          IsTwo(Formats[i], Formats[Len(s) + 2 - Len(k) - 4 - i], k, <<Braced(s), IfPresent(k, m, m2)>>)
    BY <1>3, <2>1, Zenon
  <2>. DEFINE n == Len(s) + 2
              r == <<Braced(s), IfPresent(k, m, m2)>>
  <2>3. \E i \in 1..n - Len(k) - 5 : IsTwo(Formats[i], Formats[n - Len(k) - 4 - i], k, r)
    BY <2>2
  <2>. HIDE DEF n, r, k
  <2>4. IsSubst(Formats, n, k, r)
    BY <2>3, Zenon DEF IsSubst
  <2>. QED  BY <2>4 DEF n, r
<1>6. Says(Braced(s), IfPresent(k, m, m2))
  BY <1>2, <1>3, <1>5, SaysSubst DEF k
<1>. QED  BY <1>6 DEF s, k

LEMMA SaysFallback ==
  ASSUME NEW a \in Nat \ {0}, NEW t, NEW m, Says(t, m), Len(Key(a) \o <<"?", "!">> \o t) + 2 <= MaxText
  PROVE  Says(Braced(Key(a) \o <<"?", "!">> \o t), IfPresent(Key(a), Always(ValueOf(Key(a))), m))
<1>. DEFINE k == Key(a)
            s == k \o <<"?", "!">> \o t
<1>1. /\ k \in Seq(Chars) /\ Len(k) = a /\ t \in Seq(Chars) /\ Len(t) \in 1..MaxText
      /\ <<t, m>> \in Formats[Len(t)]
      /\ <<"?", "!">> \in Seq(Chars) /\ Len(<<"?", "!">>) = 2
  BY KeyChars, CharsAre, Two DEF Says
<1>. HIDE DEF k
<1>2. s \in Seq(Chars) /\ Len(s) = a + 2 + Len(t)
  BY <1>1, Glued
<1>3. /\ ~(Len(s) + 2 < Len(k) + 5) /\ Len(s) + 2 - Len(k) - 4 = Len(t)
      /\ a <= Len(s) /\ Len(s) + 2 <= MaxText
  BY <1>1, <1>2 DEF k
<1>4. IsShortcut(Formats[Len(t)], k, <<Braced(s), IfPresent(k, Always(ValueOf(k)), m)>>)
  BY <1>1 DEF IsShortcut
<1>. HIDE DEF s
<1>5. IsSubst(Formats, Len(s) + 2, k, <<Braced(s), IfPresent(k, Always(ValueOf(k)), m)>>)
  BY <1>3, <1>4 DEF IsSubst
<1>6. Says(Braced(s), IfPresent(k, Always(ValueOf(k)), m))
  BY <1>2, <1>3, <1>5, SaysSubst DEF k
<1>. QED  BY <1>6 DEF s, k

-----------------------------------------------------------------------------
(* What the frames have read.  mean gives the meaning of the objects that  *)
(* are complete (done); a text is what one frame has consumed.             *)

Meanings == [Dicts -> Seq(Chars \union {"="})]

\* The meanings of the nodes, one after another.
Joins(nodes, m, mean, done) ==
  /\ \A i \in 1..Len(nodes) : nodes[i] \in done
  /\ \E u \in [0..Len(nodes) -> Meanings] :
       /\ u[0] = Always(<<>>)
       /\ \A i \in 1..Len(nodes) : u[i] = Both(u[i - 1], mean[nodes[i]])
       /\ m = u[Len(nodes)]

SubstExpands(n, m, mean, done) ==
  \/ n.type = "basic" /\ m = IfPresent(n.key, Always(ValueOf(n.key)), Always(<<>>))
  \/ /\ n.type = "if exists" /\ n.if_true \in done
     /\ m = IfPresent(n.key, mean[n.if_true], Always(<<>>))
  \/ /\ n.type = "if absent" /\ n.if_false \in done
     /\ m = IfPresent(n.key, Always(<<>>), mean[n.if_false])
  \/ /\ n.type = "ternary" /\ n.if_true \in done /\ n.if_false \in done
     /\ m = IfPresent(n.key, mean[n.if_true], mean[n.if_false])
  \/ /\ n.type = "fallback" /\ n.if_false \in done
     /\ m = IfPresent(n.key, Always(ValueOf(n.key)), mean[n.if_false])

\* What format_render makes of an object, given the meaning of those it points to.
Expands(n, m, mean, done) ==
  /\ n.kind = "literal" => m = Always(n.str)
  /\ n.kind = "format" => Joins(n.nodes, m, mean, done)
  /\ n.kind = "subst" => SubstExpands(n, m, mean, done)

NodesRead(nodes, s, mean, done) ==
  \/ nodes = <<>> /\ s = <<>>
  \/ nodes # <<>> /\ \E m : Joins(nodes, m, mean, done) /\ Says(s, m)

LiteralRead(n, s) ==
  \/ n.str = <<>> /\ s = <<>>
  \/ n.str # <<>> /\ Says(s, Always(n.str))

IsKey(n)  == n.key = Key(Len(n.key))
HasKey(n) == n.key = Key(Len(n.key)) /\ Len(n.key) > 0

\* The format o follows start.
After(s, start, o, mean, done) == o \in done /\ \E t : Says(t, mean[o]) /\ s = start \o t

\* What a substitution that is complete, but for its brace, has read since the first.
Sides(n, s, mean, done) ==
  \/ n.type = "basic" /\ s = n.key
  \/ n.type = "if exists" /\ After(s, n.key \o <<"?">>, n.if_true, mean, done)
  \/ n.type = "if absent" /\ After(s, n.key \o <<"!">>, n.if_false, mean, done)
  \/ /\ n.type = "ternary" /\ n.if_true \in done
     /\ \E t : /\ Says(t, mean[n.if_true])
               /\ After(s, n.key \o <<"?">> \o t \o <<"!">>, n.if_false, mean, done)
  \/ n.type = "fallback" /\ After(s, n.key \o <<"?", "!">>, n.if_false, mean, done)

\* The same where an else may follow.
OneSide(n, s, ahead, mean, done) ==
  \/ n.type = "basic" /\ s = n.key
  \/ n.type = "if exists" /\ After(s, n.key \o <<"?">>, n.if_true, mean, done)
  \/ n.type = "fallback" /\ s = n.key \o <<"?">> /\ ahead = "!"

\* A substitution as it begins.
Brace     == "{"
Opened(s) == <<Brace>> \o s

\* What the function that runs has read.
Reads(fn, n, s, ahead, mean, done) ==
  /\ fn = "format"  => NodesRead(n.nodes, s, mean, done)
  /\ fn = "node"    => \E nodes \in Seq(Int) : /\ n.nodes = Append(nodes, Junk)
                                               /\ NodesRead(nodes, s, mean, done)
  /\ fn = "literal" => LiteralRead(n, s)
  /\ fn = "escaped" => \E t \in Seq(Chars) : s = t \o <<"\\">> /\ LiteralRead(n, t)
  /\ fn = "open"    => n.key = <<>> /\ s = <<>> /\ ahead = Brace
  /\ fn = "key"     => IsKey(n) /\ s = Opened(n.key)
  /\ fn = "then"    => HasKey(n) /\ s = Opened(n.key \o <<"?">>)
  /\ fn = "else"    => HasKey(n) /\ \E t \in Seq(Chars) : /\ s = Opened(t)
                                                          /\ OneSide(n, t, ahead, mean, done)
  /\ fn = "close"   => HasKey(n) /\ \E t \in Seq(Chars) : /\ s = Opened(t)
                                                          /\ Sides(n, t, mean, done)

\* What a function has read that waits for the one that reads child.
WaitsForElse(n, s, child, mean, done) ==
  /\ n.if_false = child
  /\ \/ n.type = "if absent" /\ s = n.key \o <<"!">>
     \/ /\ n.type = "ternary" /\ n.if_true \in done
        /\ \E t : Says(t, mean[n.if_true]) /\ s = n.key \o <<"?">> \o t \o <<"!">>
     \/ n.type = "fallback" /\ s = n.key \o <<"?", "!">>

Waits(fn, n, s, child, mean, done) ==
  /\ fn \in {"format", "else", "close"}
  /\ fn = "format" => \E nodes \in Seq(Int) : /\ n.nodes = Append(nodes, child)
                                              /\ NodesRead(nodes, s, mean, done)
  /\ fn = "else"   => /\ HasKey(n) /\ n.type = "if exists" /\ n.if_true = child
                      /\ s = Opened(n.key \o <<"?">>)
  /\ fn = "close"  => HasKey(n) /\ \E t \in Seq(Chars) : /\ s = Opened(t)
                                                         /\ WaitsForElse(n, t, child, mean, done)

DoneOf(hp, fr) == {o \in 1..Len(hp) : \A i \in 1..Len(fr) : fr[i].object # o}

\* The text is cut into what the frames have read, own; pre is what comes before.
Reading(mean, own, pre, tx, ahead, hp, fr) ==
  /\ mean \in [Nat -> Meanings]
  /\ own \in [Nat -> Seq(Chars)] /\ pre \in [Nat -> Seq(Chars)]
  /\ \A o \in DoneOf(hp, fr) : Expands(hp[o], mean[o], mean, DoneOf(hp, fr))
  /\ \A i \in 1..Len(fr) - 1 :
       /\ Waits(fr[i].fn, hp[fr[i].object], own[i], fr[i + 1].object, mean, DoneOf(hp, fr))
       /\ pre[i + 1] = pre[i] \o own[i]
  /\ fr # <<>> => /\ fr[1].object = 1 /\ pre[1] = <<>>
                  /\ tx = pre[Len(fr)] \o own[Len(fr)]
                  /\ Reads(fr[Len(fr)].fn, hp[fr[Len(fr)].object], own[Len(fr)], ahead,
                           mean, DoneOf(hp, fr))
  /\ fr = <<>> => Says(tx, mean[1])

MeaningInv ==
  state # "failed" =>
    /\ Len(text) <= MaxText /\ (wchar \in Chars => Len(text) < MaxText)
    /\ \E mean, own, pre : Reading(mean, own, pre, text, wchar, heap, frames)

-----------------------------------------------------------------------------
(* The meaning of what is complete does not change with the rest.          *)

Agree(mean, done, mean2, done2) == done \subseteq done2 /\ \A o \in done : mean2[o] = mean[o]

LEMMA JoinsStay ==
  ASSUME NEW mean, NEW done, NEW mean2, NEW done2, Agree(mean, done, mean2, done2),
         NEW nodes, NEW m, Joins(nodes, m, mean, done)
  PROVE  Joins(nodes, m, mean2, done2)
<1>1. PICK u \in [0..Len(nodes) -> Meanings] :
        /\ u[0] = Always(<<>>)
        /\ \A i \in 1..Len(nodes) : u[i] = Both(u[i - 1], mean[nodes[i]])
        /\ m = u[Len(nodes)]
  BY DEF Joins
<1>2. \A i \in 1..Len(nodes) : nodes[i] \in done2 /\ mean2[nodes[i]] = mean[nodes[i]]
  BY DEF Joins, Agree
<1>. QED  BY <1>1, <1>2 DEF Joins

LEMMA ExpandsStay ==
  ASSUME NEW mean, NEW done, NEW mean2, NEW done2, Agree(mean, done, mean2, done2),
         NEW n, NEW m, Expands(n, m, mean, done)
  PROVE  Expands(n, m, mean2, done2)
<1>1. Joins(n.nodes, m, mean, done) => Joins(n.nodes, m, mean2, done2)
  BY JoinsStay
<1>2. SubstExpands(n, m, mean, done) => SubstExpands(n, m, mean2, done2)
  BY DEF SubstExpands, Agree
<1>. QED  BY <1>1, <1>2 DEF Expands

LEMMA NodesStay ==
  ASSUME NEW mean, NEW done, NEW mean2, NEW done2, Agree(mean, done, mean2, done2),
         NEW nodes, NEW s, NodesRead(nodes, s, mean, done)
  PROVE  NodesRead(nodes, s, mean2, done2)
BY JoinsStay, Zenon DEF NodesRead

LEMMA WaitsStay ==
  ASSUME NEW mean, NEW done, NEW mean2, NEW done2, Agree(mean, done, mean2, done2),
         NEW fn, NEW n, NEW s, NEW child, Waits(fn, n, s, child, mean, done)
  PROVE  Waits(fn, n, s, child, mean2, done2)
<1>1. \A nodes : NodesRead(nodes, s, mean, done) => NodesRead(nodes, s, mean2, done2)
  BY NodesStay
<1>2. \A t : WaitsForElse(n, t, child, mean, done) => WaitsForElse(n, t, child, mean2, done2)
  BY DEF WaitsForElse, Agree
<1>. QED  BY <1>1, <1>2, Zenon DEF Waits

LEMMA BothIs ==
  ASSUME NEW m1 \in Meanings, NEW m2 \in Meanings
  PROVE  /\ Both(m1, m2) \in Meanings
         /\ m1 = Always(<<>>) => Both(m1, m2) = m2
<1>. DEFINE S == Seq(Chars \union {"="})
<1>1. \A d \in Dicts : m1[d] \in S /\ m2[d] \in S
  BY DEF Meanings
<1>2. \A d \in Dicts : m1[d] \o m2[d] \in S /\ <<>> \o m2[d] = m2[d]
  BY <1>1, ConcatProperties, ConcatEmptySeq
<1>. HIDE DEF S
<1>3. Both(m1, m2) \in [Dicts -> S]
  BY <1>2 DEF Both
<1>4. m1 = Always(<<>>) => \A d \in Dicts : m1[d] = <<>>
  BY DEF Always
<1>5. m1 = Always(<<>>) => Both(m1, m2) = [d \in Dicts |-> m2[d]]
  BY <1>2, <1>4 DEF Both
<1>6. m2 = [d \in Dicts |-> m2[d]]
  BY DEF Meanings
<1>. QED  BY <1>3, <1>5, <1>6 DEF Meanings, S

\* One node more.
LEMMA JoinsOneMore ==
  ASSUME NEW mean, NEW done, NEW nodes \in Seq(Int), NEW m, Joins(nodes, m, mean, done),
         NEW o \in Int, o \in done, mean[o] \in Meanings
  PROVE  Joins(Append(nodes, o), Both(m, mean[o]), mean, done)
<1>1. PICK u \in [0..Len(nodes) -> Meanings] :
        /\ u[0] = Always(<<>>)
        /\ \A i \in 1..Len(nodes) : u[i] = Both(u[i - 1], mean[nodes[i]])
        /\ m = u[Len(nodes)]
  BY DEF Joins
<1>. DEFINE k == Len(nodes)
            more == Append(nodes, o)
            v == [i \in 0..k + 1 |-> IF i = k + 1 THEN Both(m, mean[o]) ELSE u[i]]
<1>2. /\ k \in Nat /\ Len(more) = k + 1 /\ more[k + 1] = o
      /\ \A i \in 1..k : more[i] = nodes[i]
  BY AppendProperties, LenProperties
<1>. HIDE DEF more
<1>8. k \in Nat /\ m \in Meanings
  BY <1>1, <1>2
<1>9. v \in [0..k + 1 -> Meanings]
  BY <1>1, <1>8, BothIs
<1>. HIDE DEF k
<1>3. /\ v[k + 1] = Both(m, mean[o]) /\ \A i \in 0..k : v[i] = u[i]
  BY <1>2
<1>. HIDE DEF v
<1>4. v[0] = Always(<<>>) /\ v[k] = m
  BY <1>1, <1>2, <1>3 DEF k
<1>5. \A i \in 1..k + 1 : v[i] = Both(v[i - 1], mean[more[i]])
  <2>. TAKE i \in 1..k + 1
  <2>1. CASE i = k + 1
    BY <1>2, <1>3, <1>4, <2>1
  <2>2. CASE i # k + 1
    <3>1. i \in 1..k /\ i - 1 \in 0..k /\ i \in 0..k
      BY <1>2, <2>2
    <3>2. u[i] = Both(u[i - 1], mean[nodes[i]])
      BY <1>1, <3>1 DEF k
    <3>. QED  BY <1>2, <1>3, <3>1, <3>2
  <2>. QED  BY <2>1, <2>2
<1>6. \A i \in 1..k + 1 : more[i] \in done
  <2>1. \A i \in 1..k : nodes[i] \in done
    BY DEF Joins, k
  <2>. QED  BY <1>2, <2>1
<1>7. \E w \in [0..Len(more) -> Meanings] :
             /\ w[0] = Always(<<>>)
             /\ \A i \in 1..Len(more) : w[i] = Both(w[i - 1], mean[more[i]])
             /\ Both(m, mean[o]) = w[Len(more)]
  BY <1>2, <1>3, <1>4, <1>5, <1>9
<1>10. Joins(more, Both(m, mean[o]), mean, done)
  BY <1>2, <1>6, <1>7 DEF Joins
<1>. QED  BY <1>10 DEF more

LEMMA AlwaysIs ==
  ASSUME NEW s \in Seq(Chars)
  PROVE  Always(s) \in Meanings
<1>1. s \in Seq(Chars \union {"="})
  OBVIOUS
<1>. QED  BY <1>1 DEF Always, Meanings

LEMMA JoinsNone == ASSUME NEW mean, NEW done  PROVE Joins(<<>>, Always(<<>>), mean, done)
<1>. DEFINE u == [i \in 0..0 |-> Always(<<>>)]
<1>1. Always(<<>>) \in Meanings
  BY AlwaysIs, EmptySeq
<1>2. u \in [0..0 -> Meanings] /\ u[0] = Always(<<>>)
  BY <1>1
<1>. HIDE DEF u
<1>3. Len(<<>>) = 0 /\ \A i : i \notin 1..0
  OBVIOUS
<1>. QED  BY <1>2, <1>3 DEF Joins

\* What a format has read, when one more of its nodes is complete.
LEMMA NodeIsRead ==
  ASSUME NEW mean, NEW done, NEW nodes \in Seq(Int), NEW s \in Seq(Chars), NodesRead(nodes, s, mean, done),
         NEW o \in Int, o \in done, mean[o] \in Meanings, NEW t, Says(t, mean[o]),
         Len(s) + Len(t) <= MaxText
  PROVE  NodesRead(Append(nodes, o), s \o t, mean, done)
<1>1. Append(nodes, o) # <<>>
  BY AppendProperties, LenProperties
<1>2. t \in Seq(Chars)
  BY DEF Says
<1>3. CASE nodes = <<>> /\ s = <<>>
  <2>1. Joins(nodes, Always(<<>>), mean, done) /\ Always(<<>>) \in Meanings
    BY <1>3, JoinsNone, AlwaysIs, EmptySeq
  <2>2. Joins(Append(nodes, o), Both(Always(<<>>), mean[o]), mean, done)
    BY <2>1, JoinsOneMore
  <2>3. Both(Always(<<>>), mean[o]) = mean[o]
    BY <2>1, BothIs
  <2>4. s \o t = t
    BY <1>2, <1>3, ConcatEmptySeq
  <2>. QED  BY <1>1, <2>2, <2>3, <2>4 DEF NodesRead
<1>4. CASE nodes # <<>>
  <2>1. PICK m : Joins(nodes, m, mean, done) /\ Says(s, m)
    BY <1>4 DEF NodesRead
  <2>2. Joins(Append(nodes, o), Both(m, mean[o]), mean, done)
    BY <2>1, JoinsOneMore
  <2>3. Says(s \o t, Both(m, mean[o]))
    BY <2>1, SaysBoth
  <2>. QED  BY <1>1, <2>2, <2>3 DEF NodesRead
<1>. QED  BY <1>3, <1>4 DEF NodesRead

\* A substitution, when the format behind its mark is complete.
LEMMA ElseIsRead ==
  ASSUME NEW mean, NEW done, NEW n \in Substs, NEW s \in Seq(Chars), NEW child, WaitsForElse(n, s, child, mean, done),
         child \in done, NEW t, Says(t, mean[child])
  PROVE  Sides(n, s \o t, mean, done)
<1>1. n.if_false = child
  BY DEF WaitsForElse
<1>2. CASE n.type = "if absent" /\ s = n.key \o <<"!">>
  <2>1. After(s \o t, n.key \o <<"!">>, n.if_false, mean, done)
    BY <1>1, <1>2 DEF After
  <2>. QED  BY <1>2, <2>1 DEF Sides
<1>3. CASE /\ n.type = "ternary" /\ n.if_true \in done
           /\ \E t2 : Says(t2, mean[n.if_true]) /\ s = n.key \o <<"?">> \o t2 \o <<"!">>
  <2>1. PICK t2 : Says(t2, mean[n.if_true]) /\ s = n.key \o <<"?">> \o t2 \o <<"!">>
    BY <1>3
  <2>2. After(s \o t, n.key \o <<"?">> \o t2 \o <<"!">>, n.if_false, mean, done)
    BY <1>1, <2>1 DEF After
  <2>. QED  BY <1>3, <2>1, <2>2 DEF Sides
<1>4. CASE n.type = "fallback" /\ s = n.key \o <<"?", "!">>
  <2>1. After(s \o t, n.key \o <<"?", "!">>, n.if_false, mean, done)
    BY <1>1, <1>4 DEF After
  <2>. QED  BY <1>4, <2>1 DEF Sides
<1>. QED  BY <1>2, <1>3, <1>4 DEF WaitsForElse

\* A function that has waited goes on.
LEMMA WaitsThenReads ==
  ASSUME NEW mean, NEW done, NEW fn, NEW n, NEW s \in Seq(Chars), NEW child \in Int,
         Waits(fn, n, s, child, mean, done), child \in done, mean[child] \in Meanings,
         fn # "format" => n \in Substs,
         NEW t, Says(t, mean[child]), Len(s) + Len(t) <= MaxText, NEW ahead
  PROVE  Reads(fn, n, s \o t, ahead, mean, done)
<1>. DEFINE open == <<Brace>>
<1>1. t \in Seq(Chars) /\ open \in Seq(Chars)
  BY CharsAre, One, Zenon DEF Says, Brace
<1>2. CASE fn = "format"
  <2>1. PICK nodes \in Seq(Int) : n.nodes = Append(nodes, child) /\ NodesRead(nodes, s, mean, done)
    BY <1>2 DEF Waits
  <2>2. NodesRead(n.nodes, s \o t, mean, done)
    BY <2>1, NodeIsRead
  <2>. QED  BY <1>2, <2>2 DEF Reads
<1>3. CASE fn = "else"
  <2>1. HasKey(n) /\ n.type = "if exists" /\ n.if_true = child /\ s = open \o (n.key \o <<"?">>)
    BY <1>3, Zenon DEF Waits, Opened
  <2>. DEFINE start == n.key \o <<"?">>
  <2>2. start \in Seq(Chars)
    <3>1. n.key \in Seq(Chars) /\ <<"?">> \in Seq(Chars)
      BY <1>3, CharsAre, One DEF Substs
    <3>. QED  BY <3>1, Glued
  <2>3. OneSide(n, start \o t, ahead, mean, done)
    BY <2>1 DEF OneSide, After
  <2>. HIDE DEF open
  <2>6. s = open \o start
    BY <2>1
  <2>. HIDE DEF start
  <2>4. s \o t = open \o (start \o t) /\ start \o t \in Seq(Chars)
    <3>1. Groups(open, start, t) /\ start \o t \in Seq(Chars)
      BY <1>1, <2>2, GroupsAll, Glued, Zenon
    <3>. QED  BY <2>6, <3>1, Zenon DEF Groups
  <2>5. HasKey(n) /\ \E w \in Seq(Chars) : s \o t = Opened(w) /\ OneSide(n, w, ahead, mean, done)
    BY <2>1, <2>3, <2>4, Zenon DEF open, Opened
  <2>. QED  BY <1>3, <2>5, Zenon DEF Reads
<1>4. CASE fn = "close"
  <2>1. HasKey(n) /\ \E w \in Seq(Chars) : s = open \o w /\ WaitsForElse(n, w, child, mean, done)
    BY <1>4, Zenon DEF Waits, Opened
  <2>. HIDE DEF open
  <2>2. PICK w \in Seq(Chars) : s = open \o w /\ WaitsForElse(n, w, child, mean, done)
    BY <2>1
  <2>3. s \o t = open \o (w \o t) /\ w \o t \in Seq(Chars)
    <3>1. Groups(open, w, t) /\ w \o t \in Seq(Chars)
      BY <1>1, GroupsAll, Glued, Zenon
    <3>. QED  BY <2>2, <3>1, Zenon DEF Groups
  <2>4. Sides(n, w \o t, mean, done)
    BY <1>4, <2>2, ElseIsRead
  <2>5. HasKey(n) /\ \E w2 \in Seq(Chars) : s \o t = Opened(w2) /\ Sides(n, w2, mean, done)
    BY <2>1, <2>3, <2>4, Zenon DEF open, Opened
  <2>. QED  BY <1>4, <2>5, Zenon DEF Reads
<1>. QED  BY <1>2, <1>3, <1>4 DEF Waits

-----------------------------------------------------------------------------
(* What a step of the parser does to what has been read.                   *)

LEMMA Update ==
  ASSUME NEW S, NEW f \in [Nat -> S], NEW n \in Nat, NEW x \in S
  PROVE  /\ [f EXCEPT ![n] = x] \in [Nat -> S] /\ [f EXCEPT ![n] = x][n] = x
         /\ \A i \in Nat : i # n => [f EXCEPT ![n] = x][i] = f[i]
OBVIOUS

LEMMA EmptyText == <<>> \in Seq(Chars)
BY EmptySeq

\* The function that runs goes on, and has consumed c.
LEMMA ReadOn ==
  ASSUME NEW mean, NEW own, NEW pre, NEW tx, NEW ahead, NEW hp, NEW fr,
         Reading(mean, own, pre, tx, ahead, hp, fr),
         NEW N \in Nat \ {0}, Len(fr) = N, NEW o, o = fr[N].object, Len(hp) \in Nat,
         \A i \in 1..N - 1 : fr[i].object \in 1..Len(hp) /\ fr[i].object # o,
         NEW hp2, NEW fr2, Len(hp2) = Len(hp), \A p \in 1..Len(hp) : p # o => hp2[p] = hp[p],
         Len(fr2) = N, fr2[N].object = o, \A i \in 1..N - 1 : fr2[i] = fr[i],
         NEW c \in Seq(Chars), NEW tx2, tx2 = tx \o c, NEW ahead2,
         Reads(fr2[N].fn, hp2[o], own[N] \o c, ahead2, mean, DoneOf(hp, fr))
  PROVE  Reading(mean, [own EXCEPT ![N] = own[N] \o c], pre, tx2, ahead2, hp2, fr2)
<1>. DEFINE own2 == [own EXCEPT ![N] = own[N] \o c]
            done == DoneOf(hp, fr)
<1>1. fr # <<>> /\ fr2 # <<>>
  OBVIOUS
<1>2. /\ mean \in [Nat -> Meanings]
      /\ own \in [Nat -> Seq(Chars)] /\ pre \in [Nat -> Seq(Chars)]
      /\ \A p \in done : Expands(hp[p], mean[p], mean, done)
      /\ \A i \in 1..N - 1 :
           /\ Waits(fr[i].fn, hp[fr[i].object], own[i], fr[i + 1].object, mean, done)
           /\ pre[i + 1] = pre[i] \o own[i]
      /\ fr[1].object = 1 /\ pre[1] = <<>> /\ tx = pre[N] \o own[N]
  BY <1>1 DEF Reading
<1>3. own[N] \in Seq(Chars) /\ pre[N] \in Seq(Chars)
  BY <1>2
<1>14. own[N] \o c \in Seq(Chars)
  BY <1>3, Glued
<1>4. own2 \in [Nat -> Seq(Chars)] /\ own2[N] = own[N] \o c /\ \A i \in 1..N - 1 : own2[i] = own[i]
  <2>1. \A i \in 1..N - 1 : i \in Nat /\ i # N
    OBVIOUS
  <2>. HIDE DEF done
  <2>2. /\ own2 \in [Nat -> Seq(Chars)] /\ own2[N] = own[N] \o c
        /\ \A i \in Nat : i # N => own2[i] = own[i]
    BY <1>2, <1>14, Update, Zenon
  <2>. QED  BY <2>1, <2>2, Zenon
<1>5. \A i \in 1..N : fr2[i].object = fr[i].object
  OBVIOUS
<1>6. DoneOf(hp2, fr2) = done
  BY <1>5 DEF DoneOf
<1>7. \A p \in done : hp2[p] = hp[p]
  BY DEF DoneOf
<1>8. tx2 = pre[N] \o own2[N]
  <2>1. (pre[N] \o own[N]) \o c = pre[N] \o (own[N] \o c)
    <3>1. c \in Seq(Chars)
      OBVIOUS
    <3>2. Groups(pre[N], own[N], c)
      BY <1>3, <3>1, GroupsAll, Zenon
    <3>. QED  BY <3>2, Zenon DEF Groups
  <2>. QED  BY <1>2, <1>4, <2>1, Zenon
<1>. HIDE DEF own2, done
<1>9. \A i \in 1..N - 1 : Waits(fr2[i].fn, hp2[fr2[i].object], own2[i], fr2[i + 1].object, mean, done)
  <2>. TAKE i \in 1..N - 1
  <2>1. i \in 1..N /\ i + 1 \in 1..N
    OBVIOUS
  <2>2. fr2[i] = fr[i] /\ fr2[i + 1].object = fr[i + 1].object /\ own2[i] = own[i]
        /\ hp2[fr[i].object] = hp[fr[i].object]
    BY <1>4, <1>5, <2>1
  <2>. QED  BY <1>2, <2>2
<1>10. Reads(fr2[N].fn, hp2[fr2[N].object], own2[N], ahead2, mean, done)
  BY <1>4 DEF done
<1>11. \A p \in done : Expands(hp2[p], mean[p], mean, done)
  BY <1>2, <1>7
<1>12. fr2[1].object = 1
  <2>1. 1 \in 1..N
    OBVIOUS
  <2>. QED  BY <1>2, <1>5, <2>1
<1>13. Reading(mean, own2, pre, tx2, ahead2, hp2, fr2)
  BY <1>1, <1>2, <1>4, <1>6, <1>8, <1>9, <1>10, <1>11, <1>12 DEF Reading
<1>. QED  BY <1>13 DEF own2

\* It calls another, for the object it has just allocated.
LEMMA ReadCall ==
  ASSUME NEW mean, NEW own, NEW pre, NEW tx, NEW ahead, NEW hp, NEW fr,
         Reading(mean, own, pre, tx, ahead, hp, fr),
         NEW N \in Nat \ {0}, Len(fr) = N, NEW o, o = fr[N].object, Len(hp) \in Nat,
         \A i \in 1..N : fr[i].object \in 1..Len(hp),
         \A i \in 1..N - 1 : fr[i].object # o,
         NEW hp2, NEW fr2, Len(hp2) = Len(hp) + 1, \A p \in 1..Len(hp) : p # o => hp2[p] = hp[p],
         Len(fr2) = N + 1, fr2[N].object = o, fr2[N + 1].object = Len(hp) + 1,
         \A i \in 1..N - 1 : fr2[i] = fr[i],
         NEW c \in Seq(Chars), NEW tx2, tx2 = tx \o c, NEW ahead2,
         Waits(fr2[N].fn, hp2[o], own[N] \o c, Len(hp) + 1, mean, DoneOf(hp, fr)),
         Reads(fr2[N + 1].fn, hp2[Len(hp) + 1], <<>>, ahead2, mean, DoneOf(hp, fr))
  PROVE  Reading(mean, [[own EXCEPT ![N] = own[N] \o c] EXCEPT ![N + 1] = <<>>], [pre EXCEPT ![N + 1] = tx2],
                 tx2, ahead2, hp2, fr2)
<1>. DEFINE own2 == [[own EXCEPT ![N] = own[N] \o c] EXCEPT ![N + 1] = <<>>]
            pre2 == [pre EXCEPT ![N + 1] = tx2]
            done == DoneOf(hp, fr)
<1>1. fr # <<>> /\ fr2 # <<>>
  OBVIOUS
<1>2. /\ mean \in [Nat -> Meanings]
      /\ own \in [Nat -> Seq(Chars)] /\ pre \in [Nat -> Seq(Chars)]
      /\ \A p \in done : Expands(hp[p], mean[p], mean, done)
      /\ \A i \in 1..N - 1 :
           /\ Waits(fr[i].fn, hp[fr[i].object], own[i], fr[i + 1].object, mean, done)
           /\ pre[i + 1] = pre[i] \o own[i]
      /\ fr[1].object = 1 /\ pre[1] = <<>> /\ tx = pre[N] \o own[N]
  BY <1>1 DEF Reading
<1>3. own[N] \in Seq(Chars) /\ pre[N] \in Seq(Chars) /\ own[N] \o c \in Seq(Chars)
  BY <1>2, Glued
<1>4. tx2 = pre[N] \o (own[N] \o c) /\ tx2 \in Seq(Chars)
  <2>1. (pre[N] \o own[N]) \o c = pre[N] \o (own[N] \o c)
    <3>1. c \in Seq(Chars)
      OBVIOUS
    <3>2. Groups(pre[N], own[N], c)
      BY <1>3, <3>1, GroupsAll, Zenon
    <3>. QED  BY <3>2, Zenon DEF Groups
  <2>2. pre[N] \o (own[N] \o c) \in Seq(Chars)
    BY <1>3, Glued, Zenon
  <2>. QED  BY <1>2, <2>1, <2>2, Zenon
<1>5. /\ own2 \in [Nat -> Seq(Chars)] /\ own2[N] = own[N] \o c /\ own2[N + 1] = <<>>
      /\ \A i \in 1..N - 1 : own2[i] = own[i]
  <2>. DEFINE once == [own EXCEPT ![N] = own[N] \o c]
  <2>1. N + 1 \in Nat /\ N \in Nat /\ N # N + 1 /\ \A i \in 1..N - 1 : i \in Nat /\ i # N /\ i # N + 1
    OBVIOUS
  <2>2. /\ once \in [Nat -> Seq(Chars)] /\ once[N] = own[N] \o c
        /\ \A i \in Nat : i # N => once[i] = own[i]
    <3>1. own \in [Nat -> Seq(Chars)] /\ N \in Nat /\ own[N] \o c \in Seq(Chars)
      BY <1>2, <1>3, <2>1
    <3>. QED  BY <3>1, Update
  <2>. HIDE DEF once, done, pre2
  <2>3. /\ own2 \in [Nat -> Seq(Chars)] /\ own2[N + 1] = <<>>
        /\ \A i \in Nat : i # N + 1 => own2[i] = once[i]
    <3>1. own2 = [once EXCEPT ![N + 1] = <<>>]
      BY DEF once
    <3>. HIDE DEF own2
    <3>. QED  BY <2>1, <2>2, <3>1, EmptyText, Update, Zenon
  <2>. HIDE DEF own2
  <2>. QED  BY <2>1, <2>2, <2>3, Zenon
<1>6. /\ pre2 \in [Nat -> Seq(Chars)] /\ pre2[N + 1] = tx2
      /\ \A i \in 1..N : pre2[i] = pre[i]
  <2>1. N + 1 \in Nat /\ \A i \in 1..N : i \in Nat /\ i # N + 1
    OBVIOUS
  <2>2. /\ pre2 \in [Nat -> Seq(Chars)] /\ pre2[N + 1] = tx2
        /\ \A i \in Nat : i # N + 1 => pre2[i] = pre[i]
    <3>1. pre \in [Nat -> Seq(Chars)] /\ N + 1 \in Nat /\ tx2 \in Seq(Chars)
      BY <1>2, <1>4, <2>1
    <3>. QED  BY <3>1, Update
  <2>. HIDE DEF pre2
  <2>. QED  BY <2>1, <2>2, Zenon
<1>7. \A i \in 1..N : fr2[i].object = fr[i].object
  OBVIOUS
<1>8. DoneOf(hp2, fr2) = done
  <2>1. ASSUME NEW p  PROVE p \in DoneOf(hp2, fr2) <=> p \in done
    <3>1. CASE p = Len(hp) + 1
      <4>1. N + 1 \in 1..Len(fr2) /\ fr2[N + 1].object = p /\ p \notin 1..Len(hp)
        BY <3>1
      <4>. QED  BY <4>1 DEF DoneOf
    <3>2. CASE p # Len(hp) + 1
      <4>1. p \in 1..Len(hp2) <=> p \in 1..Len(hp)
        BY <3>2
      <4>2. (\A i \in 1..N + 1 : fr2[i].object # p) <=> \A i \in 1..N : fr[i].object # p
        BY <1>7, <3>2
      <4>. QED  BY <4>1, <4>2 DEF DoneOf
    <3>. QED  BY <3>1, <3>2
  <2>. QED  BY <2>1 DEF DoneOf
<1>9. \A p \in done : hp2[p] = hp[p]
  BY DEF DoneOf
<1>. HIDE DEF own2, pre2, done
<1>10. tx2 = pre2[N + 1] \o own2[N + 1]
  BY <1>4, <1>5, <1>6, ConcatEmptySeq, Zenon
<1>11. \A i \in 1..(N + 1) - 1 :
         /\ Waits(fr2[i].fn, hp2[fr2[i].object], own2[i], fr2[i + 1].object, mean, done)
         /\ pre2[i + 1] = pre2[i] \o own2[i]
  <2>. TAKE i \in 1..(N + 1) - 1
  <2>1. i \in 1..N
    OBVIOUS
  <2>2. CASE i = N
    <3>1. Waits(fr2[N].fn, hp2[fr2[N].object], own2[N], fr2[N + 1].object, mean, done)
      BY <1>5 DEF done
    <3>2. pre2[N + 1] = pre2[N] \o own2[N]
      <4>1. pre2[N] = pre[N] /\ own2[N] = own[N] \o c /\ pre2[N + 1] = tx2
        BY <1>5, <1>6, <2>1, <2>2
      <4>. QED  BY <1>4, <4>1, Zenon
    <3>. QED  BY <2>2, <3>1, <3>2
  <2>3. CASE i # N
    <3>1. i \in 1..N - 1 /\ i + 1 \in 1..N /\ fr[i].object \in 1..Len(hp) /\ fr[i].object # o
      BY <2>1, <2>3
    <3>2. fr2[i] = fr[i] /\ fr2[i + 1].object = fr[i + 1].object /\ own2[i] = own[i]
          /\ hp2[fr[i].object] = hp[fr[i].object] /\ pre2[i + 1] = pre[i + 1] /\ pre2[i] = pre[i]
      <4>1. /\ pre2[i + 1] = pre[i + 1] /\ pre2[i] = pre[i] /\ own2[i] = own[i]
        BY <1>5, <1>6, <2>1, <3>1, Zenon
      <4>2. fr2[i] = fr[i] /\ fr2[i + 1].object = fr[i + 1].object
        BY <1>7, <3>1, Zenon
      <4>. QED  BY <3>1, <4>1, <4>2, Zenon
    <3>. QED  BY <1>2, <3>1, <3>2
  <2>. QED  BY <2>2, <2>3
<1>12. Reads(fr2[N + 1].fn, hp2[fr2[N + 1].object], own2[N + 1], ahead2, mean, done)
  BY <1>5 DEF done
<1>13. \A p \in done : Expands(hp2[p], mean[p], mean, done)
  BY <1>2, <1>9
<1>14. fr2[1].object = 1 /\ pre2[1] = <<>>
  <2>1. 1 \in 1..N
    OBVIOUS
  <2>. QED  BY <1>2, <1>6, <1>7, <2>1, Zenon
<1>15. Reading(mean, own2, pre2, tx2, ahead2, hp2, fr2)
  BY <1>1, <1>2, <1>5, <1>6, <1>8, <1>10, <1>11, <1>12, <1>13, <1>14 DEF Reading
<1>. QED  BY <1>15 DEF own2, pre2

\* The text of frame n goes to the one below, if there is one.
Rejoined(own, n, last) == IF n = 1 THEN own ELSE [own EXCEPT ![n - 1] = own[n - 1] \o last]

LEMMA OneLess ==
  \A a \in Nat \ {0} : a # 1 => a - 1 \in Nat /\ a - 1 \in 1..a - 1 /\ a - 1 + 1 = a /\ a - 1 # 0
OBVIOUS

\* It returns: its object is complete, and means m.
LEMMA ReadReturn ==
  ASSUME NEW mean, NEW own, NEW pre, NEW tx, NEW ahead, NEW hp, NEW fr,
         Reading(mean, own, pre, tx, ahead, hp, fr),
         NEW N \in Nat \ {0}, Len(fr) = N, NEW o \in Nat, o = fr[N].object, Len(hp) \in Nat,
         o \in 1..Len(hp), \A i \in 1..N - 1 : fr[i].object # o,
         NEW fr2, Len(fr2) = N - 1, fr2 \in Seq(Frames), \A i \in 1..N - 1 : fr2[i] = fr[i],
         \A i \in 1..N - 1 : fr[i].fn # "format" => hp[fr[i].object] \in Substs,
         NEW c \in Seq(Chars), NEW tx2, tx2 = tx \o c, Len(tx2) <= MaxText, NEW ahead2,
         NEW m \in Meanings, Expands(hp[o], m, mean, DoneOf(hp, fr)), Says(own[N] \o c, m)
  PROVE  Reading([mean EXCEPT ![o] = m], Rejoined(own, N, own[N] \o c), pre, tx2, ahead2, hp, fr2)
<1>. DEFINE done == DoneOf(hp, fr)
            done2 == DoneOf(hp, fr2)
            mean2 == [mean EXCEPT ![o] = m]
            last == own[N] \o c
<1>1. fr # <<>>
  OBVIOUS
<1>2. /\ mean \in [Nat -> Meanings]
      /\ own \in [Nat -> Seq(Chars)] /\ pre \in [Nat -> Seq(Chars)]
      /\ \A p \in done : Expands(hp[p], mean[p], mean, done)
      /\ \A i \in 1..N - 1 :
           /\ Waits(fr[i].fn, hp[fr[i].object], own[i], fr[i + 1].object, mean, done)
           /\ pre[i + 1] = pre[i] \o own[i]
      /\ fr[1].object = 1 /\ pre[1] = <<>> /\ tx = pre[N] \o own[N]
  BY <1>1 DEF Reading
<1>3. own[N] \in Seq(Chars) /\ pre[N] \in Seq(Chars) /\ last \in Seq(Chars)
  BY <1>2, Glued
<1>4. mean2 \in [Nat -> Meanings] /\ mean2[o] = m /\ \A p \in Nat : p # o => mean2[p] = mean[p]
  BY <1>2, Update, Zenon
<1>5. o \notin done
  BY DEF DoneOf
<1>6. \A p : p \in done2 <=> p \in done \/ p = o
  <2>. TAKE p
  <2>1. p \in done <=> p \in 1..Len(hp) /\ \A i \in 1..N : fr[i].object # p
    BY DEF DoneOf
  <2>2. p \in done2 <=> p \in 1..Len(hp) /\ \A i \in 1..N - 1 : fr[i].object # p
    BY DEF DoneOf
  <2>3. (\A i \in 1..N : fr[i].object # p) <=> (\A i \in 1..N - 1 : fr[i].object # p) /\ o # p
    <3>1. \A i : i \in 1..N <=> i \in 1..N - 1 \/ i = N
      OBVIOUS
    <3>. QED  BY <3>1
  <2>. HIDE DEF done, done2
  <2>. QED  BY <2>1, <2>2, <2>3
<1>7. done \subseteq Nat
  BY DEF DoneOf
<1>. HIDE DEF mean2, done, done2, last
<1>8. Agree(mean, done, mean2, done2)
  BY <1>4, <1>5, <1>6, <1>7 DEF Agree
<1>9. \A p \in done2 : Expands(hp[p], mean2[p], mean2, done2)
  <2>. TAKE p \in done2
  <2>1. CASE p = o
    <3>1. Expands(hp[o], m, mean2, done2)
      BY <1>8, ExpandsStay DEF done
    <3>. QED  BY <1>4, <2>1, <3>1
  <2>2. CASE p # o
    <3>1. p \in done /\ mean2[p] = mean[p]
      BY <1>4, <1>6, <1>7, <2>2
    <3>. QED  BY <1>2, <1>8, <3>1, ExpandsStay
  <2>. QED  BY <2>1, <2>2
<1>10. tx2 = pre[N] \o last
  <2>1. (pre[N] \o own[N]) \o c = pre[N] \o (own[N] \o c)
    <3>1. c \in Seq(Chars)
      OBVIOUS
    <3>2. Groups(pre[N], own[N], c)
      BY <1>3, <3>1, GroupsAll, Zenon
    <3>. QED  BY <3>2, Zenon DEF Groups
  <2>. QED  BY <1>2, <2>1 DEF last
<1>11. Says(last, m)
  BY DEF last
<1>12. CASE N = 1
  <2>1. fr2 = <<>>
    BY <1>12, EmptySeq
  <2>2. o = 1 /\ tx2 = last
    BY <1>2, <1>3, <1>10, <1>12, ConcatEmptySeq
  <2>3. Says(tx2, mean2[1])
    BY <1>4, <1>11, <2>2
  <2>4. Len(fr2) = 0 /\ \A i : i \notin 1..Len(fr2) - 1
    BY <1>12
  <2>5. Reading(mean2, own, pre, tx2, ahead2, hp, fr2)
    BY <1>2, <1>4, <1>9, <2>1, <2>3, <2>4, Zenon DEF Reading, done2
  <2>. QED  BY <1>12, <2>5 DEF Rejoined, mean2
<1>13. CASE N # 1
  <2>. DEFINE K == N - 1
              own2 == [own EXCEPT ![K] = own[K] \o last]
  <2>1. K \in Nat /\ K \in 1..N - 1 /\ K + 1 = N /\ K # 0 /\ Len(fr2) = K
    BY <1>13, OneLess, Zenon
  <2>. HIDE DEF K
  <2>2. own[K] \in Seq(Chars) /\ pre[K] \in Seq(Chars) /\ own[K] \o last \in Seq(Chars)
    BY <1>2, <1>3, <2>1, Glued
  <2>3. /\ own2 \in [Nat -> Seq(Chars)] /\ own2[K] = own[K] \o last
        /\ \A i \in Nat : i # K => own2[i] = own[i]
    <3>1. own \in [Nat -> Seq(Chars)] /\ K \in Nat
      BY <1>2, <2>1
    <3>. QED  BY <2>2, <3>1, Update
  <2>. HIDE DEF own2
  <2>4. Waits(fr[K].fn, hp[fr[K].object], own[K], o, mean, done) /\ pre[N] = pre[K] \o own[K]
    BY <1>2, <2>1
  <2>5. tx2 = pre[K] \o own2[K]
    <3>1. (pre[K] \o own[K]) \o last = pre[K] \o (own[K] \o last)
      <4>1. last \in Seq(Chars)
        BY <1>3
      <4>2. Groups(pre[K], own[K], last)
        BY <2>2, <4>1, GroupsAll, Zenon
      <4>. QED  BY <4>2, Zenon DEF Groups
    <3>. QED  BY <1>10, <2>3, <2>4, <3>1, Zenon
  <2>6. Len(own[K]) + Len(last) <= MaxText
    <3>1. Len(tx2) = Len(pre[K]) + Len(own2[K]) /\ Len(own2[K]) = Len(own[K]) + Len(last)
      <4>1. last \in Seq(Chars) /\ own2[K] = own[K] \o last /\ own2[K] \in Seq(Chars)
        BY <1>3, <2>2, <2>3
      <4>. QED  BY <2>2, <2>5, <4>1, Glued
    <3>2. Len(pre[K]) \in Nat /\ Len(own[K]) \in Nat /\ Len(last) \in Nat
      BY <1>3, <2>2, LenProperties
    <3>3. Len(tx2) <= MaxText
      OBVIOUS
    <3>4. Len(pre[K]) + (Len(own[K]) + Len(last)) <= MaxText
      BY <3>1, <3>3, Zenon
    <3>. HIDE DEF last
    <3>5. \A x, y, z \in Nat : x + (y + z) <= MaxText => y + z <= MaxText
      BY FormatAssumption
    <3>. QED  BY <3>2, <3>4, <3>5, Zenon
  <2>7. Waits(fr[K].fn, hp[fr[K].object], own[K], o, mean2, done2)
    BY <1>8, <2>4, WaitsStay
  <2>8. /\ o \in done2 /\ mean2[o] \in Meanings /\ Says(last, mean2[o]) /\ o \in Int
        /\ fr[K].fn # "format" => hp[fr[K].object] \in Substs
    BY <1>4, <1>6, <1>11, <2>1
  <2>9. Reads(fr[K].fn, hp[fr[K].object], own2[K], ahead2, mean2, done2)
    <3>1. Reads(fr[K].fn, hp[fr[K].object], own[K] \o last, ahead2, mean2, done2)
      BY <2>2, <2>6, <2>7, <2>8, WaitsThenReads
    <3>. QED  BY <2>3, <3>1
  <2>10. fr2[K] = fr[K] /\ fr2[1].object = 1
    <3>1. 1 \in 1..N - 1
      BY <1>13
    <3>. QED  BY <1>2, <2>1, <3>1
  <2>11. \A i \in 1..K - 1 :
           /\ Waits(fr2[i].fn, hp[fr2[i].object], own2[i], fr2[i + 1].object, mean2, done2)
           /\ pre[i + 1] = pre[i] \o own2[i]
    <3>. TAKE i \in 1..K - 1
    <3>1. i \in 1..N - 1 /\ i + 1 \in 1..N - 1 /\ i \in Nat /\ i # K
      BY <2>1
    <3>2. fr2[i] = fr[i] /\ fr2[i + 1] = fr[i + 1] /\ own2[i] = own[i]
      BY <2>3, <3>1
    <3>3. Waits(fr[i].fn, hp[fr[i].object], own[i], fr[i + 1].object, mean, done)
          /\ pre[i + 1] = pre[i] \o own[i]
      BY <1>2, <3>1
    <3>4. Waits(fr[i].fn, hp[fr[i].object], own[i], fr[i + 1].object, mean2, done2)
      BY <1>8, <3>3, WaitsStay
    <3>. QED  BY <3>2, <3>3, <3>4
  <2>12. fr2 # <<>>
    BY <2>1
  <2>13. Reading(mean2, own2, pre, tx2, ahead2, hp, fr2)
    BY <1>2, <1>4, <1>9, <2>1, <2>3, <2>5, <2>9, <2>10, <2>11, <2>12 DEF Reading, done2
  <2>. QED  BY <1>13, <2>13 DEF Rejoined, mean2, own2, K, last
<1>. QED  BY <1>12, <1>13

-----------------------------------------------------------------------------
(* The same for the steps of the parser.                                   *)

\* The character is left, or consumed.
Takes(c) == \/ c = <<>> /\ Peek
            \/ c = <<wchar>> /\ wchar \in Chars /\ Consume

LEMMA TakesOne ==
  ASSUME TreeInv, NEW c, Takes(c), Len(text) <= MaxText, wchar \in Chars => Len(text) < MaxText,
         text \in Seq(Chars)
  PROVE  /\ c \in Seq(Chars) /\ text' = text \o c
         /\ Len(text') <= MaxText /\ (wchar' \in Chars => Len(text') < MaxText)
<1>1. CASE c = <<>> /\ Peek
  <2>1. text' = text /\ wchar' = wchar
    BY <1>1 DEF Peek
  <2>2. text \o <<>> = text
    BY ConcatEmptySeq
  <2>. QED  BY <1>1, <2>1, <2>2, EmptyText
<1>2. CASE c = <<wchar>> /\ wchar \in Chars /\ Consume
  <2>1. text' = Append(text, wchar) /\ wchar' = Unread
    BY <1>2 DEF Consume
  <2>2. Unread \notin Chars
    BY DEF Unread, Chars, Plain, Escapable
  <2>3. c \in Seq(Chars) /\ Append(text, wchar) = text \o <<wchar>>
    BY <1>2, AppendIsConcat
  <2>4. Len(text') = Len(text) + 1 /\ Len(text) \in Nat
    BY <1>2, <2>1, AppendProperties, LenProperties
  <2>. QED  BY <1>2, <2>1, <2>2, <2>3, <2>4, FormatAssumption
<1>. QED  BY <1>1, <1>2 DEF Takes

\* A sequence, and one or two more elements.
LEMMA WithMore ==
  ASSUME NEW S, NEW s \in Seq(S), NEW a, NEW b
  PROVE  /\ Len(Append(s, a)) = Len(s) + 1 /\ Append(s, a)[Len(s) + 1] = a
         /\ \A i \in 1..Len(s) : Append(s, a)[i] = s[i]
         /\ Len(s \o <<a, b>>) = Len(s) + 2
         /\ (s \o <<a, b>>)[Len(s) + 1] = a /\ (s \o <<a, b>>)[Len(s) + 2] = b
         /\ \A i \in 1..Len(s) : (s \o <<a, b>>)[i] = s[i]
<1>. DEFINE T == S \union {a, b}
<1>1. s \in Seq(T) /\ a \in T /\ b \in T /\ Len(s) \in Nat
  BY LenProperties
<1>. HIDE DEF T
<1>2. /\ Len(Append(s, a)) = Len(s) + 1 /\ Append(s, a)[Len(s) + 1] = a
      /\ \A i \in 1..Len(s) : Append(s, a)[i] = s[i]
  BY <1>1, AppendProperties
<1>3. <<a, b>> \in Seq(T) /\ Len(<<a, b>>) = 2 /\ <<a, b>>[1] = a /\ <<a, b>>[2] = b
  BY <1>1
<1>. DEFINE two == <<a, b>>
<1>. HIDE DEF two
<1>4. /\ Len(s \o two) = Len(s) + 2
      /\ \A i \in 1..Len(s) + 2 : (s \o two)[i] = IF i <= Len(s) THEN s[i] ELSE two[i - Len(s)]
  <2>1. two \in Seq(T) /\ Len(two) = 2
    BY <1>3 DEF two
  <2>2. /\ Len(s \o two) = Len(s) + Len(two)
        /\ \A i \in 1..Len(s) + Len(two) :
             (s \o two)[i] = IF i <= Len(s) THEN s[i] ELSE two[i - Len(s)]
    BY <1>1, <2>1, ConcatProperties
  <2>. QED  BY <2>1, <2>2
<1>5. (s \o two)[Len(s) + 1] = two[1] /\ (s \o two)[Len(s) + 2] = two[2]
      /\ \A i \in 1..Len(s) : (s \o two)[i] = s[i]
  BY <1>1, <1>4
<1>. QED  BY <1>2, <1>3, <1>4, <1>5 DEF two

\* Where the objects of the frames are.
LEMMA FramesAre ==
  ASSUME TreeInv, frames # <<>>
  PROVE  /\ Len(frames) \in Nat \ {0} /\ Top = frames[Len(frames)] /\ Top.object \in 1..Len(heap)
         /\ Len(heap) \in Nat /\ heap \in Seq(FormatHeap)
         /\ \A i \in 1..Len(frames) : frames[i].object \in 1..Len(heap)
         /\ \A i \in 1..Len(frames) - 1 : frames[i].object # Top.object
         /\ \A i \in 1..Len(frames) : frames[i].fn \in OfSubst => heap[frames[i].object] \in Substs
         /\ Below \in Seq(Frames) /\ Len(Below) = Len(frames) - 1
         /\ \A i \in 1..Len(frames) - 1 : Below[i] = frames[i]
<1>1. /\ Len(frames) \in Nat /\ Len(frames) > 0 /\ Top = frames[Len(frames)]
      /\ Top.object \in 1..Len(heap)
      /\ Below \in Seq(Frames) /\ Len(Below) = Len(frames) - 1
      /\ \A i \in 1..Len(Below) : Below[i] = frames[i]
  BY TopFills DEF Top
<1>2. Len(heap) \in Nat /\ heap \in Seq(FormatHeap)
  BY LenProperties DEF TreeInv, FormatTypes
<1>3. \A i \in 1..Len(frames) :
        frames[i].object \in 1..Len(heap) /\ FrameFills(frames[i], heap[frames[i].object])
  BY DEF TreeInv, FramesInv
<1>4. \A i \in 1..Len(frames) - 1 : frames[i].object # Top.object
  <2>. TAKE i \in 1..Len(frames) - 1
  <2>1. i \in 1..Len(frames) /\ Len(frames) \in 1..Len(frames) /\ i < Len(frames)
    BY <1>1
  <2>2. frames[i].object < frames[Len(frames)].object
    BY <2>1 DEF TreeInv, FramesInv
  <2>3. frames[i].object \in Nat
    BY <1>3, <2>1
  <2>. QED  BY <1>1, <2>2, <2>3
<1>5. \A i \in 1..Len(frames) : frames[i].fn \in OfSubst => heap[frames[i].object] \in Substs
  BY <1>3, Zenon DEF FrameFills
<1>. QED  BY <1>1, <1>2, <1>3, <1>4, <1>5

\* The text, and what the function that runs has read of it.
LEMMA TextIs ==
  ASSUME TreeInv, MeaningInv, frames # <<>>
  PROVE  /\ Len(text) <= MaxText /\ (wchar \in Chars => Len(text) < MaxText)
         /\ text \in Seq(Chars)
         /\ \E mean, own, pre :
              /\ Reading(mean, own, pre, text, wchar, heap, frames)
              /\ mean \in [Nat -> Meanings] /\ DoneOf(heap, frames) \subseteq Nat
              /\ own[Len(frames)] \in Seq(Chars) /\ Len(own[Len(frames)]) \in Nat
              /\ Len(own[Len(frames)]) <= Len(text)
              /\ Reads(Top.fn, Object, own[Len(frames)], wchar, mean, DoneOf(heap, frames))
<1>1. state # "failed"
  BY TopFills
<1>2. PICK mean, own, pre : Reading(mean, own, pre, text, wchar, heap, frames)
  BY <1>1 DEF MeaningInv
<1>3. Len(frames) \in Nat /\ Top = frames[Len(frames)]
  BY FramesAre
<1>. DEFINE N == Len(frames)
<1>4. /\ mean \in [Nat -> Meanings]
      /\ own \in [Nat -> Seq(Chars)] /\ pre \in [Nat -> Seq(Chars)]
      /\ text = pre[N] \o own[N]
      /\ Reads(frames[N].fn, heap[frames[N].object], own[N], wchar, mean, DoneOf(heap, frames))
  BY <1>2 DEF Reading
<1>5. own[N] \in Seq(Chars) /\ pre[N] \in Seq(Chars)
  BY <1>3, <1>4
<1>6. text \in Seq(Chars) /\ Len(text) = Len(pre[N]) + Len(own[N])
      /\ Len(own[N]) \in Nat /\ Len(pre[N]) \in Nat
  BY <1>4, <1>5, Glued, LenProperties
<1>7. DoneOf(heap, frames) \subseteq Nat
  BY DEF DoneOf
<1>8. Reads(Top.fn, Object, own[N], wchar, mean, DoneOf(heap, frames))
  BY <1>3, <1>4 DEF Object
<1>9. Len(own[N]) <= Len(text)
  <2>1. \A a, b \in Nat : b <= a + b
    OBVIOUS
  <2>. QED  BY <1>6, <2>1, Zenon
<1>10. Len(text) <= MaxText /\ (wchar \in Chars => Len(text) < MaxText)
  BY <1>1 DEF MeaningInv
<1>. HIDE DEF N
<1>. QED  BY <1>2, <1>4, <1>5, <1>6, <1>7, <1>8, <1>9, <1>10 DEF N

\* A function stores something and goes on.
LEMMA MeaningOn ==
  ASSUME TreeInv, MeaningInv, frames # <<>>, NEW fn, Goto(fn), NEW x, Store(x),
         NEW c, Takes(c), state' = state,
         \A mean, done, s :
           /\ s \in Seq(Chars) /\ Len(s \o c) <= MaxText
           /\ Reads(Top.fn, Object, s, wchar, mean, done)
           => Reads(fn, x, s \o c, wchar', mean, done)
  PROVE  MeaningInv'
<1>. DEFINE N == Len(frames)
            o == Top.object
<1>1. /\ N \in Nat \ {0} /\ Top = frames[N] /\ o \in 1..Len(heap)
      /\ Len(heap) \in Nat /\ heap \in Seq(FormatHeap)
      /\ \A i \in 1..N : frames[i].object \in 1..Len(heap)
      /\ \A i \in 1..N - 1 : frames[i].object # o
      /\ Below \in Seq(Frames) /\ Len(Below) = N - 1
      /\ \A i \in 1..N - 1 : Below[i] = frames[i]
  BY FramesAre
<1>2. PICK mean, own, pre :
        /\ Reading(mean, own, pre, text, wchar, heap, frames)
        /\ own[N] \in Seq(Chars) /\ Len(own[N]) \in Nat /\ Len(own[N]) <= Len(text)
        /\ Reads(Top.fn, Object, own[N], wchar, mean, DoneOf(heap, frames))
  BY TextIs
<1>3. /\ c \in Seq(Chars) /\ text' = text \o c
      /\ Len(text') <= MaxText /\ (wchar' \in Chars => Len(text') < MaxText)
      /\ text \in Seq(Chars)
  BY TextIs, TakesOne
<1>4. Len(own[N] \o c) <= MaxText
  <2>1. Len(own[N] \o c) = Len(own[N]) + Len(c) /\ Len(text') = Len(text) + Len(c)
        /\ Len(c) \in Nat /\ Len(text) \in Nat
    BY <1>2, <1>3, Glued, LenProperties
  <2>. QED  BY <1>2, <1>3, <2>1, FormatAssumption
<1>5. Reads(fn, x, own[N] \o c, wchar', mean, DoneOf(heap, frames))
  BY <1>2, <1>4
<1>6. Frame(fn, o).fn = fn /\ Frame(fn, o).object = o
  BY DEF Frame
<1>7. /\ Len(frames') = N /\ frames'[N] = Frame(fn, o) /\ \A i \in 1..N - 1 : frames'[i] = frames[i]
  <2>1. frames' = Append(Below, Frame(fn, o))
    BY DEF Goto
  <2>. HIDE DEF N, o
  <2>2. N - 1 + 1 = N
    BY <1>1
  <2>. QED  BY <1>1, <2>1, <2>2, WithMore
<1>8. /\ Len(heap') = Len(heap) /\ heap'[o] = x
      /\ \A p \in 1..Len(heap) : p # o => heap'[p] = heap[p]
  <2>1. heap' = [heap EXCEPT ![o] = x]
    BY DEF Store
  <2>. QED  BY <1>1, <2>1
<1>. HIDE DEF N, o
<1>9. Reading(mean, [own EXCEPT ![N] = own[N] \o c], pre, text', wchar', heap', frames')
  <2>1. frames'[N].object = o /\ frames'[N].fn = fn /\ o = frames[N].object
    BY <1>1, <1>6, <1>7 DEF o
  <2>2. Reads(frames'[N].fn, heap'[o], own[N] \o c, wchar', mean, DoneOf(heap, frames))
    BY <1>5, <1>8, <2>1
  <2>3. \A i \in 1..N - 1 : frames[i].object \in 1..Len(heap) /\ frames[i].object # o
    BY <1>1
  <2>4. Len(frames) = N
    BY DEF N
  <2>. QED  BY <1>1, <1>2, <1>3, <1>7, <1>8, <2>1, <2>2, <2>3, <2>4, ReadOn
<1>. QED  BY <1>3, <1>9 DEF MeaningInv

\* A function allocates an object, and calls another to fill it.
LEMMA MeaningCall ==
  ASSUME TreeInv, MeaningInv, frames # <<>>, NEW fn, NEW callee, Call(fn, callee),
         NEW x, NEW new, Allocate(x, new), NEW c, Takes(c), state' = state,
         \A mean, done, s :
           /\ s \in Seq(Chars) /\ Len(s \o c) <= MaxText
           /\ Reads(Top.fn, Object, s, wchar, mean, done)
           => /\ Waits(fn, x, s \o c, New, mean, done)
              /\ Reads(callee, new, <<>>, wchar', mean, done)
  PROVE  MeaningInv'
<1>. DEFINE N == Len(frames)
            o == Top.object
<1>1. /\ N \in Nat \ {0} /\ Top = frames[N] /\ o \in 1..Len(heap)
      /\ Len(heap) \in Nat /\ heap \in Seq(FormatHeap)
      /\ \A i \in 1..N : frames[i].object \in 1..Len(heap)
      /\ \A i \in 1..N - 1 : frames[i].object # o
      /\ Below \in Seq(Frames) /\ Len(Below) = N - 1
      /\ \A i \in 1..N - 1 : Below[i] = frames[i]
  BY FramesAre
<1>2. PICK mean, own, pre :
        /\ Reading(mean, own, pre, text, wchar, heap, frames)
        /\ own[N] \in Seq(Chars) /\ Len(own[N]) \in Nat /\ Len(own[N]) <= Len(text)
        /\ Reads(Top.fn, Object, own[N], wchar, mean, DoneOf(heap, frames))
  BY TextIs
<1>3. /\ c \in Seq(Chars) /\ text' = text \o c
      /\ Len(text') <= MaxText /\ (wchar' \in Chars => Len(text') < MaxText)
      /\ text \in Seq(Chars)
  BY TextIs, TakesOne
<1>4. Len(own[N] \o c) <= MaxText
  <2>1. Len(own[N] \o c) = Len(own[N]) + Len(c) /\ Len(text') = Len(text) + Len(c)
        /\ Len(c) \in Nat /\ Len(text) \in Nat
    BY <1>2, <1>3, Glued, LenProperties
  <2>. QED  BY <1>2, <1>3, <2>1, FormatAssumption
<1>5. /\ Waits(fn, x, own[N] \o c, New, mean, DoneOf(heap, frames))
      /\ Reads(callee, new, <<>>, wchar', mean, DoneOf(heap, frames))
  BY <1>2, <1>4
<1>6. Frame(fn, o).fn = fn /\ Frame(fn, o).object = o
      /\ Frame(callee, New).fn = callee /\ Frame(callee, New).object = Len(heap) + 1
  BY DEF Frame, New
<1>7. /\ Len(frames') = N + 1 /\ frames'[N] = Frame(fn, o) /\ frames'[N + 1] = Frame(callee, New)
      /\ \A i \in 1..N - 1 : frames'[i] = frames[i]
  <2>1. frames' = Below \o <<Frame(fn, o), Frame(callee, New)>>
    BY DEF Call
  <2>. HIDE DEF N, o
  <2>2. N - 1 + 1 = N /\ N - 1 + 2 = N + 1
    BY <1>1
  <2>. DEFINE a == Frame(fn, o)
              b == Frame(callee, New)
              front == Below
  <2>3. frames' = front \o <<a, b>> /\ front \in Seq(Frames) /\ Len(front) = N - 1
        /\ \A i \in 1..N - 1 : front[i] = frames[i]
    BY <1>1, <2>1
  <2>. HIDE DEF a, b, front
  <2>4. /\ Len(front \o <<a, b>>) = N - 1 + 2
        /\ (front \o <<a, b>>)[N - 1 + 1] = a /\ (front \o <<a, b>>)[N - 1 + 2] = b
        /\ \A i \in 1..N - 1 : (front \o <<a, b>>)[i] = front[i]
    BY <2>3, WithMore
  <2>. QED  BY <2>2, <2>3, <2>4 DEF a, b
<1>8. /\ Len(heap') = Len(heap) + 1 /\ heap'[o] = x /\ heap'[Len(heap) + 1] = new
      /\ \A p \in 1..Len(heap) : p # o => heap'[p] = heap[p]
  <2>. DEFINE h == [heap EXCEPT ![o] = x]
  <2>1. heap' = Append(h, new)
    BY DEF Allocate
  <2>2. /\ h \in Seq(FormatHeap \union {x}) /\ Len(h) = Len(heap) /\ h[o] = x
        /\ \A p \in 1..Len(heap) : p # o => h[p] = heap[p]
    <3>1. heap \in Seq(FormatHeap \union {x}) /\ x \in FormatHeap \union {x}
      BY <1>1
    <3>. QED  BY <1>1, <3>1, ExceptSeq
  <2>. HIDE DEF h
  <2>. QED  BY <1>1, <2>1, <2>2, WithMore
<1>. HIDE DEF N, o
<1>9. Reading(mean, [[own EXCEPT ![N] = own[N] \o c] EXCEPT ![N + 1] = <<>>],
              [pre EXCEPT ![N + 1] = text'], text', wchar', heap', frames')
  <2>1. /\ frames'[N].object = o /\ frames'[N].fn = fn /\ o = frames[N].object
        /\ frames'[N + 1].object = Len(heap) + 1 /\ frames'[N + 1].fn = callee
    BY <1>1, <1>6, <1>7 DEF o
  <2>2. /\ Waits(frames'[N].fn, heap'[o], own[N] \o c, Len(heap) + 1, mean, DoneOf(heap, frames))
        /\ Reads(frames'[N + 1].fn, heap'[Len(heap) + 1], <<>>, wchar', mean, DoneOf(heap, frames))
    BY <1>5, <1>8, <2>1 DEF New
  <2>3. Len(frames) = N
    BY DEF N
  <2>. QED  BY <1>1, <1>2, <1>3, <1>7, <1>8, <2>1, <2>2, <2>3, ReadCall
<1>. QED  BY <1>3, <1>9 DEF MeaningInv

\* A function returns.
LEMMA MeaningReturn ==
  ASSUME TreeInv, MeaningInv, frames # <<>>, Return, heap' = heap,
         NEW c, Takes(c), state' = state,
         \A mean, done, s :
           /\ mean \in [Nat -> Meanings] /\ done \subseteq Nat
           /\ s \in Seq(Chars) /\ Len(s \o c) <= MaxText
           /\ Reads(Top.fn, Object, s, wchar, mean, done)
           => \E m \in Meanings : Expands(Object, m, mean, done) /\ Says(s \o c, m)
  PROVE  MeaningInv'
<1>. DEFINE N == Len(frames)
            o == Top.object
<1>1. /\ N \in Nat \ {0} /\ Top = frames[N] /\ o \in 1..Len(heap)
      /\ Len(heap) \in Nat /\ heap \in Seq(FormatHeap)
      /\ \A i \in 1..N : frames[i].object \in 1..Len(heap)
      /\ \A i \in 1..N - 1 : frames[i].object # o
      /\ Below \in Seq(Frames) /\ Len(Below) = N - 1
      /\ \A i \in 1..N - 1 : Below[i] = frames[i]
      /\ \A i \in 1..N : frames[i].fn \in OfSubst => heap[frames[i].object] \in Substs
  BY FramesAre
<1>2. PICK mean, own, pre :
        /\ Reading(mean, own, pre, text, wchar, heap, frames)
        /\ mean \in [Nat -> Meanings] /\ DoneOf(heap, frames) \subseteq Nat
        /\ own[N] \in Seq(Chars) /\ Len(own[N]) \in Nat /\ Len(own[N]) <= Len(text)
        /\ Reads(Top.fn, Object, own[N], wchar, mean, DoneOf(heap, frames))
  BY TextIs
<1>3. /\ c \in Seq(Chars) /\ text' = text \o c
      /\ Len(text') <= MaxText /\ (wchar' \in Chars => Len(text') < MaxText)
      /\ text \in Seq(Chars)
  BY TextIs, TakesOne
<1>4. Len(own[N] \o c) <= MaxText
  <2>1. Len(own[N] \o c) = Len(own[N]) + Len(c) /\ Len(text') = Len(text) + Len(c)
        /\ Len(c) \in Nat /\ Len(text) \in Nat
    BY <1>2, <1>3, Glued, LenProperties
  <2>. QED  BY <1>2, <1>3, <2>1, FormatAssumption
<1>5. PICK m \in Meanings : Expands(Object, m, mean, DoneOf(heap, frames)) /\ Says(own[N] \o c, m)
  BY <1>2, <1>4
<1>6. frames' \in Seq(Frames) /\ Len(frames') = N - 1 /\ \A i \in 1..N - 1 : frames'[i] = frames[i]
  BY <1>1 DEF Return
<1>7. Expands(heap[o], m, mean, DoneOf(heap, frames))
  BY <1>5 DEF Object
<1>8. \A i \in 1..N - 1 : frames[i].fn # "format" => heap[frames[i].object] \in Substs
  <2>. TAKE i \in 1..N - 1
  <2>1. i \in 1..N /\ i \in 1..Len(frames) - 1 /\ frames # <<>>
    BY <1>1
  <2>2. frames[i].fn \in {"format", "else", "close"}
    BY <1>2, <2>1 DEF Reading, Waits
  <2>. QED  BY <1>1, <2>1, <2>2 DEF OfSubst
<1>. HIDE DEF N, o
<1>9. Reading([mean EXCEPT ![o] = m], Rejoined(own, N, own[N] \o c), pre, text', wchar', heap, frames')
  <2>1. o = frames[N].object /\ Len(frames) = N /\ o \in Nat
    BY <1>1 DEF o, N
  <2>2. /\ Reading(mean, own, pre, text, wchar, heap, frames)
        /\ N \in Nat \ {0} /\ Len(heap) \in Nat /\ o \in 1..Len(heap)
        /\ \A i \in 1..N - 1 : frames[i].object # o
    BY <1>1, <1>2
  <2>3. /\ c \in Seq(Chars) /\ text' = text \o c /\ Len(text') <= MaxText
        /\ m \in Meanings /\ Says(own[N] \o c, m)
    BY <1>3, <1>5
  <2>. HIDE DEF Return
  <2>. QED  BY <1>6, <1>7, <1>8, <2>1, <2>2, <2>3, ReadReturn
<1>. QED  BY <1>3, <1>9 DEF MeaningInv

-----------------------------------------------------------------------------
(* The functions, one by one.                                              *)

LEMMA ReadsAs ==
  ASSUME NEW n, NEW s, NEW ahead, NEW mean, NEW done
  PROVE  /\ Reads("format", n, s, ahead, mean, done) <=> NodesRead(n.nodes, s, mean, done)
         /\ Reads("node", n, s, ahead, mean, done) <=>
              \E nodes \in Seq(Int) : n.nodes = Append(nodes, Junk) /\ NodesRead(nodes, s, mean, done)
         /\ Reads("literal", n, s, ahead, mean, done) <=> LiteralRead(n, s)
         /\ Reads("escaped", n, s, ahead, mean, done) <=>
              \E t \in Seq(Chars) : s = t \o <<"\\">> /\ LiteralRead(n, t)
         /\ Reads("open", n, s, ahead, mean, done) <=> n.key = <<>> /\ s = <<>> /\ ahead = Brace
         /\ Reads("key", n, s, ahead, mean, done) <=> IsKey(n) /\ s = Opened(n.key)
         /\ Reads("then", n, s, ahead, mean, done) <=> HasKey(n) /\ s = Opened(n.key \o <<"?">>)
         /\ Reads("else", n, s, ahead, mean, done) <=>
              HasKey(n) /\ \E t \in Seq(Chars) : s = Opened(t) /\ OneSide(n, t, ahead, mean, done)
         /\ Reads("close", n, s, ahead, mean, done) <=>
              HasKey(n) /\ \E t \in Seq(Chars) : s = Opened(t) /\ Sides(n, t, mean, done)
<1>1. Reads("format", n, s, ahead, mean, done) <=> NodesRead(n.nodes, s, mean, done)
  BY DEF Reads
<1>2. Reads("node", n, s, ahead, mean, done) <=>
        \E nodes \in Seq(Int) : n.nodes = Append(nodes, Junk) /\ NodesRead(nodes, s, mean, done)
  BY DEF Reads
<1>3. Reads("literal", n, s, ahead, mean, done) <=> LiteralRead(n, s)
  BY DEF Reads
<1>4. Reads("escaped", n, s, ahead, mean, done) <=>
        \E t \in Seq(Chars) : s = t \o <<"\\">> /\ LiteralRead(n, t)
  BY Zenon DEF Reads
<1>5. Reads("open", n, s, ahead, mean, done) <=> n.key = <<>> /\ s = <<>> /\ ahead = Brace
  BY DEF Reads
<1>6. Reads("key", n, s, ahead, mean, done) <=> IsKey(n) /\ s = Opened(n.key)
  BY DEF Reads
<1>7. Reads("then", n, s, ahead, mean, done) <=> HasKey(n) /\ s = Opened(n.key \o <<"?">>)
  BY DEF Reads
<1>8. Reads("else", n, s, ahead, mean, done) <=>
        HasKey(n) /\ \E t \in Seq(Chars) : s = Opened(t) /\ OneSide(n, t, ahead, mean, done)
  BY DEF Reads
<1>9. Reads("close", n, s, ahead, mean, done) <=>
        HasKey(n) /\ \E t \in Seq(Chars) : s = Opened(t) /\ Sides(n, t, mean, done)
  BY DEF Reads
<1>. QED  BY <1>1, <1>2, <1>3, <1>4, <1>5, <1>6, <1>7, <1>8, <1>9

LEMMA WaitsAs ==
  ASSUME NEW n, NEW s, NEW child, NEW mean, NEW done
  PROVE  /\ Waits("format", n, s, child, mean, done) <=>
              \E nodes \in Seq(Int) : n.nodes = Append(nodes, child) /\ NodesRead(nodes, s, mean, done)
         /\ Waits("else", n, s, child, mean, done) <=>
              /\ HasKey(n) /\ n.type = "if exists" /\ n.if_true = child
              /\ s = Opened(n.key \o <<"?">>)
         /\ Waits("close", n, s, child, mean, done) <=>
              HasKey(n) /\ \E t \in Seq(Chars) : s = Opened(t) /\ WaitsForElse(n, t, child, mean, done)
<1>1. Waits("format", n, s, child, mean, done) <=>
        \E nodes \in Seq(Int) : n.nodes = Append(nodes, child) /\ NodesRead(nodes, s, mean, done)
  BY DEF Waits
<1>2. Waits("else", n, s, child, mean, done) <=>
        /\ HasKey(n) /\ n.type = "if exists" /\ n.if_true = child
        /\ s = Opened(n.key \o <<"?">>)
  BY DEF Waits
<1>3. Waits("close", n, s, child, mean, done) <=>
        HasKey(n) /\ \E t \in Seq(Chars) : s = Opened(t) /\ WaitsForElse(n, t, child, mean, done)
  BY DEF Waits
<1>. QED  BY <1>1, <1>2, <1>3

\* The function changes nothing, or does not go on elsewhere.
LEMMA NothingStored == ASSUME TreeInv, frames # <<>>, heap' = heap  PROVE Store(Object)
<1>1. heap \in Seq(FormatHeap) /\ Object \in FormatHeap /\ Top.object \in 1..Len(heap)
  BY TopFills DEF TreeInv, FormatTypes
<1>2. /\ [heap EXCEPT ![Top.object] = Object] \in Seq(FormatHeap)
      /\ Len([heap EXCEPT ![Top.object] = Object]) = Len(heap)
      /\ \A p \in 1..Len(heap) : [heap EXCEPT ![Top.object] = Object][p] = heap[p]
  BY <1>1, ExceptSeq DEF Object
<1>. QED  BY <1>1, <1>2, SeqEqual DEF Store

\* The function goes on where it was.
LEMMA GoesNowhere == ASSUME TreeInv, frames # <<>>, frames' = frames  PROVE Goto(Top.fn)
<1>1. /\ Top \in Frames /\ Below \in Seq(Frames) /\ Len(frames) \in Nat /\ Len(frames) > 0
      /\ Len(Below) = Len(frames) - 1 /\ \A i \in 1..Len(Below) : Below[i] = frames[i]
  BY TopFills
<1>2. Frame(Top.fn, Top.object) = Top
  BY <1>1 DEF Frame, Frames
<1>3. /\ Append(Below, Top) \in Seq(Frames) /\ Len(Append(Below, Top)) = Len(frames)
      /\ \A i \in 1..Len(frames) : Append(Below, Top)[i] = frames[i]
  BY <1>1, AppendProperties DEF Top
<1>4. frames \in Seq(Frames)
  BY DEF TreeInv, FormatTypes
<1>5. Append(Below, Top) = frames
  BY <1>3, <1>4, SeqEqual
<1>. QED  BY <1>2, <1>5 DEF Goto

LEMMA WithOne ==
  ASSUME NEW c \in Chars, NEW s \in Seq(Chars)
  PROVE  s \o <<c>> \in Seq(Chars) /\ Len(s \o <<c>>) = Len(s) + 1 /\ Len(s) \in Nat
<1>1. <<c>> \in Seq(Chars) /\ Len(<<c>>) = 1
  OBVIOUS
<1>. QED  BY <1>1, Glued, LenProperties

LEMMA LiteralGrows ==
  ASSUME NEW n \in Literals, NEW x, NEW c \in Chars, x.str = Append(n.str, c), NEW t \in Seq(Chars),
         LiteralRead(n, t), NEW p, Says(p, Always(<<c>>)), Len(t \o p) <= MaxText
  PROVE  LiteralRead(x, t \o p)
<1>1. n.str \in Seq(Chars) /\ <<c>> \in Seq(Chars) /\ p \in Seq(Chars)
  BY One DEF Literals, Says
<1>2. x.str # <<>> /\ x.str = n.str \o <<c>>
  <2>1. Len(x.str) = Len(n.str) + 1 /\ Len(n.str) \in Nat
    BY <1>1, AppendProperties, LenProperties
  <2>2. x.str = n.str \o <<c>>
    BY <1>1, AppendIsConcat
  <2>. QED  BY <2>1, <2>2
<1>3. CASE n.str = <<>> /\ t = <<>>
  <2>1. x.str = <<c>> /\ t \o p = p
    BY <1>1, <1>2, <1>3, ConcatEmptySeq
  <2>. QED  BY <1>2, <2>1 DEF LiteralRead
<1>4. CASE n.str # <<>> /\ Says(t, Always(n.str))
  <2>1. Len(t \o p) = Len(t) + Len(p)
    BY <1>1, Glued
  <2>2. Says(t \o p, Both(Always(n.str), Always(<<c>>)))
    BY <1>4, <2>1, SaysBoth
  <2>3. Both(Always(n.str), Always(<<c>>)) = Always(n.str \o <<c>>)
    BY DEF Both, Always
  <2>. QED  BY <1>2, <2>2, <2>3 DEF LiteralRead
<1>. QED  BY <1>3, <1>4 DEF LiteralRead

\* parse_literal.
LEMMA LiteralCharMeans ==
  ASSUME TreeInv, MeaningInv, LiteralChar
  PROVE  MeaningInv'
<1>1. In("literal") /\ wchar \in Plain \union {"\\"} /\ Consume /\ state' = state
  BY DEF LiteralChar
<1>2. frames # <<>> /\ Object \in Literals /\ Top.fn = "literal" /\ "literal" \in OfLiteral
  BY <1>1, InLiteral DEF OfLiteral, In
<1>3. Takes(<<wchar>>) /\ wchar \in Chars
  <2>1. wchar \in Chars
    BY <1>1, CharsAre
  <2>. QED  BY <1>1, <2>1 DEF Takes
<1>4. CASE wchar = "\\"
  <2>1. Goto("escaped") /\ heap' = heap
    BY <1>4, Zenon DEF LiteralChar
  <2>2. Store(Object)
    BY <1>2, <2>1, NothingStored
  <2>3. \A mean, done, s :
          /\ s \in Seq(Chars) /\ Reads("literal", Object, s, wchar, mean, done)
          => Reads("escaped", Object, s \o <<wchar>>, wchar', mean, done)
    BY <1>4, ReadsAs
  <2>. QED  BY <1>1, <1>2, <1>3, <2>1, <2>2, <2>3, MeaningOn
<1>5. CASE wchar # "\\"
  <2>. DEFINE x == [Object EXCEPT !.str = Append(@, wchar)]
  <2>1. Goto("literal") /\ Store(x) /\ wchar \in Plain
    BY <1>1, <1>5, Zenon DEF LiteralChar
  <2>2. x.str = Append(Object.str, wchar)
    BY <1>2 DEF Literals
  <2>. HIDE DEF x
  <2>3. ASSUME NEW mean, NEW done, NEW s \in Seq(Chars), Len(s \o <<wchar>>) <= MaxText,
               Reads("literal", Object, s, wchar, mean, done)
        PROVE  Reads("literal", x, s \o <<wchar>>, wchar', mean, done)
    <3>1. LiteralRead(Object, s)
      BY <2>3, ReadsAs
    <3>2. Len(s \o <<wchar>>) = Len(s) + 1 /\ Len(s) \in Nat
      BY <1>3, WithOne
    <3>3. Says(<<wchar>>, Always(<<wchar>>))
      BY <2>1, <2>3, <3>2, SaysPlain, FormatAssumption
    <3>4. LiteralRead(x, s \o <<wchar>>)
      BY <1>2, <1>3, <2>2, <2>3, <3>1, <3>3, LiteralGrows
    <3>. QED  BY <3>4, ReadsAs
  <2>. QED  BY <1>1, <1>2, <1>3, <2>1, <2>3, MeaningOn
<1>. QED  BY <1>4, <1>5

LEMMA ErrorMeans == Error => MeaningInv'
BY DEF Error, MeaningInv

LEMMA LiteralEscapedMeans ==
  ASSUME TreeInv, MeaningInv, LiteralEscaped
  PROVE  MeaningInv'
<1>1. In("escaped")
  BY DEF LiteralEscaped
<1>2. frames # <<>> /\ Object \in Literals /\ Top.fn = "escaped"
  BY <1>1, InLiteral DEF OfLiteral, In
<1>3. CASE Error
  BY <1>3, ErrorMeans
<1>4. CASE ~Error
  <2>. DEFINE x == [Object EXCEPT !.str = Append(@, wchar)]
  <2>1. wchar \in Escapable /\ Goto("literal") /\ Store(x) /\ Consume /\ state' = state
    BY <1>4, Zenon DEF LiteralEscaped
  <2>2. x.str = Append(Object.str, wchar) /\ wchar \in Chars
    BY <1>2, <2>1, CharsAre DEF Literals
  <2>. HIDE DEF x
  <2>3. Takes(<<wchar>>)
    BY <2>1, <2>2 DEF Takes
  <2>4. ASSUME NEW mean, NEW done, NEW s \in Seq(Chars), Len(s \o <<wchar>>) <= MaxText,
               Reads("escaped", Object, s, wchar, mean, done)
        PROVE  Reads("literal", x, s \o <<wchar>>, wchar', mean, done)
    <3>1. PICK t \in Seq(Chars) : s = t \o <<"\\">> /\ LiteralRead(Object, t)
      BY <2>4, ReadsAs
    <3>. DEFINE bar == <<"\\">>
                p == <<"\\", wchar>>
    <3>2. bar \in Seq(Chars) /\ p \in Seq(Chars) /\ Len(p) = 2 /\ bar \o <<wchar>> = p
      <4>0. "\\" \in Chars
        BY CharsAre
      <4>1. bar \in Seq(Chars)
        BY <4>0, One
      <4>2. p \in Seq(Chars) /\ Len(p) = 2 /\ bar \o <<wchar>> = p
        BY <4>0, <2>2, Two
      <4>. QED  BY <4>1, <4>2
    <3>3. <<wchar>> \in Seq(Chars)
      BY <2>2, One
    <3>4. s \o <<wchar>> = t \o p
      <4>1. s = t \o bar
        BY <3>1
      <4>. HIDE DEF bar, p
      <4>2. Groups(t, bar, <<wchar>>)
        BY <3>2, <3>3, GroupsAll
      <4>. QED  BY <3>2, <4>1, <4>2 DEF Groups
    <3>5. Len(t \o p) = Len(t) + 2 /\ Len(t) \in Nat
      <4>. HIDE DEF p
      <4>. QED  BY <3>2, Glued, LenProperties
    <3>6. Says(p, Always(<<wchar>>))
      <4>1. 2 <= MaxText
        <5>. HIDE DEF p
        <5>. QED  BY <2>4, <3>4, <3>5, FormatAssumption
      <4>. QED  BY <2>1, <4>1, SaysEscaped
    <3>. HIDE DEF p
    <3>7. LiteralRead(x, t \o p)
      BY <1>2, <2>2, <2>4, <3>1, <3>4, <3>6, LiteralGrows
    <3>. QED  BY <3>4, <3>7, ReadsAs
  <2>. QED  BY <1>2, <2>1, <2>3, <2>4, MeaningOn
<1>. QED  BY <1>3, <1>4

\* Nothing is consumed.
LEMMA TakesNothing == Peek => Takes(<<>>)
BY DEF Takes

LEMMA NothingMore == ASSUME NEW s \in Seq(Chars)  PROVE s \o <<>> = s
BY ConcatEmptySeq

LEMMA LiteralEndMeans ==
  ASSUME TreeInv, MeaningInv, LiteralEnd
  PROVE  MeaningInv'
<1>1. In("literal")
  BY DEF LiteralEnd
<1>2. frames # <<>> /\ Object \in Literals /\ Top.fn = "literal"
  BY <1>1, InLiteral DEF OfLiteral, In
<1>3. CASE Error
  BY <1>3, ErrorMeans
<1>4. CASE ~Error
  <2>1. Object.str # <<>> /\ Return /\ heap' = heap /\ Peek /\ state' = state
    BY <1>4 DEF LiteralEnd
  <2>2. Object.str \in Seq(Chars) /\ Object.kind = "literal"
    BY <1>2 DEF Literals
  <2>3. ASSUME NEW mean, NEW done, NEW s \in Seq(Chars), Reads("literal", Object, s, wchar, mean, done)
        PROVE  \E m \in Meanings : Expands(Object, m, mean, done) /\ Says(s \o <<>>, m)
    <3>1. Says(s, Always(Object.str))
      BY <2>1, <2>3, ReadsAs DEF LiteralRead
    <3>2. Expands(Object, Always(Object.str), mean, done)
      BY <2>2 DEF Expands
    <3>. QED  BY <2>2, <3>1, <3>2, AlwaysIs, NothingMore
  <2>. QED  BY <1>2, <2>1, <2>3, TakesNothing, MeaningReturn
<1>. QED  BY <1>3, <1>4

\* parse_format and parse_node.
LEMMA GrowMeans ==
  ASSUME TreeInv, MeaningInv, Grow
  PROVE  MeaningInv'
<1>. DEFINE x == [Object EXCEPT !.nodes = Append(@, Junk)]
<1>1. /\ In("format") /\ Peek /\ state' = state /\ Goto("node")
      /\ heap' = [heap EXCEPT ![Top.object].nodes = Append(@, Junk)]
  BY DEF Grow
<1>2. frames # <<>> /\ Object \in FormatObjects /\ Top.fn = "format"
  BY <1>1, InFormat DEF In
<1>3. Top.object \in 1..Len(heap) /\ heap \in Seq(FormatHeap)
  BY <1>2, FramesAre
<1>4. Store(x)
  BY <1>1, <1>3 DEF Store, Object
<1>5. x.nodes = Append(Object.nodes, Junk) /\ Object.nodes \in Seq(Int)
  BY <1>2 DEF FormatObjects
<1>. HIDE DEF x
<1>6. ASSUME NEW mean, NEW done, NEW s \in Seq(Chars), Reads("format", Object, s, wchar, mean, done)
      PROVE  Reads("node", x, s \o <<>>, wchar', mean, done)
  <2>1. NodesRead(Object.nodes, s, mean, done)
    BY <1>6, ReadsAs
  <2>2. NodesRead(Object.nodes, s \o <<>>, mean, done)
    BY <2>1, NothingMore
  <2>3. \E nodes \in Seq(Int) : x.nodes = Append(nodes, Junk) /\ NodesRead(nodes, s \o <<>>, mean, done)
    BY <1>5, <2>2
  <2>. QED  BY <2>3, ReadsAs
<1>. QED  BY <1>1, <1>2, <1>4, <1>6, TakesNothing, MeaningOn

LEMMA NodeMeans ==
  ASSUME TreeInv, MeaningInv, Node
  PROVE  MeaningInv'
<1>. DEFINE slot == Len(Object.nodes)
            x == [Object EXCEPT !.nodes[slot] = New]
<1>1. In("node") /\ Peek /\ state' = state
  BY DEF Node
<1>2. frames # <<>> /\ Object \in FormatObjects /\ Top.fn = "node"
  BY <1>1, TopFills DEF In, FrameFills, OfFormat
<1>3. New \in Int
  BY LenProperties DEF New, TreeInv, FormatTypes
<1>4. x.nodes = [Object.nodes EXCEPT ![slot] = New] /\ Object.nodes \in Seq(Int)
  BY <1>2 DEF FormatObjects
<1>. HIDE DEF x
<1>5. ASSUME NEW mean, NEW done, NEW s \in Seq(Chars), Reads("node", Object, s, wchar, mean, done)
      PROVE  Waits("format", x, s \o <<>>, New, mean, done)
  <2>1. PICK nodes \in Seq(Int) : Object.nodes = Append(nodes, Junk) /\ NodesRead(nodes, s, mean, done)
    BY <1>5, ReadsAs
  <2>2. x.nodes = Append(nodes, New)
    <3>. DEFINE k == Len(nodes)
    <3>1. /\ k \in Nat /\ Junk \in Int
          /\ Append(nodes, Junk) \in Seq(Int) /\ Len(Append(nodes, Junk)) = k + 1
          /\ Append(nodes, Junk)[k + 1] = Junk
          /\ \A i \in 1..k : Append(nodes, Junk)[i] = nodes[i]
      BY AppendProperties, LenProperties DEF Junk
    <3>2. /\ Append(nodes, New) \in Seq(Int) /\ Len(Append(nodes, New)) = k + 1
          /\ Append(nodes, New)[k + 1] = New
          /\ \A i \in 1..k : Append(nodes, New)[i] = nodes[i]
      BY <1>3, AppendProperties
    <3>. HIDE DEF k
    <3>3. slot = k + 1 /\ slot \in 1..Len(Object.nodes)
      BY <2>1, <3>1
    <3>4. /\ x.nodes \in Seq(Int) /\ Len(x.nodes) = k + 1
          /\ \A i \in 1..k + 1 : x.nodes[i] = IF i = k + 1 THEN New ELSE Object.nodes[i]
      BY <1>3, <1>4, <3>3, ExceptSeq
    <3>5. \A i \in 1..k + 1 : x.nodes[i] = Append(nodes, New)[i]
      BY <2>1, <3>1, <3>2, <3>4
    <3>. QED  BY <3>2, <3>4, <3>5, SeqEqual
  <2>3. \E nodes0 \in Seq(Int) : x.nodes = Append(nodes0, New) /\ NodesRead(nodes0, s \o <<>>, mean, done)
    BY <2>1, <2>2, NothingMore
  <2>. QED  BY <2>3, WaitsAs
<1>6. CASE wchar = "{"
  <2>1. Allocate(x, NewSubst) /\ Call("format", "open")
    BY <1>6, Zenon DEF Node, x
  <2>2. wchar' = Brace
    BY <1>1, <1>6, Zenon DEF Peek, Brace
  <2>3. NewSubst.key = <<>>
    BY DEF NewSubst
  <2>4. \A mean, done : Reads("open", NewSubst, <<>>, wchar', mean, done)
    BY <2>2, <2>3, ReadsAs
  <2>. QED  BY <1>1, <1>2, <1>5, <2>1, <2>4, TakesNothing, MeaningCall
<1>7. CASE wchar # "{"
  <2>1. Allocate(x, NewLiteral) /\ Call("format", "literal")
    BY <1>7, Zenon DEF Node, x
  <2>2. NewLiteral.str = <<>>
    BY DEF NewLiteral
  <2>3. LiteralRead(NewLiteral, <<>>)
    BY <2>2 DEF LiteralRead
  <2>4. \A mean, done : Reads("literal", NewLiteral, <<>>, wchar', mean, done)
    BY <2>3, ReadsAs
  <2>. QED  BY <1>1, <1>2, <1>5, <2>1, <2>4, TakesNothing, MeaningCall
<1>. QED  BY <1>6, <1>7

LEMMA FormatEndMeans ==
  ASSUME TreeInv, MeaningInv, FormatEnd
  PROVE  MeaningInv'
<1>1. In("format")
  BY DEF FormatEnd
<1>2. frames # <<>> /\ Object \in FormatObjects /\ Top.fn = "format"
  BY <1>1, InFormat DEF In
<1>3. CASE Error
  BY <1>3, ErrorMeans
<1>4. CASE ~Error
  <2>1. Object.nodes # <<>> /\ Return /\ heap' = heap /\ Peek /\ state' = state
    BY <1>4 DEF FormatEnd
  <2>2. Object.kind = "format" /\ Object.nodes \in Seq(Int)
    BY <1>2 DEF FormatObjects
  <2>3. ASSUME NEW mean, NEW done, NEW s \in Seq(Chars), Reads("format", Object, s, wchar, mean, done)
        PROVE  \E m \in Meanings : Expands(Object, m, mean, done) /\ Says(s \o <<>>, m)
    <3>1. PICK m : Joins(Object.nodes, m, mean, done) /\ Says(s, m)
      BY <2>1, <2>3, ReadsAs DEF NodesRead
    <3>2. Expands(Object, m, mean, done)
      BY <2>2, <3>1 DEF Expands
    <3>3. m \in Meanings
      BY <2>2, <3>1, LenProperties DEF Joins
    <3>. QED  BY <3>1, <3>2, <3>3, NothingMore
  <2>. QED  BY <1>2, <2>1, <2>3, TakesNothing, MeaningReturn
<1>. QED  BY <1>3, <1>4

-----------------------------------------------------------------------------
(* parse_subst.                                                            *)

LEMMA KeyGrows ==
  /\ Key(0) = <<>>
  /\ \A a \in Nat : Append(Key(a), "k") = Key(a + 1)
<1>1. Key(0) = <<>>
  BY KeyChars, EmptySeq
<1>2. ASSUME NEW a \in Nat  PROVE Append(Key(a), "k") = Key(a + 1)
  <2>1. Key(a) \in Seq(Chars) /\ Len(Key(a)) = a /\ "k" \in Chars
        /\ Key(a + 1) \in Seq(Chars) /\ Len(Key(a + 1)) = a + 1
    <3>1. a + 1 \in Nat
      OBVIOUS
    <3>. QED  BY <3>1, KeyChars, CharsAre
  <2>2. \A i \in 1..a : Key(a)[i] = "k"
    BY DEF Key
  <2>3. \A i \in 1..a + 1 : Key(a + 1)[i] = "k"
    BY DEF Key
  <2>4. /\ Append(Key(a), "k") \in Seq(Chars) /\ Len(Append(Key(a), "k")) = a + 1
        /\ Append(Key(a), "k")[a + 1] = "k"
        /\ \A i \in 1..a : Append(Key(a), "k")[i] = Key(a)[i]
    BY <2>1, AppendProperties
  <2>5. \A i \in 1..a + 1 : Append(Key(a), "k")[i] = Key(a + 1)[i]
    BY <2>2, <2>3, <2>4
  <2>. QED  BY <2>1, <2>4, <2>5, SeqEqual
<1>. QED  BY <1>1, <1>2

LEMMA OpenedMore ==
  ASSUME NEW s \in Seq(Chars), NEW t \in Seq(Chars)
  PROVE  Opened(s) \in Seq(Chars) /\ Opened(s) \o t = Opened(s \o t) /\ s \o t \in Seq(Chars)
<1>. DEFINE open == <<Brace>>
<1>1. open \in Seq(Chars)
  BY CharsAre, One, Zenon DEF Brace
<1>2. Opened(s) = open \o s /\ Opened(s \o t) = open \o (s \o t)
  BY DEF Opened
<1>. HIDE DEF open
<1>. QED  BY <1>1, <1>2, Assoc

LEMMA KeysAre == ASSUME NEW n \in Substs, HasKey(n)  PROVE \E a \in Nat \ {0} : n.key = Key(a)
<1>1. Len(n.key) \in Nat
  BY LenProperties DEF Substs
<1>. QED  BY <1>1 DEF HasKey

LEMMA SubstOpenMeans ==
  ASSUME TreeInv, MeaningInv, SubstOpen
  PROVE  MeaningInv'
<1>1. In("open") /\ Goto("key") /\ Consume /\ heap' = heap /\ state' = state
  BY DEF SubstOpen
<1>2. frames # <<>> /\ Object \in Substs /\ Top.fn = "open" /\ "open" \in OfSubst
  BY <1>1, InSubst DEF OfSubst, In
<1>3. Takes(<<wchar>>)
  <2>1. \E s, mean, done : Reads("open", Object, s, wchar, mean, done)
    BY <1>2, TextIs
  <2>2. wchar = Brace
    BY <2>1, ReadsAs
  <2>3. wchar \in Chars
    BY <2>2, CharsAre, Zenon DEF Brace
  <2>. QED  BY <1>1, <2>3 DEF Takes
<1>4. Store(Object)
  BY <1>1, <1>2, NothingStored
<1>5. ASSUME NEW mean, NEW done, NEW s, Reads("open", Object, s, wchar, mean, done)
      PROVE  Reads("key", Object, s \o <<wchar>>, wchar', mean, done)
  <2>1. Object.key = <<>> /\ s = <<>> /\ wchar = Brace
    BY <1>5, ReadsAs
  <2>2. IsKey(Object)
    <3>1. Len(<<>>) = 0
      OBVIOUS
    <3>. QED  BY <2>1, <3>1, KeyGrows DEF IsKey
  <2>3. s \o <<wchar>> = Opened(Object.key)
    <3>. DEFINE open == <<Brace>>
    <3>1. open \in Seq(Chars)
      BY CharsAre, One, Zenon DEF Brace
    <3>. HIDE DEF open
    <3>2. <<>> \o open = open /\ open \o <<>> = open
      BY <3>1, ConcatEmptySeq
    <3>. QED  BY <2>1, <3>2 DEF open, Opened
  <2>. QED  BY <2>2, <2>3, ReadsAs
<1>. QED  BY <1>1, <1>2, <1>3, <1>4, <1>5, MeaningOn

LEMMA KeyCharMeans ==
  ASSUME TreeInv, MeaningInv, KeyChar
  PROVE  MeaningInv'
<1>. DEFINE x == [Object EXCEPT !.key = Append(@, wchar)]
<1>1. In("key") /\ wchar = "k" /\ Store(x) /\ Consume /\ frames' = frames /\ state' = state
  BY DEF KeyChar
<1>2. frames # <<>> /\ Object \in Substs /\ Top.fn = "key" /\ "key" \in OfSubst
  BY <1>1, InSubst DEF OfSubst, In
<1>3. wchar \in Chars /\ Takes(<<wchar>>)
  BY <1>1, CharsAre DEF Takes
<1>4. Goto("key")
  BY <1>1, <1>2, GoesNowhere
<1>5. x.key = Append(Object.key, "k") /\ Object.key \in Seq(Chars)
  BY <1>1, <1>2 DEF Substs
<1>. HIDE DEF x
<1>6. ASSUME NEW mean, NEW done, NEW s, Reads("key", Object, s, wchar, mean, done)
      PROVE  Reads("key", x, s \o <<wchar>>, wchar', mean, done)
  <2>1. IsKey(Object) /\ s = Opened(Object.key)
    BY <1>6, ReadsAs
  <2>2. IsKey(x)
    <3>. DEFINE a == Len(Object.key)
    <3>1. a \in Nat /\ Object.key = Key(a)
      BY <1>5, <2>1, LenProperties DEF IsKey
    <3>. HIDE DEF a
    <3>2. x.key = Key(a + 1)
      BY <1>5, <3>1, KeyGrows
    <3>3. Len(Key(a + 1)) = a + 1
      BY <3>1, KeyChars
    <3>. QED  BY <3>2, <3>3 DEF IsKey
  <2>3. s \o <<wchar>> = Opened(x.key)
    <3>1. x.key = Object.key \o <<wchar>>
      BY <1>1, <1>3, <1>5, AppendIsConcat
    <3>2. <<wchar>> \in Seq(Chars)
      BY <1>3, One
    <3>. QED  BY <1>5, <2>1, <3>1, <3>2, OpenedMore
  <2>. QED  BY <2>2, <2>3, ReadsAs
<1>. QED  BY <1>1, <1>2, <1>3, <1>4, <1>6, MeaningOn

LEMMA KeyEndMeans ==
  ASSUME TreeInv, MeaningInv, KeyEnd
  PROVE  MeaningInv'
<1>1. In("key")
  BY DEF KeyEnd
<1>2. frames # <<>> /\ Object \in Substs /\ Top.fn = "key" /\ "key" \in OfSubst
      /\ Object.type = "basic" /\ Object.key \in Seq(Chars)
  BY <1>1, InSubst DEF OfSubst, In, Substs
<1>3. CASE Error
  BY <1>3, ErrorMeans
<1>4. ASSUME ~Error  PROVE Object.key # <<>> /\ heap' = heap /\ state' = state
  BY <1>4 DEF KeyEnd
<1>5. ASSUME ~Error, NEW mean, NEW done, NEW s, Reads("key", Object, s, wchar, mean, done)
      PROVE  HasKey(Object) /\ s = Opened(Object.key)
  <2>1. IsKey(Object) /\ s = Opened(Object.key)
    BY <1>5, ReadsAs
  <2>2. Len(Object.key) > 0
    BY <1>2, <1>4, <1>5, EmptySeq, LenProperties
  <2>. QED  BY <2>1, <2>2 DEF HasKey, IsKey
<1>6. ASSUME ~Error, wchar = "?"  PROVE MeaningInv'
  <2>1. Goto("then") /\ Consume
    BY <1>6 DEF KeyEnd
  <2>2. Takes(<<wchar>>) /\ <<wchar>> \in Seq(Chars)
    BY <1>6, <2>1, CharsAre, One DEF Takes
  <2>3. ASSUME NEW mean, NEW done, NEW s, Reads("key", Object, s, wchar, mean, done)
        PROVE  Reads("then", Object, s \o <<wchar>>, wchar', mean, done)
    <3>1. HasKey(Object) /\ s = Opened(Object.key)
      BY <1>5, <1>6, <2>3
    <3>2. s \o <<wchar>> = Opened(Object.key \o <<"?">>)
      BY <1>2, <1>6, <2>2, <3>1, OpenedMore
    <3>. QED  BY <3>1, <3>2, ReadsAs
  <2>. QED  BY <1>2, <1>4, <1>6, <2>1, <2>2, <2>3, NothingStored, MeaningOn
<1>7. ASSUME ~Error, wchar # "?"  PROVE MeaningInv'
  <2>1. Goto("else") /\ Peek
    BY <1>7 DEF KeyEnd
  <2>3. ASSUME NEW mean, NEW done, NEW s \in Seq(Chars), Reads("key", Object, s, wchar, mean, done)
        PROVE  Reads("else", Object, s \o <<>>, wchar', mean, done)
    <3>1. HasKey(Object) /\ s \o <<>> = Opened(Object.key)
      BY <1>5, <1>7, <2>3, NothingMore
    <3>2. OneSide(Object, Object.key, wchar', mean, done)
      BY <1>2 DEF OneSide
    <3>. QED  BY <1>2, <3>1, <3>2, ReadsAs
  <2>. QED  BY <1>2, <1>4, <1>7, <2>1, <2>3, TakesNothing, NothingStored, MeaningOn
<1>. QED  BY <1>3, <1>6, <1>7

LEMMA ThenMeans ==
  ASSUME TreeInv, MeaningInv, Then
  PROVE  MeaningInv'
<1>1. In("then") /\ Peek /\ state' = state
  BY DEF Then
<1>2. frames # <<>> /\ Object \in Substs /\ Top.fn = "then" /\ "then" \in OfSubst
      /\ Object.key \in Seq(Chars)
  BY <1>1, InSubst DEF OfSubst, In, Substs
<1>3. ASSUME NEW mean, NEW done, NEW s \in Seq(Chars), Reads("then", Object, s, wchar, mean, done)
      PROVE  HasKey(Object) /\ s \o <<>> = Opened(Object.key \o <<"?">>)
  BY <1>3, ReadsAs, NothingMore
<1>4. Object.key \o <<"?">> \in Seq(Chars)
  <2>1. "?" \in Chars
    BY CharsAre
  <2>. QED  BY <1>2, <2>1, WithOne
<1>5. CASE wchar = "!"
  <2>. DEFINE x == [Object EXCEPT !.type = "fallback"]
  <2>1. Store(x) /\ Goto("else")
    BY <1>5 DEF Then
  <2>2. x.type = "fallback" /\ x.key = Object.key /\ wchar' = "!"
    BY <1>1, <1>2, <1>5 DEF Substs, Peek
  <2>. HIDE DEF x
  <2>3. ASSUME NEW mean, NEW done, NEW s \in Seq(Chars), Reads("then", Object, s, wchar, mean, done)
        PROVE  Reads("else", x, s \o <<>>, wchar', mean, done)
    <3>1. HasKey(x) /\ s \o <<>> = Opened(x.key \o <<"?">>)
      BY <1>3, <2>2, <2>3 DEF HasKey
    <3>2. OneSide(x, x.key \o <<"?">>, wchar', mean, done)
      BY <2>2 DEF OneSide
    <3>. QED  BY <1>4, <2>2, <3>1, <3>2, ReadsAs
  <2>. QED  BY <1>1, <1>2, <2>1, <2>3, TakesNothing, MeaningOn
<1>6. CASE wchar # "!"
  <2>. DEFINE x == [Object EXCEPT !.type = "if exists", !.if_true = New]
  <2>1. Allocate(x, NewFormat) /\ Call("else", "format")
    BY <1>6 DEF Then
  <2>2. x.type = "if exists" /\ x.key = Object.key /\ x.if_true = New
    BY <1>2 DEF Substs
  <2>. HIDE DEF x
  <2>3. ASSUME NEW mean, NEW done, NEW s \in Seq(Chars), Reads("then", Object, s, wchar, mean, done)
        PROVE  Waits("else", x, s \o <<>>, New, mean, done)
    <3>1. HasKey(x) /\ s \o <<>> = Opened(x.key \o <<"?">>)
      BY <1>3, <2>2, <2>3 DEF HasKey
    <3>. QED  BY <2>2, <3>1, WaitsAs
  <2>4. \A mean, done : Reads("format", NewFormat, <<>>, wchar', mean, done)
    BY ReadsAs DEF NodesRead, NewFormat
  <2>. QED  BY <1>1, <1>2, <2>1, <2>3, <2>4, TakesNothing, MeaningCall
<1>. QED  BY <1>5, <1>6

LEMMA ElseMeans ==
  ASSUME TreeInv, MeaningInv, Else
  PROVE  MeaningInv'
<1>1. In("else") /\ state' = state
  BY DEF Else
<1>2. frames # <<>> /\ Object \in Substs /\ Top.fn = "else" /\ "else" \in OfSubst
      /\ Object.key \in Seq(Chars) /\ Object.type \in OpenTypes
  BY <1>1, InSubst DEF OfSubst, In, Substs
<1>3. CASE wchar # "!"
  <2>1. Goto("close") /\ Peek /\ heap' = heap
    BY <1>3 DEF Else
  <2>2. ASSUME NEW mean, NEW done, NEW s \in Seq(Chars), Reads("else", Object, s, wchar, mean, done)
        PROVE  Reads("close", Object, s \o <<>>, wchar', mean, done)
    <3>1. PICK t \in Seq(Chars) : s = Opened(t) /\ OneSide(Object, t, wchar, mean, done)
      BY <2>2, ReadsAs
    <3>2. Sides(Object, t, mean, done)
      BY <1>3, <3>1 DEF OneSide, Sides
    <3>3. HasKey(Object)
      BY <2>2, ReadsAs
    <3>4. s \o <<>> = Opened(t)
      BY <3>1, NothingMore
    <3>. QED  BY <3>2, <3>3, <3>4, ReadsAs
  <2>. QED  BY <1>1, <1>2, <2>1, <2>2, TakesNothing, NothingStored, MeaningOn
<1>4. CASE wchar = "!"
  <2>. DEFINE type == CASE Object.type = "basic"     -> "if absent"
                        [] Object.type = "if exists" -> "ternary"
                        [] Object.type = "fallback"  -> "fallback"
              x == [Object EXCEPT !.type = type, !.if_false = New]
  <2>1. Allocate(x, NewFormat) /\ Call("close", "format") /\ Consume
    BY <1>4 DEF Else
  <2>2. /\ Object.type = "basic" => type = "if absent"
        /\ Object.type = "if exists" => type = "ternary"
        /\ Object.type = "fallback" => type = "fallback"
    OBVIOUS
  <2>. HIDE DEF type
  <2>3. x.type = type /\ x.key = Object.key /\ x.if_true = Object.if_true /\ x.if_false = New
    BY <1>2 DEF Substs
  <2>. HIDE DEF x
  <2>4. Takes(<<wchar>>) /\ <<wchar>> \in Seq(Chars)
    BY <1>4, <2>1, CharsAre, One DEF Takes
  <2>5. ASSUME NEW mean, NEW done, NEW s \in Seq(Chars), Reads("else", Object, s, wchar, mean, done)
        PROVE  Waits("close", x, s \o <<wchar>>, New, mean, done)
    <3>1. PICK t \in Seq(Chars) : s = Opened(t) /\ OneSide(Object, t, wchar, mean, done)
      BY <2>5, ReadsAs
    <3>2. HasKey(x)
      BY <2>3, <2>5, ReadsAs DEF HasKey
    <3>3. s \o <<wchar>> = Opened(t \o <<"!">>) /\ t \o <<"!">> \in Seq(Chars)
      BY <1>4, <2>4, <3>1, OpenedMore
    <3>4. WaitsForElse(x, t \o <<"!">>, New, mean, done)
      <4>1. CASE Object.type = "basic" /\ t = Object.key
        BY <2>2, <2>3, <4>1 DEF WaitsForElse
      <4>2. CASE Object.type = "if exists" /\ After(t, Object.key \o <<"?">>, Object.if_true, mean, done)
        <5>1. x.type = "ternary" /\ x.if_true \in done /\ x.if_false = New
          BY <2>2, <2>3, <4>2 DEF After
        <5>2. PICK u : Says(u, mean[x.if_true]) /\ t = x.key \o <<"?">> \o u
          BY <2>3, <4>2 DEF After
        <5>3. t \o <<"!">> = x.key \o <<"?">> \o u \o <<"!">>
          BY <5>2
        <5>. QED  BY <5>1, <5>2, <5>3 DEF WaitsForElse
      <4>3. CASE Object.type = "fallback" /\ t = Object.key \o <<"?">>
        <5>1. <<"?">> \in Seq(Chars) /\ <<"!">> \in Seq(Chars) /\ <<"?">> \o <<"!">> = <<"?", "!">>
          <6>1. "?" \in Chars /\ "!" \in Chars
            BY CharsAre
          <6>2. <<"?">> \in Seq(Chars) /\ <<"!">> \in Seq(Chars)
            BY <6>1, One
          <6>. QED  BY <6>1, <6>2, Two
        <5>2. t \o <<"!">> = x.key \o (<<"?">> \o <<"!">>)
          BY <1>2, <2>3, <4>3, <5>1, Assoc
        <5>3. t \o <<"!">> = x.key \o <<"?", "!">>
          BY <5>1, <5>2
        <5>. QED  BY <2>2, <2>3, <4>3, <5>3 DEF WaitsForElse
      <4>. QED  BY <3>1, <4>1, <4>2, <4>3 DEF OneSide
    <3>. QED  BY <3>2, <3>3, <3>4, WaitsAs
  <2>6. \A mean, done : Reads("format", NewFormat, <<>>, wchar', mean, done)
    BY ReadsAs DEF NodesRead, NewFormat
  <2>. QED  BY <1>1, <1>2, <2>1, <2>4, <2>5, <2>6, MeaningCall
<1>. QED  BY <1>3, <1>4

LEMMA IfPresentIs ==
  ASSUME NEW k, NEW m \in Meanings, NEW m2 \in Meanings
  PROVE  IfPresent(k, m, m2) \in Meanings
BY DEF IfPresent, Meanings

LEMMA ValuesAre ==
  ASSUME NEW k \in Seq(Chars)
  PROVE  Always(ValueOf(k)) \in Meanings /\ Always(<<>>) \in Meanings
<1>. DEFINE S == Chars \union {"="}
            eq == <<"=">>
<1>1. eq \in Seq(S) /\ k \in Seq(S)
  OBVIOUS
<1>. HIDE DEF eq, S
<1>2. eq \o k \in Seq(S)
  BY <1>1, ConcatProperties
<1>3. ValueOf(k) \in Seq(S)
  BY <1>2 DEF eq, ValueOf
<1>. QED  BY <1>3, AlwaysIs, EmptySeq DEF S, Always, Meanings

\* A substitution that is complete.
LEMMA SidesMean ==
  ASSUME NEW n \in Substs, HasKey(n), NEW mean \in [Nat -> Meanings], NEW done, done \subseteq Nat,
         NEW t \in Seq(Chars), Len(Braced(t)) <= MaxText, Sides(n, t, mean, done)
  PROVE  \E m \in Meanings : Expands(n, m, mean, done) /\ Says(Braced(t), m)
<1>1. PICK a \in Nat \ {0} : n.key = Key(a)
  BY KeysAre
<1>2. n.key \in Seq(Chars) /\ n.kind = "subst"
  BY DEF Substs
<1>3. Always(ValueOf(n.key)) \in Meanings /\ Always(<<>>) \in Meanings
  BY <1>2, ValuesAre
<1>4. Len(t) + 2 <= MaxText
  BY BracedIs
<1>5. \A o \in done : mean[o] \in Meanings
  OBVIOUS
<1>6. \A m : SubstExpands(n, m, mean, done) => Expands(n, m, mean, done)
  BY <1>2 DEF Expands
<1>7. ASSUME NEW m \in Meanings, NEW m2 \in Meanings,
             SubstExpands(n, IfPresent(n.key, m, m2), mean, done),
             Says(Braced(t), IfPresent(n.key, m, m2))
      PROVE  \E m3 \in Meanings : Expands(n, m3, mean, done) /\ Says(Braced(t), m3)
  BY <1>6, <1>7, IfPresentIs
<1>8. CASE n.type = "basic" /\ t = n.key
  <2>1. Says(Braced(t), IfPresent(n.key, Always(ValueOf(n.key)), Always(<<>>)))
    BY <1>1, <1>4, <1>8, SaysBasic
  <2>2. SubstExpands(n, IfPresent(n.key, Always(ValueOf(n.key)), Always(<<>>)), mean, done)
    BY <1>8 DEF SubstExpands
  <2>. QED  BY <1>3, <1>7, <2>1, <2>2
<1>9. CASE n.type = "if exists" /\ After(t, n.key \o <<"?">>, n.if_true, mean, done)
  <2>1. PICK u : Says(u, mean[n.if_true]) /\ t = n.key \o <<"?">> \o u
    BY <1>9 DEF After
  <2>2. n.if_true \in done
    BY <1>9 DEF After
  <2>3. Says(Braced(t), IfPresent(n.key, mean[n.if_true], Always(<<>>)))
    BY <1>1, <1>4, <2>1, SaysOne
  <2>4. SubstExpands(n, IfPresent(n.key, mean[n.if_true], Always(<<>>)), mean, done)
    BY <1>9, <2>2 DEF SubstExpands
  <2>. QED  BY <1>3, <1>5, <1>7, <2>2, <2>3, <2>4
<1>10. CASE n.type = "if absent" /\ After(t, n.key \o <<"!">>, n.if_false, mean, done)
  <2>1. PICK u : Says(u, mean[n.if_false]) /\ t = n.key \o <<"!">> \o u
    BY <1>10 DEF After
  <2>2. n.if_false \in done
    BY <1>10 DEF After
  <2>3. Says(Braced(t), IfPresent(n.key, Always(<<>>), mean[n.if_false]))
    BY <1>1, <1>4, <2>1, SaysOne
  <2>4. SubstExpands(n, IfPresent(n.key, Always(<<>>), mean[n.if_false]), mean, done)
    BY <1>10, <2>2 DEF SubstExpands
  <2>. QED  BY <1>3, <1>5, <1>7, <2>2, <2>3, <2>4
<1>11. CASE /\ n.type = "ternary" /\ n.if_true \in done
            /\ \E u : /\ Says(u, mean[n.if_true])
                      /\ After(t, n.key \o <<"?">> \o u \o <<"!">>, n.if_false, mean, done)
  <2>1. PICK u : /\ Says(u, mean[n.if_true])
                 /\ After(t, n.key \o <<"?">> \o u \o <<"!">>, n.if_false, mean, done)
    BY <1>11
  <2>2. PICK v : Says(v, mean[n.if_false]) /\ t = n.key \o <<"?">> \o u \o <<"!">> \o v
    BY <2>1 DEF After
  <2>3. n.if_false \in done
    BY <2>1 DEF After
  <2>4. Says(Braced(t), IfPresent(n.key, mean[n.if_true], mean[n.if_false]))
    BY <1>1, <1>4, <2>1, <2>2, SaysTwo
  <2>5. SubstExpands(n, IfPresent(n.key, mean[n.if_true], mean[n.if_false]), mean, done)
    BY <1>11, <2>3 DEF SubstExpands
  <2>. QED  BY <1>5, <1>7, <1>11, <2>3, <2>4, <2>5
<1>12. CASE n.type = "fallback" /\ After(t, n.key \o <<"?", "!">>, n.if_false, mean, done)
  <2>1. PICK u : Says(u, mean[n.if_false]) /\ t = n.key \o <<"?", "!">> \o u
    BY <1>12 DEF After
  <2>2. n.if_false \in done
    BY <1>12 DEF After
  <2>3. Says(Braced(t), IfPresent(n.key, Always(ValueOf(n.key)), mean[n.if_false]))
    BY <1>1, <1>4, <2>1, SaysFallback
  <2>4. SubstExpands(n, IfPresent(n.key, Always(ValueOf(n.key)), mean[n.if_false]), mean, done)
    BY <1>12, <2>2 DEF SubstExpands
  <2>. QED  BY <1>3, <1>5, <1>7, <2>2, <2>3, <2>4
<1>. QED  BY <1>8, <1>9, <1>10, <1>11, <1>12 DEF Sides

LEMMA SubstCloseMeans ==
  ASSUME TreeInv, MeaningInv, SubstClose
  PROVE  MeaningInv'
<1>1. In("close")
  BY DEF SubstClose
<1>2. frames # <<>> /\ Object \in Substs /\ Top.fn = "close" /\ "close" \in OfSubst
  BY <1>1, InSubst DEF OfSubst, In
<1>3. CASE Error
  BY <1>3, ErrorMeans
<1>4. CASE ~Error
  <2>1. wchar = "}" /\ Return /\ Consume /\ heap' = heap /\ state' = state
    BY <1>4, Zenon DEF SubstClose
  <2>2. Takes(<<wchar>>)
    BY <2>1, CharsAre, Zenon DEF Takes
  <2>3. ASSUME NEW mean \in [Nat -> Meanings], NEW done, done \subseteq Nat,
               NEW s \in Seq(Chars), Len(s \o <<wchar>>) <= MaxText,
               Reads("close", Object, s, wchar, mean, done)
        PROVE  \E m \in Meanings : Expands(Object, m, mean, done) /\ Says(s \o <<wchar>>, m)
    <3>1. PICK t \in Seq(Chars) : s = Opened(t) /\ Sides(Object, t, mean, done)
      BY <2>3, ReadsAs
    <3>2. HasKey(Object)
      BY <2>3, ReadsAs
    <3>3. s \o <<wchar>> = Braced(t)
      BY <2>1, <3>1, Zenon DEF Opened, Braced, Brace
    <3>4. Len(Braced(t)) <= MaxText
      BY <2>3, <3>3
    <3>5. \E m \in Meanings : Expands(Object, m, mean, done) /\ Says(Braced(t), m)
      BY <1>2, <2>3, <3>1, <3>2, <3>4, SidesMean
    <3>. QED  BY <3>3, <3>5
  <2>. QED  BY <1>2, <2>1, <2>2, <2>3, MeaningReturn
<1>. QED  BY <1>3, <1>4

-----------------------------------------------------------------------------
(* The parser as a whole.                                                  *)

LEMMA DecodeMeans ==
  ASSUME TreeInv, MeaningInv, Decode
  PROVE  MeaningInv'
<1>1. /\ state = "parsing" /\ wchar = Unread /\ text' = text /\ heap' = heap
      /\ wchar' \in IF Len(text) < MaxText THEN Plain \union Escapable \union {End, Broken} ELSE {End}
      /\ IF wchar' = Broken THEN state' = "failed" /\ frames' = <<>>
                           ELSE state' = state /\ frames' = frames
  BY DEF Decode
<1>2. CASE wchar' = Broken
  BY <1>1, <1>2 DEF MeaningInv
<1>3. CASE wchar' # Broken
  <2>1. state' = state /\ frames' = frames
    BY <1>1, <1>3
  <2>2. Len(text) <= MaxText
    BY <1>1 DEF MeaningInv
  <2>3. wchar' \in Chars => Len(text) < MaxText
    <3>1. End \notin Chars
      BY DEF End, Chars, Plain, Escapable
    <3>. QED  BY <1>1, <3>1
  <2>4. PICK mean, own, pre : Reading(mean, own, pre, text, wchar, heap, frames)
    BY <1>1 DEF MeaningInv
  <2>5. ASSUME NEW fn, NEW n, NEW s, NEW done, Reads(fn, n, s, wchar, mean, done)
        PROVE  Reads(fn, n, s, wchar', mean, done)
    <3>1. wchar # Brace /\ wchar # "!"
      BY <1>1, Zenon DEF Unread, Brace
    <3>2. \A t : OneSide(n, t, wchar, mean, done) => OneSide(n, t, wchar', mean, done)
      BY <3>1, Zenon DEF OneSide
    <3>. QED  BY <2>5, <3>1, <3>2, Zenon DEF Reads
  <2>6. Reading(mean, own, pre, text, wchar', heap, frames)
    <3>1. frames # <<>> => Reads(frames[Len(frames)].fn, heap[frames[Len(frames)].object],
                                own[Len(frames)], wchar', mean, DoneOf(heap, frames))
      BY <2>4, <2>5 DEF Reading
    <3>. QED  BY <2>4, <3>1 DEF Reading
  <2>. QED  BY <1>1, <2>1, <2>2, <2>3, <2>6 DEF MeaningInv
<1>. QED  BY <1>2, <1>3

LEMMA ParseEndMeans ==
  ASSUME TreeInv, MeaningInv, ParseEnd
  PROVE  MeaningInv'
<1>1. CASE Error
  BY <1>1, ErrorMeans
<1>2. CASE ~Error
  <2>1. state = "parsing" /\ UNCHANGED <<text, wchar, heap, frames>>
    BY <1>2 DEF ParseEnd, Peeked
  <2>. QED  BY <2>1 DEF MeaningInv
<1>. QED  BY <1>1, <1>2

LEMMA InitMeans == ASSUME FormatInit  PROVE MeaningInv
<1>1. /\ text = <<>> /\ wchar = Unread /\ Len(heap) = 1 /\ heap[1].nodes = <<>>
      /\ Len(frames) = 1 /\ frames # <<>> /\ frames[1].fn = "format" /\ frames[1].object = 1
  <2>. DEFINE first == NewFormat
              frame == Frame("format", 1)
  <2>1. first.nodes = <<>> /\ frame.fn = "format" /\ frame.object = 1
    BY DEF NewFormat, Frame
  <2>. HIDE DEF first, frame
  <2>2. heap = <<first>> /\ frames = <<frame>> /\ text = <<>> /\ wchar = Unread
    BY DEF FormatInit, first, frame
  <2>3. Len(heap) = 1 /\ heap[1] = first /\ Len(frames) = 1 /\ frames[1] = frame /\ frames # <<>>
    BY <2>2
  <2>. QED  BY <2>1, <2>2, <2>3
<1>2. Unread \notin Chars /\ Len(<<>>) = 0
  BY DEF Unread, Chars, Plain, Escapable
<1>. DEFINE mean == [o \in Nat |-> Always(<<>>)]
            none == [i \in Nat |-> <<>>]
<1>3. mean \in [Nat -> Meanings]
  BY AlwaysIs, EmptySeq
<1>4. none \in [Nat -> Seq(Chars)] /\ none[1] = <<>>
  BY EmptySeq
<1>5. DoneOf(heap, frames) = {}
  BY <1>1 DEF DoneOf
<1>6. \A i : i \notin 1..Len(frames) - 1
  BY <1>1
<1>7. Reads("format", heap[1], <<>>, wchar, mean, DoneOf(heap, frames))
  BY <1>1, ReadsAs DEF NodesRead
<1>8. text = none[1] \o none[1]
  <2>1. <<>> \o <<>> = <<>>
    BY EmptySeq, NothingMore
  <2>. QED  BY <1>1, <1>4, <2>1
<1>. HIDE DEF mean, none
<1>9. Reading(mean, none, none, text, wchar, heap, frames)
  BY <1>1, <1>3, <1>4, <1>5, <1>6, <1>7, <1>8 DEF Reading
<1>. QED  BY <1>1, <1>2, <1>9, FormatAssumption DEF MeaningInv

\* At any time the text read so far is cut into what the running functions have
\* read of it, and what they have read means what the objects they have filled
\* expand to (format.c:100-264).
THEOREM TextHasMeaning == FormatSpec => []MeaningInv
<1>1. FormatInit => MeaningInv
  BY InitMeans
<1>2. TreeInv /\ MeaningInv /\ [FormatNext]_format_vars => MeaningInv'
  <2>. SUFFICES ASSUME TreeInv, MeaningInv, [FormatNext]_format_vars PROVE MeaningInv'
    OBVIOUS
  <2>1. CASE UNCHANGED format_vars
    <3>1. UNCHANGED <<text, wchar, heap, frames, state>>
      BY <2>1 DEF format_vars
    <3>. QED  BY <3>1 DEF MeaningInv
  <2>. QED  BY <2>1, DecodeMeans, GrowMeans, NodeMeans, FormatEndMeans, LiteralCharMeans,
               LiteralEscapedMeans, LiteralEndMeans, SubstOpenMeans, KeyCharMeans, KeyEndMeans,
               ThenMeans, ElseMeans, SubstCloseMeans, ParseEndMeans DEF FormatNext
<1>. QED  BY <1>1, <1>2, TreeHolds, PTL DEF FormatSpec

-----------------------------------------------------------------------------
(* format_render, on a tree that is complete.                              *)

\* The nodes one after another, and one object, when r renders what it points to.
NodesOf(r, nodes) ==
  LET upTo[i \in 0..Len(nodes)] == IF i = 0 THEN <<>> ELSE upTo[i - 1] \o r[nodes[i]]
  IN  upTo[Len(nodes)]

RenderOf(r, d, o) ==
  LET Value(key) == IF key \in d THEN ValueOf(key) ELSE <<>>
  IN  IF o = Null THEN <<>>
      ELSE LET n == heap[o]
               upTo[i \in 0..Len(n.nodes)] ==
                 IF i = 0 THEN <<>> ELSE upTo[i - 1] \o r[n.nodes[i]]
           IN
           CASE n.kind = "literal" -> n.str
             [] n.kind = "format"  -> upTo[Len(n.nodes)]
             [] n.kind = "subst"   ->
                  CASE n.type = "basic"     -> Value(n.key)
                    [] n.type = "if exists" -> IF n.key \in d THEN r[n.if_true] ELSE <<>>
                    [] n.type = "if absent" -> IF n.key \in d THEN <<>> ELSE r[n.if_false]
                    [] n.type = "ternary"   -> IF n.key \in d THEN r[n.if_true] ELSE r[n.if_false]
                    [] n.type = "fallback"  -> IF n.key \in d THEN Value(n.key) ELSE r[n.if_false]

Renders(r, d) == r = [o \in 0..Len(heap) |-> RenderOf(r, d, o)]

LEMMA RenderChoice == ASSUME NEW d  PROVE Render(d) = (CHOOSE r : Renders(r, d))[1]
BY DEF Render, Renders, RenderOf

\* The nodes are rendered one after another.
LEMMA NodesOfIs ==
  ASSUME NEW r, NEW nodes \in Seq(Int), NEW w, DOMAIN w = 0..Len(nodes), w = [i \in 0..Len(nodes) |-> w[i]],
         w[0] = <<>>, \A i \in 1..Len(nodes) : w[i] = w[i - 1] \o r[nodes[i]]
  PROVE  NodesOf(r, nodes) = w[Len(nodes)]
<1>. DEFINE k == Len(nodes)
            UpTo(u) == u = [i \in 0..k |-> IF i = 0 THEN <<>> ELSE u[i - 1] \o r[nodes[i]]]
            chosen == CHOOSE u : UpTo(u)
<1>1. NodesOf(r, nodes) = chosen[k]
  BY DEF NodesOf
<1>2. k \in Nat
  BY LenProperties
<1>3. UpTo(w)
  <2>1. \A i \in 0..k : w[i] = IF i = 0 THEN <<>> ELSE w[i - 1] \o r[nodes[i]]
    BY <1>2
  <2>2. w = [i \in 0..k |-> w[i]]
    OBVIOUS
  <2>. HIDE DEF k
  <2>. QED  BY <2>1, <2>2
<1>4. UpTo(chosen)
  <2>. HIDE DEF UpTo
  <2>. QED  BY <1>3
<1>. HIDE DEF chosen, k
<1>5. \A i \in 0..k : chosen[i] = IF i = 0 THEN <<>> ELSE chosen[i - 1] \o r[nodes[i]]
  BY <1>4
<1>6. \A i \in 0..k : w[i] = IF i = 0 THEN <<>> ELSE w[i - 1] \o r[nodes[i]]
  BY <1>3
<1>. DEFINE Bad == {i \in Nat : i <= k /\ chosen[i] # w[i]}
<1>7. Bad = {}
  <2>. SUFFICES ASSUME Bad # {} PROVE FALSE
    OBVIOUS
  <2>1. PICK i \in Bad : \A x \in Bad : ~(<<x, i>> \in {pair \in Nat \X Nat : pair[1] < pair[2]})
    <3>. HIDE DEF Bad
    <3>1. Bad \subseteq Nat
      BY DEF Bad
    <3>. QED  BY <3>1, NaturalsFounded, WFMin
  <2>2. i \in 0..k /\ chosen[i] # w[i] /\ \A x \in Nat : x < i => chosen[x] = w[x]
    <3>1. i \in Nat /\ i <= k /\ chosen[i] # w[i]
      OBVIOUS
    <3>2. \A x \in Nat : x < i => x \notin Bad
      <4>1. \A x \in Nat : x < i => <<x, i>> \in {pair \in Nat \X Nat : pair[1] < pair[2]}
        BY <3>1
      <4>. HIDE DEF Bad
      <4>. QED  BY <2>1, <4>1
    <3>3. \A x \in Nat : x < i => x <= k
      BY <1>2, <3>1
    <3>4. \A x \in Nat : x \notin Bad /\ x <= k => chosen[x] = w[x]
      OBVIOUS
    <3>5. i \in 0..k
      BY <1>2, <3>1
    <3>. HIDE DEF Bad
    <3>. QED  BY <3>1, <3>2, <3>3, <3>4, <3>5
  <2>3. CASE i = 0
    BY <1>5, <1>6, <2>2, <2>3
  <2>4. CASE i # 0
    <3>1. chosen[i - 1] = w[i - 1]
      BY <2>2, <2>4
    <3>. QED  BY <1>5, <1>6, <2>2, <2>4, <3>1
  <2>. QED  BY <2>3, <2>4
<1>8. k \in 0..k /\ chosen[k] = w[k]
  BY <1>2, <1>7
<1>. QED  BY <1>1, <1>8 DEF k

\* r renders what the pointers lead to.
RendersAll(r, d, pointers, mean, done) ==
  \A i \in 1..Len(pointers) : pointers[i] \in done => r[pointers[i]] = mean[pointers[i]][d]

LEMMA JoinsRender ==
  ASSUME NEW mean, NEW done, NEW nodes \in Seq(Int), NEW m, Joins(nodes, m, mean, done),
         NEW d \in Dicts, NEW r, RendersAll(r, d, nodes, mean, done)
  PROVE  NodesOf(r, nodes) = m[d]
<1>0. \A i \in 1..Len(nodes) : r[nodes[i]] = mean[nodes[i]][d]
  BY DEF Joins, RendersAll
<1>1. PICK u \in [0..Len(nodes) -> Meanings] :
        /\ u[0] = Always(<<>>)
        /\ \A i \in 1..Len(nodes) : u[i] = Both(u[i - 1], mean[nodes[i]])
        /\ m = u[Len(nodes)]
  BY DEF Joins
<1>. DEFINE w == [i \in 0..Len(nodes) |-> u[i][d]]
<1>2. Len(nodes) \in Nat
  BY LenProperties
<1>3. w[0] = <<>>
  BY <1>1, <1>2 DEF Always
<1>4. \A i \in 1..Len(nodes) : w[i] = w[i - 1] \o r[nodes[i]]
  <2>. TAKE i \in 1..Len(nodes)
  <2>1. i \in 0..Len(nodes) /\ i - 1 \in 0..Len(nodes)
    BY <1>2
  <2>2. u[i][d] = u[i - 1][d] \o mean[nodes[i]][d]
    BY <1>1 DEF Both
  <2>. QED  BY <1>0, <2>1, <2>2
<1>5. DOMAIN w = 0..Len(nodes) /\ w = [i \in 0..Len(nodes) |-> w[i]] /\ w[Len(nodes)] = m[d]
  BY <1>1, <1>2
<1>. HIDE DEF w
<1>. QED  BY <1>3, <1>4, <1>5, NodesOfIs

\* One object, when what it points to is rendered as it means.
Fits(r, d, o, mean, done) ==
  /\ o # Null /\ heap[o] \in FormatHeap
  /\ Expands(heap[o], mean[o], mean, done)
  /\ RendersAll(r, d, Pointers(heap[o]), mean, done)

LEMMA ObjectRenders ==
  ASSUME NEW d \in Dicts, NEW mean, NEW done, NEW r, NEW o, Fits(r, d, o, mean, done)
  PROVE  RenderOf(r, d, o) = mean[o][d]
<1>. o # Null
  BY DEF Fits
<1>0. PICK n : n = heap[o]
  OBVIOUS
<1>. n \in FormatHeap /\ heap[o] = n /\ Expands(n, mean[o], mean, done)
     /\ RendersAll(r, d, Pointers(n), mean, done)
  BY <1>0 DEF Fits
<1>1. CASE n \in Literals
  <2>1. n.kind = "literal"
    BY <1>1 DEF Literals
  <2>2. mean[o][d] = n.str
    BY <2>1 DEF Expands, Always
  <2>. QED  BY <2>1, <2>2 DEF RenderOf
<1>2. CASE n \in FormatObjects
  <2>1. n.kind = "format" /\ n.nodes \in Seq(Int) /\ Pointers(n) = n.nodes
    BY <1>2, PointersOf DEF FormatObjects
  <2>2. Joins(n.nodes, mean[o], mean, done)
    BY <2>1 DEF Expands
  <2>4. NodesOf(r, n.nodes) = mean[o][d]
    <3>. DEFINE nodes == n.nodes
                m == mean[o]
    <3>1. nodes \in Seq(Int) /\ Joins(nodes, m, mean, done)
          /\ RendersAll(r, d, nodes, mean, done)
      BY <2>1, <2>2
    <3>. HIDE DEF nodes, m
    <3>2. NodesOf(r, nodes) = m[d]
      BY <3>1, JoinsRender
    <3>. QED  BY <3>2 DEF nodes, m
  <2>5. RenderOf(r, d, o) = NodesOf(r, n.nodes)
    BY <2>1, Zenon DEF RenderOf, NodesOf
  <2>. QED  BY <2>4, <2>5
<1>3. CASE n \in Substs
  <2>1. n.kind = "subst" /\ Pointers(n) = <<n.if_true, n.if_false>>
        /\ n.type \in {"basic", "if exists", "if absent", "ternary", "fallback"}
    BY <1>3, PointersOf DEF Substs
  <2>2. SubstExpands(n, mean[o], mean, done)
    BY <2>1 DEF Expands
  <2>3. /\ n.if_true \in done => r[n.if_true] = mean[n.if_true][d]
        /\ n.if_false \in done => r[n.if_false] = mean[n.if_false][d]
    <3>1. Len(Pointers(n)) = 2 /\ Pointers(n)[1] = n.if_true /\ Pointers(n)[2] = n.if_false
      <4>. DEFINE a == n.if_true
                  b == n.if_false
                  both == <<a, b>>
      <4>1. both[1] = a /\ both[2] = b /\ Len(both) = 2
        OBVIOUS
      <4>2. Pointers(n) = both
        BY <2>1
      <4>. HIDE DEF both
      <4>. QED  BY <4>1, <4>2
    <3>. HIDE DEF Pointers
    <3>2. \A i \in 1..2 : Pointers(n)[i] \in done => r[Pointers(n)[i]] = mean[Pointers(n)[i]][d]
      BY <3>1 DEF RendersAll
    <3>. QED  BY <3>1, <3>2
  <2>4. \A m, m2 : IfPresent(n.key, m, m2)[d] = IF n.key \in d THEN m[d] ELSE m2[d]
    BY DEF IfPresent
  <2>5. \A s : Always(s)[d] = s
    BY DEF Always
  <2>6. CASE n.type = "basic"
    BY <2>1, <2>2, <2>4, <2>5, <2>6 DEF RenderOf, SubstExpands
  <2>7. CASE n.type = "if exists"
    <3>1. RenderOf(r, d, o) = IF n.key \in d THEN r[n.if_true] ELSE <<>>
      BY <2>1, <2>7 DEF RenderOf
    <3>2. n.if_true \in done /\ mean[o] = IfPresent(n.key, mean[n.if_true], Always(<<>>))
      BY <2>2, <2>7 DEF SubstExpands
    <3>3. mean[o][d] = IF n.key \in d THEN mean[n.if_true][d] ELSE <<>>
      BY <2>4, <2>5, <3>2
    <3>. QED  BY <2>3, <3>1, <3>2, <3>3
  <2>8. CASE n.type = "if absent"
    <3>1. RenderOf(r, d, o) = IF n.key \in d THEN <<>> ELSE r[n.if_false]
      BY <2>1, <2>8 DEF RenderOf
    <3>2. n.if_false \in done /\ mean[o] = IfPresent(n.key, Always(<<>>), mean[n.if_false])
      BY <2>2, <2>8 DEF SubstExpands
    <3>3. mean[o][d] = IF n.key \in d THEN <<>> ELSE mean[n.if_false][d]
      BY <2>4, <2>5, <3>2
    <3>. QED  BY <2>3, <3>1, <3>2, <3>3
  <2>9. CASE n.type = "ternary"
    BY <2>1, <2>2, <2>3, <2>4, <2>5, <2>9 DEF RenderOf, SubstExpands
  <2>10. CASE n.type = "fallback"
    BY <2>1, <2>2, <2>3, <2>4, <2>5, <2>10 DEF RenderOf, SubstExpands
  <2>. QED  BY <2>1, <2>6, <2>7, <2>8, <2>9, <2>10
<1>. QED  BY <1>1, <1>2, <1>3 DEF FormatHeap

\* The whole tree.
LEMMA TreeRenders ==
  ASSUME TreeInv, NEW d \in Dicts, NEW mean,
         \A o \in 1..Len(heap) : Expands(heap[o], mean[o], mean, 1..Len(heap))
  PROVE  Render(d) = mean[1][d]
<1>. DEFINE k == Len(heap)
            q == [o \in 0..k |-> IF o = Null THEN <<>> ELSE mean[o][d]]
<1>1. /\ k \in Nat \ {0} /\ Len(Tree) = k
      /\ \A p \in 1..k : heap[p] \in FormatHeap /\ Tree[p] = Pointers(heap[p])
      /\ \A p \in 1..k : Pointers(heap[p]) \in Seq(Int)
  BY TreeIs, PointersOf DEF TreeInv, FormatTypes
<1>2. \A p \in 1..k : \A i \in 1..Len(Pointers(heap[p])) :
        Pointers(heap[p])[i] \in 1..k => p < Pointers(heap[p])[i]
  <2>. TAKE p \in 1..k
  <2>. TAKE i \in 1..Len(Pointers(heap[p]))
  <2>. HIDE DEF Pointers
  <2>1. i \in DOMAIN Pointers(heap[p])
    BY <1>1, LenProperties
  <2>2. \A p2 \in 1..Len(Tree) : \A i2 \in DOMAIN Tree[p2] :
          Tree[p2][i2] \in {Null, Junk} \/ (p2 < Tree[p2][i2] /\ Tree[p2][i2] <= Len(Tree))
    BY DEF TreeInv, Downwards
  <2>3. Tree[p][i] \in {Null, Junk} \/ p < Tree[p][i]
    BY <1>1, <2>1, <2>2
  <2>4. Null \notin 1..k /\ Junk \notin 1..k
    BY DEF Null, Junk
  <2>. HIDE DEF k
  <2>. QED  BY <1>1, <2>3, <2>4
<1>. HIDE DEF k
<1>3. \A p \in 1..k : q[p] = mean[p][d]
  BY DEF Null
<1>4. q[0] = <<>> /\ \A r : RenderOf(r, d, 0) = <<>>
  BY <1>1 DEF Null, RenderOf
<1>5. ASSUME NEW r, NEW p \in 1..k, \A x \in 1..k : p < x => r[x] = mean[x][d]
      PROVE  RenderOf(r, d, p) = mean[p][d]
  <2>1. RendersAll(r, d, Pointers(heap[p]), mean, 1..k)
    BY <1>2, <1>5 DEF RendersAll
  <2>2. Expands(heap[p], mean[p], mean, 1..k)
    BY DEF k
  <2>3. p # Null /\ heap[p] \in FormatHeap
    BY <1>1 DEF Null
  <2>4. Fits(r, d, p, mean, 1..k)
    BY <2>1, <2>2, <2>3 DEF Fits
  <2>. QED  BY <2>4, ObjectRenders
<1>6. Renders(q, d)
  <2>1. \A p \in 1..k : RenderOf(q, d, p) = q[p]
    BY <1>3, <1>5
  <2>2. \A p \in 0..k : RenderOf(q, d, p) = q[p]
    BY <1>1, <1>4, <2>1
  <2>3. q = [o \in 0..k |-> q[o]]
    OBVIOUS
  <2>. HIDE DEF q
  <2>. QED  BY <2>2, <2>3 DEF Renders, k
<1>. DEFINE chosen == CHOOSE r : Renders(r, d)
<1>7. Renders(chosen, d)
  BY <1>6
<1>8. Render(d) = chosen[1]
  BY RenderChoice
<1>. HIDE DEF chosen, q
<1>9. \A p \in 0..k : chosen[p] = RenderOf(chosen, d, p)
  BY <1>7 DEF Renders, k
<1>. DEFINE Bad == {i \in Nat : i < k /\ chosen[k - i] # mean[k - i][d]}
<1>10. Bad = {}
  <2>. SUFFICES ASSUME Bad # {} PROVE FALSE
    OBVIOUS
  <2>1. PICK i \in Bad : \A x \in Bad : ~(<<x, i>> \in {pair \in Nat \X Nat : pair[1] < pair[2]})
    <3>. HIDE DEF Bad
    <3>1. Bad \subseteq Nat
      BY DEF Bad
    <3>. QED  BY <3>1, NaturalsFounded, WFMin
  <2>2. /\ i \in Nat /\ i < k /\ chosen[k - i] # mean[k - i][d]
        /\ \A x \in Nat : x < i => chosen[k - x] = mean[k - x][d]
    <3>1. i \in Nat /\ i < k /\ chosen[k - i] # mean[k - i][d]
      OBVIOUS
    <3>2. \A x \in Nat : x < i => x \notin Bad
      <4>1. \A x \in Nat : x < i => <<x, i>> \in {pair \in Nat \X Nat : pair[1] < pair[2]}
        BY <3>1
      <4>. HIDE DEF Bad
      <4>. QED  BY <2>1, <4>1
    <3>. QED  BY <1>1, <3>1, <3>2
  <2>3. k - i \in 1..k /\ \A x \in 1..k : k - i < x => k - x \in Nat /\ k - x < i /\ k - (k - x) = x
    BY <1>1, <2>2
  <2>4. \A x \in 1..k : k - i < x => chosen[x] = mean[x][d]
    BY <2>2, <2>3
  <2>5. RenderOf(chosen, d, k - i) = mean[k - i][d]
    BY <1>5, <2>3, <2>4
  <2>6. chosen[k - i] = RenderOf(chosen, d, k - i)
    BY <1>1, <1>9, <2>3
  <2>. QED  BY <2>2, <2>5, <2>6
<1>11. chosen[1] = mean[1][d]
  <2>1. k - 1 \in Nat /\ k - 1 < k /\ k - (k - 1) = 1
    BY <1>1
  <2>. QED  BY <1>10, <2>1
<1>. QED  BY <1>8, <1>11

\* What format_render makes of a string that was accepted is what the manual says
\* of it, for every set of properties and strings of any length and nesting
\* (format.c:266-320).
THEOREM RenderedAsDocumented == FormatSpec => []RendersAsDocumented
<1>1. TreeInv /\ MeaningInv => RendersAsDocumented
  <2>. SUFFICES ASSUME TreeInv, MeaningInv, state = "parsed"
                PROVE  <<text, [d \in Dicts |-> Render(d)]>> \in Sentences
    BY DEF RendersAsDocumented
  <2>1. frames = <<>>
    BY DEF TreeInv, FramesInv
  <2>2. PICK mean, own, pre : Reading(mean, own, pre, text, wchar, heap, frames)
    BY DEF MeaningInv
  <2>3. DoneOf(heap, frames) = 1..Len(heap)
    BY <2>1 DEF DoneOf
  <2>4. /\ \A o \in 1..Len(heap) : Expands(heap[o], mean[o], mean, 1..Len(heap))
        /\ Says(text, mean[1]) /\ mean[1] \in Meanings
    BY <2>1, <2>2, <2>3 DEF Reading
  <2>5. \A d \in Dicts : Render(d) = mean[1][d]
    BY <2>4, TreeRenders
  <2>6. [d \in Dicts |-> Render(d)] = mean[1]
    <3>1. mean[1] = [d \in Dicts |-> mean[1][d]]
      BY <2>4 DEF Meanings
    <3>. QED  BY <2>5, <3>1
  <2>7. Len(text) \in 1..MaxText /\ <<text, mean[1]>> \in Formats[Len(text)]
    BY <2>4 DEF Says
  <2>8. <<text, mean[1]>> \in Sentences
    <3>. DEFINE s == <<text, mean[1]>>
                k == Len(text)
    <3>. HIDE DEF s, k
    <3>1. s \in Formats[k] /\ k \in 1..MaxText
      BY <2>7 DEF s, k
    <3>. QED  BY <3>1, Zenon DEF Sentences, s
  <2>. QED  BY <2>6, <2>8
<1>. QED  BY <1>1, TreeHolds, TextHasMeaning, PTL

-----------------------------------------------------------------------------
(* What may follow, as sets of texts: one after another, and behind a      *)
(* character.                                                              *)

Cat(A, B)  == {w \in Seq(Chars) : \E a \in A, b \in B : w = a \o b}
Lead(c, A) == {w \in Seq(Chars) : \E a \in A : w = <<c>> \o a}

\* The texts of the sentences.
Spoken == {t \in Seq(Chars) : \E m : Says(t, m)}

LEMMA LedIs ==
  ASSUME NEW c \in Chars, NEW a \in Seq(Chars)
  PROVE  /\ <<c>> \o a \in Seq(Chars) /\ <<c>> \o a # <<>> /\ (<<c>> \o a)[1] = c
         /\ Len(<<c>> \o a) = Len(a) + 1 /\ Len(a) \in Nat
         /\ \A i \in 1..Len(a) : (<<c>> \o a)[i + 1] = a[i]
<1>1. <<c>> \in Seq(Chars) /\ Len(<<c>>) = 1 /\ <<c>>[1] = c /\ Len(a) \in Nat
  BY One, LenProperties
<1>. DEFINE one == <<c>>
<1>. HIDE DEF one
<1>2. /\ one \o a \in Seq(Chars) /\ Len(one \o a) = 1 + Len(a)
      /\ \A i \in 1..1 + Len(a) : (one \o a)[i] = IF i <= 1 THEN one[i] ELSE a[i - 1]
  BY <1>1, ConcatProperties DEF one
<1>3. \A i \in 1..Len(a) : i + 1 \in 1..1 + Len(a) /\ ~(i + 1 <= 1) /\ i + 1 - 1 = i
  BY <1>1
<1>4. (one \o a)[1] = c /\ \A i \in 1..Len(a) : (one \o a)[i + 1] = a[i]
  BY <1>1, <1>2, <1>3 DEF one
<1>5. one \o a # <<>>
  BY <1>1, <1>2, EmptySeq
<1>. QED  BY <1>1, <1>2, <1>4, <1>5 DEF one

LEMMA SameRest ==
  ASSUME NEW c \in Chars, NEW e \in Chars, NEW a \in Seq(Chars), NEW b \in Seq(Chars), <<c>> \o a = <<e>> \o b
  PROVE  c = e /\ a = b
<1>. DEFINE s == <<c>> \o a
            t == <<e>> \o b
<1>1. /\ s[1] = c /\ Len(s) = Len(a) + 1 /\ Len(a) \in Nat /\ \A i \in 1..Len(a) : s[i + 1] = a[i]
      /\ t[1] = e /\ Len(t) = Len(b) + 1 /\ Len(b) \in Nat /\ \A i \in 1..Len(b) : t[i + 1] = b[i]
      /\ s = t
  BY LedIs
<1>. HIDE DEF s, t
<1>2. c = e /\ Len(a) = Len(b) /\ \A i \in 1..Len(a) : a[i] = b[i]
  BY <1>1
<1>. QED  BY <1>2, SeqEqual

\* The first character, and what begins with it.
LEMMA LeadIs ==
  ASSUME NEW c \in Chars, NEW A, A \subseteq Seq(Chars), NEW w
  PROVE  /\ w \in Lead(c, A) <=> w \in Seq(Chars) /\ \E a \in A : w = <<c>> \o a
         /\ w \in Lead(c, A) => w # <<>> /\ w[1] = c
         /\ Lead(c, A) \subseteq Seq(Chars)
<1>1. w \in Lead(c, A) <=> w \in Seq(Chars) /\ \E a \in A : w = <<c>> \o a
  BY Zenon DEF Lead
<1>2. Lead(c, A) \subseteq Seq(Chars)
  BY DEF Lead
<1>3. ASSUME NEW a \in A, w = <<c>> \o a  PROVE w # <<>> /\ w[1] = c
  BY <1>3, LedIs
<1>. QED  BY <1>1, <1>2, <1>3

LEMMA LeadHas ==
  ASSUME NEW c \in Chars, NEW A, A \subseteq Seq(Chars), NEW a \in A
  PROVE  <<c>> \o a \in Lead(c, A)
<1>1. <<c>> \o a \in Seq(Chars)
  BY LedIs
<1>. QED  BY <1>1, LeadIs

LEMMA LedBy ==
  ASSUME NEW c \in Chars, NEW A, A \subseteq Seq(Chars), NEW a \in Seq(Chars), <<c>> \o a \in Lead(c, A)
  PROVE  a \in A
<1>1. PICK b \in A : <<c>> \o a = <<c>> \o b
  BY LeadIs
<1>2. b \in Seq(Chars)
  OBVIOUS
<1>3. a = b
  BY <1>1, <1>2, SameRest
<1>. QED  BY <1>3

LEMMA CatIs ==
  ASSUME NEW A, A \subseteq Seq(Chars), NEW B, B \subseteq Seq(Chars)
  PROVE  /\ Cat(A, B) \subseteq Seq(Chars)
         /\ \A a \in A, b \in B : a \o b \in Cat(A, B)
         /\ \A w \in Cat(A, B) : \E a \in A, b \in B : w = a \o b
<1>1. Cat(A, B) \subseteq Seq(Chars)
  BY DEF Cat
<1>2. ASSUME NEW a \in A, NEW b \in B  PROVE a \o b \in Cat(A, B)
  <2>1. a \in Seq(Chars) /\ b \in Seq(Chars)
    OBVIOUS
  <2>2. a \o b \in Seq(Chars)
    BY <2>1, Glued
  <2>. QED  BY <2>2, Zenon DEF Cat
<1>3. \A w \in Cat(A, B) : \E a \in A, b \in B : w = a \o b
  BY Zenon DEF Cat
<1>. QED  BY <1>1, <1>2, <1>3

LEMMA SpokenAre ==
  /\ Spoken \subseteq Seq(Chars)
  /\ \A t \in Spoken : t # <<>> /\ Len(t) \in 1..MaxText /\ \E m : Says(t, m)
<1>1. Spoken \subseteq Seq(Chars) /\ \A t \in Spoken : \E m : Says(t, m)
  BY Zenon DEF Spoken
<1>2. \A t, m : Says(t, m) => t # <<>> /\ Len(t) \in 1..MaxText
  <2>1. Len(<<>>) = 0
    OBVIOUS
  <2>. QED  BY <2>1 DEF Says
<1>. QED  BY <1>1, <1>2

-----------------------------------------------------------------------------
(* What may follow where a function is in control, if L may follow its     *)
(* return.                                                                 *)

More(L)     == L \union Cat(Spoken, L)

AtClose(L)  == Lead("}", L)
Other(L)    == Lead("!", Cat(Spoken, AtClose(L)))
AtElse(L)   == AtClose(L) \union Other(L)
AtThen(L)   == Cat(Spoken, AtElse(L)) \union Other(L)
AfterKey(L) == AtElse(L) \union Lead("?", AtThen(L))

\* A key has some characters already, or needs at least one.
AtKey(L, least) ==
  {w \in Seq(Chars) : \E a \in Nat, y \in AfterKey(L) : a >= least /\ w = Key(a) \o y}

Slash        == "\\"
AtEscaped(L) == UNION {Lead(c, L) : c \in Escapable}
AtChar(L)    == Lead(Slash, AtEscaped(L)) \union UNION {Lead(c, L) : c \in Plain}
AtOpen(L)    == Lead(Brace, AtKey(L, 1))

\* A format begins with a character or a substitution.
AtUnit(L) == AtChar(L) \union AtOpen(L)

LEMMA TextSets ==
  ASSUME NEW L, L \subseteq Seq(Chars)
  PROVE  /\ More(L) \subseteq Seq(Chars) /\ Cat(Spoken, L) \subseteq Seq(Chars)
         /\ AtClose(L) \subseteq Seq(Chars) /\ Other(L) \subseteq Seq(Chars)
         /\ AtElse(L) \subseteq Seq(Chars) /\ AtThen(L) \subseteq Seq(Chars)
         /\ AfterKey(L) \subseteq Seq(Chars) /\ AtKey(L, 0) \subseteq Seq(Chars)
         /\ AtKey(L, 1) \subseteq Seq(Chars) /\ AtEscaped(L) \subseteq Seq(Chars)
         /\ AtChar(L) \subseteq Seq(Chars) /\ AtOpen(L) \subseteq Seq(Chars)
         /\ AtUnit(L) \subseteq Seq(Chars)
<1>1. \A c, A : Lead(c, A) \subseteq Seq(Chars)
  BY Zenon DEF Lead
<1>2. \A A, B : Cat(A, B) \subseteq Seq(Chars)
  BY Zenon DEF Cat
<1>3. AtKey(L, 0) \subseteq Seq(Chars) /\ AtKey(L, 1) \subseteq Seq(Chars)
  BY Zenon DEF AtKey
<1>4. AtClose(L) \subseteq Seq(Chars) /\ Other(L) \subseteq Seq(Chars)
  BY <1>1 DEF AtClose, Other
<1>5. AtElse(L) \subseteq Seq(Chars) /\ AtThen(L) \subseteq Seq(Chars)
  BY <1>2, <1>4 DEF AtElse, AtThen
<1>6. AfterKey(L) \subseteq Seq(Chars)
  BY <1>1, <1>5 DEF AfterKey
<1>7. AtEscaped(L) \subseteq Seq(Chars)
  BY <1>1, Zenon DEF AtEscaped
<1>8. AtChar(L) \subseteq Seq(Chars) /\ AtOpen(L) \subseteq Seq(Chars)
  <2>1. UNION {Lead(c, L) : c \in Plain} \subseteq Seq(Chars)
    BY <1>1, Zenon
  <2>2. Lead(Slash, AtEscaped(L)) \subseteq Seq(Chars) /\ AtOpen(L) \subseteq Seq(Chars)
    BY <1>1, Zenon DEF AtOpen
  <2>3. AtChar(L) \subseteq Seq(Chars)
    BY <2>1, <2>2, Zenon DEF AtChar
  <2>. QED  BY <2>2, <2>3
<1>9. More(L) \subseteq Seq(Chars) /\ Cat(Spoken, L) \subseteq Seq(Chars) /\ AtUnit(L) \subseteq Seq(Chars)
  BY <1>2, <1>8 DEF More, AtUnit
<1>. QED  BY <1>3, <1>4, <1>5, <1>6, <1>7, <1>8, <1>9

-----------------------------------------------------------------------------
(* How a sentence begins.                                                  *)

\* The text of what is a sentence of n characters.
Form(s, n) == s = <<s[1], s[2]>> /\ s[1] \in Seq(Chars) /\ Len(s[1]) = n

\* What follows the key of a substitution.
Shape(y) ==
  \/ y = <<>>
  \/ \E t \in Spoken : y = <<"?">> \o t \/ y = <<"!">> \o t \/ y = <<"?", "!">> \o t
  \/ \E t \in Spoken, t2 \in Spoken : y = (<<"?">> \o t) \o (<<"!">> \o t2)

ShorterSpoken(n) == \A i \in 1..n - 1 : \A g \in Formats[i] : Form(g, i)

LEMMA ShorterIs ==
  ASSUME NEW n \in 1..MaxText, ShorterSpoken(n), NEW i \in 1..n - 1, NEW g \in Formats[i]
  PROVE  g[1] \in Spoken /\ g[1] \in Seq(Chars) /\ Len(g[1]) = i
<1>1. Form(g, i)
  BY DEF ShorterSpoken
<1>2. i \in 1..MaxText
  BY FormatAssumption
<1>3. Says(g[1], g[2])
  BY <1>1, <1>2 DEF Form, Says
<1>. QED  BY <1>1, <1>3, Zenon DEF Form, Spoken

LEMMA SubstForm ==
  ASSUME NEW n \in 1..MaxText, ShorterSpoken(n), NEW a \in 1..n - 2, NEW s,
         IsSubst(Formats, n, Key(a), s)
  PROVE  \E y \in Seq(Chars) : Shape(y) /\ s = <<Braced(Key(a) \o y), s[2]>> /\ Len(y) + a + 2 = n
<1>. DEFINE k == Key(a)
<1>0. a \in Nat /\ n \in Nat /\ k \in Seq(Chars) /\ Len(k) = a
  BY KeyChars, FormatAssumption
<1>1. /\ <<"?">> \in Seq(Chars) /\ Len(<<"?">>) = 1 /\ <<"!">> \in Seq(Chars) /\ Len(<<"!">>) = 1
      /\ <<"?", "!">> \in Seq(Chars) /\ Len(<<"?", "!">>) = 2
  BY CharsAre, One, Two, Zenon
<1>. HIDE DEF k
<1>2. \A m, t : <<t, m>>[1] = t /\ <<t, m>>[2] = m
  OBVIOUS
<1>3. CASE n = Len(k) + 2 /\ IsBasic(k, s)
  <2>1. <<>> \in Seq(Chars) /\ Len(<<>>) = 0 /\ k \o <<>> = k /\ Shape(<<>>)
    BY <1>0, <1>1, ConcatEmptySeq, EmptySeq DEF Shape
  <2>2. s = <<Braced(k), s[2]>>
    BY <1>2, <1>3 DEF IsBasic
  <2>3. Len(<<>>) + a + 2 = n
    BY <1>0, <1>1, <1>3, <2>1
  <2>. QED  BY <2>1, <2>2, <2>3 DEF k
<1>4. CASE ~(n < Len(k) + 4) /\ IsOne(Formats[n - Len(k) - 3], k, s)
  <2>1. PICK g \in Formats[n - Len(k) - 3] :
          \/ s = <<Braced(k \o <<"?">> \o g[1]), IfPresent(k, g[2], Always(<<>>))>>
          \/ s = <<Braced(k \o <<"!">> \o g[1]), IfPresent(k, Always(<<>>), g[2])>>
    BY <1>4 DEF IsOne
  <2>2. n - Len(k) - 3 \in 1..n - 1
    BY <1>0, <1>1, <1>4
  <2>3. g[1] \in Spoken /\ g[1] \in Seq(Chars) /\ Len(g[1]) = n - Len(k) - 3
    BY <2>2, ShorterIs
  <2>4. ASSUME NEW c \in {"?", "!"}, s = <<Braced((k \o <<c>>) \o g[1]), s[2]>>
        PROVE  \E y \in Seq(Chars) : Shape(y) /\ s = <<Braced(k \o y), s[2]>> /\ Len(y) + a + 2 = n
    <3>1. <<c>> \in Seq(Chars) /\ Len(<<c>>) = 1
      BY <1>0, <1>1, <2>4
    <3>2. (k \o <<c>>) \o g[1] = k \o (<<c>> \o g[1])
      <4>1. Groups(k, <<c>>, g[1])
        BY <1>0, <2>3, <3>1, GroupsAll
      <4>. QED  BY <4>1 DEF Groups
    <3>3. <<c>> \o g[1] \in Seq(Chars) /\ Len(<<c>> \o g[1]) = 1 + (n - Len(k) - 3)
      BY <2>3, <3>1, Glued
    <3>4. Shape(<<c>> \o g[1])
      BY <2>3, <2>4 DEF Shape
    <3>5. Len(<<c>> \o g[1]) + a + 2 = n
      BY <1>0, <1>4, <3>3
    <3>. QED  BY <2>4, <3>2, <3>3, <3>4, <3>5
  <2>5. \E c \in {"?", "!"} : s = <<Braced((k \o <<c>>) \o g[1]), s[2]>>
    BY <1>2, <2>1
  <2>. QED  BY <2>4, <2>5 DEF k
<1>5. CASE \E i \in 1..n - Len(k) - 5 : IsTwo(Formats[i], Formats[n - Len(k) - 4 - i], k, s)
  <2>1. PICK i \in 1..n - Len(k) - 5 : IsTwo(Formats[i], Formats[n - Len(k) - 4 - i], k, s)
    BY <1>5
  <2>2. \E g \in Formats[i], h \in Formats[n - Len(k) - 4 - i] :
          s = <<Braced(k \o <<"?">> \o g[1] \o <<"!">> \o h[1]), IfPresent(k, g[2], h[2])>>
    BY <2>1 DEF IsTwo
  <2>3. PICK g \in Formats[i] : \E h \in Formats[n - Len(k) - 4 - i] :
          s = <<Braced(k \o <<"?">> \o g[1] \o <<"!">> \o h[1]), IfPresent(k, g[2], h[2])>>
    BY <2>2
  <2>4. PICK h \in Formats[n - Len(k) - 4 - i] :
          s = <<Braced(k \o <<"?">> \o g[1] \o <<"!">> \o h[1]), IfPresent(k, g[2], h[2])>>
    BY <2>3
  <2>5. i \in 1..n - 1 /\ n - Len(k) - 4 - i \in 1..n - 1
    BY <1>0, <1>1
  <2>6. /\ g[1] \in Spoken /\ g[1] \in Seq(Chars) /\ Len(g[1]) = i
        /\ h[1] \in Spoken /\ h[1] \in Seq(Chars) /\ Len(h[1]) = n - Len(k) - 4 - i
    BY <2>5, ShorterIs
  <2>. DEFINE t == g[1]
              t2 == h[1]
              q == <<"?">>
              e == <<"!">>
  <2>7. /\ t \in Seq(Chars) /\ t2 \in Seq(Chars) /\ q \in Seq(Chars) /\ e \in Seq(Chars)
        /\ Len(q) = 1 /\ Len(e) = 1 /\ Len(t) = i /\ Len(t2) = n - Len(k) - 4 - i
        /\ t \in Spoken /\ t2 \in Spoken /\ Shape((q \o t) \o (e \o t2))
        /\ s = <<Braced((((k \o q) \o t) \o e) \o t2), s[2]>>
    <3>1. Shape((q \o t) \o (e \o t2))
      BY <2>6 DEF Shape
    <3>2. s = <<Braced((((k \o q) \o t) \o e) \o t2), s[2]>>
      BY <1>2, <2>4
    <3>. QED  BY <1>0, <1>1, <2>6, <3>1, <3>2
  <2>. HIDE DEF t, t2, q, e
  <2>8. /\ q \o t \in Seq(Chars) /\ Len(q \o t) = 1 + i
        /\ e \o t2 \in Seq(Chars) /\ Len(e \o t2) = 1 + (n - Len(k) - 4 - i)
        /\ k \o q \in Seq(Chars)
    <3>1. q \o t \in Seq(Chars) /\ Len(q \o t) = 1 + i
      BY <2>7, Glued
    <3>2. e \o t2 \in Seq(Chars) /\ Len(e \o t2) = 1 + (n - Len(k) - 4 - i)
      BY <2>7, Glued
    <3>3. k \o q \in Seq(Chars)
      BY <1>0, <2>7, Glued
    <3>. QED  BY <3>1, <3>2, <3>3
  <2>9. k \o (q \o t) \in Seq(Chars)
    BY <1>0, <2>8, Glued
  <2>10. (((k \o q) \o t) \o e) \o t2 = k \o ((q \o t) \o (e \o t2))
    <3>1. (k \o q) \o t = k \o (q \o t)
      <4>1. Groups(k, q, t)
        BY <1>0, <2>7, GroupsAll
      <4>. QED  BY <4>1 DEF Groups
    <3>2. ((k \o (q \o t)) \o e) \o t2 = (k \o (q \o t)) \o (e \o t2)
      <4>1. Groups((k \o (q \o t)), e, t2)
        BY <2>7, <2>8, <2>9, GroupsAll
      <4>. QED  BY <4>1 DEF Groups
    <3>3. (k \o (q \o t)) \o (e \o t2) = k \o ((q \o t) \o (e \o t2))
      <4>1. Groups(k, (q \o t), (e \o t2))
        BY <1>0, <2>8, GroupsAll
      <4>. QED  BY <4>1 DEF Groups
    <3>. QED  BY <3>1, <3>2, <3>3
  <2>11. (q \o t) \o (e \o t2) \in Seq(Chars) /\ Len((q \o t) \o (e \o t2)) + a + 2 = n
    <3>1. /\ (q \o t) \o (e \o t2) \in Seq(Chars)
          /\ Len((q \o t) \o (e \o t2)) = Len(q \o t) + Len(e \o t2)
      BY <2>8, Glued
    <3>. QED  BY <1>0, <1>1, <2>8, <3>1
  <2>. QED  BY <2>7, <2>10, <2>11 DEF k
<1>6. CASE ~(n < Len(k) + 5) /\ IsShortcut(Formats[n - Len(k) - 4], k, s)
  <2>1. PICK g \in Formats[n - Len(k) - 4] :
          s = <<Braced(k \o <<"?", "!">> \o g[1]), IfPresent(k, Always(ValueOf(k)), g[2])>>
    BY <1>6 DEF IsShortcut
  <2>2. n - Len(k) - 4 \in 1..n - 1
    BY <1>0, <1>1, <1>6
  <2>3. g[1] \in Spoken /\ g[1] \in Seq(Chars) /\ Len(g[1]) = n - Len(k) - 4
    BY <2>2, ShorterIs
  <2>. DEFINE q == <<"?", "!">>
  <2>4. q \in Seq(Chars) /\ Len(q) = 2 /\ s = <<Braced((k \o q) \o g[1]), s[2]>>
    BY <1>0, <1>1, <1>2, <2>1
  <2>5. Shape(q \o g[1])
    BY <2>3 DEF Shape
  <2>. HIDE DEF q
  <2>6. (k \o q) \o g[1] = k \o (q \o g[1])
    <3>1. Groups(k, q, g[1])
      BY <1>0, <2>3, <2>4, GroupsAll
    <3>. QED  BY <3>1 DEF Groups
  <2>7. q \o g[1] \in Seq(Chars) /\ Len(q \o g[1]) = 2 + (n - Len(k) - 4)
    BY <2>3, <2>4, Glued
  <2>8. Len(q \o g[1]) + a + 2 = n
    BY <1>0, <1>1, <2>7
  <2>. QED  BY <2>4, <2>5, <2>6, <2>7, <2>8 DEF k
<1>. QED  BY <1>3, <1>4, <1>5, <1>6 DEF IsSubst, k
LEMMA TwoChars ==
  ASSUME NEW c \in Chars, NEW e \in Chars
  PROVE  <<c, e>> \in Seq(Chars) /\ <<c, e>> = <<c>> \o <<e>>
<1>1. <<c, e>> \in Seq(Chars)
  BY Two
<1>2. \A S : c \in S /\ e \in S => <<c>> \o <<e>> = <<c, e>>
  BY Two
<1>. QED  BY <1>1, <1>2, Zenon

LEMMA ShapeFollows ==
  ASSUME NEW M, M \subseteq Seq(Chars), NEW v \in M, NEW y \in Seq(Chars), Shape(y)
  PROVE  y \o (<<"}">> \o v) \in AfterKey(M)
<1>. DEFINE e == <<"}">> \o v
<1>1. v \in Seq(Chars) /\ "}" \in Chars /\ "?" \in Chars /\ "!" \in Chars
  BY CharsAre
<1>2. e \in AtClose(M)
  BY <1>1, LeadHas, Zenon DEF AtClose
<1>13. e \in Seq(Chars)
  BY <1>1, LedIs, Zenon
<1>. DEFINE q == <<"?">>
            x == <<"!">>
<1>3. q \in Seq(Chars) /\ x \in Seq(Chars)
  BY <1>1, One, Zenon
<1>0. <<"?", "!">> = q \o x
  BY <1>1, TwoChars, Zenon
<1>4. /\ AtClose(M) \subseteq Seq(Chars) /\ AtElse(M) \subseteq Seq(Chars)
      /\ AtThen(M) \subseteq Seq(Chars) /\ Other(M) \subseteq Seq(Chars)
  BY TextSets
<1>5. \A A \in SUBSET Seq(Chars) : \A t \in Spoken, w \in A : t \o w \in Cat(Spoken, A)
  BY CatIs, SpokenAre
<1>6. \A A \in SUBSET Seq(Chars) : \A w \in A : q \o w \in Lead("?", A) /\ x \o w \in Lead("!", A)
  BY <1>1, LeadHas
<1>7. ASSUME NEW t \in Spoken
      PROVE  /\ t \in Seq(Chars) /\ t \o e \in Seq(Chars)
             /\ x \o (t \o e) \in Other(M) /\ x \o (t \o e) \in Seq(Chars)
             /\ q \o (t \o e) \in AfterKey(M)
             /\ q \o (x \o (t \o e)) \in AfterKey(M)
  <2>1. t \in Seq(Chars)
    BY SpokenAre
  <2>2. t \o e \in Cat(Spoken, AtClose(M)) /\ t \o e \in Cat(Spoken, AtElse(M))
    <3>1. e \in AtElse(M)
      BY <1>2 DEF AtElse
    <3>. QED  BY <1>2, <1>4, <1>5, <3>1
  <2>3. x \o (t \o e) \in Other(M)
    <3>1. Cat(Spoken, AtClose(M)) \in SUBSET Seq(Chars)
      BY Zenon DEF Cat
    <3>. QED  BY <1>6, <2>2, <3>1 DEF Other
  <2>4. t \o e \in AtThen(M) /\ x \o (t \o e) \in AtThen(M)
    BY <2>2, <2>3 DEF AtThen
  <2>5. q \o (t \o e) \in Lead("?", AtThen(M)) /\ q \o (x \o (t \o e)) \in Lead("?", AtThen(M))
    BY <1>4, <1>6, <2>4
  <2>6. t \o e \in Seq(Chars)
    BY <1>4, <2>4
  <2>. QED  BY <1>4, <2>1, <2>3, <2>5, <2>6 DEF AfterKey
<1>. HIDE DEF e, q, x
<1>8. CASE y = <<>>
  <2>1. y \o e = e
    BY <1>13, <1>8, ConcatEmptySeq
  <2>. QED  BY <1>2, <2>1 DEF AfterKey, AtElse, e
<1>9. ASSUME NEW t \in Spoken, y = q \o t \/ y = x \o t \/ y = (q \o x) \o t  PROVE y \o e \in AfterKey(M)
  <2>1. t \in Seq(Chars) /\ x \o t \in Seq(Chars)
    BY <1>3, <1>7, Glued
  <2>2. (q \o t) \o e = q \o (t \o e) /\ (x \o t) \o e = x \o (t \o e)
    <3>1. Groups(q, t, e) /\ Groups(x, t, e)
      BY <1>13, <1>3, <2>1, GroupsAll
    <3>. QED  BY <3>1 DEF Groups
  <2>3. ((q \o x) \o t) \o e = q \o (x \o (t \o e))
    <3>1. (q \o x) \o t = q \o (x \o t)
      <4>1. Groups(q, x, t)
        BY <1>3, <2>1, GroupsAll
      <4>. QED  BY <4>1 DEF Groups
    <3>2. (q \o (x \o t)) \o e = q \o ((x \o t) \o e)
      <4>1. Groups(q, (x \o t), e)
        BY <1>13, <1>3, <2>1, GroupsAll
      <4>. QED  BY <4>1 DEF Groups
    <3>. QED  BY <2>2, <3>1, <3>2
  <2>4. x \o (t \o e) \in AfterKey(M)
    BY <1>7 DEF AfterKey, AtElse
  <2>. QED  BY <1>7, <1>9, <2>2, <2>3, <2>4
<1>10. ASSUME NEW t \in Spoken, NEW t2 \in Spoken, y = (q \o t) \o (x \o t2)
       PROVE  y \o e \in AfterKey(M)
  <2>1. /\ t \in Seq(Chars) /\ t2 \in Seq(Chars) /\ t2 \o e \in Seq(Chars)
        /\ x \o (t2 \o e) \in Other(M) /\ x \o (t2 \o e) \in Seq(Chars)
    BY <1>7
  <2>2. q \o t \in Seq(Chars) /\ x \o t2 \in Seq(Chars)
    BY <1>3, <2>1, Glued
  <2>3. y \o e = q \o (t \o (x \o (t2 \o e)))
    <3>1. y \o e = (q \o t) \o ((x \o t2) \o e)
      <4>1. Groups(q \o t, x \o t2, e)
        BY <1>13, <2>2, GroupsAll
      <4>. QED  BY <1>10, <4>1 DEF Groups
    <3>2. (x \o t2) \o e = x \o (t2 \o e)
      <4>1. Groups(x, t2, e)
        BY <1>13, <1>3, <2>1, GroupsAll
      <4>. QED  BY <4>1 DEF Groups
    <3>3. (q \o t) \o (x \o (t2 \o e)) = q \o (t \o (x \o (t2 \o e)))
      <4>1. Groups(q, t, (x \o (t2 \o e)))
        BY <1>3, <2>1, GroupsAll
      <4>. QED  BY <4>1 DEF Groups
    <3>. QED  BY <3>1, <3>2, <3>3
  <2>4. t \o (x \o (t2 \o e)) \in AtThen(M)
    <3>1. x \o (t2 \o e) \in AtElse(M)
      BY <2>1 DEF AtElse
    <3>. QED  BY <1>4, <1>5, <3>1 DEF AtThen
  <2>5. q \o (t \o (x \o (t2 \o e))) \in Lead("?", AtThen(M))
    BY <1>4, <1>6, <2>4
  <2>. QED  BY <2>3, <2>5 DEF AfterKey
<1>. DEFINE Short == \E t \in Spoken : y = q \o t \/ y = x \o t \/ y = (q \o x) \o t
            Long  == \E t \in Spoken : \E t2 \in Spoken : y = (q \o t) \o (x \o t2)
<1>11. y = <<>> \/ Short \/ Long
  BY <1>0, Zenon DEF Shape, q, x
<1>12. CASE Short
  <2>1. PICK t \in Spoken : y = q \o t \/ y = x \o t \/ y = (q \o x) \o t
    BY <1>12
  <2>. QED  BY <1>9, <2>1 DEF e
<1>14. CASE Long
  <2>1. PICK t \in Spoken : \E t2 \in Spoken : y = (q \o t) \o (x \o t2)
    BY <1>14
  <2>2. PICK t2 \in Spoken : y = (q \o t) \o (x \o t2)
    BY <2>1
  <2>. QED  BY <1>10, <2>2 DEF e
<1>. HIDE DEF Short, Long
<1>. QED  BY <1>8, <1>11, <1>12, <1>14

\* A text behind which, whatever follows, a unit has been read.
Begins(u) == \A M \in SUBSET Seq(Chars) : \A v \in M : u \o v \in AtUnit(M)

LEMMA SubstBegins ==
  ASSUME NEW a \in Nat, a >= 1, NEW y \in Seq(Chars), Shape(y)
  PROVE  Braced(Key(a) \o y) \in Seq(Chars) /\ Begins(Braced(Key(a) \o y))
<1>. DEFINE k    == Key(a)
            open == <<Brace>>
            shut == <<"}">>
            u    == Braced(k \o y)
<1>1. k \in Seq(Chars) /\ open \in Seq(Chars) /\ shut \in Seq(Chars) /\ Brace \in Chars
  BY KeyChars, CharsAre, One, Zenon DEF Brace
<1>7. k \in Seq(Chars) /\ open \in Seq(Chars) /\ shut \in Seq(Chars)
  BY <1>1, Zenon
<1>2. k \o y \in Seq(Chars)
  BY <1>1, Glued
<1>3. u = (open \o (k \o y)) \o shut
  BY Zenon DEF Braced, Brace
<1>4. u \in Seq(Chars)
  BY <1>2, BracedIs
<1>5. ASSUME NEW M \in SUBSET Seq(Chars), NEW v \in M  PROVE u \o v \in AtUnit(M)
  <2>. DEFINE e == shut \o v
  <2>1. v \in Seq(Chars) /\ shut \o v \in Seq(Chars)
    <3>1. v \in Seq(Chars)
      OBVIOUS
    <3>. HIDE DEF shut
    <3>. QED  BY <1>1, <3>1, Glued
  <2>2. y \o e \in AfterKey(M)
    BY ShapeFollows
  <2>3. y \o e \in Seq(Chars) /\ AtKey(M, 1) \subseteq Seq(Chars)
    BY <2>2, TextSets
  <2>4. k \o (y \o e) \in AtKey(M, 1)
    <3>1. k \o (y \o e) \in Seq(Chars)
      BY <1>1, <2>3, Glued
    <3>. HIDE DEF e
    <3>. QED  BY <2>2, <3>1, Zenon DEF AtKey
  <2>5. open \o (k \o (y \o e)) \in AtOpen(M)
    BY <1>1, <2>3, <2>4, LeadHas DEF AtOpen
  <2>6. u \o v = open \o (k \o (y \o e))
    <3>. HIDE DEF u, open, shut, k
    <3>1. open \o (k \o y) \in Seq(Chars)
      BY <1>7, <1>2, Glued
    <3>2. u \o v = (open \o (k \o y)) \o e
      <4>1. Groups(open \o (k \o y), shut, v)
        BY <1>7, <2>1, <3>1, GroupsAll
      <4>. QED  BY <1>3, <4>1 DEF Groups
    <3>3. (open \o (k \o y)) \o e = open \o ((k \o y) \o e)
      <4>1. Groups(open, (k \o y), e)
        BY <1>7, <1>2, <2>1, GroupsAll
      <4>. QED  BY <4>1 DEF Groups
    <3>4. (k \o y) \o e = k \o (y \o e)
      <4>1. Groups(k, y, e)
        BY <1>7, <2>1, GroupsAll
      <4>. QED  BY <4>1 DEF Groups
    <3>. QED  BY <3>2, <3>3, <3>4
  <2>. QED  BY <2>5, <2>6 DEF AtUnit
<1>. HIDE DEF u
<1>6. Begins(u)
  BY <1>5 DEF Begins
<1>. QED  BY <1>4, <1>6 DEF u

LEMMA CharBegins ==
  /\ \A c \in Plain : <<c>> \in Seq(Chars) /\ Begins(<<c>>)
  /\ \A c \in Escapable : <<"\\", c>> \in Seq(Chars) /\ Begins(<<"\\", c>>)
<1>1. ASSUME NEW c \in Plain  PROVE <<c>> \in Seq(Chars) /\ Begins(<<c>>)
  <2>1. c \in Chars /\ <<c>> \in Seq(Chars)
    BY CharsAre, One
  <2>2. ASSUME NEW M \in SUBSET Seq(Chars), NEW v \in M  PROVE <<c>> \o v \in AtUnit(M)
    <3>1. <<c>> \o v \in Lead(c, M)
      BY <2>1, LeadHas
    <3>2. <<c>> \o v \in AtChar(M)
      BY <3>1, Zenon DEF AtChar
    <3>. QED  BY <3>2 DEF AtUnit
  <2>. QED  BY <2>1, <2>2, Zenon DEF Begins
<1>2. ASSUME NEW c \in Escapable  PROVE <<"\\", c>> \in Seq(Chars) /\ Begins(<<"\\", c>>)
  <2>1. c \in Chars /\ <<c>> \in Seq(Chars) /\ "\\" \in Chars /\ <<"\\">> \in Seq(Chars)
    BY CharsAre, One, Zenon
  <2>2. <<"\\", c>> \in Seq(Chars) /\ <<"\\", c>> = <<"\\">> \o <<c>>
    BY <2>1, TwoChars, Zenon
  <2>3. ASSUME NEW M \in SUBSET Seq(Chars), NEW v \in M  PROVE <<"\\", c>> \o v \in AtUnit(M)
    <3>. DEFINE b == <<"\\">>
                d == <<c>>
    <3>1. d \o v \in Lead(c, M)
      BY <2>1, LeadHas
    <3>2. d \o v \in AtEscaped(M)
      BY <3>1, Zenon DEF AtEscaped
    <3>3. b \o (d \o v) \in Lead(Slash, AtEscaped(M))
      <4>1. AtEscaped(M) \subseteq Seq(Chars)
        BY TextSets
      <4>. QED  BY <2>1, <3>2, <4>1, LeadHas, Zenon DEF Slash
    <3>4. <<"\\", c>> \o v = b \o (d \o v)
      <4>1. v \in Seq(Chars) /\ b \in Seq(Chars) /\ d \in Seq(Chars) /\ <<"\\", c>> = b \o d
        BY <2>1, <2>2
      <4>. HIDE DEF b, d
      <4>2. (b \o d) \o v = b \o (d \o v)
        <5>1. Groups(b, d, v)
          BY <4>1, GroupsAll
        <5>. QED  BY <5>1 DEF Groups
      <4>. QED  BY <4>1, <4>2
    <3>5. <<"\\", c>> \o v \in AtChar(M)
      BY <3>3, <3>4, Zenon DEF AtChar
    <3>. QED  BY <3>5, Zenon DEF AtUnit
  <2>. QED  BY <2>2, <2>3, Zenon DEF Begins
<1>. QED  BY <1>1, <1>2

\* All sentences have a text.
LEMMA FormatsSay == \A n \in 1..MaxText : \A s \in Formats[n] : Form(s, n)
<1>. DEFINE Bad == {n \in Nat : n \in 1..MaxText /\ ~\A s \in Formats[n] : Form(s, n)}
<1>1. Bad = {}
  <2>. SUFFICES ASSUME Bad # {} PROVE FALSE
    OBVIOUS
  <2>1. PICK n \in Bad : \A x \in Bad : ~(<<x, n>> \in {pair \in Nat \X Nat : pair[1] < pair[2]})
    <3>1. Bad \subseteq Nat
      OBVIOUS
    <3>. HIDE DEF Bad
    <3>. QED  BY <3>1, NaturalsFounded, WFMin
  <2>2. n \in 1..MaxText /\ n \in Nat /\ ~\A s \in Formats[n] : Form(s, n)
    OBVIOUS
  <2>3. ShorterSpoken(n)
    <3>. SUFFICES ASSUME NEW i \in 1..n - 1  PROVE \A g \in Formats[i] : Form(g, i)
      BY DEF ShorterSpoken
    <3>1. i \in Nat /\ i < n /\ i \in 1..MaxText
      BY <2>2, FormatAssumption
    <3>2. <<i, n>> \in {pair \in Nat \X Nat : pair[1] < pair[2]}
      BY <2>2, <3>1
    <3>3. i \notin Bad
      BY <2>1, <3>2
    <3>. QED  BY <3>1, <3>3
  <2>. HIDE DEF Bad
  <2>4. PICK s \in Formats[n] : ~Form(s, n)
    BY <2>2
  <2>5. IsSentence(Formats, n, s)
    BY <2>2, SentenceForms
  <2>6. CASE n = 1 /\ \E c \in Plain : s = <<<<c>>, Always(<<c>>)>>
    <3>1. PICK c \in Plain : s = <<<<c>>, Always(<<c>>)>>
      BY <2>6
    <3>2. <<c>> \in Seq(Chars) /\ Len(<<c>>) = 1
      BY CharsAre, One
    <3>3. s[1] = <<c>> /\ s = <<s[1], s[2]>>
      BY <3>1
    <3>. QED  BY <2>4, <2>6, <3>2, <3>3 DEF Form
  <2>7. CASE n = 2 /\ \E c \in Escapable : s = <<<<"\\", c>>, Always(<<c>>)>>
    <3>1. PICK c \in Escapable : s = <<<<"\\", c>>, Always(<<c>>)>>
      BY <2>7
    <3>2. <<"\\", c>> \in Seq(Chars) /\ Len(<<"\\", c>>) = 2
      BY CharsAre, Two, Zenon
    <3>3. s[1] = <<"\\", c>> /\ s = <<s[1], s[2]>>
      BY <3>1
    <3>. QED  BY <2>4, <2>7, <3>2, <3>3 DEF Form
  <2>8. CASE \E a \in 1..n - 2 : IsSubst(Formats, n, Key(a), s)
    <3>1. PICK a \in 1..n - 2 : IsSubst(Formats, n, Key(a), s)
      BY <2>8
    <3>2. PICK y \in Seq(Chars) : s = <<Braced(Key(a) \o y), s[2]>> /\ Len(y) + a + 2 = n
      BY <2>2, <2>3, <3>1, SubstForm
    <3>3. a \in Nat /\ Key(a) \in Seq(Chars) /\ Len(Key(a)) = a /\ Len(y) \in Nat
      BY <2>2, KeyChars, LenProperties
    <3>4. Key(a) \o y \in Seq(Chars) /\ Len(Key(a) \o y) = a + Len(y)
      BY <3>3, Glued
    <3>5. Braced(Key(a) \o y) \in Seq(Chars) /\ Len(Braced(Key(a) \o y)) = a + Len(y) + 2
      BY <3>4, BracedIs
    <3>6. s[1] = Braced(Key(a) \o y)
      BY <3>2
    <3>7. Len(s[1]) = n
      BY <2>2, <3>2, <3>3, <3>5, <3>6
    <3>. QED  BY <2>4, <3>2, <3>5, <3>6, <3>7 DEF Form
  <2>9. CASE \E i \in 1..n - 1 : \E g \in Formats[i], h \in Formats[n - i] : s = Joined(g, h)
    <3>1. PICK i \in 1..n - 1 : \E g \in Formats[i], h \in Formats[n - i] : s = Joined(g, h)
      BY <2>9
    <3>2. PICK g \in Formats[i] : \E h \in Formats[n - i] : s = Joined(g, h)
      BY <3>1
    <3>3. PICK h \in Formats[n - i] : s = Joined(g, h)
      BY <3>2
    <3>4. n - i \in 1..n - 1 /\ i \in Nat
      BY <2>2
    <3>5. g[1] \in Seq(Chars) /\ Len(g[1]) = i /\ h[1] \in Seq(Chars) /\ Len(h[1]) = n - i
      BY <2>2, <2>3, <3>4, ShorterIs
    <3>6. g[1] \o h[1] \in Seq(Chars) /\ Len(g[1] \o h[1]) = n
      <4>1. g[1] \o h[1] \in Seq(Chars) /\ Len(g[1] \o h[1]) = Len(g[1]) + Len(h[1])
        BY <3>5, Glued
      <4>. QED  BY <2>2, <3>4, <3>5, <4>1
    <3>7. s[1] = g[1] \o h[1] /\ s = <<s[1], s[2]>>
      BY <3>3 DEF Joined
    <3>. QED  BY <2>4, <3>6, <3>7 DEF Form
  <2>. QED  BY <2>5, <2>6, <2>7, <2>8, <2>9 DEF IsSentence
<1>2. \A n \in 1..MaxText : n \in Nat
  BY FormatAssumption
<1>. QED  BY <1>1, <1>2

LEMMA SpokenHas ==
  ASSUME NEW n \in 1..MaxText
  PROVE  /\ ShorterSpoken(n)
         /\ \A s \in Formats[n] : s = <<s[1], s[2]>> /\ s[1] \in Spoken /\ Len(s[1]) = n
<1>1. ASSUME NEW i \in 1..n - 1, NEW g \in Formats[i]  PROVE Form(g, i)
  <2>1. i \in 1..MaxText
    BY FormatAssumption
  <2>. QED  BY <2>1, FormatsSay
<1>2. ASSUME NEW s \in Formats[n]
      PROVE  s = <<s[1], s[2]>> /\ s[1] \in Spoken /\ Len(s[1]) = n
  <2>1. s = <<s[1], s[2]>> /\ s[1] \in Seq(Chars) /\ Len(s[1]) = n
    BY FormatsSay DEF Form
  <2>2. Says(s[1], s[2])
    BY <2>1 DEF Says
  <2>. QED  BY <2>1, <2>2, Zenon DEF Spoken
<1>. QED  BY <1>1, <1>2 DEF ShorterSpoken

LEMMA SpokenJoin ==
  ASSUME NEW t \in Spoken, NEW t2 \in Spoken, Len(t) + Len(t2) <= MaxText
  PROVE  t \o t2 \in Spoken
<1>1. PICK m : Says(t, m)
  BY SpokenAre
<1>2. PICK m2 : Says(t2, m2)
  BY SpokenAre
<1>3. Says(t \o t2, Both(m, m2))
  BY <1>1, <1>2, SaysBoth
<1>4. t \o t2 \in Seq(Chars)
  BY <1>3 DEF Says
<1>. QED  BY <1>3, <1>4, Zenon DEF Spoken

\* A sentence is a unit, and maybe a sentence behind it.
Unitary(t) ==
  \E u \in Seq(Chars), r \in Seq(Chars) : t = u \o r /\ Begins(u) /\ (r = <<>> \/ r \in Spoken)

LEMMA UnitAlone ==
  ASSUME NEW t \in Seq(Chars), Begins(t)
  PROVE  Unitary(t)
<1>1. <<>> \in Seq(Chars) /\ t \o <<>> = t
  BY EmptyText, ConcatEmptySeq
<1>. QED  BY <1>1, Zenon DEF Unitary

LEMMA UnitJoined ==
  ASSUME NEW t \in Spoken, Unitary(t), NEW t2 \in Spoken, Len(t) + Len(t2) <= MaxText
  PROVE  Unitary(t \o t2)
<1>1. PICK u \in Seq(Chars), r \in Seq(Chars) : t = u \o r /\ Begins(u) /\ (r = <<>> \/ r \in Spoken)
  BY DEF Unitary
<1>2. t2 \in Seq(Chars) /\ r \o t2 \in Seq(Chars)
  BY SpokenAre, Glued
<1>3. t \o t2 = u \o (r \o t2)
  <2>1. Groups(u, r, t2)
    BY <1>2, GroupsAll
  <2>. QED  BY <1>1, <2>1 DEF Groups
<1>4. r \o t2 \in Spoken
  <2>1. CASE r = <<>>
    <3>1. r \o t2 = t2
      BY <1>2, <2>1, ConcatEmptySeq
    <3>. QED  BY <3>1
  <2>2. CASE r \in Spoken
    <3>1. Len(t) = Len(u) + Len(r) /\ Len(u) \in Nat /\ Len(r) \in Nat /\ Len(t2) \in Nat
      BY <1>1, <1>2, Glued, LenProperties
    <3>2. Len(r) + Len(t2) <= MaxText
      BY <3>1, FormatAssumption
    <3>. QED  BY <2>2, <3>2, SpokenJoin
  <2>. QED  BY <1>1, <2>1, <2>2
<1>. QED  BY <1>1, <1>2, <1>3, <1>4, Zenon DEF Unitary

LEMMA SpokenUnitary == \A t \in Spoken : Unitary(t)
<1>. DEFINE Bad == {n \in Nat : n \in 1..MaxText /\ ~\A s \in Formats[n] : Unitary(s[1])}
<1>1. Bad = {}
  <2>. SUFFICES ASSUME Bad # {} PROVE FALSE
    OBVIOUS
  <2>1. PICK n \in Bad : \A x \in Bad : ~(<<x, n>> \in {pair \in Nat \X Nat : pair[1] < pair[2]})
    <3>1. Bad \subseteq Nat
      OBVIOUS
    <3>. HIDE DEF Bad
    <3>. QED  BY <3>1, NaturalsFounded, WFMin
  <2>2. n \in 1..MaxText /\ n \in Nat /\ ~\A s \in Formats[n] : Unitary(s[1])
    OBVIOUS
  <2>3. ASSUME NEW i \in 1..n - 1  PROVE \A g \in Formats[i] : Unitary(g[1])
    <3>1. i \in Nat /\ i < n /\ i \in 1..MaxText
      BY <2>2, FormatAssumption
    <3>2. <<i, n>> \in {pair \in Nat \X Nat : pair[1] < pair[2]}
      BY <2>2, <3>1
    <3>3. i \notin Bad
      BY <2>1, <3>2
    <3>. QED  BY <3>1, <3>3
  <2>. HIDE DEF Bad
  <2>4. PICK s \in Formats[n] : ~Unitary(s[1])
    BY <2>2
  <2>5. IsSentence(Formats, n, s) /\ ShorterSpoken(n)
    BY <2>2, SentenceForms, SpokenHas
  <2>6. CASE n = 1 /\ \E c \in Plain : s = <<<<c>>, Always(<<c>>)>>
    <3>1. PICK c \in Plain : s = <<<<c>>, Always(<<c>>)>>
      BY <2>6
    <3>2. Unitary(<<c>>)
      BY CharBegins, UnitAlone
    <3>3. s[1] = <<c>>
      BY <3>1
    <3>. QED  BY <2>4, <3>2, <3>3
  <2>7. CASE n = 2 /\ \E c \in Escapable : s = <<<<"\\", c>>, Always(<<c>>)>>
    <3>1. PICK c \in Escapable : s = <<<<"\\", c>>, Always(<<c>>)>>
      BY <2>7
    <3>2. Unitary(<<"\\", c>>)
      BY CharBegins, UnitAlone
    <3>3. s[1] = <<"\\", c>>
      BY <3>1
    <3>. QED  BY <2>4, <3>2, <3>3
  <2>8. CASE \E a \in 1..n - 2 : IsSubst(Formats, n, Key(a), s)
    <3>1. PICK a \in 1..n - 2 : IsSubst(Formats, n, Key(a), s)
      BY <2>8
    <3>2. PICK y \in Seq(Chars) : Shape(y) /\ s = <<Braced(Key(a) \o y), s[2]>>
      BY <2>2, <2>5, <3>1, SubstForm
    <3>3. a \in Nat /\ a >= 1
      BY <2>2
    <3>4. Unitary(Braced(Key(a) \o y))
      BY <3>2, <3>3, SubstBegins, UnitAlone
    <3>5. s[1] = Braced(Key(a) \o y)
      BY <3>2
    <3>. QED  BY <2>4, <3>4, <3>5
  <2>9. CASE \E i \in 1..n - 1 : \E g \in Formats[i], h \in Formats[n - i] : s = Joined(g, h)
    <3>1. PICK i \in 1..n - 1 : \E g \in Formats[i], h \in Formats[n - i] : s = Joined(g, h)
      BY <2>9
    <3>2. PICK g \in Formats[i] : \E h \in Formats[n - i] : s = Joined(g, h)
      BY <3>1
    <3>3. PICK h \in Formats[n - i] : s = Joined(g, h)
      BY <3>2
    <3>4. n - i \in 1..n - 1 /\ i \in Nat
      BY <2>2
    <3>5. /\ g[1] \in Spoken /\ Len(g[1]) = i /\ h[1] \in Spoken /\ Len(h[1]) = n - i
      BY <2>2, <2>5, <3>4, ShorterIs
    <3>6. Len(g[1]) + Len(h[1]) <= MaxText
      BY <2>2, <3>4, <3>5, FormatAssumption
    <3>7. Unitary(g[1] \o h[1])
      BY <2>3, <3>5, <3>6, UnitJoined
    <3>8. s[1] = g[1] \o h[1]
      BY <3>3 DEF Joined
    <3>. QED  BY <2>4, <3>7, <3>8
  <2>. QED  BY <2>5, <2>6, <2>7, <2>8, <2>9 DEF IsSentence
<1>2. ASSUME NEW t \in Spoken  PROVE Unitary(t)
  <2>1. PICK m : Says(t, m)
    BY SpokenAre
  <2>2. Len(t) \in 1..MaxText /\ <<t, m>> \in Formats[Len(t)] /\ Len(t) \in Nat
    BY <2>1, FormatAssumption DEF Says
  <2>3. \A s \in Formats[Len(t)] : Unitary(s[1])
    BY <1>1, <2>2
  <2>4. <<t, m>>[1] = t
    OBVIOUS
  <2>. QED  BY <2>2, <2>3, <2>4
<1>. QED  BY <1>2

\* What begins with a sentence begins with a unit.
LEMMA UnitFirst ==
  ASSUME NEW L, L \subseteq Seq(Chars), NEW w \in Cat(Spoken, L)
  PROVE  w \in AtUnit(More(L))
<1>7. \E t \in Spoken, l \in L : w = t \o l
  BY Zenon DEF Cat
<1>1. PICK t \in Spoken, l \in L : w = t \o l
  BY <1>7
<1>2. PICK u \in Seq(Chars), r \in Seq(Chars) : t = u \o r /\ Begins(u) /\ (r = <<>> \/ r \in Spoken)
  BY SpokenUnitary DEF Unitary
<1>3. l \in Seq(Chars)
  OBVIOUS
<1>4. w = u \o (r \o l)
  <2>1. Groups(u, r, l)
    BY <1>3, GroupsAll
  <2>. QED  BY <1>1, <1>2, <2>1 DEF Groups
<1>5. r \o l \in More(L)
  <2>1. r = <<>> => r \o l = l
    BY <1>3, ConcatEmptySeq
  <2>2. r \in Spoken => r \o l \in Cat(Spoken, L)
    BY CatIs, SpokenAre
  <2>. QED  BY <1>2, <2>1, <2>2 DEF More
<1>6. More(L) \in SUBSET Seq(Chars)
  BY TextSets
<1>. QED  BY <1>2, <1>4, <1>5, <1>6 DEF Begins

-----------------------------------------------------------------------------
(* One character of lookahead tells what follows.                          *)

StartsIn(w, S) == w # <<>> /\ w[1] \in S

LEMMA LeadStarts ==
  ASSUME NEW c \in Chars, NEW A, A \subseteq Seq(Chars), NEW w \in Lead(c, A), NEW S, c \in S
  PROVE  StartsIn(w, S)
BY LeadIs DEF StartsIn

LEMMA KeyLonger ==
  ASSUME NEW a \in Nat, a # 0
  PROVE  a - 1 \in Nat /\ Key(a) = <<"k">> \o Key(a - 1)
<1>. DEFINE k == "k"
            s == <<k>> \o Key(a - 1)
            t == Key(a)
<1>1. a - 1 \in Nat
  OBVIOUS
<1>2. /\ k \in Chars /\ Key(a - 1) \in Seq(Chars) /\ Len(Key(a - 1)) = a - 1
      /\ t \in Seq(Chars) /\ Len(t) = a
  BY <1>1, KeyChars, CharsAre
<1>3. (\A i \in 1..a : t[i] = k) /\ \A i \in 1..a - 1 : Key(a - 1)[i] = k
  BY DEF Key
<1>. HIDE DEF k, t
<1>4. /\ s \in Seq(Chars) /\ s[1] = k /\ Len(s) = a
      /\ \A i \in 1..a - 1 : s[i + 1] = k
  BY <1>2, <1>3, LedIs
<1>5. \A i \in 1..a : s[i] = k
  <2>. TAKE i \in 1..a
  <2>1. i = 1 \/ (i - 1 \in 1..a - 1 /\ (i - 1) + 1 = i)
    OBVIOUS
  <2>. QED  BY <1>4, <2>1
<1>. HIDE DEF s
<1>6. s = t
  BY <1>2, <1>3, <1>4, <1>5, SeqEqual
<1>. QED  BY <1>1, <1>6 DEF s, t, k

LEMMA AtKeyIs ==
  ASSUME NEW L, L \subseteq Seq(Chars), NEW least \in {0, 1}, NEW w \in AtKey(L, least)
  PROVE  (least = 0 /\ w \in AfterKey(L)) \/ w \in Lead("k", AtKey(L, 0))
<1>1. PICK a \in Nat, y \in AfterKey(L) : a >= least /\ w = Key(a) \o y
  BY DEF AtKey
<1>2. y \in Seq(Chars) /\ w \in Seq(Chars)
  BY TextSets DEF AtKey
<1>3. CASE a = 0
  <2>1. Key(a) = <<>>
    BY <1>3, KeyChars, EmptySeq
  <2>2. w = y
    BY <1>1, <1>2, <2>1, ConcatEmptySeq
  <2>3. w \in AfterKey(L)
    BY <2>2, Zenon
  <2>4. a >= least
    BY <1>1
  <2>5. least = 0
    BY <1>3, <2>4
  <2>. QED  BY <2>3, <2>5
<1>4. CASE a # 0
  <2>. DEFINE k == <<"k">>
              b == a - 1
  <2>1. b \in Nat /\ Key(a) = k \o Key(b)
    BY <1>4, KeyLonger
  <2>2. k \in Seq(Chars) /\ Key(b) \in Seq(Chars)
    BY <2>1, CharsAre, One, KeyChars
  <2>. HIDE DEF k, b
  <2>3. Key(b) \o y \in Seq(Chars)
    BY <1>2, <2>2, Glued
  <2>4. Key(b) \o y \in AtKey(L, 0)
    <3>1. b >= 0
      BY <2>1
    <3>. QED  BY <1>1, <2>1, <2>3, <3>1, Zenon DEF AtKey
  <2>5. w = k \o (Key(b) \o y)
    <3>1. Groups(k, Key(b), y)
      BY <1>2, <2>2, GroupsAll
    <3>. QED  BY <1>1, <2>1, <3>1 DEF Groups
  <2>. QED  BY <1>2, <2>4, <2>5, Zenon DEF Lead, k
<1>. QED  BY <1>3, <1>4

LEMMA Starts ==
  ASSUME NEW L, L \subseteq Seq(Chars), NEW w
  PROVE  /\ w \in AtClose(L) => StartsIn(w, {"}"})
         /\ w \in Other(L) => StartsIn(w, {"!"})
         /\ w \in AtElse(L) => StartsIn(w, {"!", "}"})
         /\ w \in AfterKey(L) => StartsIn(w, {"!", "}", "?"})
         /\ w \in AtEscaped(L) => StartsIn(w, Escapable)
         /\ w \in AtChar(L) => StartsIn(w, Plain \union {Slash})
         /\ w \in AtOpen(L) => StartsIn(w, {Brace})
         /\ w \in Cat(Spoken, L) => StartsIn(w, Plain \union {Slash, Brace})
<1>1. /\ "}" \in Chars /\ "!" \in Chars /\ "?" \in Chars /\ Slash \in Chars /\ Brace \in Chars
      /\ Plain \subseteq Chars /\ Escapable \subseteq Chars
  BY CharsAre, Zenon DEF Slash, Brace
<1>2. \A c \in Chars, A \in SUBSET Seq(Chars) : \A x : x \in Lead(c, A) => x # <<>> /\ x[1] = c
  BY LeadIs
<1>3. \A M \in SUBSET Seq(Chars) :
        /\ AtClose(M) \in SUBSET Seq(Chars) /\ Cat(Spoken, AtClose(M)) \in SUBSET Seq(Chars)
        /\ AtThen(M) \in SUBSET Seq(Chars) /\ AtEscaped(M) \in SUBSET Seq(Chars)
        /\ AtKey(M, 1) \in SUBSET Seq(Chars) /\ More(M) \in SUBSET Seq(Chars)
  <2>. TAKE M \in SUBSET Seq(Chars)
  <2>1. Cat(Spoken, AtClose(M)) \subseteq Seq(Chars)
    BY Zenon DEF Cat
  <2>. QED  BY <2>1, TextSets
<1>4. w \in AtClose(L) => w # <<>> /\ w[1] = "}"
  BY <1>1, <1>2 DEF AtClose
<1>5. w \in Other(L) => w # <<>> /\ w[1] = "!"
  BY <1>1, <1>2, <1>3 DEF Other
<1>6. w \in AtElse(L) => w # <<>> /\ w[1] \in {"!", "}"}
  BY <1>4, <1>5 DEF AtElse
<1>7. w \in AfterKey(L) => w # <<>> /\ w[1] \in {"!", "}", "?"}
  <2>1. w \in Lead("?", AtThen(L)) => w # <<>> /\ w[1] = "?"
    BY <1>1, <1>2, <1>3
  <2>. QED  BY <1>6, <2>1 DEF AfterKey
<1>8. w \in AtEscaped(L) => w # <<>> /\ w[1] \in Escapable
  <2>1. w \in AtEscaped(L) => \E c \in Escapable : w \in Lead(c, L)
    BY Zenon DEF AtEscaped
  <2>. QED  BY <1>1, <1>2, <2>1
<1>9. \A M \in SUBSET Seq(Chars) : \A x :
        /\ x \in AtChar(M) => x # <<>> /\ x[1] \in Plain \union {Slash}
        /\ x \in AtOpen(M) => x # <<>> /\ x[1] = Brace
  <2>. TAKE M \in SUBSET Seq(Chars)
  <2>. TAKE x
  <2>1. x \in AtChar(M) => x \in Lead(Slash, AtEscaped(M)) \/ \E c \in Plain : x \in Lead(c, M)
    BY Zenon DEF AtChar
  <2>2. x \in Lead(Slash, AtEscaped(M)) => x # <<>> /\ x[1] = Slash
    BY <1>1, <1>2, <1>3
  <2>3. \A c \in Plain : x \in Lead(c, M) => x # <<>> /\ x[1] = c
    BY <1>1, <1>2
  <2>4. x \in AtOpen(M) => x # <<>> /\ x[1] = Brace
    BY <1>1, <1>2, <1>3 DEF AtOpen
  <2>. QED  BY <2>1, <2>2, <2>3, <2>4
<1>10. w \in Cat(Spoken, L) => w # <<>> /\ w[1] \in Plain \union {Slash, Brace}
  <2>1. w \in Cat(Spoken, L) => w \in AtChar(More(L)) \/ w \in AtOpen(More(L))
    BY UnitFirst DEF AtUnit
  <2>. QED  BY <1>3, <1>9, <2>1
<1>. QED  BY <1>4, <1>5, <1>6, <1>7, <1>8, <1>9, <1>10 DEF StartsIn

\* What is left when its first character is consumed.
LEMMA Consumed ==
  ASSUME NEW L, L \subseteq Seq(Chars), NEW c \in Chars, NEW v \in Seq(Chars)
  PROVE  /\ <<c>> \o v \in Seq(Chars) /\ <<c>> \o v # <<>> /\ (<<c>> \o v)[1] = c
         /\ <<c>> \o v \in AtClose(L) => v \in L
         /\ <<c>> \o v \in Other(L) => v \in Cat(Spoken, AtClose(L))
         /\ <<c>> \o v \in AtEscaped(L) => v \in L
         /\ <<c>> \o v \in AtChar(L) => IF c = Slash THEN v \in AtEscaped(L) ELSE v \in L
         /\ <<c>> \o v \in AtOpen(L) => v \in AtKey(L, 1)
         /\ <<c>> \o v \in Lead("k", AtKey(L, 0)) => v \in AtKey(L, 0)
         /\ <<c>> \o v \in AfterKey(L) /\ c = "?" => v \in AtThen(L)
<1>. DEFINE w == <<c>> \o v
<1>1. /\ "}" \in Chars /\ "!" \in Chars /\ "?" \in Chars /\ "k" \in Chars
      /\ Slash \in Chars /\ Brace \in Chars
      /\ Plain \subseteq Chars /\ Escapable \subseteq Chars
  BY CharsAre, Zenon DEF Slash, Brace
<1>2. w \in Seq(Chars) /\ w # <<>> /\ w[1] = c
  BY LedIs
<1>3. \A e \in Chars, A \in SUBSET Seq(Chars) : w \in Lead(e, A) => e = c /\ v \in A
  <2>. TAKE e \in Chars, A \in SUBSET Seq(Chars)
  <2>1. w \in Lead(e, A) => e = c
    BY <1>2, LeadIs
  <2>2. w \in Lead(c, A) => v \in A
    BY LedBy
  <2>. QED  BY <2>1, <2>2
<1>. HIDE DEF w
<1>4. /\ AtClose(L) \in SUBSET Seq(Chars) /\ Cat(Spoken, AtClose(L)) \in SUBSET Seq(Chars)
      /\ AtThen(L) \in SUBSET Seq(Chars) /\ AtEscaped(L) \in SUBSET Seq(Chars)
      /\ AtKey(L, 1) \in SUBSET Seq(Chars) /\ AtKey(L, 0) \in SUBSET Seq(Chars)
  <2>1. Cat(Spoken, AtClose(L)) \subseteq Seq(Chars)
    BY Zenon DEF Cat
  <2>. QED  BY <2>1, TextSets
<1>5. w \in AtClose(L) => v \in L
  BY <1>1, <1>3 DEF AtClose
<1>6. w \in Other(L) => v \in Cat(Spoken, AtClose(L))
  BY <1>1, <1>3, <1>4 DEF Other
<1>7. w \in AtEscaped(L) => v \in L
  <2>1. w \in AtEscaped(L) => \E e \in Escapable : w \in Lead(e, L)
    BY Zenon DEF AtEscaped
  <2>. QED  BY <1>1, <1>3, <2>1
<1>8. w \in AtChar(L) => IF c = Slash THEN v \in AtEscaped(L) ELSE v \in L
  <2>1. w \in AtChar(L) => w \in Lead(Slash, AtEscaped(L)) \/ \E e \in Plain : w \in Lead(e, L)
    BY Zenon DEF AtChar
  <2>2. w \in Lead(Slash, AtEscaped(L)) => c = Slash /\ v \in AtEscaped(L)
    BY <1>1, <1>3, <1>4
  <2>3. (\E e \in Plain : w \in Lead(e, L)) => c \in Plain /\ v \in L
    BY <1>1, <1>3
  <2>4. Slash \notin Plain
    BY DEF Slash, Plain
  <2>. QED  BY <2>1, <2>2, <2>3, <2>4
<1>9. w \in AtOpen(L) => v \in AtKey(L, 1)
  BY <1>1, <1>3, <1>4 DEF AtOpen
<1>10. w \in Lead("k", AtKey(L, 0)) => v \in AtKey(L, 0)
  BY <1>1, <1>3, <1>4
<1>11. w \in AfterKey(L) /\ c = "?" => v \in AtThen(L)
  <2>1. w \in Lead("?", AtThen(L)) => v \in AtThen(L)
    BY <1>1, <1>3, <1>4
  <2>2. w \in AtElse(L) => c \in {"!", "}"}
    BY <1>2, Starts DEF StartsIn
  <2>. QED  BY <2>1, <2>2 DEF AfterKey
<1>. QED  BY <1>2, <1>5, <1>6, <1>7, <1>8, <1>9, <1>10, <1>11 DEF w

-----------------------------------------------------------------------------
(* What may follow the text that is read.                                  *)

Allows(w, ahead) == /\ ahead = End => w = <<>>
                    /\ ahead \in Chars => w # <<>> /\ w[1] = ahead

Continues(w, tx, ahead) == w \in Seq(Chars) /\ tx \o w \in Spoken /\ Allows(w, ahead)

\* What the function that runs can go on with, when L is what follows its return.
Expects(fn, n, L, w) ==
  /\ fn = "format"  => w \in IF n.nodes = <<>> THEN Cat(Spoken, L) ELSE More(L)
  /\ fn = "node"    => w \in Cat(Spoken, L)
  /\ fn = "literal" => w \in IF n.str = <<>> THEN AtChar(L) ELSE L
  /\ fn = "escaped" => w \in AtEscaped(L)
  /\ fn = "open"    => w \in AtOpen(L)
  /\ fn = "key"     => w \in AtKey(L, IF n.key = <<>> THEN 1 ELSE 0)
  /\ fn = "then"    => w \in AtThen(L)
  /\ fn = "else"    => w \in AtElse(L)
  /\ fn = "close"   => w \in AtClose(L)

\* What follows a format cannot be taken for more of it, and what follows a literal
\* is, if it can be taken for more of it, as good there as here.
Suits(fn, L) ==
  /\ fn \in OfFormat => \A w \in L : w # <<>> => w[1] \in {"!", "}"}
  /\ fn \in OfLiteral => \A w \in L : StartsIn(w, Plain \union {Slash}) => w \in AtChar(L)

\* Where the callee returns, the caller can go on with all that follows.
Resumes(fn, n, L, M)           == \A w \in M : Expects(fn, n, L, w)
Continued(fn, n, L, tx, ahead) == \A w : Continues(w, tx, ahead) => Expects(fn, n, L, w)

\* rest is what follows the return of each frame.
Expecting(rest, tx, ahead, hp, fr) ==
  /\ rest \in [Nat -> SUBSET Seq(Chars)] /\ rest[1] = {<<>>}
  /\ \A i \in 1..Len(fr) : Suits(fr[i].fn, rest[i])
  /\ \A i \in 1..Len(fr) - 1 : Resumes(fr[i].fn, hp[fr[i].object], rest[i], rest[i + 1])
  /\ fr # <<>> => Continued(fr[Len(fr)].fn, hp[fr[Len(fr)].object], rest[Len(fr)], tx, ahead)
  /\ fr = <<>> => \A w : Continues(w, tx, ahead) => w = <<>>

RefusalInv ==
  /\ state = "parsing" => /\ wchar # Broken /\ text \in Seq(Chars)
                          /\ \E rest : Expecting(rest, text, wchar, heap, frames)
  /\ state = "failed" /\ wchar # Broken => /\ text \in Seq(Chars)
                                           /\ \A w : ~Continues(w, text, wchar)

LEMMA ExpectsAs ==
  ASSUME NEW n, NEW L, NEW w
  PROVE  /\ Expects("format", n, L, w) <=> w \in IF n.nodes = <<>> THEN Cat(Spoken, L) ELSE More(L)
         /\ Expects("node", n, L, w) <=> w \in Cat(Spoken, L)
         /\ Expects("literal", n, L, w) <=> w \in IF n.str = <<>> THEN AtChar(L) ELSE L
         /\ Expects("escaped", n, L, w) <=> w \in AtEscaped(L)
         /\ Expects("open", n, L, w) <=> w \in AtOpen(L)
         /\ Expects("key", n, L, w) <=> w \in AtKey(L, IF n.key = <<>> THEN 1 ELSE 0)
         /\ Expects("then", n, L, w) <=> w \in AtThen(L)
         /\ Expects("else", n, L, w) <=> w \in AtElse(L)
         /\ Expects("close", n, L, w) <=> w \in AtClose(L)
BY DEF Expects

\* What may follow when the lookahead is left or consumed.
LEMMA ContinuesStep ==
  ASSUME text \in Seq(Chars), NEW c, Takes(c), NEW v, Continues(v, text', wchar')
  PROVE  /\ v \in Seq(Chars) /\ c \in Seq(Chars)
         /\ Continues(c \o v, text, wchar) /\ Allows(c \o v, wchar)
<1>1. v \in Seq(Chars) /\ text' \o v \in Spoken /\ Allows(v, wchar')
  BY DEF Continues
<1>2. CASE c = <<>> /\ Peek
  <2>1. c \o v = v /\ text' = text /\ wchar' = wchar /\ c \in Seq(Chars)
    BY <1>1, <1>2, ConcatEmptySeq, EmptyText DEF Peek
  <2>. QED  BY <1>1, <2>1 DEF Continues
<1>3. CASE c = <<wchar>> /\ wchar \in Chars /\ Consume
  <2>1. text' = Append(text, wchar)
    BY <1>3 DEF Consume
  <2>2. c \in Seq(Chars) /\ text' = text \o c
    BY <1>3, <2>1, One, AppendIsConcat
  <2>3. Groups(text, c, v)
    BY <1>1, <2>2, GroupsAll
  <2>4. text' \o v = text \o (c \o v)
    BY <2>2, <2>3 DEF Groups
  <2>5. c \o v \in Seq(Chars) /\ c \o v # <<>> /\ (c \o v)[1] = wchar
    BY <1>1, <1>3, LedIs
  <2>6. wchar # End
    BY <1>3 DEF Chars, Plain, Escapable, End
  <2>. QED  BY <1>1, <2>2, <2>4, <2>5, <2>6 DEF Continues, Allows
<1>. QED  BY <1>2, <1>3 DEF Takes

LEMMA TakesText ==
  ASSUME text \in Seq(Chars), NEW c, Takes(c), wchar # Broken
  PROVE  text' \in Seq(Chars) /\ wchar' # Broken
<1>1. CASE c = <<>> /\ Peek
  BY <1>1 DEF Peek
<1>2. CASE c = <<wchar>> /\ wchar \in Chars /\ Consume
  BY <1>2, AppendProperties DEF Consume, Unread, Broken
<1>. QED  BY <1>1, <1>2 DEF Takes

\* A function stores something and goes on.
LEMMA RefusalOn ==
  ASSUME TreeInv, RefusalInv, frames # <<>>, NEW fn, Goto(fn), NEW x, Store(x),
         NEW c, Takes(c), state' = state,
         \A L : Suits(Top.fn, L) => Suits(fn, L),
         \A L, v :
           /\ L \in SUBSET Seq(Chars) /\ v \in Seq(Chars) /\ Suits(Top.fn, L)
           /\ Allows(c \o v, wchar) /\ Expects(Top.fn, Object, L, c \o v)
           => Expects(fn, x, L, v)
  PROVE  RefusalInv'
<1>. DEFINE N == Len(frames)
            o == Top.object
<1>1. /\ N \in Nat \ {0} /\ Top = frames[N] /\ o \in 1..Len(heap)
      /\ Len(heap) \in Nat /\ heap \in Seq(FormatHeap)
      /\ \A i \in 1..N : frames[i].object \in 1..Len(heap)
      /\ \A i \in 1..N - 1 : frames[i].object # o
      /\ Below \in Seq(Frames) /\ Len(Below) = N - 1
      /\ \A i \in 1..N - 1 : Below[i] = frames[i]
  BY FramesAre
<1>2. state = "parsing" /\ wchar # Broken /\ text \in Seq(Chars)
  BY TopFills DEF RefusalInv
<1>3. PICK rest : Expecting(rest, text, wchar, heap, frames)
  BY <1>2 DEF RefusalInv
<1>4. /\ rest \in [Nat -> SUBSET Seq(Chars)] /\ rest[1] = {<<>>}
      /\ \A i \in 1..N : Suits(frames[i].fn, rest[i])
      /\ \A i \in 1..N - 1 : Resumes(frames[i].fn, heap[frames[i].object], rest[i], rest[i + 1])
      /\ Continued(frames[N].fn, heap[frames[N].object], rest[N], text, wchar)
  BY <1>3 DEF Expecting
<1>5. Frame(fn, o).fn = fn /\ Frame(fn, o).object = o
  BY DEF Frame
<1>6. /\ Len(frames') = N /\ frames'[N] = Frame(fn, o) /\ \A i \in 1..N - 1 : frames'[i] = frames[i]
  <2>1. frames' = Append(Below, Frame(fn, o))
    BY DEF Goto
  <2>. HIDE DEF N, o
  <2>2. N - 1 + 1 = N
    BY <1>1
  <2>. QED  BY <1>1, <2>1, <2>2, WithMore
<1>7. /\ heap'[o] = x /\ \A p \in 1..Len(heap) : p # o => heap'[p] = heap[p]
  <2>1. heap' = [heap EXCEPT ![o] = x]
    BY DEF Store
  <2>. QED  BY <1>1, <2>1
<1>8. Suits(Top.fn, rest[N]) /\ rest[N] \in SUBSET Seq(Chars)
      /\ Continued(Top.fn, Object, rest[N], text, wchar)
  BY <1>1, <1>4 DEF Object
<1>9. Continued(fn, x, rest[N], text', wchar')
  <2>. SUFFICES ASSUME NEW v, Continues(v, text', wchar')  PROVE Expects(fn, x, rest[N], v)
    BY DEF Continued
  <2>1. v \in Seq(Chars) /\ Continues(c \o v, text, wchar) /\ Allows(c \o v, wchar)
    BY <1>2, ContinuesStep
  <2>2. Expects(Top.fn, Object, rest[N], c \o v)
    BY <1>8, <2>1 DEF Continued
  <2>. QED  BY <1>8, <2>1, <2>2
<1>. HIDE DEF N, o
<1>10. /\ frames' # <<>> /\ frames'[N].fn = fn /\ heap'[frames'[N].object] = x
       /\ \A i \in 1..N : Suits(frames'[i].fn, rest[i])
       /\ \A i \in 1..N - 1 : Resumes(frames'[i].fn, heap'[frames'[i].object], rest[i], rest[i + 1])
  <2>1. frames'[N].fn = fn /\ heap'[frames'[N].object] = x
    BY <1>5, <1>6, <1>7
  <2>2. ASSUME NEW i \in 1..N - 1
        PROVE  /\ frames'[i] = frames[i] /\ heap'[frames[i].object] = heap[frames[i].object]
               /\ i \in 1..N
    <3>1. i \in 1..N /\ frames[i].object \in 1..Len(heap) /\ frames[i].object # o
      BY <1>1
    <3>. QED  BY <1>6, <1>7, <3>1
  <2>3. Suits(fn, rest[N])
    BY <1>8
  <2>4. \A i \in 1..N : Suits(frames'[i].fn, rest[i])
    <3>. TAKE i \in 1..N
    <3>1. i = N \/ i \in 1..N - 1
      BY <1>1
    <3>. QED  BY <1>4, <2>1, <2>2, <2>3, <3>1
  <2>5. \A i \in 1..N - 1 : Resumes(frames'[i].fn, heap'[frames'[i].object], rest[i], rest[i + 1])
    BY <1>4, <2>2
  <2>6. frames' # <<>>
    BY <1>1, <1>6
  <2>. QED  BY <2>1, <2>4, <2>5, <2>6
<1>11. Expecting(rest, text', wchar', heap', frames')
  BY <1>4, <1>6, <1>9, <1>10 DEF Expecting
<1>12. text' \in Seq(Chars) /\ wchar' # Broken
  BY <1>2, TakesText
<1>. QED  BY <1>2, <1>11, <1>12 DEF RefusalInv

\* M follows the return of the function that is called.
CallSuits(c, fn, x, callee, new, L, M) ==
  /\ Suits(fn, L) /\ Suits(callee, M) /\ Resumes(fn, x, L, M)
  /\ \A v : /\ v \in Seq(Chars) /\ Allows(c \o v, wchar) /\ Expects(Top.fn, Object, L, c \o v)
            => Expects(callee, new, M, v)

\* A function calls another.
LEMMA RefusalCall ==
  ASSUME TreeInv, RefusalInv, frames # <<>>, NEW fn, NEW callee, Call(fn, callee),
         NEW x, NEW new, Allocate(x, new), NEW c, Takes(c), state' = state,
         \A L : L \in SUBSET Seq(Chars) /\ Suits(Top.fn, L) =>
           \E M \in SUBSET Seq(Chars) : CallSuits(c, fn, x, callee, new, L, M)
  PROVE  RefusalInv'
<1>. DEFINE N == Len(frames)
            o == Top.object
<1>1. /\ N \in Nat \ {0} /\ Top = frames[N] /\ o \in 1..Len(heap)
      /\ Len(heap) \in Nat /\ heap \in Seq(FormatHeap)
      /\ \A i \in 1..N : frames[i].object \in 1..Len(heap)
      /\ \A i \in 1..N - 1 : frames[i].object # o
      /\ Below \in Seq(Frames) /\ Len(Below) = N - 1
      /\ \A i \in 1..N - 1 : Below[i] = frames[i]
  BY FramesAre
<1>2. state = "parsing" /\ wchar # Broken /\ text \in Seq(Chars)
  BY TopFills DEF RefusalInv
<1>3. PICK rest : Expecting(rest, text, wchar, heap, frames)
  BY <1>2 DEF RefusalInv
<1>4. /\ rest \in [Nat -> SUBSET Seq(Chars)] /\ rest[1] = {<<>>}
      /\ \A i \in 1..N : Suits(frames[i].fn, rest[i])
      /\ \A i \in 1..N - 1 : Resumes(frames[i].fn, heap[frames[i].object], rest[i], rest[i + 1])
      /\ Continued(frames[N].fn, heap[frames[N].object], rest[N], text, wchar)
  BY <1>3 DEF Expecting
<1>5. Frame(fn, o).fn = fn /\ Frame(fn, o).object = o
      /\ Frame(callee, New).fn = callee /\ Frame(callee, New).object = Len(heap) + 1
  BY DEF Frame, New
<1>6. /\ Len(frames') = N + 1 /\ frames'[N] = Frame(fn, o) /\ frames'[N + 1] = Frame(callee, New)
      /\ \A i \in 1..N - 1 : frames'[i] = frames[i]
  <2>1. frames' = Below \o <<Frame(fn, o), Frame(callee, New)>>
    BY DEF Call
  <2>. HIDE DEF N, o
  <2>2. N - 1 + 1 = N /\ N - 1 + 2 = N + 1
    BY <1>1
  <2>. DEFINE a == Frame(fn, o)
              b == Frame(callee, New)
              front == Below
  <2>3. frames' = front \o <<a, b>> /\ front \in Seq(Frames) /\ Len(front) = N - 1
        /\ \A i \in 1..N - 1 : front[i] = frames[i]
    BY <1>1, <2>1
  <2>. HIDE DEF a, b, front
  <2>4. /\ Len(front \o <<a, b>>) = N - 1 + 2
        /\ (front \o <<a, b>>)[N - 1 + 1] = a /\ (front \o <<a, b>>)[N - 1 + 2] = b
        /\ \A i \in 1..N - 1 : (front \o <<a, b>>)[i] = front[i]
    BY <2>3, WithMore
  <2>. QED  BY <2>2, <2>3, <2>4 DEF a, b
<1>7. /\ heap'[o] = x /\ heap'[Len(heap) + 1] = new
      /\ \A p \in 1..Len(heap) : p # o => heap'[p] = heap[p]
  <2>. DEFINE h == [heap EXCEPT ![o] = x]
  <2>1. heap' = Append(h, new)
    BY DEF Allocate
  <2>2. /\ h \in Seq(FormatHeap \union {x}) /\ Len(h) = Len(heap) /\ h[o] = x
        /\ \A p \in 1..Len(heap) : p # o => h[p] = heap[p]
    <3>1. heap \in Seq(FormatHeap \union {x}) /\ x \in FormatHeap \union {x}
      BY <1>1
    <3>. QED  BY <1>1, <3>1, ExceptSeq
  <2>. HIDE DEF h
  <2>. QED  BY <1>1, <2>1, <2>2, WithMore
<1>8. Suits(Top.fn, rest[N]) /\ rest[N] \in SUBSET Seq(Chars)
      /\ Continued(Top.fn, Object, rest[N], text, wchar)
  BY <1>1, <1>4 DEF Object
<1>9. PICK M \in SUBSET Seq(Chars) : CallSuits(c, fn, x, callee, new, rest[N], M)
  BY <1>8
<1>10. Continued(callee, new, M, text', wchar')
  <2>. SUFFICES ASSUME NEW v, Continues(v, text', wchar')  PROVE Expects(callee, new, M, v)
    BY DEF Continued
  <2>1. v \in Seq(Chars) /\ Continues(c \o v, text, wchar) /\ Allows(c \o v, wchar)
    BY <1>2, ContinuesStep
  <2>2. Expects(Top.fn, Object, rest[N], c \o v)
    BY <1>8, <2>1 DEF Continued
  <2>. QED  BY <1>9, <2>1, <2>2 DEF CallSuits
<1>11. Suits(fn, rest[N]) /\ Suits(callee, M) /\ Resumes(fn, x, rest[N], M)
  BY <1>9 DEF CallSuits
<1>. HIDE DEF N, o
<1>. DEFINE more == [rest EXCEPT ![N + 1] = M]
<1>12. /\ more \in [Nat -> SUBSET Seq(Chars)] /\ more[N + 1] = M
       /\ \A i \in 1..N : more[i] = rest[i]
  BY <1>1, <1>4, <1>9
<1>. HIDE DEF more
<1>13. more[1] = {<<>>}
  BY <1>1, <1>4, <1>12
<1>14. /\ frames'[N].fn = fn /\ heap'[frames'[N].object] = x
       /\ frames'[N + 1].fn = callee /\ heap'[frames'[N + 1].object] = new
  BY <1>5, <1>6, <1>7
<1>15. ASSUME NEW i \in 1..N - 1
       PROVE  /\ frames'[i] = frames[i] /\ heap'[frames[i].object] = heap[frames[i].object]
              /\ i \in 1..N /\ i + 1 \in 1..N
  <2>1. i \in 1..N /\ i + 1 \in 1..N /\ frames[i].object \in 1..Len(heap) /\ frames[i].object # o
    BY <1>1
  <2>. QED  BY <1>6, <1>7, <2>1
<1>16. \A i \in 1..N + 1 : Suits(frames'[i].fn, more[i])
  <2>. TAKE i \in 1..N + 1
  <2>1. CASE i = N + 1
    BY <1>11, <1>12, <1>14, <2>1
  <2>2. CASE i = N
    <3>1. N \in 1..N
      BY <1>1
    <3>. QED  BY <1>11, <1>12, <1>14, <2>2, <3>1
  <2>3. CASE i \in 1..N - 1
    BY <1>4, <1>12, <1>15, <2>3
  <2>. QED  BY <1>1, <2>1, <2>2, <2>3
<1>17. \A i \in 1..N : Resumes(frames'[i].fn, heap'[frames'[i].object], more[i], more[i + 1])
  <2>. TAKE i \in 1..N
  <2>1. CASE i = N
    BY <1>11, <1>12, <1>14, <2>1
  <2>2. CASE i \in 1..N - 1
    BY <1>4, <1>12, <1>15, <2>2
  <2>. QED  BY <1>1, <2>1, <2>2
<1>18. Expecting(more, text', wchar', heap', frames')
  <2>1. frames' # <<>> /\ (N + 1) - 1 = N
    BY <1>1, <1>6
  <2>2. Continued(frames'[N + 1].fn, heap'[frames'[N + 1].object], more[N + 1], text', wchar')
    BY <1>10, <1>12, <1>14
  <2>. QED  BY <1>6, <1>12, <1>13, <1>16, <1>17, <2>1, <2>2 DEF Expecting
<1>19. text' \in Seq(Chars) /\ wchar' # Broken
  BY <1>2, TakesText
<1>. QED  BY <1>2, <1>18, <1>19 DEF RefusalInv

\* A function returns.
LEMMA RefusalReturn ==
  ASSUME TreeInv, RefusalInv, frames # <<>>, Return, heap' = heap,
         NEW c, Takes(c), state' = state,
         \A L, v :
           /\ L \in SUBSET Seq(Chars) /\ v \in Seq(Chars) /\ Suits(Top.fn, L)
           /\ Allows(c \o v, wchar) /\ Expects(Top.fn, Object, L, c \o v)
           => v \in L
  PROVE  RefusalInv'
<1>. DEFINE N == Len(frames)
<1>1. /\ N \in Nat \ {0} /\ Top = frames[N]
      /\ Below \in Seq(Frames) /\ Len(Below) = N - 1
      /\ \A i \in 1..N - 1 : Below[i] = frames[i]
  BY FramesAre
<1>2. state = "parsing" /\ wchar # Broken /\ text \in Seq(Chars)
  BY TopFills DEF RefusalInv
<1>3. PICK rest : Expecting(rest, text, wchar, heap, frames)
  BY <1>2 DEF RefusalInv
<1>4. /\ rest \in [Nat -> SUBSET Seq(Chars)] /\ rest[1] = {<<>>}
      /\ \A i \in 1..N : Suits(frames[i].fn, rest[i])
      /\ \A i \in 1..N - 1 : Resumes(frames[i].fn, heap[frames[i].object], rest[i], rest[i + 1])
      /\ Continued(frames[N].fn, heap[frames[N].object], rest[N], text, wchar)
  BY <1>3 DEF Expecting
<1>5. Suits(Top.fn, rest[N]) /\ rest[N] \in SUBSET Seq(Chars)
      /\ Continued(Top.fn, Object, rest[N], text, wchar)
  BY <1>1, <1>4 DEF Object
<1>6. ASSUME NEW v, Continues(v, text', wchar')  PROVE v \in rest[N]
  <2>1. v \in Seq(Chars) /\ Continues(c \o v, text, wchar) /\ Allows(c \o v, wchar)
    BY <1>2, <1>6, ContinuesStep
  <2>2. Expects(Top.fn, Object, rest[N], c \o v)
    BY <1>5, <2>1 DEF Continued
  <2>. QED  BY <1>5, <2>1, <2>2
<1>7. frames' \in Seq(Frames) /\ Len(frames') = N - 1 /\ \A i \in 1..N - 1 : frames'[i] = frames[i]
  BY <1>1 DEF Return
<1>. HIDE DEF N
<1>8. Expecting(rest, text', wchar', heap', frames')
  <2>1. CASE N = 1
    <3>1. frames' = <<>> /\ Len(frames') = 0
      BY <1>7, <2>1, EmptySeq
    <3>2. \A w : Continues(w, text', wchar') => w = <<>>
      BY <1>4, <1>6, <2>1
    <3>. QED  BY <1>4, <3>1, <3>2 DEF Expecting
  <2>2. CASE N # 1
    <3>1. N - 1 \in 1..N - 1 /\ N - 1 + 1 = N /\ N - 1 > 0
      BY <1>1, <2>2
    <3>2. frames' # <<>>
      BY <1>7, <3>1
    <3>3. Resumes(frames'[N - 1].fn, heap'[frames'[N - 1].object], rest[N - 1], rest[N])
      BY <1>4, <1>7, <3>1
    <3>4. Continued(frames'[N - 1].fn, heap'[frames'[N - 1].object], rest[N - 1], text', wchar')
      BY <1>6, <3>3 DEF Resumes, Continued
    <3>5. /\ \A i \in 1..N - 1 : Suits(frames'[i].fn, rest[i])
          /\ \A i \in 1..(N - 1) - 1 :
               Resumes(frames'[i].fn, heap'[frames'[i].object], rest[i], rest[i + 1])
      <4>1. \A i \in 1..N - 1 : i \in 1..N
        BY <1>1
      <4>2. \A i \in 1..(N - 1) - 1 : i \in 1..N - 1
        BY <1>1
      <4>. QED  BY <1>4, <1>7, <4>1, <4>2
    <3>. QED  BY <1>4, <1>7, <3>2, <3>4, <3>5 DEF Expecting
  <2>. QED  BY <2>1, <2>2
<1>9. text' \in Seq(Chars) /\ wchar' # Broken
  BY <1>2, TakesText
<1>. QED  BY <1>2, <1>8, <1>9 DEF RefusalInv

\* A function gives up.
LEMMA RefusalError ==
  ASSUME TreeInv, RefusalInv, frames # <<>>, Error,
         \A L, v :
           L \in SUBSET Seq(Chars) /\ v \in Seq(Chars) /\ Suits(Top.fn, L) /\ Allows(v, wchar)
           => ~Expects(Top.fn, Object, L, v)
  PROVE  RefusalInv'
<1>. DEFINE N == Len(frames)
<1>1. N \in Nat \ {0} /\ Top = frames[N]
  BY FramesAre
<1>2. state = "parsing" /\ wchar # Broken /\ text \in Seq(Chars)
  BY TopFills DEF RefusalInv
<1>3. PICK rest : Expecting(rest, text, wchar, heap, frames)
  BY <1>2 DEF RefusalInv
<1>4. /\ rest \in [Nat -> SUBSET Seq(Chars)] /\ Suits(Top.fn, rest[N])
      /\ Continued(Top.fn, Object, rest[N], text, wchar)
  BY <1>1, <1>3 DEF Expecting, Object
<1>5. state' = "failed" /\ text' = text /\ wchar' = wchar
  BY DEF Error
<1>6. \A w : ~Continues(w, text, wchar)
  <2>. SUFFICES ASSUME NEW w, Continues(w, text, wchar)  PROVE FALSE
    OBVIOUS
  <2>1. Expects(Top.fn, Object, rest[N], w) /\ w \in Seq(Chars) /\ Allows(w, wchar)
    BY <1>4 DEF Continued, Continues
  <2>2. rest[N] \in SUBSET Seq(Chars)
    BY <1>1, <1>4
  <2>. QED  BY <1>4, <2>1, <2>2
<1>. QED  BY <1>2, <1>5, <1>6 DEF RefusalInv

-----------------------------------------------------------------------------
(* parse_format, parse_node and parse_literal.                             *)

LEMMA SuitsAs ==
  ASSUME NEW L
  PROVE  /\ Suits("format", L) <=> \A w \in L : w # <<>> => w[1] \in {"!", "}"}
         /\ Suits("node", L) <=> Suits("format", L)
         /\ Suits("literal", L) <=>
              \A w \in L : StartsIn(w, Plain \union {Slash}) => w \in AtChar(L)
         /\ Suits("escaped", L) <=> Suits("literal", L)
         /\ \A fn \in OfSubst : Suits(fn, L)
<1>1. Suits("format", L) <=> \A w \in L : w # <<>> => w[1] \in {"!", "}"}
  BY DEF Suits, OfFormat, OfLiteral
<1>2. Suits("node", L) <=> \A w \in L : w # <<>> => w[1] \in {"!", "}"}
  BY DEF Suits, OfFormat, OfLiteral
<1>3. Suits("literal", L) <=> \A w \in L : StartsIn(w, Plain \union {Slash}) => w \in AtChar(L)
  BY DEF Suits, OfFormat, OfLiteral
<1>4. Suits("escaped", L) <=> \A w \in L : StartsIn(w, Plain \union {Slash}) => w \in AtChar(L)
  BY DEF Suits, OfFormat, OfLiteral
<1>5. \A fn \in OfSubst : Suits(fn, L)
  BY DEF Suits, OfFormat, OfLiteral, OfSubst
<1>. QED  BY <1>1, <1>2, <1>3, <1>4, <1>5

\* What may follow begins with the lookahead.
LEMMA AheadIs ==
  ASSUME TreeInv, RefusalInv, Peeked
  PROVE  /\ wchar \in Chars \union {End}
         /\ \A v, S : Allows(v, wchar) /\ StartsIn(v, S) => wchar \in S
         /\ wchar \in Chars => \A v : Allows(v, wchar) => v # <<>> /\ v[1] = wchar
<1>1. wchar \in Lookaheads /\ wchar # Unread /\ wchar # Broken
  BY DEF TreeInv, FormatTypes, Peeked, RefusalInv
<1>2. wchar \in Chars \union {End}
  BY <1>1 DEF Lookaheads
<1>3. wchar \in Chars => \A v : Allows(v, wchar) => v # <<>> /\ v[1] = wchar
  BY Zenon DEF Allows
<1>4. ASSUME NEW v, NEW S, Allows(v, wchar), StartsIn(v, S)  PROVE wchar \in S
  <2>1. v # <<>> /\ v[1] \in S
    BY <1>4 DEF StartsIn
  <2>2. wchar # End
    BY <1>4, <2>1, Zenon DEF Allows
  <2>3. v[1] = wchar
    BY <1>2, <1>3, <1>4, <2>2
  <2>. QED  BY <2>1, <2>3
<1>. QED  BY <1>2, <1>3, <1>4

LEMMA StartsApart ==
  /\ \A c \in Plain \union {Slash, Brace} : c # "!" /\ c # "}" /\ c # End
  /\ \A c \in Plain \union {Slash} : c # Brace
  /\ Slash \in Chars /\ Brace \in Chars /\ End \notin Chars /\ Plain \subseteq Chars
<1>1. \A c \in Plain : c # "!" /\ c # "}" /\ c # End /\ c # Brace
  BY Zenon DEF Plain, Brace, End
<1>2. Slash # "!" /\ Slash # "}" /\ Slash # End /\ Slash # Brace
  BY Zenon DEF Slash, Brace, End
<1>3. Brace # "!" /\ Brace # "}" /\ Brace # End
  BY Zenon DEF Brace, End
<1>4. Slash \in Chars /\ Brace \in Chars
  BY CharsAre, Zenon DEF Slash, Brace
<1>5. End \notin Chars
  BY Zenon DEF End, Chars, Plain, Escapable
<1>6. Plain \subseteq Chars
  BY DEF Chars
<1>. QED  BY <1>1, <1>2, <1>3, <1>4, <1>5, <1>6

LEMMA GrowRefuses ==
  ASSUME TreeInv, RefusalInv, Grow
  PROVE  RefusalInv'
<1>. DEFINE x == [Object EXCEPT !.nodes = Append(@, Junk)]
<1>1. /\ In("format") /\ Peek /\ state' = state /\ Goto("node") /\ Peeked
      /\ wchar # "!" /\ wchar # "}" /\ wchar # End
      /\ heap' = [heap EXCEPT ![Top.object].nodes = Append(@, Junk)]
  BY DEF Grow, Follows
<1>2. frames # <<>> /\ Object \in FormatObjects /\ Top.fn = "format"
  BY <1>1, InFormat DEF In
<1>3. Top.object \in 1..Len(heap) /\ heap \in Seq(FormatHeap)
  BY <1>2, FramesAre
<1>4. Store(x)
  BY <1>1, <1>3 DEF Store, Object
<1>. HIDE DEF x
<1>5. \A L : Suits("format", L) => Suits("node", L)
  BY SuitsAs
<1>6. ASSUME NEW L \in SUBSET Seq(Chars), NEW v \in Seq(Chars), Suits("format", L),
             Allows(<<>> \o v, wchar), Expects("format", Object, L, <<>> \o v)
      PROVE  Expects("node", x, L, v)
  <2>1. <<>> \o v = v
    BY ConcatEmptySeq
  <2>2. v # <<>> /\ v[1] = wchar
    BY <1>1, <1>6, <2>1, AheadIs
  <2>3. v \notin L
    <3>1. \A w \in L : w # <<>> => w[1] \in {"!", "}"}
      BY <1>6, SuitsAs
    <3>. QED  BY <1>1, <2>2, <3>1
  <2>4. v \in IF Object.nodes = <<>> THEN Cat(Spoken, L) ELSE More(L)
    BY <1>6, <2>1, ExpectsAs
  <2>5. v \in Cat(Spoken, L)
    BY <2>3, <2>4 DEF More
  <2>. QED  BY <2>5, ExpectsAs
<1>. QED  BY <1>1, <1>2, <1>4, <1>5, <1>6, TakesNothing, RefusalOn

\* What follows a node begins with a node, or follows the format.
LEMMA NodeSuits ==
  ASSUME NEW L \in SUBSET Seq(Chars), Suits("format", L)
  PROVE  Suits("literal", More(L))
<1>1. ASSUME NEW w \in More(L), StartsIn(w, Plain \union {Slash})  PROVE w \in AtChar(More(L))
  <2>1. w # <<>> /\ w[1] \in Plain \union {Slash}
    BY <1>1 DEF StartsIn
  <2>2. w \notin L
    <3>1. \A u \in L : u # <<>> => u[1] \in {"!", "}"}
      BY SuitsAs
    <3>. QED  BY <2>1, <3>1, StartsApart
  <2>3. w \in Cat(Spoken, L)
    BY <1>1, <2>2 DEF More
  <2>4. w \in AtUnit(More(L)) /\ More(L) \subseteq Seq(Chars)
    BY <2>3, UnitFirst, TextSets
  <2>5. w \notin AtOpen(More(L))
    <3>1. w \in AtOpen(More(L)) => StartsIn(w, {Brace})
      BY <2>4, Starts
    <3>. QED  BY <2>1, <3>1, StartsApart DEF StartsIn
  <2>. QED  BY <2>4, <2>5 DEF AtUnit
<1>. QED  BY <1>1, SuitsAs

LEMMA NodeRefuses ==
  ASSUME TreeInv, RefusalInv, Node
  PROVE  RefusalInv'
<1>. DEFINE slot == Len(Object.nodes)
            x == [Object EXCEPT !.nodes[slot] = New]
<1>1. In("node") /\ Peeked /\ Peek /\ state' = state
  BY DEF Node
<1>2. frames # <<>> /\ Object \in FormatObjects /\ Top.fn = "node" /\ Object.nodes # <<>>
  BY <1>1, TopFills DEF In, FrameFills, OfFormat
<1>3. x.nodes # <<>>
  <2>1. x.nodes = [Object.nodes EXCEPT ![slot] = New] /\ Object.nodes \in Seq(Int)
    BY <1>2 DEF FormatObjects
  <2>2. New \in Int /\ slot \in 1..Len(Object.nodes)
    <3>1. New \in Int
      BY LenProperties DEF New, TreeInv, FormatTypes
    <3>2. Len(Object.nodes) \in Nat /\ Len(Object.nodes) > 0
      BY <1>2, <2>1, EmptySeq, LenProperties
    <3>. QED  BY <3>1, <3>2
  <2>3. x.nodes \in Seq(Int) /\ Len(x.nodes) = Len(Object.nodes)
    BY <2>1, <2>2, ExceptSeq
  <2>. QED  BY <1>2, <2>1, <2>3, EmptySeq
<1>. HIDE DEF x
<1>4. ASSUME NEW L \in SUBSET Seq(Chars), Suits("node", L)
      PROVE  /\ More(L) \in SUBSET Seq(Chars) /\ Suits("format", L)
             /\ Suits("literal", More(L)) /\ Suits("open", More(L))
             /\ Resumes("format", x, L, More(L))
             /\ \A v \in Seq(Chars) : Expects("node", Object, L, <<>> \o v) => v \in AtUnit(More(L))
  <2>1. Suits("format", L) /\ Suits("open", More(L))
    BY <1>4, SuitsAs DEF OfSubst
  <2>2. Resumes("format", x, L, More(L))
    <3>1. \A w \in More(L) : Expects("format", x, L, w)
      BY <1>3, ExpectsAs
    <3>. QED  BY <3>1 DEF Resumes
  <2>3. ASSUME NEW v \in Seq(Chars), Expects("node", Object, L, <<>> \o v)  PROVE v \in AtUnit(More(L))
    <3>1. v \in Cat(Spoken, L)
      BY <2>3, ExpectsAs, ConcatEmptySeq
    <3>. QED  BY <3>1, UnitFirst
  <2>4. More(L) \in SUBSET Seq(Chars)
    BY TextSets
  <2>. QED  BY <2>1, <2>2, <2>3, <2>4, NodeSuits
<1>5. CASE wchar = "{"
  <2>1. Allocate(x, NewSubst) /\ Call("format", "open")
    BY <1>5, Zenon DEF Node, x
  <2>2. wchar = Brace
    BY <1>5, Zenon DEF Brace
  <2>3. ASSUME NEW L \in SUBSET Seq(Chars), Suits("node", L)
        PROVE  CallSuits(<<>>, "format", x, "open", NewSubst, L, More(L))
    <3>1. ASSUME NEW v \in Seq(Chars), Allows(<<>> \o v, wchar), Expects("node", Object, L, <<>> \o v)
          PROVE  Expects("open", NewSubst, More(L), v)
      <4>1. v \in AtUnit(More(L)) /\ More(L) \subseteq Seq(Chars) /\ <<>> \o v = v
        BY <1>4, <2>3, <3>1, ConcatEmptySeq
      <4>2. v \notin AtChar(More(L))
        <5>1. v \in AtChar(More(L)) => StartsIn(v, Plain \union {Slash})
          BY <4>1, Starts
        <5>2. StartsIn(v, Plain \union {Slash}) => wchar \in Plain \union {Slash}
          BY <1>1, <3>1, <4>1, AheadIs
        <5>. QED  BY <2>2, <5>1, <5>2, StartsApart
      <4>3. v \in AtOpen(More(L))
        BY <4>1, <4>2 DEF AtUnit
      <4>. QED  BY <4>3, ExpectsAs
    <3>. QED  BY <1>2, <1>4, <2>3, <3>1 DEF CallSuits
  <2>4. \A L : L \in SUBSET Seq(Chars) /\ Suits(Top.fn, L) =>
          \E M \in SUBSET Seq(Chars) : CallSuits(<<>>, "format", x, "open", NewSubst, L, M)
    BY <1>2, <1>4, <2>3
  <2>. QED  BY <1>1, <1>2, <2>1, <2>4, TakesNothing, RefusalCall
<1>6. CASE wchar # "{"
  <2>1. Allocate(x, NewLiteral) /\ Call("format", "literal")
    BY <1>6, Zenon DEF Node, x
  <2>2. wchar # Brace
    BY <1>6, Zenon DEF Brace
  <2>3. NewLiteral.str = <<>>
    BY DEF NewLiteral
  <2>4. ASSUME NEW L \in SUBSET Seq(Chars), Suits("node", L)
        PROVE  CallSuits(<<>>, "format", x, "literal", NewLiteral, L, More(L))
    <3>1. ASSUME NEW v \in Seq(Chars), Allows(<<>> \o v, wchar), Expects("node", Object, L, <<>> \o v)
          PROVE  Expects("literal", NewLiteral, More(L), v)
      <4>1. v \in AtUnit(More(L)) /\ More(L) \subseteq Seq(Chars) /\ <<>> \o v = v
        BY <1>4, <2>4, <3>1, ConcatEmptySeq
      <4>2. v \notin AtOpen(More(L))
        <5>1. v \in AtOpen(More(L)) => StartsIn(v, {Brace})
          BY <4>1, Starts
        <5>2. StartsIn(v, {Brace}) => wchar \in {Brace}
          BY <1>1, <3>1, <4>1, AheadIs
        <5>. QED  BY <2>2, <5>1, <5>2
      <4>3. v \in AtChar(More(L))
        BY <4>1, <4>2 DEF AtUnit
      <4>. QED  BY <2>3, <4>3, ExpectsAs
    <3>. QED  BY <1>2, <1>4, <2>4, <3>1 DEF CallSuits
  <2>5. \A L : L \in SUBSET Seq(Chars) /\ Suits(Top.fn, L) =>
          \E M \in SUBSET Seq(Chars) : CallSuits(<<>>, "format", x, "literal", NewLiteral, L, M)
    BY <1>2, <1>4, <2>4
  <2>. QED  BY <1>1, <1>2, <2>1, <2>5, TakesNothing, RefusalCall
<1>. QED  BY <1>5, <1>6

LEMMA FormatEndRefuses ==
  ASSUME TreeInv, RefusalInv, FormatEnd
  PROVE  RefusalInv'
<1>1. In("format") /\ Peeked /\ (wchar = "!" \/ wchar = "}" \/ wchar = End)
  BY DEF FormatEnd, Follows
<1>2. frames # <<>> /\ Object \in FormatObjects /\ Top.fn = "format"
  BY <1>1, InFormat DEF In
<1>3. ASSUME NEW L \in SUBSET Seq(Chars), NEW v, Allows(v, wchar)  PROVE v \notin Cat(Spoken, L)
  <2>1. v \in Cat(Spoken, L) => StartsIn(v, Plain \union {Slash, Brace})
    BY Starts
  <2>2. StartsIn(v, Plain \union {Slash, Brace}) => wchar \in Plain \union {Slash, Brace}
    BY <1>1, <1>3, AheadIs
  <2>. QED  BY <1>1, <2>1, <2>2, StartsApart
<1>4. CASE Object.nodes = <<>>
  <2>1. Error
    BY <1>4 DEF FormatEnd
  <2>2. \A L, v : L \in SUBSET Seq(Chars) /\ v \in Seq(Chars) /\ Suits(Top.fn, L) /\ Allows(v, wchar)
                  => ~Expects(Top.fn, Object, L, v)
    BY <1>2, <1>3, <1>4, ExpectsAs
  <2>. QED  BY <1>2, <2>1, <2>2, RefusalError
<1>5. CASE Object.nodes # <<>>
  <2>1. Return /\ heap' = heap /\ Peek /\ state' = state
    BY <1>5 DEF FormatEnd
  <2>2. ASSUME NEW L \in SUBSET Seq(Chars), NEW v \in Seq(Chars), Allows(<<>> \o v, wchar),
               Expects("format", Object, L, <<>> \o v)
        PROVE  v \in L
    <3>1. <<>> \o v = v
      BY ConcatEmptySeq
    <3>2. v \in More(L)
      BY <1>5, <2>2, <3>1, ExpectsAs
    <3>. QED  BY <1>3, <2>2, <3>1, <3>2 DEF More
  <2>. QED  BY <1>2, <2>1, <2>2, TakesNothing, RefusalReturn
<1>. QED  BY <1>4, <1>5

\* The literal that is read goes on with a character.
LEMMA LiteralGoesOn ==
  ASSUME NEW L \in SUBSET Seq(Chars), Suits("literal", L), NEW n, NEW w,
         Expects("literal", n, L, w), StartsIn(w, Plain \union {Slash})
  PROVE  w \in AtChar(L)
<1>1. w \in IF n.str = <<>> THEN AtChar(L) ELSE L
  BY ExpectsAs
<1>2. \A u \in L : StartsIn(u, Plain \union {Slash}) => u \in AtChar(L)
  BY SuitsAs
<1>. QED  BY <1>1, <1>2

LEMMA LiteralCharRefuses ==
  ASSUME TreeInv, RefusalInv, LiteralChar
  PROVE  RefusalInv'
<1>1. In("literal") /\ wchar \in Plain \union {Slash} /\ Consume /\ state' = state
  BY DEF LiteralChar, Slash
<1>2. frames # <<>> /\ Object \in Literals /\ Top.fn = "literal"
  BY <1>1, InLiteral DEF OfLiteral, In
<1>3. Takes(<<wchar>>) /\ wchar \in Chars
  BY <1>1, StartsApart DEF Takes
<1>4. ASSUME NEW L \in SUBSET Seq(Chars), NEW v \in Seq(Chars), Suits("literal", L),
             Expects("literal", Object, L, <<wchar>> \o v)
      PROVE  IF wchar = Slash THEN v \in AtEscaped(L) ELSE v \in L
  <2>1. <<wchar>> \o v # <<>> /\ (<<wchar>> \o v)[1] = wchar
    BY <1>3, Consumed
  <2>2. <<wchar>> \o v \in AtChar(L)
    BY <1>1, <1>4, <2>1, LiteralGoesOn DEF StartsIn
  <2>. QED  BY <1>3, <2>2, Consumed
<1>5. CASE wchar = Slash
  <2>1. Goto("escaped") /\ heap' = heap
    BY <1>5, Zenon DEF LiteralChar, Slash
  <2>2. Store(Object)
    BY <1>2, <2>1, NothingStored
  <2>3. \A L : Suits(Top.fn, L) => Suits("escaped", L)
    BY <1>2, SuitsAs
  <2>4. \A L, v :
          /\ L \in SUBSET Seq(Chars) /\ v \in Seq(Chars) /\ Suits(Top.fn, L)
          /\ Allows(<<wchar>> \o v, wchar) /\ Expects(Top.fn, Object, L, <<wchar>> \o v)
          => Expects("escaped", Object, L, v)
    BY <1>2, <1>4, <1>5, ExpectsAs
  <2>. QED  BY <1>1, <1>2, <1>3, <2>1, <2>2, <2>3, <2>4, RefusalOn
<1>6. CASE wchar # Slash
  <2>. DEFINE x == [Object EXCEPT !.str = Append(@, wchar)]
  <2>1. Goto("literal") /\ Store(x)
    BY <1>6, Zenon DEF LiteralChar, Slash
  <2>2. x.str # <<>>
    <3>1. x.str = Append(Object.str, wchar) /\ Object.str \in Seq(Chars)
      BY <1>2 DEF Literals
    <3>. QED  BY <1>3, <3>1, AppendProperties, LenProperties, EmptySeq
  <2>. HIDE DEF x
  <2>3. \A L : Suits(Top.fn, L) => Suits("literal", L)
    BY <1>2
  <2>4. \A L, v :
          /\ L \in SUBSET Seq(Chars) /\ v \in Seq(Chars) /\ Suits(Top.fn, L)
          /\ Allows(<<wchar>> \o v, wchar) /\ Expects(Top.fn, Object, L, <<wchar>> \o v)
          => Expects("literal", x, L, v)
    BY <1>2, <1>4, <1>6, <2>2, ExpectsAs
  <2>. QED  BY <1>1, <1>2, <1>3, <2>1, <2>3, <2>4, RefusalOn
<1>. QED  BY <1>5, <1>6

LEMMA LiteralEscapedRefuses ==
  ASSUME TreeInv, RefusalInv, LiteralEscaped
  PROVE  RefusalInv'
<1>1. In("escaped") /\ Peeked
  BY DEF LiteralEscaped
<1>2. frames # <<>> /\ Object \in Literals /\ Top.fn = "escaped"
  BY <1>1, InLiteral DEF OfLiteral, In
<1>3. CASE wchar \notin Escapable
  <2>1. Error
    BY <1>3 DEF LiteralEscaped
  <2>2. ASSUME NEW L \in SUBSET Seq(Chars), NEW v, Allows(v, wchar)  PROVE ~Expects("escaped", Object, L, v)
    <3>1. v \in AtEscaped(L) => StartsIn(v, Escapable)
      BY Starts
    <3>2. StartsIn(v, Escapable) => wchar \in Escapable
      BY <1>1, <2>2, AheadIs
    <3>. QED  BY <1>3, <3>1, <3>2, ExpectsAs
  <2>. QED  BY <1>2, <2>1, <2>2, RefusalError
<1>4. CASE wchar \in Escapable
  <2>. DEFINE x == [Object EXCEPT !.str = Append(@, wchar)]
  <2>1. Goto("literal") /\ Store(x) /\ Consume /\ state' = state
    BY <1>4, Zenon DEF LiteralEscaped
  <2>2. wchar \in Chars /\ Takes(<<wchar>>)
    BY <1>4, <2>1 DEF Takes, Chars
  <2>3. x.str # <<>>
    <3>1. x.str = Append(Object.str, wchar) /\ Object.str \in Seq(Chars)
      BY <1>2 DEF Literals
    <3>. QED  BY <2>2, <3>1, AppendProperties, LenProperties, EmptySeq
  <2>. HIDE DEF x
  <2>4. \A L : Suits(Top.fn, L) => Suits("literal", L)
    BY <1>2, SuitsAs
  <2>5. ASSUME NEW L \in SUBSET Seq(Chars), NEW v \in Seq(Chars),
               Expects("escaped", Object, L, <<wchar>> \o v)
        PROVE  Expects("literal", x, L, v)
    <3>1. <<wchar>> \o v \in AtEscaped(L)
      BY <2>5, ExpectsAs
    <3>2. v \in L
      BY <2>2, <3>1, Consumed
    <3>. QED  BY <2>3, <3>2, ExpectsAs
  <2>. QED  BY <1>2, <2>1, <2>2, <2>4, <2>5, RefusalOn
<1>. QED  BY <1>3, <1>4

LEMMA LiteralEndRefuses ==
  ASSUME TreeInv, RefusalInv, LiteralEnd
  PROVE  RefusalInv'
<1>1. In("literal") /\ Peeked /\ wchar \notin Plain \union {Slash}
  BY DEF LiteralEnd, Slash
<1>2. frames # <<>> /\ Object \in Literals /\ Top.fn = "literal"
  BY <1>1, InLiteral DEF OfLiteral, In
<1>3. CASE Object.str = <<>>
  <2>1. Error
    BY <1>3 DEF LiteralEnd
  <2>2. ASSUME NEW L \in SUBSET Seq(Chars), NEW v, Allows(v, wchar)  PROVE ~Expects("literal", Object, L, v)
    <3>1. v \in AtChar(L) => StartsIn(v, Plain \union {Slash})
      BY Starts
    <3>2. StartsIn(v, Plain \union {Slash}) => wchar \in Plain \union {Slash}
      BY <1>1, <2>2, AheadIs
    <3>. QED  BY <1>1, <1>3, <3>1, <3>2, ExpectsAs
  <2>. QED  BY <1>2, <2>1, <2>2, RefusalError
<1>4. CASE Object.str # <<>>
  <2>1. Return /\ heap' = heap /\ Peek /\ state' = state
    BY <1>4 DEF LiteralEnd
  <2>2. ASSUME NEW L \in SUBSET Seq(Chars), NEW v \in Seq(Chars), Expects("literal", Object, L, <<>> \o v)
        PROVE  v \in L
    <3>1. <<>> \o v = v
      BY ConcatEmptySeq
    <3>. QED  BY <1>4, <2>2, <3>1, ExpectsAs
  <2>. QED  BY <1>2, <2>1, <2>2, TakesNothing, RefusalReturn
<1>. QED  BY <1>3, <1>4

-----------------------------------------------------------------------------
(* parse_subst.                                                            *)

LEMMA SubstOpenRefuses ==
  ASSUME TreeInv, MeaningInv, RefusalInv, SubstOpen
  PROVE  RefusalInv'
<1>1. In("open") /\ Goto("key") /\ Consume /\ heap' = heap /\ state' = state
  BY DEF SubstOpen
<1>2. frames # <<>> /\ Object \in Substs /\ Top.fn = "open" /\ "key" \in OfSubst
  BY <1>1, InSubst DEF OfSubst, In
<1>3. \E s, mean, done : Reads("open", Object, s, wchar, mean, done)
  BY <1>2, TextIs
<1>4. wchar \in Chars /\ Object.key = <<>>
  <2>1. wchar = Brace /\ Object.key = <<>>
    BY <1>3, ReadsAs
  <2>. QED  BY <2>1, StartsApart
<1>5. Takes(<<wchar>>) /\ Store(Object)
  BY <1>1, <1>2, <1>4, NothingStored DEF Takes
<1>6. \A L : Suits(Top.fn, L) => Suits("key", L)
  BY <1>2, SuitsAs
<1>7. ASSUME NEW L \in SUBSET Seq(Chars), NEW v \in Seq(Chars), Expects("open", Object, L, <<wchar>> \o v)
      PROVE  Expects("key", Object, L, v)
  <2>1. <<wchar>> \o v \in AtOpen(L)
    BY <1>7, ExpectsAs
  <2>2. v \in AtKey(L, 1)
    BY <1>4, <2>1, Consumed
  <2>. QED  BY <1>4, <2>2, ExpectsAs
<1>. QED  BY <1>1, <1>2, <1>5, <1>6, <1>7, RefusalOn

LEMMA KeyCharRefuses ==
  ASSUME TreeInv, RefusalInv, KeyChar
  PROVE  RefusalInv'
<1>. DEFINE x == [Object EXCEPT !.key = Append(@, wchar)]
<1>1. In("key") /\ wchar = "k" /\ Store(x) /\ Consume /\ frames' = frames /\ state' = state
  BY DEF KeyChar
<1>2. frames # <<>> /\ Object \in Substs /\ Top.fn = "key"
  BY <1>1, InSubst DEF OfSubst, In
<1>3. wchar \in Chars /\ Takes(<<wchar>>)
  BY <1>1, CharsAre DEF Takes
<1>4. Goto("key")
  BY <1>1, <1>2, GoesNowhere
<1>5. x.key # <<>>
  <2>1. x.key = Append(Object.key, wchar) /\ Object.key \in Seq(Chars)
    BY <1>2 DEF Substs
  <2>. QED  BY <1>3, <2>1, AppendProperties, LenProperties, EmptySeq
<1>. HIDE DEF x
<1>6. ASSUME NEW L \in SUBSET Seq(Chars), NEW v \in Seq(Chars), Expects("key", Object, L, <<wchar>> \o v)
      PROVE  Expects("key", x, L, v)
  <2>1. PICK least \in {0, 1} : <<wchar>> \o v \in AtKey(L, least)
    <3>1. <<wchar>> \o v \in AtKey(L, IF Object.key = <<>> THEN 1 ELSE 0)
      BY <1>6, ExpectsAs
    <3>. QED  BY <3>1
  <2>2. <<wchar>> \o v \notin AfterKey(L)
    <3>1. <<wchar>> \o v # <<>> /\ (<<wchar>> \o v)[1] = wchar
      BY <1>3, Consumed
    <3>2. <<wchar>> \o v \in AfterKey(L) => StartsIn(<<wchar>> \o v, {"!", "}", "?"})
      BY Starts
    <3>3. StartsIn(<<wchar>> \o v, {"!", "}", "?"}) => wchar \in {"!", "}", "?"}
      BY <3>1 DEF StartsIn
    <3>. QED  BY <1>1, <3>2, <3>3
  <2>3. <<wchar>> \o v \in Lead("k", AtKey(L, 0))
    BY <2>1, <2>2, AtKeyIs
  <2>4. v \in AtKey(L, 0)
    BY <1>3, <2>3, Consumed
  <2>. QED  BY <1>5, <2>4, ExpectsAs
<1>. QED  BY <1>1, <1>2, <1>3, <1>4, <1>6, RefusalOn

LEMMA KeyEndRefuses ==
  ASSUME TreeInv, RefusalInv, KeyEnd
  PROVE  RefusalInv'
<1>1. In("key") /\ Peeked /\ wchar # "k"
  BY DEF KeyEnd
<1>2. frames # <<>> /\ Object \in Substs /\ Top.fn = "key" /\ "then" \in OfSubst /\ "else" \in OfSubst
  BY <1>1, InSubst DEF OfSubst, In
<1>3. ASSUME NEW L \in SUBSET Seq(Chars), NEW w, Allows(w, wchar), Expects("key", Object, L, w)
      PROVE  Object.key # <<>> /\ w \in AfterKey(L)
  <2>1. w \in AtKey(L, IF Object.key = <<>> THEN 1 ELSE 0)
    BY <1>3, ExpectsAs
  <2>2. w \notin Lead("k", AtKey(L, 0))
    <3>1. w \in Lead("k", AtKey(L, 0)) => StartsIn(w, {"k"})
      <4>1. "k" \in Chars /\ AtKey(L, 0) \subseteq Seq(Chars) /\ "k" \in {"k"}
        BY CharsAre, TextSets
      <4>. QED  BY <4>1, LeadStarts
    <3>2. StartsIn(w, {"k"}) => wchar \in {"k"}
      BY <1>1, <1>3, AheadIs
    <3>. QED  BY <1>1, <3>1, <3>2
  <2>3. CASE Object.key = <<>>
    <3>1. w \in AtKey(L, 1) /\ 1 \in {0, 1}
      BY <2>1, <2>3
    <3>2. (1 = 0 /\ w \in AfterKey(L)) \/ w \in Lead("k", AtKey(L, 0))
      BY <3>1, AtKeyIs
    <3>. QED  BY <2>2, <3>2
  <2>4. CASE Object.key # <<>>
    <3>1. w \in AtKey(L, 0) /\ 0 \in {0, 1}
      BY <2>1, <2>4
    <3>2. (0 = 0 /\ w \in AfterKey(L)) \/ w \in Lead("k", AtKey(L, 0))
      BY <3>1, AtKeyIs
    <3>. QED  BY <2>2, <2>4, <3>2
  <2>. QED  BY <2>3, <2>4
<1>4. CASE Object.key = <<>>
  <2>1. Error
    BY <1>4 DEF KeyEnd
  <2>2. \A L, v : L \in SUBSET Seq(Chars) /\ v \in Seq(Chars) /\ Suits(Top.fn, L) /\ Allows(v, wchar)
                  => ~Expects(Top.fn, Object, L, v)
    BY <1>2, <1>3, <1>4
  <2>. QED  BY <1>2, <2>1, <2>2, RefusalError
<1>5. CASE Object.key # <<>> /\ wchar = "?"
  <2>1. Goto("then") /\ Consume /\ heap' = heap /\ state' = state
    BY <1>5 DEF KeyEnd
  <2>2. wchar \in Chars /\ Takes(<<wchar>>) /\ Store(Object)
    BY <1>2, <1>5, <2>1, CharsAre, NothingStored DEF Takes
  <2>3. \A L : Suits(Top.fn, L) => Suits("then", L)
    BY <1>2, SuitsAs
  <2>4. ASSUME NEW L \in SUBSET Seq(Chars), NEW v \in Seq(Chars), Allows(<<wchar>> \o v, wchar),
               Expects("key", Object, L, <<wchar>> \o v)
        PROVE  Expects("then", Object, L, v)
    <3>1. <<wchar>> \o v \in AfterKey(L)
      BY <1>3, <2>4
    <3>2. v \in AtThen(L)
      BY <1>5, <2>2, <3>1, Consumed
    <3>. QED  BY <3>2, ExpectsAs
  <2>. QED  BY <1>2, <2>1, <2>2, <2>3, <2>4, RefusalOn
<1>6. CASE Object.key # <<>> /\ wchar # "?"
  <2>1. Goto("else") /\ Peek /\ heap' = heap /\ state' = state
    BY <1>6 DEF KeyEnd
  <2>2. Store(Object)
    BY <1>2, <2>1, NothingStored
  <2>3. \A L : Suits(Top.fn, L) => Suits("else", L)
    BY <1>2, SuitsAs
  <2>4. ASSUME NEW L \in SUBSET Seq(Chars), NEW v \in Seq(Chars), Allows(<<>> \o v, wchar),
               Expects("key", Object, L, <<>> \o v)
        PROVE  Expects("else", Object, L, v)
    <3>1. <<>> \o v = v
      BY ConcatEmptySeq
    <3>2. v \in AfterKey(L)
      BY <1>3, <2>4, <3>1
    <3>3. v \notin Lead("?", AtThen(L))
      <4>1. v \in Lead("?", AtThen(L)) => StartsIn(v, {"?"})
        <5>1. "?" \in Chars /\ AtThen(L) \subseteq Seq(Chars) /\ "?" \in {"?"}
          BY CharsAre, TextSets
        <5>. QED  BY <5>1, LeadStarts
      <4>2. StartsIn(v, {"?"}) => wchar \in {"?"}
        BY <1>1, <2>4, <3>1, AheadIs
      <4>. QED  BY <1>6, <4>1, <4>2
    <3>4. v \in AtElse(L)
      BY <3>2, <3>3 DEF AfterKey
    <3>. QED  BY <3>4, ExpectsAs
  <2>. QED  BY <1>2, <2>1, <2>2, <2>3, <2>4, TakesNothing, RefusalOn
<1>. QED  BY <1>4, <1>5, <1>6

\* A format follows, and what follows it begins with a mark or a bracket.
LEMMA FormatSuits ==
  ASSUME NEW L \in SUBSET Seq(Chars)
  PROVE  /\ Suits("format", AtElse(L)) /\ AtElse(L) \in SUBSET Seq(Chars)
         /\ Suits("format", AtClose(L)) /\ AtClose(L) \in SUBSET Seq(Chars)
         /\ \A M, w : w \in Cat(Spoken, M) => Expects("format", NewFormat, M, w)
<1>1. AtElse(L) \in SUBSET Seq(Chars) /\ AtClose(L) \in SUBSET Seq(Chars)
  BY TextSets
<1>2. ASSUME NEW w \in AtElse(L), w # <<>>  PROVE w[1] \in {"!", "}"}
  BY <1>2, Starts DEF StartsIn
<1>3. ASSUME NEW w \in AtClose(L), w # <<>>  PROVE w[1] \in {"!", "}"}
  <2>1. StartsIn(w, {"}"})
    BY <1>3, Starts
  <2>. QED  BY <2>1 DEF StartsIn
<1>4. \A M, w : w \in Cat(Spoken, M) => Expects("format", NewFormat, M, w)
  <2>1. NewFormat.nodes = <<>>
    BY DEF NewFormat
  <2>. QED  BY <2>1, ExpectsAs
<1>. QED  BY <1>1, <1>2, <1>3, <1>4, SuitsAs

LEMMA ThenRefuses ==
  ASSUME TreeInv, RefusalInv, Then
  PROVE  RefusalInv'
<1>1. In("then") /\ Peeked /\ Peek /\ state' = state
  BY DEF Then
<1>2. frames # <<>> /\ Object \in Substs /\ Top.fn = "then" /\ "else" \in OfSubst
  BY <1>1, InSubst DEF OfSubst, In
<1>3. CASE wchar = "!"
  <2>. DEFINE x == [Object EXCEPT !.type = "fallback"]
  <2>1. Store(x) /\ Goto("else")
    BY <1>3 DEF Then
  <2>. HIDE DEF x
  <2>2. \A L : Suits(Top.fn, L) => Suits("else", L)
    BY <1>2, SuitsAs
  <2>3. ASSUME NEW L \in SUBSET Seq(Chars), NEW v \in Seq(Chars), Allows(<<>> \o v, wchar),
               Expects("then", Object, L, <<>> \o v)
        PROVE  Expects("else", x, L, v)
    <3>1. <<>> \o v = v
      BY ConcatEmptySeq
    <3>2. v \in AtThen(L)
      BY <2>3, <3>1, ExpectsAs
    <3>3. v \notin Cat(Spoken, AtElse(L))
      <4>1. v \in Cat(Spoken, AtElse(L)) => StartsIn(v, Plain \union {Slash, Brace})
        <5>1. AtElse(L) \subseteq Seq(Chars)
          BY TextSets
        <5>. QED  BY <5>1, Starts
      <4>2. StartsIn(v, Plain \union {Slash, Brace}) => wchar \in Plain \union {Slash, Brace}
        BY <1>1, <2>3, <3>1, AheadIs
      <4>. QED  BY <1>3, <4>1, <4>2, StartsApart
    <3>4. v \in AtElse(L)
      BY <3>2, <3>3 DEF AtThen, AtElse
    <3>. QED  BY <3>4, ExpectsAs
  <2>. QED  BY <1>1, <1>2, <2>1, <2>2, <2>3, TakesNothing, RefusalOn
<1>4. CASE wchar # "!"
  <2>. DEFINE x == [Object EXCEPT !.type = "if exists", !.if_true = New]
  <2>1. Allocate(x, NewFormat) /\ Call("else", "format")
    BY <1>4 DEF Then
  <2>. HIDE DEF x
  <2>2. ASSUME NEW L \in SUBSET Seq(Chars)
        PROVE  CallSuits(<<>>, "else", x, "format", NewFormat, L, AtElse(L))
    <3>1. ASSUME NEW v \in Seq(Chars), Allows(<<>> \o v, wchar), Expects("then", Object, L, <<>> \o v)
          PROVE  Expects("format", NewFormat, AtElse(L), v)
      <4>1. <<>> \o v = v
        BY ConcatEmptySeq
      <4>2. v \in AtThen(L)
        BY <3>1, <4>1, ExpectsAs
      <4>3. v \notin Other(L)
        <5>1. v \in Other(L) => StartsIn(v, {"!"})
          BY Starts
        <5>2. StartsIn(v, {"!"}) => wchar \in {"!"}
          BY <1>1, <3>1, <4>1, AheadIs
        <5>. QED  BY <1>4, <5>1, <5>2
      <4>4. v \in Cat(Spoken, AtElse(L))
        BY <4>2, <4>3 DEF AtThen
      <4>. QED  BY <4>4, FormatSuits
    <3>2. Resumes("else", x, L, AtElse(L))
      <4>1. \A w \in AtElse(L) : Expects("else", x, L, w)
        BY ExpectsAs
      <4>. QED  BY <4>1 DEF Resumes
    <3>3. Suits("else", L) /\ Suits("format", AtElse(L))
      BY <1>2, SuitsAs, FormatSuits
    <3>. QED  BY <1>2, <3>1, <3>2, <3>3 DEF CallSuits
  <2>3. \A L : L \in SUBSET Seq(Chars) /\ Suits(Top.fn, L) =>
          \E M \in SUBSET Seq(Chars) : CallSuits(<<>>, "else", x, "format", NewFormat, L, M)
    BY <2>2, FormatSuits
  <2>. QED  BY <1>1, <1>2, <2>1, <2>3, TakesNothing, RefusalCall
<1>. QED  BY <1>3, <1>4

LEMMA ElseRefuses ==
  ASSUME TreeInv, RefusalInv, Else
  PROVE  RefusalInv'
<1>1. In("else") /\ Peeked /\ state' = state
  BY DEF Else
<1>2. frames # <<>> /\ Object \in Substs /\ Top.fn = "else" /\ "close" \in OfSubst
  BY <1>1, InSubst DEF OfSubst, In
<1>3. CASE wchar # "!"
  <2>1. Goto("close") /\ Peek /\ heap' = heap
    BY <1>3 DEF Else
  <2>2. Store(Object)
    BY <1>2, <2>1, NothingStored
  <2>3. \A L : Suits(Top.fn, L) => Suits("close", L)
    BY <1>2, SuitsAs
  <2>4. ASSUME NEW L \in SUBSET Seq(Chars), NEW v \in Seq(Chars), Allows(<<>> \o v, wchar),
               Expects("else", Object, L, <<>> \o v)
        PROVE  Expects("close", Object, L, v)
    <3>1. <<>> \o v = v
      BY ConcatEmptySeq
    <3>2. v \in AtElse(L)
      BY <2>4, <3>1, ExpectsAs
    <3>3. v \notin Other(L)
      <4>1. v \in Other(L) => StartsIn(v, {"!"})
        BY Starts
      <4>2. StartsIn(v, {"!"}) => wchar \in {"!"}
        BY <1>1, <2>4, <3>1, AheadIs
      <4>. QED  BY <1>3, <4>1, <4>2
    <3>4. v \in AtClose(L)
      BY <3>2, <3>3 DEF AtElse
    <3>. QED  BY <3>4, ExpectsAs
  <2>. QED  BY <1>1, <1>2, <2>1, <2>2, <2>3, <2>4, TakesNothing, RefusalOn
<1>4. CASE wchar = "!"
  <2>. DEFINE type == CASE Object.type = "basic"     -> "if absent"
                        [] Object.type = "if exists" -> "ternary"
                        [] Object.type = "fallback"  -> "fallback"
              x == [Object EXCEPT !.type = type, !.if_false = New]
  <2>1. Allocate(x, NewFormat) /\ Call("close", "format") /\ Consume
    BY <1>4 DEF Else
  <2>. HIDE DEF x
  <2>2. wchar \in Chars /\ Takes(<<wchar>>)
    BY <1>4, <2>1, CharsAre DEF Takes
  <2>3. ASSUME NEW L \in SUBSET Seq(Chars)
        PROVE  CallSuits(<<wchar>>, "close", x, "format", NewFormat, L, AtClose(L))
    <3>1. ASSUME NEW v \in Seq(Chars), Expects("else", Object, L, <<wchar>> \o v)
          PROVE  Expects("format", NewFormat, AtClose(L), v)
      <4>1. <<wchar>> \o v \in AtElse(L)
        BY <3>1, ExpectsAs
      <4>2. <<wchar>> \o v \notin AtClose(L)
        <5>1. <<wchar>> \o v # <<>> /\ (<<wchar>> \o v)[1] = wchar
          BY <2>2, Consumed
        <5>2. <<wchar>> \o v \in AtClose(L) => StartsIn(<<wchar>> \o v, {"}"})
          BY Starts
        <5>3. StartsIn(<<wchar>> \o v, {"}"}) => wchar \in {"}"}
          BY <5>1 DEF StartsIn
        <5>. QED  BY <1>4, <5>2, <5>3
      <4>3. <<wchar>> \o v \in Other(L)
        BY <4>1, <4>2 DEF AtElse
      <4>4. v \in Cat(Spoken, AtClose(L))
        BY <2>2, <4>3, Consumed
      <4>. QED  BY <4>4, FormatSuits
    <3>2. Resumes("close", x, L, AtClose(L))
      <4>1. \A w \in AtClose(L) : Expects("close", x, L, w)
        BY ExpectsAs
      <4>. QED  BY <4>1 DEF Resumes
    <3>3. Suits("close", L) /\ Suits("format", AtClose(L))
      BY <1>2, SuitsAs, FormatSuits
    <3>. QED  BY <1>2, <3>1, <3>2, <3>3 DEF CallSuits
  <2>4. \A L : L \in SUBSET Seq(Chars) /\ Suits(Top.fn, L) =>
          \E M \in SUBSET Seq(Chars) : CallSuits(<<wchar>>, "close", x, "format", NewFormat, L, M)
    BY <2>3, FormatSuits
  <2>. QED  BY <1>1, <1>2, <2>1, <2>2, <2>4, RefusalCall
<1>. QED  BY <1>3, <1>4

LEMMA SubstCloseRefuses ==
  ASSUME TreeInv, RefusalInv, SubstClose
  PROVE  RefusalInv'
<1>1. In("close") /\ Peeked
  BY DEF SubstClose
<1>2. frames # <<>> /\ Object \in Substs /\ Top.fn = "close"
  BY <1>1, InSubst DEF OfSubst, In
<1>3. CASE wchar # "}"
  <2>1. Error
    BY <1>3 DEF SubstClose
  <2>2. ASSUME NEW L \in SUBSET Seq(Chars), NEW v, Allows(v, wchar)  PROVE ~Expects("close", Object, L, v)
    <3>1. v \in AtClose(L) => StartsIn(v, {"}"})
      BY Starts
    <3>2. StartsIn(v, {"}"}) => wchar \in {"}"}
      BY <1>1, <2>2, AheadIs
    <3>. QED  BY <1>3, <3>1, <3>2, ExpectsAs
  <2>. QED  BY <1>2, <2>1, <2>2, RefusalError
<1>4. CASE wchar = "}"
  <2>1. Return /\ Consume /\ heap' = heap /\ state' = state
    BY <1>4, Zenon DEF SubstClose
  <2>2. wchar \in Chars /\ Takes(<<wchar>>)
    BY <1>4, <2>1, CharsAre, Zenon DEF Takes
  <2>3. ASSUME NEW L \in SUBSET Seq(Chars), NEW v \in Seq(Chars), Expects("close", Object, L, <<wchar>> \o v)
        PROVE  v \in L
    <3>1. <<wchar>> \o v \in AtClose(L)
      BY <2>3, ExpectsAs
    <3>. QED  BY <2>2, <3>1, Consumed
  <2>. QED  BY <1>2, <2>1, <2>2, <2>3, RefusalReturn
<1>. QED  BY <1>3, <1>4

-----------------------------------------------------------------------------
(* The parser as a whole.                                                  *)

LEMMA DecodeRefuses ==
  ASSUME TreeInv, RefusalInv, Decode
  PROVE  RefusalInv'
<1>1. /\ state = "parsing" /\ wchar = Unread /\ text' = text /\ heap' = heap
      /\ IF wchar' = Broken THEN state' = "failed" /\ frames' = <<>>
                           ELSE state' = state /\ frames' = frames
  BY DEF Decode
<1>2. CASE wchar' = Broken
  <2>1. state' = "failed" /\ wchar' = Broken
    BY <1>1, <1>2
  <2>. QED  BY <2>1 DEF RefusalInv
<1>3. CASE wchar' # Broken
  <2>1. state' = state /\ frames' = frames /\ text \in Seq(Chars)
    BY <1>1, <1>3 DEF RefusalInv
  <2>2. PICK rest : Expecting(rest, text, wchar, heap, frames)
    BY <1>1 DEF RefusalInv
  <2>3. ASSUME NEW w, Continues(w, text, wchar')  PROVE Continues(w, text, wchar)
    <3>1. Unread # End /\ Unread \notin Chars
      BY Zenon DEF Unread, End, Chars, Plain, Escapable
    <3>2. Allows(w, wchar)
      BY <1>1, <3>1, Zenon DEF Allows
    <3>. QED  BY <2>3, <3>2 DEF Continues
  <2>4. Expecting(rest, text, wchar', heap, frames)
    <3>1. \A fn, n, L : Continued(fn, n, L, text, wchar) => Continued(fn, n, L, text, wchar')
      BY <2>3, Zenon DEF Continued
    <3>. QED  BY <2>2, <2>3, <3>1 DEF Expecting
  <2>. QED  BY <1>1, <1>3, <2>1, <2>4 DEF RefusalInv
<1>. QED  BY <1>2, <1>3

LEMMA ParseEndRefuses ==
  ASSUME TreeInv, RefusalInv, ParseEnd
  PROVE  RefusalInv'
<1>1. Peeked /\ state = "parsing" /\ frames = <<>>
  BY DEF ParseEnd, Peeked
<1>2. CASE wchar = End
  <2>1. state' = "parsed"
    BY <1>2 DEF ParseEnd
  <2>. QED  BY <2>1 DEF RefusalInv
<1>3. CASE wchar # End
  <2>1. state' = "failed" /\ text' = text /\ wchar' = wchar
    BY <1>3 DEF ParseEnd, Error
  <2>2. PICK rest : Expecting(rest, text, wchar, heap, frames)
    BY <1>1 DEF RefusalInv
  <2>3. text \in Seq(Chars) /\ wchar \in Chars
    BY <1>1, <1>3, AheadIs DEF RefusalInv
  <2>4. ASSUME NEW w, Continues(w, text, wchar)  PROVE FALSE
    <3>1. w = <<>>
      BY <1>1, <2>2, <2>4 DEF Expecting
    <3>2. w # <<>>
      BY <1>1, <2>3, <2>4, AheadIs DEF Continues
    <3>. QED  BY <3>1, <3>2
  <2>. QED  BY <2>1, <2>3, <2>4 DEF RefusalInv
<1>. QED  BY <1>2, <1>3

LEMMA InitRefuses == ASSUME FormatInit  PROVE RefusalInv
<1>1. /\ text = <<>> /\ wchar = Unread /\ Len(heap) = 1 /\ heap[1].nodes = <<>>
      /\ Len(frames) = 1 /\ frames # <<>> /\ frames[1].fn = "format" /\ frames[1].object = 1
  <2>. DEFINE first == NewFormat
              frame == Frame("format", 1)
  <2>1. first.nodes = <<>> /\ frame.fn = "format" /\ frame.object = 1
    BY DEF NewFormat, Frame
  <2>. HIDE DEF first, frame
  <2>2. heap = <<first>> /\ frames = <<frame>> /\ text = <<>> /\ wchar = Unread
    BY DEF FormatInit, first, frame
  <2>3. Len(heap) = 1 /\ heap[1] = first /\ Len(frames) = 1 /\ frames[1] = frame /\ frames # <<>>
    BY <2>2
  <2>. QED  BY <2>1, <2>2, <2>3
<1>. DEFINE none == {<<>>}
            rest == [i \in Nat |-> none]
<1>2. none \in SUBSET Seq(Chars) /\ \A w \in none : w = <<>>
  BY EmptySeq
<1>3. Suits("format", none)
  BY <1>2, SuitsAs
<1>4. Continued("format", heap[1], none, text, wchar)
  <2>1. ASSUME NEW w, Continues(w, text, wchar)  PROVE Expects("format", heap[1], none, w)
    <3>1. w \in Seq(Chars) /\ text \o w \in Spoken
      BY <2>1 DEF Continues
    <3>2. text \o w = w /\ w \o <<>> = w
      BY <1>1, <3>1, ConcatEmptySeq
    <3>3. w \in Cat(Spoken, none)
      <4>1. w \o <<>> \in Cat(Spoken, none)
        BY <1>2, <3>1, <3>2, SpokenAre, CatIs
      <4>. QED  BY <3>2, <4>1
    <3>. QED  BY <1>1, <3>3, ExpectsAs
  <2>. QED  BY <2>1 DEF Continued
<1>. HIDE DEF none
<1>5. rest \in [Nat -> SUBSET Seq(Chars)] /\ rest[1] = none
  BY <1>2
<1>. HIDE DEF rest
<1>6. Expecting(rest, text, wchar, heap, frames)
  <2>1. \A i \in 1..Len(frames) : i = 1
    BY <1>1
  <2>2. \A i : i \notin 1..Len(frames) - 1
    BY <1>1
  <2>. QED  BY <1>1, <1>3, <1>4, <1>5, <2>1, <2>2 DEF Expecting, none
<1>7. state = "parsing" /\ wchar # Broken /\ text \in Seq(Chars)
  BY <1>1, EmptySeq, Zenon DEF FormatInit, Unread, Broken
<1>. QED  BY <1>6, <1>7 DEF RefusalInv

\* Whatever goes on the text that has been read to a sentence of the manual is what
\* the running functions can go on with; once they have given up, nothing is
\* (format.c:12-24, 100-264).
THEOREM RefusalsHold == FormatSpec => []RefusalInv
<1>1. FormatInit => RefusalInv
  BY InitRefuses
<1>2. TreeInv /\ MeaningInv /\ RefusalInv /\ [FormatNext]_format_vars => RefusalInv'
  <2>. SUFFICES ASSUME TreeInv, MeaningInv, RefusalInv, [FormatNext]_format_vars PROVE RefusalInv'
    OBVIOUS
  <2>1. CASE UNCHANGED format_vars
    <3>1. UNCHANGED <<text, wchar, heap, frames, state>>
      BY <2>1 DEF format_vars
    <3>. QED  BY <3>1 DEF RefusalInv
  <2>. QED  BY <2>1, DecodeRefuses, GrowRefuses, NodeRefuses, FormatEndRefuses, LiteralCharRefuses,
               LiteralEscapedRefuses, LiteralEndRefuses, SubstOpenRefuses, KeyCharRefuses,
               KeyEndRefuses, ThenRefuses, ElseRefuses, SubstCloseRefuses, ParseEndRefuses
               DEF FormatNext
<1>. QED  BY <1>1, <1>2, TreeHolds, TextHasMeaning, PTL DEF FormatSpec

LEMMA SentencesSpoken == \A s \in Sentences : s[1] \in Spoken /\ s[1] \in Seq(Chars)
<1>. TAKE s \in Sentences
<1>1. PICK n \in 1..MaxText : s \in Formats[n]
  BY DEF Sentences
<1>. QED  BY <1>1, SpokenHas, SpokenAre

\* What is left of a text behind a part of it.
GoesOn(t, u, c)  == \E j \in 0..Len(t) : Append(u, c) = SubSeq(t, 1, j)
Remains(t, u, c) == \E w \in Seq(Chars) : u \o w = t /\ w # <<>> /\ w[1] = c

LEMMA Remainder ==
  ASSUME NEW t \in Seq(Chars), NEW u \in Seq(Chars), NEW c, GoesOn(t, u, c)
  PROVE  Remains(t, u, c)
<1>0. PICK j \in 0..Len(t) : Append(u, c) = SubSeq(t, 1, j)
  BY DEF GoesOn
<1>. DEFINE S == Chars \union {c}
            n == Len(t)
            whole == Append(u, c)
            part == SubSeq(t, 1, j)
            front == SubSeq(t, 1, j - 1)
            back == SubSeq(t, j, n)
<1>1. n \in Nat /\ t \in Seq(Chars) /\ u \in Seq(Chars) /\ Len(u) \in Nat
  BY LenProperties
<1>2. /\ Len(whole) = Len(u) + 1 /\ whole[Len(u) + 1] = c
      /\ \A i \in 1..Len(u) : whole[i] = u[i]
  <2>1. u \in Seq(S) /\ c \in S
    BY <1>1
  <2>. HIDE DEF S
  <2>. QED  BY <2>1, AppendProperties
<1>3. Len(part) = j /\ \A i \in 1..j : part[i] = t[i]
  BY <1>1, SubSeqProperties
<1>4. whole = part
  BY <1>0
<1>. HIDE DEF S, whole, part
<1>5. j = Len(u) + 1 /\ j \in 1..n
  BY <1>1, <1>2, <1>3, <1>4
<1>6. t[j] = c /\ \A i \in 1..Len(u) : t[i] = u[i]
  BY <1>1, <1>2, <1>3, <1>4, <1>5
<1>7. /\ front \in Seq(Chars) /\ Len(front) = j - 1 /\ \A i \in 1..j - 1 : front[i] = t[i]
      /\ back \in Seq(Chars) /\ Len(back) = n - j + 1 /\ back[1] = t[j]
  BY <1>1, <1>5, SubSeqProperties
<1>8. front \o back = t
  <2>1. SubSeq(t, 1, j - 1) \o SubSeq(t, j - 1 + 1, n) = SubSeq(t, 1, n)
    <3>1. 1 \in 1..Len(t) + 1 /\ j - 1 \in 1 - 1..Len(t) /\ n \in j - 1..Len(t)
      BY <1>1, <1>5
    <3>. QED  BY <1>1, <3>1, ConcatAdjacentSubSeq
  <2>2. SubSeq(t, 1, n) = t
    BY SubSeqFull
  <2>3. j - 1 + 1 = j
    BY <1>5
  <2>. QED  BY <2>1, <2>2, <2>3
<1>. HIDE DEF front, back
<1>9. front = u
  BY <1>1, <1>5, <1>6, <1>7, SeqEqual
<1>10. back # <<>>
  BY <1>1, <1>5, <1>7, EmptySeq
<1>. QED  BY <1>6, <1>7, <1>8, <1>9, <1>10 DEF Remains

\* The parser gives up only where no string of the documented forms goes on
\* (format.c:12-24).
THEOREM OnlyErrorsRefused == FormatSpec => []ErrorsAreErrors
<1>1. RefusalInv => ErrorsAreErrors
  <2>. SUFFICES ASSUME RefusalInv, state = "failed", wchar # Broken
                PROVE  IF wchar = End THEN \A s \in Sentences : s[1] # text
                                      ELSE Append(text, wchar) \notin Prefixes
    BY DEF ErrorsAreErrors
  <2>1. text \in Seq(Chars) /\ \A w : ~Continues(w, text, wchar)
    BY DEF RefusalInv
  <2>2. CASE wchar = End
    <3>1. End \notin Chars
      BY StartsApart
    <3>2. Allows(<<>>, wchar) /\ <<>> \in Seq(Chars) /\ text \o <<>> = text
      BY <2>1, <2>2, <3>1, EmptySeq, ConcatEmptySeq DEF Allows
    <3>3. text \notin Spoken
      BY <2>1, <3>2 DEF Continues
    <3>. QED  BY <2>2, <3>3, SentencesSpoken
  <2>3. CASE wchar # End
    <3>. SUFFICES ASSUME Append(text, wchar) \in Prefixes  PROVE FALSE
      BY <2>3
    <3>1. PICK s \in Sentences : GoesOn(s[1], text, wchar)
      BY DEF Prefixes, GoesOn
    <3>2. s[1] \in Spoken /\ s[1] \in Seq(Chars)
      BY SentencesSpoken
    <3>3. PICK w \in Seq(Chars) : text \o w = s[1] /\ w # <<>> /\ w[1] = wchar
      <4>. DEFINE t == s[1]
      <4>1. t \in Seq(Chars) /\ GoesOn(t, text, wchar)
        BY <3>1, <3>2
      <4>2. text \in Seq(Chars)
        BY <2>1
      <4>. HIDE DEF t
      <4>3. Remains(t, text, wchar)
        BY <4>1, <4>2, Remainder
      <4>. QED  BY <4>3 DEF Remains, t
    <3>4. Allows(w, wchar)
      BY <2>3, <3>3 DEF Allows
    <3>. QED  BY <2>1, <3>2, <3>3, <3>4 DEF Continues
  <2>. QED  BY <2>2, <2>3
<1>. QED  BY <1>1, RefusalsHold, PTL
=============================================================================
