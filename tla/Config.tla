------------------------------- MODULE Config -------------------------------
(***************************************************************************)
(* src/config.c: the settings, read line by line first from the default    *)
(* configuration that is part of the program, then from the user's file.   *)
(* A line that is not valid is reported and the next one is read; what     *)
(* load_config returns matters to --validate only, the program starts with *)
(* whatever the lines have left.                                           *)
(*                                                                         *)
(* One option stands for all that share a parser.  The parser of tab-order *)
(* is a step for each name, any other line is one step.                    *)
(***************************************************************************)
EXTENDS Integers, Sequences, FiniteSets

CONSTANTS
  TabTypes,         \* enum tui_tab_type
  Keycodes,
  Actions,          \* what a key can be bound to
  Invalid,          \* a value its parser does not take
  DefaultLines,     \* the lines of the default configuration
  MaxUserLines      \* bound: lines of the user's file

None == 0           \* a null pointer

ASSUME ConfigAssumption ==
  /\ IsFiniteSet(TabTypes)
  /\ Invalid \notin TabTypes \union Keycodes \union Actions \union {"unbind", "new", "default"}
  /\ {"unbind", "new", "default"} \intersect Actions = {}
  /\ MaxUserLines \in Nat

VARIABLES
  config,           \* struct pipemixer_config
  binds,            \* config.binds: the bind of each keycode
  objects,          \* what was allocated: its value, and whether it was freed
  line,             \* the line that is being parsed
  tokens, res,      \* tab_order_parser: names to come, types so far
  default_read,     \* how many default lines have been read
  user_read,        \* how many of the user's
  valid,            \* what load_config will return
  tab_index,        \* tui.tab_index, once tui_init has run
  before            \* the settings before the line, for the properties

parser_vars == <<line, tokens, res>>
config_vars == <<config, binds, objects, parser_vars, default_read, user_read,
                 valid, tab_index, before>>

NoLine == [option |-> "none"]

TabNames == TabTypes \union {Invalid}

Options == {"tab-order", "default-tab", "wraparound", "separator", "format", "border",
            "bind", "unknown"}

\* What a line for an option can be, if its text is this.  The tab order is a list
\* of names; a border may be given a second character.
LinesFor(option, text) ==
  CASE option = "tab-order"   -> [option : {option}, val :
                                    UNION {[1..n -> TabNames] : n \in 0..Cardinality(TabTypes) + 1}]
    [] option = "default-tab" -> [option : {option}, val : TabNames]
    [] option = "border"      -> [option : {option}, val : {<<>>, <<text>>, <<text, "more">>}]
    [] option = "bind"        -> [option : {option}, val : Keycodes \union {Invalid},
                                  action : Actions \union {"unbind", Invalid}]
    [] option = "unknown"     -> [option : {option}, val : {Invalid}]
    [] OTHER                  -> [option : {option}, val : {text, Invalid}]

\* The list of an acceptable tab order.
TabList(val) ==
  /\ val # <<>>
  /\ \A i \in DOMAIN val : val[i] # Invalid
  /\ \A i, j \in DOMAIN val : val[i] = val[j] => i = j

\* The default configuration has a tab order (assets/pipemixer.ini:12).
ASSUME DefaultsAssumption ==
  /\ Len(DefaultLines) \in Nat
  /\ DefaultLines = [i \in 1..Len(DefaultLines) |-> DefaultLines[i]]
  /\ \A i \in DOMAIN DefaultLines :
       /\ DefaultLines[i].option \in Options
       /\ DefaultLines[i] \in LinesFor(DefaultLines[i].option, "default")
  /\ \E i \in DOMAIN DefaultLines :
       DefaultLines[i].option = "tab-order" /\ TabList(DefaultLines[i].val)

\* What a pointer leads to.
At(p) == IF p = None THEN "old" ELSE objects[p].value

Settings ==
  [tabs |-> config.tabs, default_tab |-> config.default_tab,
   wraparound |-> config.wraparound, border |-> config.border,
   separator |-> At(config.separator), format |-> At(config.format),
   binds |-> [k \in Keycodes |-> At(binds[k])]]

ConfigInit ==
  /\ config = [tabs |-> <<>>, default_tab |-> CHOOSE t \in TabTypes : TRUE,
               wraparound |-> "old", separator |-> None, format |-> None, border |-> "old"]
  /\ binds = [k \in Keycodes |-> None]
  /\ objects = <<>>
  /\ line = NoLine /\ tokens = <<>> /\ res = <<>>
  /\ default_read = 0 /\ user_read = 0
  /\ valid = TRUE
  /\ tab_index = -1
  /\ before = Settings

-----------------------------------------------------------------------------
(* Reading lines.                                                          *)

Parsing(option) == line # NoLine /\ line.option = option

\* The parser has taken the line, or reported an error: load_config looks at what
\* comes of the user's lines only.
Done == line' = NoLine /\ tokens' = <<>> /\ res' = <<>>
Taken    == Done /\ UNCHANGED valid
Rejected == Done /\ valid' = (valid /\ user_read = 0)

counters == <<default_read, user_read, tab_index, before>>

NextLine(l) ==
  /\ line' = l
  /\ tokens' = IF l.option = "tab-order" THEN l.val ELSE <<>>
  /\ res' = <<>>
  /\ before' = Settings
  /\ UNCHANGED <<config, binds, objects, valid, tab_index>>

ReadDefault ==
  /\ line = NoLine /\ tab_index = -1 /\ user_read = 0 /\ default_read < Len(DefaultLines)
  /\ NextLine(DefaultLines[default_read + 1])
  /\ default_read' = default_read + 1 /\ UNCHANGED user_read

ReadUser(l) ==
  /\ line = NoLine /\ tab_index = -1
  /\ default_read = Len(DefaultLines) /\ user_read < MaxUserLines
  /\ NextLine(l)
  /\ user_read' = user_read + 1 /\ UNCHANGED default_read

-----------------------------------------------------------------------------
(* The parsers.                                                            *)

\* percentage_parser, bool_parser and tab_parser store a value.
StoreValue(option, field) ==
  /\ Parsing(option)
  /\ IF line.val = Invalid
     THEN Rejected /\ UNCHANGED config
     ELSE Taken /\ config' = [config EXCEPT ![field] = line.val]
  /\ UNCHANGED <<binds, objects, counters>>

\* wstring_parser and format_parser store a pointer, and forget the old one.
StorePointer(option, field) ==
  /\ Parsing(option)
  /\ IF line.val = Invalid
     THEN Rejected /\ UNCHANGED <<config, objects>>
     ELSE /\ Taken
          /\ objects' = Append(objects, [value |-> line.val, freed |-> FALSE])
          /\ config' = [config EXCEPT ![field] = Len(objects) + 1]
  /\ UNCHANGED <<binds, counters>>

\* wchar_parser stores the first character before it finds that there are more.
Border ==
  /\ Parsing("border")
  /\ IF line.val = <<>>
     THEN Rejected /\ UNCHANGED config
     ELSE /\ config' = [config EXCEPT !.border = Head(line.val)]
          /\ IF Len(line.val) > 1 THEN Rejected ELSE Taken
  /\ UNCHANGED <<binds, objects, counters>>

\* Broken: each type goes to the configuration at once.
TabTokenAtOnce ==
  /\ Parsing("tab-order") /\ tokens # <<>>
  /\ IF Head(tokens) = Invalid \/ \E i \in DOMAIN res : res[i] = Head(tokens)
     THEN Rejected /\ UNCHANGED config
     ELSE /\ tokens' = Tail(tokens)
          /\ res' = Append(res, Head(tokens))
          /\ config' = [config EXCEPT !.tabs = Append(res, Head(tokens))]
          /\ UNCHANGED <<line, valid>>
  /\ UNCHANGED <<binds, objects, counters>>

\* Broken: a type may come twice.
TabTokenRepeated ==
  /\ Parsing("tab-order") /\ tokens # <<>>
  /\ IF Head(tokens) = Invalid
     THEN Rejected
     ELSE /\ tokens' = Tail(tokens)
          /\ res' = Append(res, Head(tokens))
          /\ UNCHANGED <<line, valid>>
  /\ UNCHANGED <<config, binds, objects, counters>>

\* tab_order_parser: the next name.
TabToken ==
  /\ Parsing("tab-order") /\ tokens # <<>>
  /\ IF Head(tokens) = Invalid \/ \E i \in DOMAIN res : res[i] = Head(tokens)
     THEN Rejected
     ELSE /\ tokens' = Tail(tokens)
          /\ res' = Append(res, Head(tokens))
          /\ UNCHANGED <<line, valid>>
  /\ UNCHANGED <<config, binds, objects, counters>>

TabOrder ==
  /\ Parsing("tab-order") /\ tokens = <<>>
  /\ IF res = <<>>
     THEN Rejected /\ UNCHANGED config
     ELSE Taken /\ config' = [config EXCEPT !.tabs = res]
  /\ UNCHANGED <<binds, objects, counters>>

-----------------------------------------------------------------------------
(* parse_bind.                                                             *)

Freeing(p) == [i \in DOMAIN objects |->
                 IF i = p THEN [objects[i] EXCEPT !.freed = TRUE] ELSE objects[i]]

Unbind ==
  /\ Parsing("bind") /\ line.val # Invalid /\ line.action = "unbind"
  /\ binds' = [binds EXCEPT ![line.val] = None]
  /\ objects' = Freeing(binds[line.val])
  /\ Taken /\ UNCHANGED <<config, counters>>

\* Broken: the bind that is replaced is not freed.
AddBindLeaking ==
  /\ Parsing("bind") /\ line.val # Invalid /\ line.action \in Actions
  /\ objects' = Append(objects, [value |-> line.action, freed |-> FALSE])
  /\ binds' = [binds EXCEPT ![line.val] = Len(objects) + 1]
  /\ Taken /\ UNCHANGED <<config, counters>>

AddBind ==
  /\ Parsing("bind") /\ line.val # Invalid /\ line.action \in Actions
  /\ objects' = Append(Freeing(binds[line.val]), [value |-> line.action, freed |-> FALSE])
  /\ binds' = [binds EXCEPT ![line.val] = Len(objects) + 1]
  /\ Taken /\ UNCHANGED <<config, counters>>

BadLine ==
  /\ \/ Parsing("bind") /\ (line.val = Invalid \/ line.action = Invalid)
     \/ Parsing("unknown")
  /\ Rejected /\ UNCHANGED <<config, binds, objects, counters>>

-----------------------------------------------------------------------------
(* load_config returns, and tui_init takes the tabs.                       *)

\* The tab the program starts with: the default one, if it is shown.
StartTab ==
  IF \E i \in DOMAIN config.tabs : config.tabs[i] = config.default_tab
  THEN (CHOOSE i \in DOMAIN config.tabs : config.tabs[i] = config.default_tab) - 1
  ELSE 0

\* The user's file ends, or there is none, which load_config reports.
Start ==
  /\ line = NoLine /\ tab_index = -1 /\ default_read = Len(DefaultLines)
  /\ tab_index' = StartTab
  /\ \/ UNCHANGED valid
     \/ user_read = 0 /\ valid' = FALSE
  /\ UNCHANGED <<config, binds, objects, parser_vars, default_read, user_read, before>>

ConfigNext ==
  \/ ReadDefault
  \/ \E option \in Options : \E l \in LinesFor(option, "new") : ReadUser(l)
  \/ StoreValue("wraparound", "wraparound") \/ StoreValue("default-tab", "default_tab")
  \/ StorePointer("separator", "separator") \/ StorePointer("format", "format")
  \/ Border
  \/ TabToken \/ TabOrder
  \/ Unbind \/ AddBind \/ BadLine
  \/ Start

ConfigSpec == ConfigInit /\ [][ConfigNext]_config_vars

-----------------------------------------------------------------------------
(* What a line means, from the manual's list of options.                   *)

ValidLine(l) ==
  /\ l.option \notin {"tab-order", "border"} => l.val # Invalid
  /\ l.option = "border"    => Len(l.val) = 1
  /\ l.option = "bind"      => l.action # Invalid
  /\ l.option = "tab-order" => TabList(l.val)

Meaning(l, old) ==
  CASE l.option = "tab-order"   -> [old EXCEPT !.tabs = l.val]
    [] l.option = "default-tab" -> [old EXCEPT !.default_tab = l.val]
    [] l.option = "border"      -> [old EXCEPT !.border = l.val[1]]
    [] l.option \in {"wraparound", "separator", "format"} -> [old EXCEPT ![l.option] = l.val]
    [] l.option = "bind" ->
         [old EXCEPT !.binds[l.val] = IF l.action = "unbind" THEN "old" ELSE l.action]

Unbordered(settings) == [settings EXCEPT !.border = "old"]

\* A valid line sets its option to what it says; any other changes nothing, but
\* for the border character that wchar_parser has stored by then
\* (config.c:94-220, 275-407).
LinesApplyWhole ==
  [][line # NoLine /\ line' = NoLine =>
       IF ValidLine(line)
       THEN Settings' = Meaning(line, before) /\ valid' = valid
       ELSE /\ Unbordered(Settings') = Unbordered(before)
            /\ line.option # "border" => Settings' = before
            /\ user_read > 0 => ~valid']_config_vars

\* There is at least one tab and none is shown twice, the array the parser fills
\* has room, and the program starts at the default tab if it is shown
\* (config.c:118-158, tui.c:1404-1415).
TabsUsable ==
  /\ default_read = Len(DefaultLines) /\ line = NoLine =>
       config.tabs # <<>> /\ \A i, j \in DOMAIN config.tabs : config.tabs[i] = config.tabs[j] => i = j
  /\ Len(res) <= Cardinality(TabTypes)
  /\ tab_index # -1 =>
       /\ tab_index \in 0..Len(config.tabs) - 1
       /\ (\E i \in DOMAIN config.tabs : config.tabs[i] = config.default_tab)
            => config.tabs[tab_index + 1] = config.default_tab

\* A bind is freed when its key is bound anew or unbound, and only then: the map
\* holds all that are allocated, each for one key (config.c:44-51, 282-288).
BindsOwned ==
  \A p \in DOMAIN objects : objects[p].value \in Actions =>
    Cardinality({k \in Keycodes : binds[k] = p}) = IF objects[p].freed THEN 0 ELSE 1
=============================================================================
