------------------------------- MODULE Format -------------------------------
(***************************************************************************)
(* src/format.c: strings that say how a node or device is described, such  *)
(* as {node.description?!{node.name}}.                                     *)
(*                                                                         *)
(* The parser is a recursive descent with one character of lookahead.  Its *)
(* stack is a sequence of frames, the memory it has allocated a sequence   *)
(* of objects.  It hooks each object into the tree before it goes on, for  *)
(* an error jumps out of all frames and leaves the tree to format_free.    *)
(***************************************************************************)
EXTENDS Integers, Sequences, FiniteSets

CONSTANT MaxText    \* bound: characters of a string

ASSUME FormatAssumption == MaxText \in Nat

VARIABLES
  text,             \* the characters consumed so far
  wchar,            \* the lookahead, End, or Unread (has_wchar = false)
  heap,             \* the objects, in the order they were allocated
  frames,           \* the functions that run, the innermost last
  state             \* "parsing", "parsed" or "failed"

format_vars == <<text, wchar, heap, frames, state>>

\* "k" stands for a lowercase letter or a dot, which may be part of a key, and "x"
\* for a digit, an underscore, a hyphen and others, which may not; both are literal.
Plain     == {"k", "x"}
Escapable == {"{", "}", "?", "!", "\\"}

Unread == "unread"
End    == "end"     \* the terminator
Broken == "broken"  \* bytes that are no character

Null == 0
Junk == -1          \* a pointer that realloc has made room for

NewLiteral == [kind |-> "literal", str |-> <<>>]
NewSubst   == [kind |-> "subst", key |-> <<>>, type |-> "basic",
               if_true |-> Null, if_false |-> Null]
NewFormat  == [kind |-> "format", nodes |-> <<>>]

Frame(fn, object) == [fn |-> fn, object |-> object]

FormatInit ==
  /\ text = <<>> /\ wchar = Unread
  /\ heap = <<NewFormat>>
  /\ frames = <<Frame("format", 1)>>
  /\ state = "parsing"

-----------------------------------------------------------------------------
Top    == frames[Len(frames)]
Below  == SubSeq(frames, 1, Len(frames) - 1)
Object == heap[Top.object]
New    == Len(heap) + 1

Peeked == state = "parsing" /\ wchar # Unread
In(fn) == state = "parsing" /\ frames # <<>> /\ Top.fn = fn

Consume == text' = Append(text, wchar) /\ wchar' = Unread
Peek    == UNCHANGED <<text, wchar>>

\* The function goes on at fn, or there once the one it calls returns.
Goto(fn)         == frames' = Append(Below, Frame(fn, Top.object))
Call(fn, callee) == frames' = Below \o <<Frame(fn, Top.object), Frame(callee, New)>>
Return           == frames' = Below

Store(object)         == heap' = [heap EXCEPT ![Top.object] = object]
Allocate(object, new) == heap' = Append([heap EXCEPT ![Top.object] = object], new)

\* PARSER_ERROR: longjmp out of all frames.
Error == state' = "failed" /\ frames' = <<>> /\ UNCHANGED <<text, wchar, heap>>

\* get_next_wchar.  The functions look ahead before anything else.
Decode ==
  /\ state = "parsing" /\ wchar = Unread
  /\ wchar' \in IF Len(text) < MaxText THEN Plain \union Escapable \union {End, Broken}
                                       ELSE {End}
  /\ IF wchar' = Broken
     THEN state' = "failed" /\ frames' = <<>>
     ELSE UNCHANGED <<state, frames>>
  /\ UNCHANGED <<text, heap>>

-----------------------------------------------------------------------------
(* parse_format and parse_node.                                            *)

Follows == wchar \in {"!", "}", End}

\* Broken: the node is counted before the lookahead is read.
GrowFirst ==
  /\ In("format") /\ (Peeked => ~Follows)
  /\ heap' = [heap EXCEPT ![Top.object].nodes = Append(@, Junk)]
  /\ Goto("node")
  /\ Peek /\ UNCHANGED state

\* The array of nodes grows by a slot that parse_node fills.
Grow ==
  /\ In("format") /\ Peeked /\ ~Follows
  /\ heap' = [heap EXCEPT ![Top.object].nodes = Append(@, Junk)]
  /\ Goto("node")
  /\ Peek /\ UNCHANGED state

\* parse_node, and the allocation parse_subst or parse_literal begins with.
Node ==
  /\ In("node") /\ Peeked
  /\ LET slot   == Len(Object.nodes)
         filled == [Object EXCEPT !.nodes[slot] = New]
     IN  IF wchar = "{"
         THEN Allocate(filled, NewSubst) /\ Call("format", "open")
         ELSE Allocate(filled, NewLiteral) /\ Call("format", "literal")
  /\ Peek /\ UNCHANGED state

FormatEnd ==
  /\ In("format") /\ Peeked /\ Follows
  /\ IF Object.nodes = <<>> THEN Error
     ELSE Return /\ UNCHANGED heap /\ Peek /\ UNCHANGED state

-----------------------------------------------------------------------------
(* parse_literal.                                                          *)

\* Broken: the backslash is kept.
LiteralCharKeeping ==
  /\ In("literal") /\ Peeked /\ wchar \in Plain \union {"\\"}
  /\ Store([Object EXCEPT !.str = Append(@, wchar)])
  /\ Goto(IF wchar = "\\" THEN "escaped" ELSE "literal")
  /\ Consume /\ UNCHANGED state

LiteralChar ==
  /\ In("literal") /\ Peeked /\ wchar \in Plain \union {"\\"}
  /\ IF wchar = "\\"
     THEN Goto("escaped") /\ UNCHANGED heap
     ELSE Goto("literal") /\ Store([Object EXCEPT !.str = Append(@, wchar)])
  /\ Consume /\ UNCHANGED state

LiteralEscaped ==
  /\ In("escaped") /\ Peeked
  /\ IF wchar \notin Escapable THEN Error
     ELSE /\ Store([Object EXCEPT !.str = Append(@, wchar)])
          /\ Goto("literal")
          /\ Consume /\ UNCHANGED state

LiteralEnd ==
  /\ In("literal") /\ Peeked /\ wchar \notin Plain \union {"\\"}
  /\ IF Object.str = <<>> THEN Error
     ELSE Return /\ UNCHANGED heap /\ Peek /\ UNCHANGED state

-----------------------------------------------------------------------------
(* parse_subst.                                                            *)

SubstOpen ==
  /\ In("open") /\ Peeked
  /\ Goto("key") /\ Consume
  /\ UNCHANGED <<heap, state>>

KeyChar ==
  /\ In("key") /\ Peeked /\ wchar = "k"
  /\ Store([Object EXCEPT !.key = Append(@, wchar)])
  /\ Consume /\ UNCHANGED <<frames, state>>

KeyEnd ==
  /\ In("key") /\ Peeked /\ wchar # "k"
  /\ IF Object.key = <<>> THEN Error
     ELSE IF wchar = "?"
     THEN Goto("then") /\ Consume /\ UNCHANGED <<heap, state>>
     ELSE Goto("else") /\ Peek /\ UNCHANGED <<heap, state>>

\* Broken: a format is taken to follow the question mark always.
ThenFormat ==
  /\ In("then") /\ Peeked
  /\ Allocate([Object EXCEPT !.type = "if exists", !.if_true = New], NewFormat)
  /\ Call("else", "format")
  /\ Peek /\ UNCHANGED state

\* What follows the question mark: a format, or the mark of a fallback.
Then ==
  /\ In("then") /\ Peeked
  /\ IF wchar = "!"
     THEN Store([Object EXCEPT !.type = "fallback"]) /\ Goto("else")
     ELSE /\ Allocate([Object EXCEPT !.type = "if exists", !.if_true = New], NewFormat)
          /\ Call("else", "format")
  /\ Peek /\ UNCHANGED state

Else ==
  /\ In("else") /\ Peeked
  /\ IF wchar # "!"
     THEN Goto("close") /\ Peek /\ UNCHANGED heap
     ELSE /\ Allocate([Object EXCEPT
               !.type = CASE @ = "basic"     -> "if absent"
                          [] @ = "if exists" -> "ternary"
                          [] @ = "fallback"  -> "fallback",
               !.if_false = New], NewFormat)
          /\ Call("close", "format")
          /\ Consume
  /\ UNCHANGED state

SubstClose ==
  /\ In("close") /\ Peeked
  /\ IF wchar # "}" THEN Error
     ELSE Return /\ Consume /\ UNCHANGED <<heap, state>>

\* format_parse, after parse_format has returned.
ParseEnd ==
  /\ Peeked /\ frames = <<>>
  /\ IF wchar # End THEN Error
     ELSE state' = "parsed" /\ UNCHANGED <<text, wchar, heap, frames>>

FormatNext ==
  \/ Decode
  \/ Grow \/ Node \/ FormatEnd
  \/ LiteralChar \/ LiteralEscaped \/ LiteralEnd
  \/ SubstOpen \/ KeyChar \/ KeyEnd \/ Then \/ Else \/ SubstClose
  \/ ParseEnd

FormatSpec == FormatInit /\ [][FormatNext]_format_vars

-----------------------------------------------------------------------------
(* format_render.  A dict is the set of keys that have a value; the value  *)
(* stands for itself.                                                      *)

Dicts == SUBSET {<<"k">>, <<"k", "k">>}

ValueOf(key) == <<"=">> \o key

Render(d) ==
  LET Value(key)  == IF key \in d THEN ValueOf(key) ELSE <<>>
      rendered[o \in 0..Len(heap)] ==
        IF o = Null THEN <<>>
        ELSE LET n == heap[o]
                 upTo[i \in 0..Len(n.nodes)] ==
                   IF i = 0 THEN <<>> ELSE upTo[i - 1] \o rendered[n.nodes[i]]
             IN
             CASE n.kind = "literal" -> n.str
               [] n.kind = "format"  -> upTo[Len(n.nodes)]
               [] n.kind = "subst"   ->
                    CASE n.type = "basic"     -> Value(n.key)
                      [] n.type = "if exists" -> IF n.key \in d THEN rendered[n.if_true] ELSE <<>>
                      [] n.type = "if absent" -> IF n.key \in d THEN <<>> ELSE rendered[n.if_false]
                      [] n.type = "ternary"   -> IF n.key \in d THEN rendered[n.if_true]
                                                                ELSE rendered[n.if_false]
                      [] n.type = "fallback"  -> IF n.key \in d THEN Value(n.key)
                                                                ELSE rendered[n.if_false]
  IN  rendered[1]

-----------------------------------------------------------------------------
(* What the manual says of format strings (pipemixer.ini.5.in:141-156):    *)
(* their forms and what each expands to.  A sentence is a text with its    *)
(* meaning, a function of the dict.  The names of properties are those     *)
(* that format.c:18 allows, of lowercase letters and dots; the manual has  *)
(* no such limit (see PropertiesAccepted).                                 *)

Always(s)  == [d \in Dicts |-> s]
Key(n)     == [i \in 1..n |-> "k"]
Braced(s)  == <<"{">> \o s \o <<"}">>

IfPresent(k, then, else) == [d \in Dicts |-> IF k \in d THEN then[d] ELSE else[d]]

\* The sentences of each length.
Formats[n \in 0..MaxText] ==
  LET Chars == IF n = 1 THEN {<<<<c>>, Always(<<c>>)>> : c \in Plain}
               ELSE IF n = 2 THEN {<<<<"\\", c>>, Always(<<c>>)>> : c \in Escapable}
               ELSE {}
      Basic(k) == IF n = Len(k) + 2
                  THEN {<<Braced(k), IfPresent(k, Always(ValueOf(k)), Always(<<>>))>>}
                  ELSE {}
      One(k) ==
        IF n < Len(k) + 4 THEN {}
        ELSE UNION {{<<Braced(k \o <<"?">> \o f[1]), IfPresent(k, f[2], Always(<<>>))>>,
                     <<Braced(k \o <<"!">> \o f[1]), IfPresent(k, Always(<<>>), f[2])>>} :
                     f \in Formats[n - Len(k) - 3]}
      Two(k) ==
        UNION {{<<Braced(k \o <<"?">> \o f[1] \o <<"!">> \o g[1]), IfPresent(k, f[2], g[2])>> :
                  f \in Formats[i], g \in Formats[n - Len(k) - 4 - i]} :
                i \in 1..n - Len(k) - 5}
      Shortcut(k) ==            \* the same as {k?{k}!g}
        IF n < Len(k) + 5 THEN {}
        ELSE {<<Braced(k \o <<"?", "!">> \o g[1]), IfPresent(k, Always(ValueOf(k)), g[2])>> :
                g \in Formats[n - Len(k) - 4]}
      Substs == UNION {Basic(Key(a)) \union One(Key(a)) \union Two(Key(a)) \union Shortcut(Key(a)) :
                         a \in 1..n - 2}
      Longer == UNION {{<<f[1] \o g[1], [d \in Dicts |-> f[2][d] \o g[2][d]]>> :
                          f \in Formats[i], g \in Formats[n - i]} : i \in 1..n - 1}
  IN  IF n = 0 THEN {} ELSE Chars \union Substs \union Longer

Sentences == UNION {Formats[n] : n \in 1..MaxText}

Prefixes == UNION {{SubSeq(s[1], 1, j) : j \in 0..Len(s[1])} : s \in Sentences}

\* A string that is accepted is one of the manual's forms and is rendered as the
\* manual says, whatever the properties of the node (format.c:128-180, 266-320,
\* pipemixer.ini.5.in:141-156).
RendersAsDocumented ==
  state = "parsed" => <<text, [d \in Dicts |-> Render(d)]>> \in Sentences

\* The parser gives up only where no string of the manual's forms goes on, with
\* names of lowercase letters and dots (format.c:128-210,
\* pipemixer.ini.5.in:141-156).
ErrorsAreErrors ==
  state = "failed" /\ wchar # Broken =>
    IF wchar = End THEN \A s \in Sentences : s[1] # text
                   ELSE Append(text, wchar) \notin Prefixes

-----------------------------------------------------------------------------
(* What the comment in format.c and the manual say beyond these.           *)

\* The parser has given up on this string, with what it has read so far.
Refuses(string) ==
  /\ state = "failed"
  /\ LET read == Append(text, wchar)
     IN  /\ Len(read) <= Len(string) + 1
         /\ read = SubSeq(Append(string, End), 1, Len(read))

\* The grammar in the comment at format.c:12-24: its formats of each length, and
\* the empty text.
Grammar[n \in 0..MaxText] ==
  LET Char == IF n = 1 THEN {<<c>> : c \in Plain}
              ELSE IF n = 2 THEN {<<"\\", c>> : c \in Escapable} ELSE {}
      \* [ "?" [ format ] ] and [ "!" format ], of i characters
      IfTrue(i)  == IF i = 0 THEN {<<>>} ELSE {<<"?">> \o f : f \in Grammar[i - 1]}
      IfFalse(i) == IF i = 0 THEN {<<>>}
                    ELSE IF i = 1 THEN {} ELSE {<<"!">> \o f : f \in Grammar[i - 1]}
      Subst(k) == LET rest == n - Len(k) - 2
                  IN  UNION {{Braced(k \o t \o f) : t \in IfTrue(i), f \in IfFalse(rest - i)} :
                               i \in 0..rest}
      Longer == UNION {{f \o g : f \in Grammar[i], g \in Grammar[n - i]} : i \in 1..n - 1}
  IN  IF n = 0 THEN {<<>>}
      ELSE Char \union UNION {Subst(Key(a)) : a \in 1..n - 2} \union Longer

\* subst = "{" key [ "?" [ format ] ] [ "!" format ] "}" (format.c:21), and the
\* rest of that grammar: none of its formats is refused.
GrammarAccepted ==
  \A n \in 1..MaxText : \A string \in Grammar[n] : ~Refuses(string)

\* "{prop} - Substitute the value of property if it exists, otherwise empty"
\* (pipemixer.ini.5.in:144): whatever the property is called.
PropertiesAccepted ==
  \A n \in 1..MaxText - 2 : \A prop \in [1..n -> Plain] : ~Refuses(Braced(prop))

-----------------------------------------------------------------------------
(* The tree, as format_free goes through it.                               *)

Pointers(object) ==
  CASE object.kind = "format"  -> object.nodes
    [] object.kind = "subst"   -> <<object.if_true, object.if_false>>
    [] object.kind = "literal" -> <<>>

\* Where pointers are, and those to an object.
Slots     == UNION {{p} \X DOMAIN Pointers(heap[p]) : p \in 1..Len(heap)}
Owners(o) == {s \in Slots : Pointers(heap[s[1]])[s[2]] = o}

\* Wherever the parser gives up or ends, the tree can be freed: all it has
\* allocated is in it, once, and it has no pointer that was not set
\* (format.c:229, 246-248, 322-350).
TreeCanBeFreed ==
  state # "parsing" =>
    /\ Owners(Junk) = {}
    /\ \A o \in 1..Len(heap) : Cardinality(Owners(o)) = IF o = 1 THEN 0 ELSE 1
    /\ \A o \in 1..Len(heap) : \A i \in DOMAIN Pointers(heap[o]) :
         Pointers(heap[o])[i] = Null \/ Pointers(heap[o])[i] > o
=============================================================================
