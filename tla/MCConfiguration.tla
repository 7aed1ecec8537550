--------------------------- MODULE MCConfiguration --------------------------
(***************************************************************************)
(* The two halves of the configuration: the lines, and the format strings  *)
(* some of them hold.  The parser of lines takes a format string as valid  *)
(* or not, and the parser of format strings knows nothing of lines, so     *)
(* that a behaviour is of the one or of the other.                         *)
(***************************************************************************)
EXTENDS Format, Config

CONSTANTS playback, cards, j, q, down, quit

VARIABLE subject    \* what is parsed

all_vars == <<format_vars, config_vars, subject>>

\* The default configuration: all tabs, the first one by default, and a bind.
MCDefaultLines ==
  <<[option |-> "tab-order", val |-> <<playback, cards>>],
    [option |-> "default-tab", val |-> playback],
    [option |-> "format", val |-> "default"],
    [option |-> "bind", action |-> down, val |-> j]>>

MCInit == FormatInit /\ ConfigInit /\ subject \in {"format", "lines"}

MCNext ==
  /\ UNCHANGED subject
  /\ \/ subject = "format" /\ FormatNext /\ UNCHANGED config_vars
     \/ subject = "lines"  /\ ConfigNext /\ UNCHANGED format_vars

MCSpec == MCInit /\ [][MCNext]_all_vars
=============================================================================
