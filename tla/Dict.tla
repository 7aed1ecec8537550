-------------------------------- MODULE Dict --------------------------------
(***************************************************************************)
(* src/collections/dict.c: a sorted array of keys and values, searched by  *)
(* bisection.  Nodes and devices keep the properties the server sends in   *)
(* one; format strings read it.                                            *)
(*                                                                         *)
(* Each call searches first.  A step is one turn of the loop in search, or *)
(* what the call does with the index it ends at.  Keys are numbers in the  *)
(* order strcmp gives the strings.  Slots from dict_size on hold whatever  *)
(* was left there.                                                         *)
(***************************************************************************)
EXTENDS Integers

CONSTANTS
  Keys,             \* strings, by their place in the order of strcmp
  Strings,          \* values
  Missing,          \* the null pointer
  Unset,            \* memory that realloc has added
  MaxCap            \* bound: the capacity dict_reserve is asked for

ASSUME DictAssumption ==
  /\ Keys \subseteq Int
  /\ Missing \notin Strings
  /\ MaxCap \in Nat

VARIABLES
  items,            \* the slots, from 0 to cap - 1
  dict_size, cap,
  call,             \* the call that is running
  l, r,             \* the bounds of its search
  found             \* what the last call found at its key

dict_vars == <<items, dict_size, cap, call, l, r, found>>

Item == [key : Keys, val : Strings]

NoCall == [op |-> "none"]

Calls == [op : {"insert"}, key : Keys, val : Strings]
           \union [op : {"get", "remove"}, key : Keys]

DictTypeOK ==
  /\ cap \in Nat /\ dict_size \in 0..cap
  /\ items \in [0..cap - 1 -> Item \union {Unset}]
  /\ call \in Calls \union {NoCall}
  /\ l \in Int /\ r \in Int
  /\ found \in Strings \union {Missing}

DictInit ==
  /\ items = [i \in {} |-> Unset] /\ dict_size = 0 /\ cap = 0
  /\ call = NoCall /\ l = 0 /\ r = -1
  /\ found = Missing

-----------------------------------------------------------------------------
\* The capacity after dict_reserve.
CapFor(n) ==
  IF cap >= n THEN cap ELSE IF cap * 2 < n THEN n ELSE cap * 2

Slot(i) == IF i < cap THEN items[i] ELSE Unset

DictReserve(n) ==
  /\ call = NoCall
  /\ cap' = CapFor(n)
  /\ items' = [i \in 0..CapFor(n) - 1 |-> Slot(i)]
  /\ UNCHANGED <<dict_size, call, l, r, found>>

DictClear ==
  /\ call = NoCall
  /\ dict_size' = 0
  /\ UNCHANGED <<items, cap, call, l, r, found>>

DictFree ==
  /\ call = NoCall
  /\ dict_size' = 0 /\ cap' = 0 /\ items' = [i \in {} |-> Unset]
  /\ UNCHANGED <<call, l, r, found>>

DictCall(c) ==
  /\ call = NoCall
  /\ call' = c
  /\ l' = 0 /\ r' = dict_size - 1
  /\ UNCHANGED <<items, dict_size, cap, found>>

-----------------------------------------------------------------------------
(* search.                                                                 *)

Middle == l + (r - l) \div 2

Searching == call # NoCall /\ l <= r

\* Broken: the middle stays in the interval.
GoRightSlowly ==
  /\ Searching /\ items[Middle].key < call.key
  /\ l' = Middle
  /\ UNCHANGED <<items, dict_size, cap, call, r, found>>

GoRight ==
  /\ Searching /\ items[Middle].key < call.key
  /\ l' = Middle + 1
  /\ UNCHANGED <<items, dict_size, cap, call, r, found>>

GoLeft ==
  /\ Searching /\ items[Middle].key > call.key
  /\ r' = Middle - 1
  /\ UNCHANGED <<items, dict_size, cap, call, l, found>>

Present == Searching /\ items[Middle].key = call.key
Absent  == call # NoCall /\ l > r

-----------------------------------------------------------------------------
(* What the calls do with the index: Middle if present, l if not.          *)

Return == call' = NoCall /\ UNCHANGED <<l, r>>

GetPresent ==
  /\ Present /\ call.op = "get"
  /\ found' = items[Middle].val
  /\ Return /\ UNCHANGED <<items, dict_size, cap>>

\* dict_get and dict_remove of a key that is not there.
FindAbsent ==
  /\ Absent /\ call.op # "insert"
  /\ found' = Missing
  /\ Return /\ UNCHANGED <<items, dict_size, cap>>

\* dict_insert of a key that is there: its value is replaced.
InsertPresent ==
  /\ Present /\ call.op = "insert"
  /\ found' = items[Middle].val
  /\ items' = [items EXCEPT ![Middle].val = call.val]
  /\ Return /\ UNCHANGED <<dict_size, cap>>

\* Broken: the new item goes before the place the search ended at.
InsertAbsentBefore ==
  /\ Absent /\ call.op = "insert"
  /\ found' = Missing
  /\ LET at == IF l = 0 THEN 0 ELSE l - 1
     IN  items' = [i \in 0..CapFor(dict_size + 1) - 1 |->
                     IF i = at THEN [key |-> call.key, val |-> call.val]
                     ELSE IF at < i /\ i <= dict_size THEN items[i - 1] ELSE Slot(i)]
  /\ cap' = CapFor(dict_size + 1)
  /\ dict_size' = dict_size + 1
  /\ Return

\* dict_insert of a new key: room is made, what follows moves up by one.
InsertAbsent ==
  /\ Absent /\ call.op = "insert"
  /\ found' = Missing
  /\ cap' = CapFor(dict_size + 1)
  /\ items' = [i \in 0..CapFor(dict_size + 1) - 1 |->
                 IF i = l THEN [key |-> call.key, val |-> call.val]
                 ELSE IF l < i /\ i <= dict_size THEN items[i - 1] ELSE Slot(i)]
  /\ dict_size' = dict_size + 1
  /\ Return

\* dict_remove: what follows moves down by one.
RemovePresent ==
  /\ Present /\ call.op = "remove"
  /\ found' = items[Middle].val
  /\ items' = [i \in 0..cap - 1 |->
                 IF Middle <= i /\ i < dict_size - 1 THEN items[i + 1] ELSE items[i]]
  /\ dict_size' = dict_size - 1
  /\ Return /\ UNCHANGED cap

Turn == \/ GoLeft \/ GoRight
        \/ GetPresent \/ FindAbsent \/ InsertPresent \/ InsertAbsent \/ RemovePresent

DictNext == \/ Turn
            \/ DictClear \/ DictFree
            \/ \E n \in 0..MaxCap : DictReserve(n)
            \/ \E c \in Calls : DictCall(c)

\* A call runs to its end.
DictSpec == DictInit /\ [][DictNext]_dict_vars /\ WF_dict_vars(Turn)

-----------------------------------------------------------------------------
(* Safety.                                                                 *)

Slots == 0..dict_size - 1

Sorted ==
  \A i, j \in Slots : i < j => items[i].key < items[j].key

\* The search has excluded nothing wrongly: what lies before l is smaller than
\* the key, what lies after r is greater (dict.c:37-61).
Bisects ==
  call # NoCall =>
    /\ 0 <= l /\ l <= r + 1 /\ r < dict_size
    /\ \A i \in 0..l - 1 : items[i].key < call.key
    /\ \A i \in r + 1..dict_size - 1 : items[i].key > call.key

\* The array stays sorted without duplicates, and the bisection in it sound.
DictInv ==
  /\ DictTypeOK
  /\ \A i \in Slots : items[i] \in Item
  /\ Sorted
  /\ Bisects

-----------------------------------------------------------------------------
(* The map this implements.                                                *)

ContentsOf(slots, n) ==
  [k \in Keys |-> IF \E i \in 0..n - 1 : slots[i].key = k
                  THEN slots[CHOOSE i \in 0..n - 1 : slots[i].key = k].val
                  ELSE Missing]

DictContents == ContentsOf(items, dict_size)

AsMap == INSTANCE FiniteMap
           WITH Values <- Strings, contents <- DictContents

\* The sorted array is a finite map: no call loses, repeats or misplaces a key
\* (dict.c:63-109).
DictIsMap == AsMap!Spec

\* The bisection ends, and with it the call (dict.c:40).
CallsReturn == call # NoCall ~> call = NoCall
=============================================================================
