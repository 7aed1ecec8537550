-------------------------------- MODULE Map ---------------------------------
(***************************************************************************)
(* src/collections/map.c: a hash table of chains, which doubles its        *)
(* buckets when it holds as many entries.  The nodes and devices by id and *)
(* the key bindings are kept in one.                                       *)
(*                                                                         *)
(* A chain of entries is a sequence.  A call is one step, but for an       *)
(* insertion that has to resize, whose steps move one entry or leave one   *)
(* bucket each.                                                            *)
(***************************************************************************)
EXTENDS Integers, Sequences, FiniteSets

CONSTANTS
  Ids,              \* keys
  Objects,          \* values
  NoObject,         \* the null pointer
  Knuth,            \* 2654435769 in get_index
  WordSize,         \* 2^32: what the hash is a remainder of
  FirstBuckets      \* 32 in resize

ASSUME MapAssumption ==
  /\ Ids \subseteq Nat
  /\ NoObject \notin Objects
  /\ Knuth \in Nat
  /\ WordSize \in Nat \ {0}
  /\ FirstBuckets \in Nat \ {0} /\ WordSize % FirstBuckets = 0

VARIABLES
  buckets,          \* the chains, from 0 to n_buckets - 1
  n_buckets, n_entries,
  old_buckets,      \* what resize has not moved yet
  old_i,            \* the bucket it is at
  inserting,        \* the insertion that is running
  answer,           \* what the last call found at its key
  iter,             \* where a loop over the map is
  visited           \* the ids it has been given, for the properties

map_vars == <<buckets, n_buckets, n_entries, old_buckets, old_i, inserting,
              answer, iter, visited>>

Entry == [key : Ids, val : Objects]

NotInserting == [key |-> -1]
NoIter       == [i |-> -1, pos |-> 0]

MapTypeOK ==
  /\ n_buckets \in Nat /\ n_entries \in Nat
  /\ buckets \in [0..n_buckets - 1 -> Seq(Entry)]
  /\ old_i \in Nat
  /\ inserting \in Entry \union {NotInserting}
  /\ answer \in Objects \union {NoObject}
  /\ iter \in [i : Nat, pos : Nat] \union {NoIter}
  /\ visited \in Seq(Ids)

NoBuckets == [i \in {} |-> <<>>]

MapInit == /\ buckets = NoBuckets /\ n_buckets = 0 /\ n_entries = 0
           /\ old_buckets = NoBuckets /\ old_i = 0
           /\ inserting = NotInserting
           /\ answer = NoObject
           /\ iter = NoIter /\ visited = <<>>

-----------------------------------------------------------------------------
\* get_index: the upper bits of a product of w bits.
GetIndex(k, n) == ((k * Knuth) % WordSize) \div (WordSize \div n)

\* The chain the key k belongs to.
Chain(k) == IF n_buckets = 0 THEN <<>> ELSE buckets[GetIndex(k, n_buckets)]

Has(chain, k)    == \E p \in DOMAIN chain : chain[p].key = k
Place(chain, k)  == CHOOSE p \in DOMAIN chain : chain[p].key = k
Lookup(chain, k) == IF Has(chain, k) THEN chain[Place(chain, k)].val ELSE NoObject

Cut(chain, p) == SubSeq(chain, 1, p - 1) \o SubSeq(chain, p + 1, Len(chain))

Resizing == inserting # NotInserting /\ old_i \in DOMAIN old_buckets

\* No loop of the program changes the map it goes over (common.c:97-105).
Idle == inserting = NotInserting /\ iter = NoIter

NewBuckets == IF n_buckets = 0 THEN FirstBuckets ELSE 2 * n_buckets

\* As many buckets as words is out of any program's reach.
MustResize == (n_buckets = 0 \/ n_entries >= n_buckets) /\ WordSize % NewBuckets = 0

MapInsert(k, v) ==
  /\ Idle
  /\ inserting' = [key |-> k, val |-> v]
  /\ IF MustResize
     THEN /\ old_buckets' = buckets
          /\ n_buckets' = NewBuckets
          /\ buckets' = [i \in 0..NewBuckets - 1 |-> <<>>]
     ELSE UNCHANGED <<old_buckets, n_buckets, buckets>>
  /\ old_i' = 0
  /\ UNCHANGED <<n_entries, answer, iter, visited>>

\* Broken: the entry goes to the bucket that has its old number.
MoveUnhashed ==
  /\ Resizing /\ old_buckets[old_i] # <<>>
  /\ LET entry == Head(old_buckets[old_i])
     IN  buckets' = [buckets EXCEPT ![old_i] = Append(@, entry)]
  /\ old_buckets' = [old_buckets EXCEPT ![old_i] = Tail(@)]
  /\ UNCHANGED <<n_buckets, n_entries, old_i, inserting, answer, iter, visited>>

\* resize: the next entry goes to the end of its chain.
Move ==
  /\ Resizing /\ old_buckets[old_i] # <<>>
  /\ LET entry == Head(old_buckets[old_i])
     IN  buckets' = [buckets EXCEPT ![GetIndex(entry.key, n_buckets)] = Append(@, entry)]
  /\ old_buckets' = [old_buckets EXCEPT ![old_i] = Tail(@)]
  /\ UNCHANGED <<n_buckets, n_entries, old_i, inserting, answer, iter, visited>>

NextBucket ==
  /\ Resizing /\ old_buckets[old_i] = <<>>
  /\ old_i' = old_i + 1
  /\ UNCHANGED <<buckets, n_buckets, n_entries, old_buckets, inserting, answer, iter, visited>>

Put ==
  /\ inserting # NotInserting /\ ~Resizing
  /\ LET k     == inserting.key
         chain == Chain(k)
     IN  /\ answer' = Lookup(chain, k)
         /\ IF Has(chain, k)
            THEN /\ buckets' = [buckets EXCEPT
                      ![GetIndex(k, n_buckets)][Place(chain, k)].val = inserting.val]
                 /\ UNCHANGED n_entries
            ELSE /\ buckets' = [buckets EXCEPT
                      ![GetIndex(k, n_buckets)] = Append(@, inserting)]
                 /\ n_entries' = n_entries + 1
  /\ inserting' = NotInserting
  /\ old_buckets' = NoBuckets /\ old_i' = 0
  /\ UNCHANGED <<n_buckets, iter, visited>>

MapGet(k) ==
  /\ Idle
  /\ answer' = Lookup(Chain(k), k)
  /\ UNCHANGED <<buckets, n_buckets, n_entries, old_buckets, old_i, inserting, iter, visited>>

MapRemove(k) ==
  /\ Idle
  /\ answer' = Lookup(Chain(k), k)
  /\ IF Has(Chain(k), k)
     THEN /\ buckets' = [buckets EXCEPT ![GetIndex(k, n_buckets)] = Cut(@, Place(@, k))]
          /\ n_entries' = n_entries - 1
     ELSE UNCHANGED <<buckets, n_entries>>
  /\ UNCHANGED <<n_buckets, old_buckets, old_i, inserting, iter, visited>>

MapFree ==
  /\ Idle
  /\ buckets' = NoBuckets /\ n_buckets' = 0 /\ n_entries' = 0
  /\ UNCHANGED <<old_buckets, old_i, inserting, answer, iter, visited>>

-----------------------------------------------------------------------------
(* map_iter_next: iter is the entry it returned last.                      *)

IterStart ==
  /\ Idle
  /\ iter' = [i |-> 0, pos |-> 0] /\ visited' = <<>>
  /\ UNCHANGED <<buckets, n_buckets, n_entries, old_buckets, old_i, inserting, answer>>

\* Broken: after the end of a chain, one bucket is passed over.
NextChainsSkipping == {i \in iter.i + 2..n_buckets - 1 : buckets[i] # <<>>}

\* The buckets after the one the loop is at that have entries.
NextChains == {i \in iter.i + 1..n_buckets - 1 : buckets[i] # <<>>}
NextChain  == CHOOSE i \in NextChains : \A j \in NextChains : i <= j

IterNext ==
  /\ inserting = NotInserting /\ iter # NoIter
  /\ IF iter.i < n_buckets /\ iter.pos < Len(buckets[iter.i])
     THEN /\ iter' = [iter EXCEPT !.pos = @ + 1]
          /\ visited' = Append(visited, buckets[iter.i][iter.pos + 1].key)
     ELSE IF NextChains # {}
     THEN /\ iter' = [i |-> NextChain, pos |-> 1]
          /\ visited' = Append(visited, buckets[NextChain][1].key)
     ELSE iter' = NoIter /\ visited' = <<>>
  /\ UNCHANGED <<buckets, n_buckets, n_entries, old_buckets, old_i, inserting, answer>>

MapNext ==
  \/ \E k \in Ids : MapGet(k) \/ MapRemove(k) \/ \E v \in Objects : MapInsert(k, v)
  \/ Move \/ NextBucket \/ Put
  \/ MapFree
  \/ IterStart \/ IterNext

MapSpec == MapInit /\ [][MapNext]_map_vars

-----------------------------------------------------------------------------
(* Safety.                                                                 *)

\* Where a table has entries: bucket and place in the chain.
Places(table)     == UNION {{i} \X DOMAIN table[i] : i \in DOMAIN table}
EntryAt(table, e) == table[e[1]][e[2]]

KeysIn(table) == {EntryAt(table, e).key : e \in Places(table)}

NoDuplicates(table) ==
  \A e, f \in Places(table) : EntryAt(table, e).key = EntryAt(table, f).key => e = f

\* An entry is in the chain of its key, and no key has two; the buckets are as
\* many as the shift in get_index is made for.
MapInv ==
  /\ MapTypeOK
  /\ n_buckets # 0 => n_buckets <= WordSize /\ WordSize % n_buckets = 0
  /\ inserting # NotInserting => n_buckets # 0
  /\ \A i \in 0..n_buckets - 1 : \A p \in DOMAIN buckets[i] :
       GetIndex(buckets[i][p].key, n_buckets) = i
  /\ NoDuplicates(buckets) /\ NoDuplicates(old_buckets)
  /\ KeysIn(buckets) \intersect KeysIn(old_buckets) = {}
  /\ Cardinality(KeysIn(buckets) \union KeysIn(old_buckets)) = n_entries

\* A loop over the map is given each key once (map.c:108, common.c:97-105).
VisitsEachOnce ==
  [][iter # NoIter /\ iter' = NoIter =>
       /\ \A p, q \in DOMAIN visited : visited[p] = visited[q] => p = q
       /\ {visited[p] : p \in DOMAIN visited} = KeysIn(buckets)]_map_vars

-----------------------------------------------------------------------------
(* The map this implements.                                                *)

ValueIn(table, k) ==
  EntryAt(table, CHOOSE e \in Places(table) : EntryAt(table, e).key = k).val

MapContents ==
  [k \in Ids |-> IF k \in KeysIn(buckets) THEN ValueIn(buckets, k)
                 ELSE IF k \in KeysIn(old_buckets) THEN ValueIn(old_buckets, k)
                 ELSE NoObject]

AsFiniteMap == INSTANCE FiniteMap
                 WITH Keys <- Ids, Values <- Objects, Missing <- NoObject,
                      contents <- MapContents, found <- answer

\* The hash table is a finite map: growth and collisions lose, repeat and
\* misplace no entry (map.c:39-93).
MapIsMap == AsFiniteMap!Spec
=============================================================================
