-------------------------------- MODULE RMap --------------------------------
(***************************************************************************)
(* A map (src/rlib/rmap.c): nodes in an rcarray, each in the list of the   *)
(* active ones and in a bucket of the hash, or in the list of the inactive *)
(* ones, to be used again.  An index is given out for a node, and stands   *)
(* for the entry until it is deleted; a later entry may get the same one.  *)
(* Keys may repeat.  The lists (rlist.c) are sequences of indexes.         *)
(***************************************************************************)
EXTENDS RArrays

\* MapHash(key) is one of MapBuckets.
CONSTANTS Keys, MapValues, MapHash(_), MapBuckets

VARIABLES data,               \* the nodes
          active, inactive,   \* lists
          bucket,             \* map->hash: a list in each
          entries             \* history: what is in the map, in order

map == <<data, active, inactive, bucket>>

None == -1

\* r_list_first to r_list_prev: None stands for NULL.
ListFirst(list) == IF list = <<>> THEN None ELSE Head(list)
ListLast(list) == IF list = <<>> THEN None ELSE list[Len(list)]
PlaceIn(list, x) == CHOOSE i \in DOMAIN list : list[i] = x
ListNext(list, x) == IF PlaceIn(list, x) = Len(list) THEN None ELSE list[PlaceIn(list, x) + 1]
ListPrev(list, x) == IF PlaceIn(list, x) = 1 THEN None ELSE list[PlaceIn(list, x) - 1]
ListDel(list, x) == RemoveAt(list, PlaceIn(list, x))

MapInit ==
  /\ data = CArrayCreate /\ active = <<>> /\ inactive = <<>>
  /\ bucket = [b \in MapBuckets |-> <<>>]
  /\ entries = <<>>

\* A node: hashed is that its link is in a bucket.
MapNode(key, value, hashed) == [key |-> key, value |-> value, hashed |-> hashed]

\* r_map_node: not NULL.
IsNode(index) == index # None /\ index < data.len /\ CSlot(data, index).hashed

Key(index) == IF IsNode(index) THEN CSlot(data, index).key ELSE None
Value(index) == IF IsNode(index) THEN CSlot(data, index).value ELSE None

MapFirst == ListFirst(active)
MapLast == ListLast(active)
MapNext(index) == IF IsNode(index) THEN ListNext(active, index) ELSE None
MapPrev(index) == IF IsNode(index) THEN ListPrev(active, index) ELSE None

\* r_map_lookup and r_map_taillookup: the first and the last of its bucket.
OrNone(list, place) == IF place = 0 THEN None ELSE list[place]
MapLookup(key) ==
  LET list == bucket[MapHash(key)]
  IN  OrNone(list, SelectInSeq(list, LAMBDA i : CSlot(data, i).key = key))
MapTailLookup(key) ==
  LET list == bucket[MapHash(key)]
  IN  OrNone(list, SelectLastInSeq(list, LAMBDA i : CSlot(data, i).key = key))

\* Mutant: the first inactive node is used and stays where it is.
BadGetFreeNode ==
  IF inactive = <<>>
    THEN [index |-> data.len, data |-> CArrayAdd(data, Zero), inactive |-> <<>>,
          value |-> Zero]
    ELSE [index |-> ListFirst(inactive), data |-> data, inactive |-> inactive,
          value |-> CSlot(data, ListFirst(inactive)).value]

\* r_map_getfreenode, and the value that is in the node it finds.
GetFreeNode ==
  IF inactive = <<>>
    THEN [index |-> data.len, data |-> CArrayAdd(data, Zero), inactive |-> <<>>,
          value |-> Zero]
    ELSE [index |-> ListFirst(inactive), data |-> data, inactive |-> Tail(inactive),
          value |-> CSlot(data, ListFirst(inactive)).value]

\* With no value given (None is NULL) an entry has the one that is in the node:
\* nothing, or that of the entry that was deleted.
MapAdd(key, value) ==
  LET free == GetFreeNode
      stored == IF value = None THEN free.value ELSE value
  IN  /\ data' = CReplace(free.data, free.index, MapNode(key, stored, TRUE))
      /\ inactive' = free.inactive
      /\ active' = Append(active, free.index)
      /\ bucket' = [bucket EXCEPT ![MapHash(key)] = Append(@, free.index)]
      /\ entries' = Append(entries, [index |-> free.index, key |-> key, value |-> stored])

MapSetValue(index, value) ==
  /\ IsNode(index)
  /\ data' = CReplace(data, index, [CSlot(data, index) EXCEPT !.value = value])
  /\ entries' = [i \in DOMAIN entries |->
                   IF entries[i].index = index THEN [entries[i] EXCEPT !.value = value]
                   ELSE entries[i]]
  /\ UNCHANGED <<active, inactive, bucket>>

EntryOf(index) == SelectInSeq(entries, LAMBDA e : e.index = index)

\* The key is destroyed; the value stays where it was.
MapDelete(index) ==
  /\ IsNode(index)
  /\ data' = CReplace(data, index, MapNode(None, Value(index), FALSE))
  /\ bucket' = [bucket EXCEPT ![MapHash(Key(index))] = ListDel(@, index)]
  /\ active' = ListDel(active, index)
  /\ inactive' = Append(inactive, index)
  /\ entries' = RemoveAt(entries, EntryOf(index))

\* What is deleted twice, or set after, is refused and changes nothing.
MapStep ==
  \/ \E key \in Keys, value \in MapValues \cup {None} : MapAdd(key, value)
  \/ \E index \in 0..data.len :
       MapDelete(index) \/ \E value \in MapValues : MapSetValue(index, value)

MapSpec == MapInit /\ [][MapStep]_<<map, entries>>
-----------------------------------------------------------------------------
FirstEntry(key) == SelectInSeq(entries, LAMBDA e : e.key = key)
LastEntry(key) == SelectLastInSeq(entries, LAMBDA e : e.key = key)

\* The map is the entries that were added and not deleted, in order: an index
\* leads to its entry alone and to its neighbours, a name to the first or last
\* of its entries, and an index that was deleted to nothing, until it is
\* given out again (src/rlib/rmap.c:256).
MapHolds ==
  LET n == Len(entries)
      IndexAt(i) == IF i \in 1..n THEN entries[i].index ELSE None
  IN  /\ MapFirst = IndexAt(1) /\ MapLast = IndexAt(n)
      /\ \A i \in 1..n :
           LET e == entries[i]
           IN  /\ Key(e.index) = e.key /\ Value(e.index) = e.value
               /\ MapNext(e.index) = IndexAt(i + 1) /\ MapPrev(e.index) = IndexAt(i - 1)
      /\ \A key \in Keys :
           /\ MapLookup(key) = IndexAt(FirstEntry(key))
           /\ MapTailLookup(key) = IndexAt(LastEntry(key))
      /\ \A index \in 0..data.len :
           (\A i \in 1..n : entries[i].index # index)
             => Key(index) = None /\ Value(index) = None /\ MapNext(index) = None
=============================================================================
