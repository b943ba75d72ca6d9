------------------------------- MODULE RHArray -------------------------------
(***************************************************************************)
(* The hash of rlib (src/rlib/rhash.c) and the array with names that is    *)
(* made of it, of an array of names and of an array of members             *)
(* (src/rlib/rharray.c): where the rules of a database, the exports of a   *)
(* machine and the options of the tools are kept.  Names may repeat.       *)
(***************************************************************************)
EXTENDS RArrays

\* HashOf(name) is one of Buckets.
CONSTANTS EntryNames, Values, HashOf(_), Buckets

-----------------------------------------------------------------------------
(* rhash.c: a bucket is a list of nodes, in the order of their insertion.  *)

HashCreate == [b \in Buckets |-> <<>>]

HashNode(key, index) == [key |-> key, index |-> index]

HashInsert(hash, key, index) ==
  [hash EXCEPT ![HashOf(key)] = Append(@, HashNode(key, index))]

NoNode == 0

\* r_hash_nodelookup and r_hash_nodetaillookup: the place in the bucket of the
\* next node of that key, in either direction; cur is NoNode to begin with.
NodeLookup(hash, cur, key) ==
  LET bucket == hash[HashOf(key)]
      later == {i \in DOMAIN bucket : i > cur /\ bucket[i].key = key}
  IN  IF later = {} THEN NoNode ELSE Min(later)

\* Mutant: the search begins with the node it goes on from.
BadNodeTailLookup(hash, cur, key) ==
  LET bucket == hash[HashOf(key)]
      earlier == {i \in DOMAIN bucket :
                    (cur = NoNode \/ i <= cur) /\ bucket[i].key = key}
  IN  IF earlier = {} THEN NoNode ELSE Max(earlier)

NodeTailLookup(hash, cur, key) ==
  LET bucket == hash[HashOf(key)]
      earlier == {i \in DOMAIN bucket :
                    (cur = NoNode \/ i < cur) /\ bucket[i].key = key}
  IN  IF earlier = {} THEN NoNode ELSE Max(earlier)

\* r_hash_remove: the first node of the key, as long as there is one.
RemoveOne(hash, key) ==
  LET node == NodeLookup(hash, NoNode, key)
  IN  IF node = NoNode THEN hash ELSE [hash EXCEPT ![HashOf(key)] = RemoveAt(@, node)]

HashRemove(hash, key) ==
  LET len == Len(hash[HashOf(key)])
      left[n \in 0..len] == IF n = 0 THEN hash ELSE RemoveOne(left[n - 1], key)
  IN  left[len]

-----------------------------------------------------------------------------
(* rharray.c                                                               *)

VARIABLES names, members, hash,
          added     \* history: the names and values in the order they came

harray == <<names, members, hash>>

HArrayInit ==
  /\ names = ArrayCreate /\ members = CArrayCreate /\ hash = HashCreate
  /\ added = <<>>

IndexOf(key, node) == IF node = NoNode THEN -1 ELSE hash[HashOf(key)][node].index

\* -1 if there is none.
Lookup(key) == IndexOf(key, NodeLookup(hash, NoNode, key))
TailLookup(key) == IndexOf(key, NodeTailLookup(hash, NoNode, key))

\* r_harray_taillookup_s, which calls r_harray_lookup.
TailLookupS(key) == Lookup(key)

NoValue == -1   \* NULL

Get(index) == IF index >= members.len THEN NoValue ELSE CSlot(members, index)

Add(key, value) ==
  /\ names' = ArrayAdd(names, key)
  /\ members' = CArrayAdd(members, value)
  /\ hash' = HashInsert(hash, key, members.len)
  /\ added' = Append(added, <<key, value>>)

\* The first of that name.
Replace(key, value) ==
  \/ /\ Lookup(key) = -1
     /\ Add(key, value)
  \/ /\ Lookup(key) # -1
     /\ members' = CReplace(members, Lookup(key), value)
     /\ added' = [added EXCEPT ![Lookup(key) + 1][2] = value]
     /\ UNCHANGED <<names, hash>>

\* r_harray_set writes behind the length, too, where it is not found.
Set(index, value) ==
  /\ members' = CReplace(members, index, value)
  /\ added' = IF index < Len(added) THEN [added EXCEPT ![index + 1][2] = value] ELSE added
  /\ UNCHANGED <<names, hash>>

\* The hash of a copy is made anew, of so many names.
Rehashed(array, len) ==
  LET hashed[n \in 0..len] ==
        IF n = 0 THEN HashCreate ELSE HashInsert(hashed[n - 1], array.slots[n - 1], n - 1)
  IN  hashed[len]

\* r_harray_copy, and the copy is used from here on.
Copy ==
  /\ names' = ArrayCopy(names)
  /\ members' = CArrayCopy(members)
  /\ hash' = Rehashed(names', members.len)
  /\ UNCHANGED added

HArrayNext ==
  \/ \E key \in EntryNames, value \in Values : Add(key, value) \/ Replace(key, value)
  \/ \E index \in 0..(members.len + 1), value \in Values : Set(index, value)
  \/ Copy

-----------------------------------------------------------------------------
HArraySpec == HArrayInit /\ [][HArrayNext]_<<harray, added>>
-----------------------------------------------------------------------------
\* The indexes of a name; the first and the last of some, or -1.
Places(key) == {i \in 0..(Len(added) - 1) : added[i + 1][1] = key}
FirstOf(places) == IF places = {} THEN -1 ELSE Min(places)
LastOf(places) == IF places = {} THEN -1 ELSE Max(places)

\* What is removed from the hash is found no more, and what is not is.
NamesRemoved ==
  \A key, other \in EntryNames :
    LET without == HashRemove(hash, key)
        node == NodeLookup(without, NoNode, other)
    IN  IF key = other \/ Places(other) = {} THEN node = NoNode
        ELSE without[HashOf(other)][node].index = Min(Places(other))

\* A name leads to the first or the last of the entries added with it (by way of
\* r_harray_taillookup_s to the first, in spite of what it is called), and from
\* each of them to the next and the one before, whatever shares its bucket, and
\* an entry has the name and the value it was last given, after growth, copies
\* and writes behind the end (src/rlib/rharray.c:127).  One that is removed from
\* the hash leads nowhere, and the others of its bucket to where they did
\* (src/rlib/rhash.c:267).
NamesFound ==
  /\ members.len = Len(added) /\ names.len = Len(added)
  /\ \A key \in EntryNames :
       LET bucket == hash[HashOf(key)]
           places == Places(key)
       IN  /\ Lookup(key) = FirstOf(places) /\ TailLookup(key) = LastOf(places)
           /\ TailLookupS(key) = FirstOf(places)
           /\ \A node \in DOMAIN bucket :
                bucket[node].key = key =>
                  LET i == bucket[node].index
                  IN  /\ i \in places
                      /\ IndexOf(key, NodeLookup(hash, node, key)) = FirstOf({j \in places : j > i})
                      /\ IndexOf(key, NodeTailLookup(hash, node, key)) = LastOf({j \in places : j < i})
  /\ \A i \in 0..(Len(added) - 1) :
       ArrayElements(names)[i + 1] = added[i + 1][1] /\ Get(i) = added[i + 1][2]
  /\ Get(Len(added)) = NoValue
  /\ NamesRemoved
=============================================================================
