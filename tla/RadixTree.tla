------------------------------ MODULE RadixTree ------------------------------
(***************************************************************************)
(* The radix tree of include/radix_tree, with the bit strings of           *)
(* BlackListImpl::RtEntry (blacklist.cpp) as keys.                         *)
(*                                                                         *)
(* A node is named by the bits from the root to the end of its key; its    *)
(* m_parent is the longest node it begins with, its m_depth the length of  *)
(* that one.  A leaf is a child with the empty key: a tree gives every     *)
(* other node the value of its leaf, or Inner if it has none.  To split a  *)
(* node is to add one above it, to merge a node with its only child is to  *)
(* take it away.  A tree without a root (m_root == NULL) and one whose     *)
(* root has no children answer alike: both are NewTree.                    *)
(***************************************************************************)
EXTENDS Naturals, Sequences, Maps

CONSTANT Inner

Begins(a, b) == Len(a) <= Len(b) /\ \A i \in 1..Len(a) : a[i] = b[i]
Longest(s) == CHOOSE a \in s : \A b \in s : Len(b) <= Len(a)
Shortest(s) == CHOOSE a \in s : \A b \in s : Len(a) <= Len(b)

\* radix_tree::clear; the root alone.
NewTree == [a \in {<<>>} |-> Inner]

HasLeaf(t, a) == a \in DOMAIN t /\ t[a] # Inner
Parent(t, a) == Longest({b \in DOMAIN t : Begins(b, a) /\ b # a})
ChildrenOf(t, a) == {b \in DOMAIN t : b # <<>> /\ Parent(t, b) = a}

\* radix_substr of an RtEntry does not look at its length: the bits past the prefix are 0.
radix_substr(key, begin, num) ==
    [i \in 1..num |-> IF begin + i <= Len(key) THEN key[begin + i] ELSE 0]

\* All bits of a node are on the key's way.
OnWay(a, key) == radix_substr(key, 0, Len(a)) = a

\* The last node on the way; the walk ends at the key's own node but not at its length.
LastOnWay(t, key) ==
    Longest({a \in DOMAIN t : OnWay(a, key) /\ (key \in DOMAIN t => Len(a) <= Len(key))})

\* Where the walk for a key ends: the last node on the way, or the child of it whose key
\* begins with the next bit and then departs.
find_node(t, key) ==
    LET last == LastOnWay(t, key)
        child == {c \in DOMAIN t : Begins(radix_substr(key, 0, Len(last) + 1), c)}
    IN IF last = key \/ child = {} THEN last ELSE Shortest(child)

\* The value of the longest key that a full-length key begins with, from the node where the
\* walk for it ends up; Inner if there is none.
MatchFrom(t, n, key) ==
    LET from == IF OnWay(n, key) THEN n ELSE Parent(t, n)
        leaves == {a \in DOMAIN t : Begins(a, from) /\ HasLeaf(t, a)}
    IN IF leaves = {} THEN Inner ELSE t[Longest(leaves)]

longest_match(t, key) == MatchFrom(t, find_node(t, key), key)

\* The leaf of the key, below a node of its own if it has none.
append(t, key, val) == With(t, key, val)

\* The bits two strings begin with.
Agreement(a, b) ==
    LET alike == {i \in 0..Len(a) : i <= Len(b) /\ \A j \in 1..i : a[j] = b[j]}
    IN SubSeq(a, 1, CHOOSE i \in alike : \A j \in alike : j <= i)

\* The node is split where the key departs from it, and the key's leaf hung in there.
prepend(t, n, key, val) == append(With(t, Agreement(n, key), Inner), key, val)

\* The walk is past the end of the key.  The child it departs to has no bit that is one of the
\* key's: prepend's assert(count != 0) fails.
PastEnd(t, key) == Len(key) < Len(LastOnWay(t, key))

\* An existing entry is left as it is.
InsertAt(t, n, key, val) ==
    IF n = key /\ HasLeaf(t, n) THEN t
    ELSE IF OnWay(n, key) THEN append(t, key, val)
    ELSE prepend(t, n, key, val)

insert(t, key, val) == InsertAt(t, find_node(t, key), key, val)

\* A node with one child left that is no leaf is merged with it (the "uncle").
Merge(t, n) ==
    IF n # <<>> /\ ~HasLeaf(t, n) /\ (\E c \in DOMAIN t : ChildrenOf(t, n) = {c})
    THEN Without(t, n) ELSE t

\* The leaf goes, its node when that was all it had, and a node that is left with one child
\* is merged with it.
EraseLeaf(t, n) ==
    IF n # <<>> /\ ChildrenOf(t, n) = {} THEN Merge(Without(t, n), Parent(t, n))
    ELSE Merge(With(t, n, Inner), n)

erase(t, key) ==
    IF find_node(t, key) = key /\ HasLeaf(t, key) THEN EraseLeaf(t, key) ELSE t
=============================================================================
