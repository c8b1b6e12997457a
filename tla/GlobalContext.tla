---------------------------- MODULE GlobalContext ----------------------------
(***************************************************************************)
(* One bucket of the global context: TSHashtable over TSList               *)
(* (include/lib/graft/graft_utility.hpp) behind Context::Global            *)
(* (include/lib/graft/context.h), with one group of keys.                  *)
(*                                                                         *)
(* The list has a lock per node and is walked hand over hand.  A walk      *)
(* meets every node that stays in the list throughout, so a walk is one    *)
(* step.  addOrUpdate is two: it looks for the entry and then, with no     *)
(* lock over both, pushes a new node or assigns to the data it found,      *)
(* which may have left the list since.  groupSet likewise.                 *)
(*                                                                         *)
(* Time is in seconds.  A thread is held up between its two steps for at   *)
(* most MaxStall seconds.                                                  *)
(***************************************************************************)
EXTENDS Naturals, Sequences, FiniteSets, Functions

CONSTANTS
    Keys,
    Values,       \* Values[k]: the values key k is set to
    Threads,
    NodeIds,
    Writers,      \* Writers[k]: the threads that change key k
    TTLs,         \* TTLs[k]: the times to live key k is set with; 0 is for ever
    WithCallback, \* keys that are set with an onExpired callback
    GroupKeys,    \* keys that the group may hold
    MaxStall,
    MaxTime,
    NoValue,
    NoNode,       \* the key is not in the group
    DeadNode      \* the key is in the group with a weak_ptr whose node is gone

ASSUME TTLAssumption ==
    /\ MaxStall \in Nat
    /\ \A k \in Keys : TTLs[k] \subseteq Nat /\ \A ttl \in TTLs[k] : ttl = 0 \/ MaxStall < ttl
    /\ \A k \in Keys : NoValue \notin Values[k]
    /\ \A k \in Keys : IsFiniteSet(Writers[k])
    /\ NoNode \notin NodeIds /\ DeadNode \notin NodeIds /\ NoNode # DeadNode /\ NoNode \notin Keys
    /\ MaxTime \in Nat

\* ch::seconds::max(): no time is later.
Forever == MaxTime + 1

VARIABLES
    now,
    list,     \* the nodes of the bucket, front first
    node,     \* [key, val, ttl, expires, moved] of each node; moved: the data went to a callback
    op,       \* the change each thread is in
    calls,    \* callbacks the last cleanup has still to make
    group,    \* m_map of the group
    invalid,  \* keys a forEach of the group has still to drop
    last,     \* history: the value a key has, by the changes that were made; NoValue: none
    seen,     \* history: when the entry of a key was last looked up or set
    removed,  \* history: remove() returned, no change was under way and none began since
    called    \* history: keys whose callback was made since they were set anew

vars == <<now, list, node, op, calls, group, invalid, last, seen, removed, called>>
history == <<last, seen, removed, called>>

Free == [key |-> NoNode, val |-> NoValue, ttl |-> 0, expires |-> 0, moved |-> FALSE]
Idle == [at |-> "idle", key |-> NoNode, val |-> NoValue, ttl |-> 0, found |-> NoNode, age |-> 0]

Listed == Range(list)
Nodes(k) == {i \in Listed : node[i].key = k}
Owned == {k \in Keys : Cardinality(Writers[k]) = 1}

\* The list without some of its nodes, in the same order.
Without(l, gone) ==
    LET kept == {j \in DOMAIN l : l[j] \notin gone}
        rank(j) == Cardinality({i \in kept : i <= j})
    IN  [n \in 1..Cardinality(kept) |-> l[CHOOSE j \in kept : rank(j) = n]]

Init ==
    /\ now = 0
    /\ list = <<>>
    /\ node = [i \in NodeIds |-> Free]
    /\ op = [t \in Threads |-> Idle]
    /\ calls = {}
    /\ group = [k \in Keys |-> NoNode]
    /\ invalid = {}
    /\ last = [k \in Keys |-> NoValue]
    /\ seen = [k \in Keys |-> 0]
    /\ removed = {}
    /\ called = {}

----------------------------------------------------------------------------

\* node::update_time and node::expired
ExpiresAt(ttl) == IF ttl = 0 THEN Forever ELSE now + ttl
Renewed(n) == [n EXCEPT !.expires = ExpiresAt(n.ttl)]
Expired(i) == node[i].expires <= now

\* findFirstOf: the first node of the key, NoNode if there is none.
First(k) ==
    IF Nodes(k) = {} THEN NoNode
    ELSE list[CHOOSE j \in DOMAIN list :
                 /\ node[list[j]].key = k
                 /\ \A l \in 1..(j - 1) : node[list[l]].key # k]

\* Nodes that are gone once the list is l, the threads do o and the callbacks c are left:
\* nobody holds a shared_ptr of them.  The group holds weak_ptrs.
Held(l, o, c) == Range(l) \cup {o[t].found : t \in Threads} \cup c
Release(l, o, c, n, g) ==
    /\ list' = l
    /\ op' = o
    /\ calls' = c
    /\ node' = [i \in NodeIds |-> IF i \in Held(l, o, c) THEN n[i] ELSE Free]
    /\ group' = [k \in Keys |->
                    IF g[k] \in NodeIds \ Held(l, o, c) THEN DeadNode ELSE g[k]]

\* The history of the keys that have one writer.
Became(k, v) == last' = IF k \in Owned THEN [last EXCEPT ![k] = v] ELSE last
Saw(k) == seen' = IF k \in Owned THEN [seen EXCEPT ![k] = now] ELSE seen

\* Faulty: a lookup that leaves the time of the entry alone.
FoundOnly(i) == node

\* Looking a key up renews its first node with the node's own time to live.
Found(i) == [node EXCEPT ![i] = Renewed(@)]

----------------------------------------------------------------------------
(* Global::hasKey, get and apply; set and operator[]; remove.              *)

Lookup(k) ==
    /\ First(k) # NoNode
    /\ node' = Found(First(k))
    /\ Saw(k)
    /\ UNCHANGED <<now, invalid, list, op, calls, group, last, removed, called>>

Apply(t, k, v) ==
    /\ t \in Writers[k]
    /\ op[t] = Idle
    /\ First(k) # NoNode
    /\ node' = [Found(First(k)) EXCEPT ![First(k)].val = v]
    /\ Saw(k)
    /\ Became(k, v)
    /\ UNCHANGED <<now, invalid, list, op, calls, group, removed, called>>

SetFind(t, k, v, ttl) ==
    LET i == First(k) IN
    /\ t \in Writers[k]
    /\ ttl \in TTLs[k]
    /\ op[t] = Idle
    /\ op' = [op EXCEPT ![t] = [at |-> IF i = NoNode THEN "push" ELSE "assign", key |-> k,
                                val |-> v, ttl |-> ttl, found |-> i, age |-> 0]]
    /\ node' = IF i = NoNode THEN node ELSE Found(i)
    /\ Saw(k)
    /\ removed' = removed \ {k}
    /\ UNCHANGED <<now, invalid, list, calls, group, last, called>>

SetPush(t) ==
    /\ op[t].at = "push"
    /\ \E i \in NodeIds :
          LET k == op[t].key IN
          /\ node[i] = Free
          /\ Release(<<i>> \o list, [op EXCEPT ![t] = Idle], calls,
                     [node EXCEPT ![i] = [key |-> k, val |-> op[t].val, ttl |-> op[t].ttl,
                                          expires |-> ExpiresAt(op[t].ttl), moved |-> FALSE]],
                     group)
          /\ Became(k, op[t].val)
          /\ Saw(k)
          /\ called' = called \ {k}
    /\ UNCHANGED <<now, invalid, removed>>

\* The data is assigned whether or not its node is still in the list.
SetAssign(t) ==
    LET i == op[t].found
        k == op[t].key
    IN
    /\ op[t].at = "assign"
    /\ Release(list, [op EXCEPT ![t] = Idle], calls, [node EXCEPT ![i].val = op[t].val], group)
    /\ Became(k, op[t].val)
    /\ UNCHANGED <<now, invalid, seen, removed, called>>

\* Faulty: only the first node of the key is taken out.
RemoveOne(t, k) ==
    /\ t \in Writers[k]
    /\ op[t] = Idle
    /\ Release(Without(list, {First(k)}), op, calls, node, group)
    /\ Became(k, NoValue)
    /\ removed' = IF \E u \in Threads : op[u].key = k THEN removed ELSE removed \cup {k}
    /\ UNCHANGED <<now, invalid, seen, called>>

\* removeIf takes every node of the key out.
Remove(t, k) ==
    /\ t \in Writers[k]
    /\ op[t] = Idle
    /\ Release(Without(list, Nodes(k)), op, calls, node, group)
    /\ Became(k, NoValue)
    /\ removed' = IF \E u \in Threads : op[u].key = k THEN removed ELSE removed \cup {k}
    /\ UNCHANGED <<now, invalid, seen, called>>

----------------------------------------------------------------------------
(* TSHashtable::cleanup: nodes whose time is over leave the list, then, with the *)
(* bucket unlocked, their callbacks are made.                                    *)

\* Faulty: a cleanup that forgets the callbacks.
CleanupSilent ==
    LET over == {i \in Listed : Expired(i)} IN
    /\ calls = {}
    /\ over # {}
    /\ Release(Without(list, over), op, {}, node, group)
    /\ UNCHANGED <<now, invalid, history>>

\* safe_cleanup unlocks the mutex of a node it has just destroyed, which is taken to do nothing.
Cleanup ==
    LET over == {i \in Listed : Expired(i)}
        due == {i \in over : node[i].key \in WithCallback}
    IN
    /\ calls = {}
    /\ over # {}
    /\ Release(Without(list, over), op, due,
               [i \in NodeIds |-> IF i \in due THEN [node[i] EXCEPT !.moved = TRUE] ELSE node[i]],
               group)
    /\ UNCHANGED <<now, invalid, history>>

OnExpired ==
    \E i \in calls :
        /\ Release(list, op, calls \ {i}, node, group)
        /\ called' = called \cup {node[i].key}
        /\ UNCHANGED <<now, invalid, last, seen, removed>>

----------------------------------------------------------------------------
(* Groups                                                                  *)

\* Group::add looks for the node with forEachNode, which reads the pointer to a node again when the
\* node before it is unlocked: an entry put in front of the first at that moment is met in its
\* place, or the walk waits for a lock it holds.  The walk is one step here, without that.
GroupAdd(k) ==
    /\ group[k] \in {NoNode, DeadNode}
    /\ group' = [group EXCEPT ![k] = First(k)]
    /\ UNCHANGED <<now, invalid, list, node, op, calls, history>>

GroupRemove(k) ==
    /\ group[k] # NoNode
    /\ group' = [group EXCEPT ![k] = NoNode]
    /\ UNCHANGED <<now, invalid, list, node, op, calls, history>>

\* Group::forEach notes the keys whose nodes are gone, as far as it gets, and drops them under
\* another lock: also one that was added again meanwhile.
GroupForEach ==
    /\ invalid = {}
    /\ invalid' \in SUBSET {k \in Keys : group[k] = DeadNode}
    /\ UNCHANGED <<now, list, node, op, calls, group, history>>

GroupDrop ==
    /\ invalid # {}
    /\ group' = [k \in Keys |-> IF k \in invalid THEN NoNode ELSE group[k]]
    /\ invalid' = {}
    /\ UNCHANGED <<now, list, node, op, calls, history>>

\* Group::get: the weak_ptr is locked.
GroupFind(t, k, v, ttl) ==
    /\ t \in Writers[k]
    /\ ttl \in TTLs[k]
    /\ op[t] = Idle
    /\ group[k] \in NodeIds
    /\ op' = [op EXCEPT ![t] = [at |-> "group", key |-> k, val |-> v, ttl |-> ttl,
                                found |-> group[k], age |-> 0]]
    /\ removed' = removed \ {k}
    /\ UNCHANGED <<now, invalid, list, node, calls, group, last, seen, called>>

\* groupSet changes the time to live and not when the entry expires.  In a node that has left
\* the list it changes nothing anyone reads; the data of a node may have gone to a callback:
\* then the pointer is null, the code dereferences it all the same, and nothing is said of it here.
GroupSet(t) ==
    LET i == op[t].found
        k == op[t].key
    IN
    /\ op[t].at = "group"
    /\ ~node[i].moved
    /\ Release(list, [op EXCEPT ![t] = Idle], calls,
               [node EXCEPT ![i].val = op[t].val, ![i].ttl = op[t].ttl], group)
    /\ IF i \in Listed THEN Became(k, op[t].val) ELSE UNCHANGED last
    /\ UNCHANGED <<now, invalid, seen, removed, called>>

----------------------------------------------------------------------------

Tick ==
    /\ now < MaxTime
    /\ \A t \in Threads : op[t] # Idle => op[t].age < MaxStall
    /\ now' = now + 1
    /\ op' = [t \in Threads |-> IF op[t] = Idle THEN Idle ELSE [op[t] EXCEPT !.age = @ + 1]]
    /\ UNCHANGED <<list, node, calls, group, history, invalid>>

\* set and operator[], which has no time to live of its own.
addOrUpdate(t) ==
    \/ \E k \in Keys : \E v \in Values[k], ttl \in TTLs[k] : SetFind(t, k, v, ttl)
    \/ SetPush(t)
    \/ SetAssign(t)

\* The calls of Context::Global a handler makes on keys, and on a group.
Access(t) ==
    \/ addOrUpdate(t)
    \/ \E k \in Keys : Remove(t, k) \/ \E v \in Values[k] : Apply(t, k, v)

GroupAccess(t) ==
    \/ \E k \in Keys : \E v \in Values[k], ttl \in TTLs[k] : GroupFind(t, k, v, ttl)
    \/ GroupSet(t)

GroupKey(k) == GroupAdd(k) \/ GroupRemove(k)

\* The periodic cleanup, a bucket at a time.
Cleaner == Cleanup \/ OnExpired

Next ==
    \/ Tick \/ Cleaner \/ GroupForEach \/ GroupDrop
    \/ \E k \in Keys : Lookup(k)
    \/ \E k \in GroupKeys : GroupKey(k)
    \/ \E t \in Threads : Access(t) \/ GroupAccess(t)

Spec == Init /\ [][Next]_vars

----------------------------------------------------------------------------

\* A key that only one thread changes is a register with a time to live: while the thread is
\* not changing it there is at most one entry, it holds the last value, and it is there until
\* it was not looked up for its time to live.  Callbacks, cleanups, other keys of the bucket
\* and stalls shorter than the time to live do not matter.
OwnedRegister ==
    \A k \in Owned : (\A t \in Threads : op[t].key # k) =>
        /\ Cardinality(Nodes(k)) <= 1
        /\ \A i \in Nodes(k) : node[i].val = last[k]
        /\ last[k] # NoValue /\ (\A ttl \in TTLs[k] : ttl = 0 \/ now < seen[k] + ttl)
              => Nodes(k) # {}

\* After remove() the key is not found until someone sets it again, even when concurrent
\* set() calls had left several entries of it.
RemoveIsComplete == \A k \in removed : Nodes(k) = {}

\* An entry with a callback does not go without it: an owned key that has a value and no entry
\* has its callback made or due.
NoExpiryUnannounced ==
    \A k \in Owned \cap WithCallback :
        last[k] # NoValue /\ Nodes(k) = {} /\ (\A t \in Threads : op[t].key # k)
            => k \in called \/ \E i \in calls : node[i].key = k
=============================================================================
