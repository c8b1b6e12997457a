-------------------------- MODULE GlobalContextProofs --------------------------
(***************************************************************************)
(* A key with one writer is a register with a time to live, its callback   *)
(* is made, and remove() is complete, for any keys, threads, times to live *)
(* and nodes.                                                              *)
(***************************************************************************)
EXTENDS GlobalContext, FiniteSetTheorems, WellFoundedInduction, TLAPS

AllValues == {NoValue} \cup UNION {Values[k] : k \in Keys}
NodeType == [key : Keys \cup {NoNode}, val : AllValues, ttl : Nat, expires : Nat,
             moved : BOOLEAN]
OpType == [at : {"idle", "push", "assign", "group"}, key : Keys \cup {NoNode}, val : AllValues,
           ttl : Nat, found : NodeIds \cup {NoNode}, age : Nat]

\* Every variable keeps its type.
TypeOK ==
    /\ now \in Nat /\ now <= MaxTime
    /\ list \in Seq(NodeIds)
    /\ node \in [NodeIds -> NodeType]
    /\ op \in [Threads -> OpType]
    /\ calls \subseteq NodeIds
    /\ group \in [Keys -> NodeIds \cup {NoNode, DeadNode}]
    /\ invalid \subseteq Keys
    /\ last \in [Keys -> AllValues]
    /\ seen \in [Keys -> Nat]
    /\ removed \subseteq Keys

\* A node that belongs to key k.
Of(n, i, k) == i \in NodeIds /\ n[i].key = k /\ n[i].ttl \in TTLs[k]

\* The nodes of the list, and those a callback or a group may still reach, belong to a key.
NodesOK(l, n, c, g) ==
    /\ \A i \in Range(l) : \E k \in Keys : Of(n, i, k)
    /\ \A i \in c : n[i].key \in Keys
    /\ \A k \in Keys : g[k] \in NodeIds => Of(n, g[k], k)

\* A change that is under way: the node it found belongs to its key.
OpOK(o, n, t) ==
    \/ o[t] = Idle
    \/ /\ o[t].key \in Keys
       /\ t \in Writers[o[t].key]
       /\ o[t].val \in Values[o[t].key]
       /\ o[t].ttl \in TTLs[o[t].key]
       /\ o[t].age <= MaxStall
       /\ \/ o[t].at = "push"
          \/ o[t].at \in {"assign", "group"} /\ Of(n, o[t].found, o[t].key)

OpsOK(o, n) == \A t \in Threads : OpOK(o, n, t)

\* Someone is about to push an entry of the key.
Pushing(k) == \E t \in Threads : op[t].at = "push" /\ op[t].key = k

\* The entry of a key with one writer: there is one at most, with the last value, it expires
\* a time to live after it was seen, and it goes only then.
EntryOK(k) ==
    /\ \A i, j \in Nodes(k) : i = j
    /\ \A i \in Nodes(k) : /\ node[i].val = last[k]
                           /\ \E ttl \in TTLs[k] :
                                 node[i].expires = IF ttl = 0 THEN Forever ELSE seen[k] + ttl
    /\ last[k] # NoValue /\ Nodes(k) = {} /\ ~Pushing(k)
          => \E ttl \in TTLs[k] : ttl # 0 /\ seen[k] + ttl <= now

\* The writer of a key between its two steps: no entry has come, or the one it found is there
\* and will not expire before the writer goes on.
WriterOK(k) ==
    \A t \in Threads : op[t].key = k =>
        /\ op[t].at = "push" => Nodes(k) = {}
        /\ op[t].at = "assign" => /\ op[t].found \in Nodes(k)
                                  /\ \/ node[op[t].found].expires = Forever
                                     \/ now + MaxStall < node[op[t].found].expires + op[t].age

\* The callback of an entry that is gone.
AnnouncedOK(k) ==
    k \in WithCallback /\ last[k] # NoValue /\ Nodes(k) = {}
        => k \in called \/ \E i \in calls : node[i].key = k

\* A key that is removed has no entry and is not being changed either.
RemovedOK(k) == k \in removed => Nodes(k) = {} /\ \A t \in Threads : op[t].key # k

KeyOK(k) ==
    /\ k \in Owned => EntryOK(k) /\ WriterOK(k) /\ AnnouncedOK(k)
    /\ RemovedOK(k)

\* The inductive invariant.
IInv ==
    /\ TypeOK
    /\ NodesOK(list, node, calls, group)
    /\ OpsOK(op, node)
    /\ \A k \in Keys : KeyOK(k)

\* A step that is not about key k.
Keeps(k) ==
    /\ now' = now
    /\ Nodes(k)' = Nodes(k)
    /\ \A i \in Nodes(k) : node'[i] = node[i]
    /\ last'[k] = last[k] /\ seen'[k] = seen[k]
    /\ \A t \in Threads : op'[t] = op[t] \/ (op[t].key # k /\ op'[t].key # k)
    /\ k \in called => k \in called'
    /\ \A i \in calls : node[i].key = k => i \in calls' /\ node'[i].key = k
    /\ k \in removed' => k \in removed

----------------------------------------------------------------------------
(* Sequences                                                               *)

\* A nonempty set of naturals has a least element.
LEMMA Least ==
    ASSUME NEW T, T \subseteq Nat, T # {}
    PROVE  \E x \in T : \A y \in T : x <= y
<1>1. PICK x \in T : \A y \in T : ~ (<<y, x>> \in OpToRel(<, Nat))
    BY NatLessThanWellFounded, WFMin
<1>2. ASSUME NEW y \in T PROVE x <= y
    <2>1. SUFFICES ASSUME y < x PROVE FALSE
        OBVIOUS
    <2>2. y \in Nat /\ x \in Nat
        OBVIOUS
    <2>3. <<y, x>> \in OpToRel(<, Nat)
        BY <2>1, <2>2 DEF OpToRel
    <2> QED BY <2>3, <1>1
<1> QED BY <1>2

\* The elements of a sequence of nodes are nodes.
LEMMA RangeType ==
    ASSUME NEW l \in Seq(NodeIds)
    PROVE  /\ DOMAIN l = 1..Len(l) /\ Len(l) \in Nat
           /\ Range(l) \subseteq NodeIds
           /\ \A j \in DOMAIN l : l[j] \in Range(l)
BY DEF Range

\* Taking nodes out of a list: the others stay.
LEMMA WithoutFacts ==
    ASSUME NEW l \in Seq(NodeIds), NEW gone
    PROVE  /\ Without(l, gone) \in Seq(NodeIds)
           /\ Range(Without(l, gone)) = Range(l) \ gone
<1> DEFINE kept == {j \in DOMAIN l : l[j] \notin gone}
           upto(j) == {i \in kept : i <= j}
           rank(j) == Cardinality(upto(j))
           n == Cardinality(kept)
           w == [m \in 1..n |-> l[CHOOSE j \in kept : rank(j) = m]]
<1>1. Without(l, gone) = w
    BY DEF Without
<1>2. DOMAIN l = 1..Len(l) /\ Len(l) \in Nat /\ kept \subseteq Nat
    BY RangeType
<1>3. IsFiniteSet(kept) /\ n \in Nat
    <2>1. IsFiniteSet(1..Len(l))
        BY <1>2, FS_Interval
    <2> QED BY <1>2, <2>1, FS_Subset, FS_CardinalityType
<1>4. ASSUME NEW j \in kept
      PROVE  rank(j) \in 1..n
    <2>1. IsFiniteSet(upto(j)) /\ rank(j) <= n
        BY <1>3, FS_Subset
    <2>2. rank(j) \in Nat
        BY <2>1, FS_CardinalityType
    <2>3. j \in upto(j)
        BY <1>2
    <2>4. rank(j) # 0
        BY <2>1, <2>3, FS_EmptySet
    <2> QED BY <1>3, <2>1, <2>2, <2>4
<1>5. ASSUME NEW i \in kept, NEW j \in kept, i < j
      PROVE  rank(i) # rank(j)
    <2>1. upto(i) \in SUBSET upto(j)
        BY <1>2, <1>5
    <2>2. j \in upto(j) /\ j \notin upto(i)
        BY <1>2, <1>5
    <2>3. IsFiniteSet(upto(j))
        BY <1>3, FS_Subset
    <2>4. Cardinality(upto(j)) = Cardinality(upto(i)) => upto(j) = upto(i)
        BY <2>1, <2>3, FS_Subset
    <2> QED BY <2>2, <2>4
<1> DEFINE f == [j \in kept |-> rank(j)]
<1>6. f \in Surjection(kept, 1..n)
    <2>1. f \in [kept -> 1..n]
        BY <1>4
    <2> HIDE DEF rank, upto
    <2>2. ASSUME NEW i \in kept, NEW j \in kept, f[i] = f[j]
          PROVE  i = j
        BY <1>2, <1>5, <2>2
    <2> HIDE DEF f, kept
    <2>3. f \in Injection(kept, 1..n)
        BY <2>1, <2>2 DEF Injection, IsInjective
    <2>4. IsFiniteSet(1..n) /\ Cardinality(1..n) = n
        BY <1>3, FS_Interval
    <2> QED BY <2>3, <2>4, FS_Injection
<1>7. ASSUME NEW m \in 1..n
      PROVE  \E j \in kept : rank(j) = m
    <2> HIDE DEF rank
    <2> QED BY <1>6 DEF Surjection
<1>8. ASSUME NEW m \in 1..n
      PROVE  w[m] \in Range(l) /\ w[m] \notin gone /\ w[m] \in NodeIds
    <2> HIDE DEF rank, upto, n
    <2> DEFINE c == CHOOSE j \in kept : rank(j) = m
    <2>1. c \in kept
        BY <1>7
    <2>2. w[m] = l[c]
        OBVIOUS
    <2> HIDE DEF c, w
    <2> QED BY <2>1, <2>2, RangeType
<1>9. ASSUME NEW x \in Range(l), x \notin gone
      PROVE  x \in Range(w)
    <2>1. PICK j \in DOMAIN l : x = l[j]
        BY DEF Range
    <2>2. j \in kept
        BY <2>1, <1>9
    <2>3. rank(j) \in 1..n
        BY <2>2, <1>4
    <2> DEFINE c == CHOOSE i \in kept : rank(i) = rank(j)
    <2>4. c \in kept /\ rank(c) = rank(j)
        <3> HIDE DEF rank, kept
        <3> QED BY <2>2
    <2>5. w[rank(j)] = l[c]
        BY <2>3
    <2>6. c = j
        <3> HIDE DEF rank, c, upto, n, w
        <3>1. c \in Nat /\ j \in Nat
            BY <2>4, <2>2, <1>2
        <3> QED BY <2>2, <2>4, <1>5, <3>1
    <2> HIDE DEF rank, c, n
    <2> QED BY <2>1, <2>3, <2>5, <2>6 DEF Range
<1>10. w \in Seq(NodeIds)
    <2> HIDE DEF n, rank, kept
    <2>1. w \in [1..n -> NodeIds]
        <3>1. \A m \in 1..n : w[m] \in NodeIds
            BY <1>8
        <3> QED BY <3>1
    <2> HIDE DEF w
    <2> QED BY <2>1, <1>3
<1>11. Range(w) = Range(l) \ gone
    <2>1. DOMAIN w = 1..n
        OBVIOUS
    <2>2. \A x \in Range(w) : \E m \in 1..n : x = w[m]
        BY <2>1 DEF Range
    <2> HIDE DEF w, n
    <2> QED BY <1>8, <1>9, <2>2
<1> HIDE DEF w
<1> QED BY <1>1, <1>10, <1>11

\* findFirstOf finds a node of the key when the list has one.
LEMMA FirstFacts ==
    ASSUME TypeOK, NEW k
    PROVE  /\ Nodes(k) = {} => First(k) = NoNode
           /\ Nodes(k) # {} => First(k) \in Nodes(k)
           /\ First(k) = NoNode \/ First(k) \in Nodes(k)
           /\ First(k) # NoNode <=> First(k) \in Nodes(k)
<1>1. list \in Seq(NodeIds)
    BY DEF TypeOK
<1>2. DOMAIN list = 1..Len(list) /\ Len(list) \in Nat /\ Listed \subseteq NodeIds
    BY <1>1, RangeType DEF Listed
<1>3. ASSUME Nodes(k) # {}
      PROVE  First(k) \in Nodes(k)
    <2> DEFINE J == {j \in DOMAIN list : node[list[j]].key = k}
    <2>1. J # {}
        BY <1>3 DEF Nodes, Listed, Range
    <2>2. J \subseteq Nat
        BY <1>2
    <2>3. PICK m \in J : \A y \in J : m <= y
        <3> HIDE DEF J
        <3> QED BY <2>1, <2>2, Least
    <2>4. \A l \in 1..(m - 1) : node[list[l]].key # k
        <3> SUFFICES ASSUME NEW l \in 1..(m - 1), node[list[l]].key = k
                     PROVE  FALSE
            OBVIOUS
        <3>1. m \in 1..Len(list)
            BY <1>2
        <3>2. l \in DOMAIN list /\ l < m
            BY <1>2, <3>1
        <3> QED BY <2>3, <3>2, <2>2
    <2> DEFINE P(j) == /\ node[list[j]].key = k
                       /\ \A l \in 1..(j - 1) : node[list[l]].key # k
               c == CHOOSE j \in DOMAIN list : P(j)
    <2>5. \E j \in DOMAIN list : P(j)
        BY <2>4
    <2>6. c \in DOMAIN list /\ P(c)
        <3> HIDE DEF P
        <3> QED BY <2>5
    <2>7. First(k) = list[c]
        BY <1>3 DEF First
    <2> HIDE DEF c
    <2> QED BY <2>6, <2>7 DEF Nodes, Listed, Range
<1>4. NoNode \notin Nodes(k)
    BY <1>2, TTLAssumption DEF Nodes
<1> QED BY <1>3, <1>4 DEF First

----------------------------------------------------------------------------
(* What the steps have in common                                           *)

\* The parts of the state, under the invariant.
LEMMA Types ==
    ASSUME IInv
    PROVE  /\ TypeOK
           /\ Listed \subseteq NodeIds
           /\ Forever \in Nat /\ now < Forever
           /\ NoNode \notin NodeIds /\ NoNode \notin Keys /\ MaxStall \in Nat
           /\ Free \in NodeType /\ Idle \in OpType
           /\ \A k \in Keys : KeyOK(k) /\ TTLs[k] \subseteq Nat /\ Values[k] \subseteq AllValues
           /\ \A i \in Listed : node[i].key \in Keys /\ Of(node, i, node[i].key)
           /\ \A i \in NodeIds : node[i] \in NodeType
           /\ \A t \in Threads : op[t] \in OpType
<1>1. TypeOK
    BY DEF IInv
<1>2. Listed \subseteq NodeIds
    BY <1>1, RangeType DEF TypeOK, Listed
<1>3. Forever \in Nat /\ now < Forever
    BY <1>1, TTLAssumption DEF TypeOK, Forever
<1>4. Free \in NodeType /\ Idle \in OpType
    BY DEF Free, Idle, NodeType, OpType, AllValues
<1>5. \A k \in Keys : Values[k] \subseteq AllValues
    BY DEF AllValues
<1>6. \A i \in Listed : node[i].key \in Keys /\ Of(node, i, node[i].key)
    BY DEF IInv, NodesOK, Of, Listed
<1> QED BY <1>1, <1>2, <1>3, <1>4, <1>5, <1>6, TTLAssumption DEF IInv, TypeOK

\* A key with one writer is changed by that thread only.
LEMMA OwnedWriter ==
    ASSUME NEW k \in Owned, NEW t \in Writers[k], NEW u \in Writers[k]
    PROVE  t = u
<1>1. k \in Keys /\ IsFiniteSet(Writers[k]) /\ Cardinality(Writers[k]) = 1
    BY TTLAssumption DEF Owned
<1>2. PICK x : Writers[k] = {x}
    BY <1>1, FS_Singleton
<1> QED BY <1>2

\* While the writer of a key is between its changes nobody else is in one.
LEMMA NobodyElse ==
    ASSUME IInv, NEW k \in Owned, NEW t \in Writers[k], NEW u \in Threads, u # t
    PROVE  op[u].key # k
<1>1. k \in Keys
    BY DEF Owned
<1>2. OpOK(op, node, u)
    BY DEF IInv, OpsOK
<1>3. Idle.key = NoNode /\ NoNode \notin Keys
    BY TTLAssumption DEF Idle
<1> QED BY <1>1, <1>2, <1>3, OwnedWriter DEF OpOK

\* What a release leaves.
LEMMA ReleaseFacts ==
    ASSUME NEW l \in Seq(NodeIds), NEW o \in [Threads -> OpType], NEW c \in SUBSET NodeIds,
           NEW n \in [NodeIds -> NodeType],
           NEW g \in [Keys -> NodeIds \cup {NoNode, DeadNode}],
           Release(l, o, c, n, g), NodesOK(l, n, c, g), OpsOK(o, n)
    PROVE  /\ list' = l /\ op' = o /\ calls' = c
           /\ node' \in [NodeIds -> NodeType]
           /\ group' \in [Keys -> NodeIds \cup {NoNode, DeadNode}]
           /\ \A i \in Range(l) \cup c : i \in NodeIds /\ node'[i] = n[i]
           /\ \A k : Nodes(k)' = {i \in Range(l) : n[i].key = k}
           /\ NodesOK(list', node', calls', group')
           /\ OpsOK(op', node')
<1>1. list' = l /\ op' = o /\ calls' = c
    BY DEF Release
<1> DEFINE H == Held(l, o, c)
<1>2. node' = [i \in NodeIds |-> IF i \in H THEN n[i] ELSE Free]
    BY DEF Release
<1>3. group' = [k \in Keys |-> IF g[k] \in NodeIds \ H THEN DeadNode ELSE g[k]]
    BY DEF Release
<1>4. Range(l) \subseteq NodeIds
    BY RangeType
<1>5. Range(l) \subseteq H /\ c \subseteq H /\ \A t \in Threads : o[t].found \in H
    BY DEF Held
<1> HIDE DEF H
<1>6. Free \in NodeType
    BY DEF Free, NodeType, AllValues
<1>7. node' \in [NodeIds -> NodeType]
    BY <1>2, <1>6
<1>8. group' \in [Keys -> NodeIds \cup {NoNode, DeadNode}]
    BY <1>3
<1>9. \A i \in NodeIds : i \in H => node'[i] = n[i]
    BY <1>2
<1>10. \A i \in Range(l) \cup c : i \in NodeIds /\ node'[i] = n[i]
    BY <1>4, <1>5, <1>9
<1>11. \A k : Nodes(k)' = {i \in Range(l) : n[i].key = k}
    BY <1>1, <1>10 DEF Nodes, Listed
<1>12. \A k \in Keys : group'[k] \in NodeIds => group'[k] = g[k] /\ g[k] \in H
    BY <1>3, TTLAssumption
<1>13. \A i \in H, k \in Keys : Of(n, i, k) => Of(node', i, k)
    BY <1>9 DEF Of
<1>14. NodesOK(list', node', calls', group')
    <2>1. \A i \in Range(l) : \E k \in Keys : Of(node', i, k)
        BY <1>5, <1>13 DEF NodesOK
    <2>2. \A i \in c : node'[i].key \in Keys
        BY <1>10 DEF NodesOK
    <2>3. \A k \in Keys : group'[k] \in NodeIds => Of(node', group'[k], k)
        BY <1>12, <1>13 DEF NodesOK
    <2> QED BY <1>1, <2>1, <2>2, <2>3 DEF NodesOK
<1>15. OpsOK(op', node')
    <2> SUFFICES ASSUME NEW t \in Threads
                 PROVE  OpOK(o, node', t)
        BY <1>1 DEF OpsOK
    <2>1. OpOK(o, n, t)
        BY DEF OpsOK
    <2> QED BY <2>1, <1>5, <1>13 DEF OpOK
<1> QED BY <1>1, <1>7, <1>8, <1>10, <1>11, <1>14, <1>15

\* What holds of a key goes on when the step is not about it.
LEMMA KeepsKey ==
    ASSUME IInv, NEW k \in Keys, Keeps(k)
    PROVE  KeyOK(k)'
<1> USE DEF Keeps
<1>1. KeyOK(k)
    BY DEF IInv
<1>2. Pushing(k)' = Pushing(k)
    BY DEF Pushing
<1>3. ASSUME k \in Owned PROVE EntryOK(k)'
    <2>1. EntryOK(k)
        BY <1>1, <1>3 DEF KeyOK
    <2> QED BY <2>1, <1>2 DEF EntryOK
<1>4. ASSUME k \in Owned PROVE WriterOK(k)'
    <2>1. WriterOK(k)
        BY <1>1, <1>4 DEF KeyOK
    <2> QED BY <2>1 DEF WriterOK
<1>5. ASSUME k \in Owned PROVE AnnouncedOK(k)'
    <2>1. AnnouncedOK(k)
        BY <1>1, <1>5 DEF KeyOK
    <2> QED BY <2>1 DEF AnnouncedOK
<1>6. RemovedOK(k)'
    BY <1>1 DEF KeyOK, RemovedOK
<1> QED BY <1>3, <1>4, <1>5, <1>6 DEF KeyOK, Owned

\* Nodes keep their keys, so a step that takes nodes out, hands them to callbacks or ends
\* changes leaves the rest as they were.
LEMMA Carry ==
    ASSUME IInv, NEW l, NEW o, NEW c, NEW n,
           Range(l) \subseteq Listed, c \subseteq calls \cup Listed,
           \A t \in Threads : o[t] = op[t] \/ o[t] = Idle,
           \A i \in NodeIds : /\ n[i].key = node[i].key
                              /\ n[i].ttl = node[i].ttl \/ n[i].ttl \in TTLs[node[i].key]
    PROVE  NodesOK(l, n, c, group) /\ OpsOK(o, n)
<1>1. \A i \in NodeIds, k \in Keys : Of(node, i, k) => Of(n, i, k)
    BY DEF Of
<1>2. calls \subseteq NodeIds /\ Listed \subseteq NodeIds
    BY Types DEF TypeOK
<1>3. NodesOK(list, node, calls, group) /\ OpsOK(op, node)
    BY DEF IInv
<1>4. \A i \in Range(l) : \E k \in Keys : Of(n, i, k)
    BY <1>1, <1>2, <1>3 DEF NodesOK, Listed
<1>5. \A i \in c : n[i].key \in Keys
    BY <1>2, <1>3, Types DEF NodesOK
<1>6. \A k \in Keys : group[k] \in NodeIds => Of(n, group[k], k)
    BY <1>1, <1>3 DEF NodesOK
<1>7. ASSUME NEW t \in Threads PROVE OpOK(o, n, t)
    <2>1. OpOK(op, node, t)
        BY <1>3 DEF OpsOK
    <2>2. \A i : \A k \in Keys : Of(node, i, k) => Of(n, i, k)
        BY <1>1 DEF Of
    <2> QED BY <2>1, <2>2 DEF OpOK
<1> QED BY <1>4, <1>5, <1>6, <1>7 DEF NodesOK, OpsOK

\* Renewing the first entry of a key.
LEMMA FoundFacts ==
    ASSUME IInv, NEW k \in Keys, First(k) # NoNode
    PROVE  /\ First(k) \in Nodes(k) /\ First(k) \in NodeIds
           /\ Found(First(k)) \in [NodeIds -> NodeType]
           /\ \A j \in NodeIds : /\ Found(First(k))[j].key = node[j].key
                                 /\ Found(First(k))[j].val = node[j].val
                                 /\ Found(First(k))[j].ttl = node[j].ttl
                                 /\ j # First(k) => Found(First(k))[j] = node[j]
           /\ \E ttl \in TTLs[k] :
                 /\ ttl = 0 \/ MaxStall < ttl
                 /\ Found(First(k))[First(k)].expires = IF ttl = 0 THEN Forever ELSE now + ttl
<1> DEFINE i == First(k)
<1>1. i \in Nodes(k)
    BY Types, FirstFacts
<1>2. i \in Listed /\ node[i].key = k
    BY <1>1 DEF Nodes
<1>3. i \in NodeIds /\ Of(node, i, k)
    BY <1>2, Types
<1> HIDE DEF i
<1>4. Found(i) = [node EXCEPT ![i] = [node[i] EXCEPT !.expires = ExpiresAt(node[i].ttl)]]
    BY <1>3, Types DEF Found, Renewed, TypeOK
<1>5. node[i] \in NodeType /\ node \in [NodeIds -> NodeType]
    BY <1>3, Types DEF TypeOK
<1>6. ExpiresAt(node[i].ttl) \in Nat
    BY <1>5, Types DEF ExpiresAt, TypeOK, NodeType
<1>7. [node[i] EXCEPT !.expires = ExpiresAt(node[i].ttl)] \in NodeType
    BY <1>5, <1>6 DEF NodeType
<1>8. Found(i) \in [NodeIds -> NodeType]
    BY <1>4, <1>5, <1>7
<1>9. \A j \in NodeIds : /\ Found(i)[j].key = node[j].key
                         /\ Found(i)[j].val = node[j].val
                         /\ Found(i)[j].ttl = node[j].ttl
                         /\ j # i => Found(i)[j] = node[j]
    BY <1>4, <1>5 DEF NodeType
<1>10. Found(i)[i].expires = ExpiresAt(node[i].ttl)
    BY <1>3, <1>4, <1>5 DEF NodeType
<1>11. node[i].ttl \in TTLs[k] /\ (node[i].ttl = 0 \/ MaxStall < node[i].ttl)
    BY <1>3, TTLAssumption DEF Of
<1> QED BY <1>1, <1>3, <1>8, <1>9, <1>10, <1>11 DEF i, ExpiresAt

\* The history of a key.
LEMMA BecameFacts ==
    ASSUME IInv, NEW k \in Keys, NEW v \in AllValues, Became(k, v)
    PROVE  /\ last' \in [Keys -> AllValues]
           /\ k \in Owned => last'[k] = v
           /\ \A j \in Keys : j # k => last'[j] = last[j]
BY Types DEF TypeOK, Became

LEMMA SawFacts ==
    ASSUME IInv, NEW k \in Keys, Saw(k)
    PROVE  /\ seen' \in [Keys -> Nat]
           /\ k \in Owned => seen'[k] = now
           /\ \A j \in Keys : j # k => seen'[j] = seen[j]
BY Types DEF TypeOK, Saw

\* An entry that is renewed is good for its time to live.
LEMMA RenewedEntry ==
    ASSUME IInv, NEW k \in Keys, First(k) # NoNode, k \in Owned,
           list' = list, now' = now, Nodes(k)' = Nodes(k), seen'[k] = now,
           \A i \in Nodes(k) : node'[i].val = last'[k],
           node'[First(k)].expires = Found(First(k))[First(k)].expires
    PROVE  /\ EntryOK(k)'
           /\ AnnouncedOK(k)'
           /\ \/ node'[First(k)].expires = Forever
              \/ now + MaxStall < node'[First(k)].expires
<1>1. EntryOK(k)
    BY Types DEF KeyOK
<1>2. First(k) \in Nodes(k) /\ \A i \in Nodes(k) : i = First(k)
    BY <1>1, FoundFacts DEF EntryOK
<1>3. PICK ttl \in TTLs[k] :
          /\ ttl = 0 \/ MaxStall < ttl
          /\ Found(First(k))[First(k)].expires = IF ttl = 0 THEN Forever ELSE now + ttl
    BY FoundFacts
<1>4. EntryOK(k)'
    BY <1>2, <1>3 DEF EntryOK, Forever
<1>5. AnnouncedOK(k)'
    BY <1>2 DEF AnnouncedOK
<1>6. ttl \in Nat /\ now \in Nat /\ MaxStall \in Nat
    BY Types DEF TypeOK
<1> QED BY <1>3, <1>4, <1>5, <1>6

LEMMA LookupStep ==
    ASSUME IInv, NEW k \in Keys, Lookup(k)
    PROVE  IInv'
<1> DEFINE i == First(k)
<1>1. /\ i # NoNode /\ node' = Found(i) /\ Saw(k)
      /\ UNCHANGED <<now, invalid, list, op, calls, group, last, removed, called>>
    BY DEF Lookup
<1>2. i \in Nodes(k) /\ i \in NodeIds
    BY <1>1, FoundFacts
<1>3. /\ node' \in [NodeIds -> NodeType]
      /\ \A j \in NodeIds : /\ node'[j].key = node[j].key
                            /\ node'[j].val = node[j].val
                            /\ node'[j].ttl = node[j].ttl
                            /\ j # i => node'[j] = node[j]
    BY <1>1, FoundFacts
<1> HIDE DEF i
<1>4. Listed \subseteq NodeIds /\ calls \subseteq NodeIds /\ Listed' = Listed
    BY <1>1, Types DEF TypeOK, Listed
<1>5. TypeOK'
    BY <1>1, <1>3, Types, SawFacts DEF TypeOK
<1>6. NodesOK(list', node', calls', group') /\ OpsOK(op', node')
    BY <1>1, <1>3, Carry DEF Listed
<1>7. \A j : Nodes(j)' = Nodes(j)
    BY <1>3, <1>4 DEF Nodes
<1>8. ASSUME NEW j \in Keys, j # k PROVE KeyOK(j)'
    <2>1. \A x \in Nodes(j) : x \in NodeIds /\ x # i
        BY <1>2, <1>4, <1>8 DEF Nodes
    <2>2. Keeps(j)
        BY <1>1, <1>3, <1>4, <1>7, <1>8, <2>1, SawFacts DEF Keeps
    <2> QED BY <2>2, KeepsKey
<1>9. KeyOK(k)'
    <2>1. KeyOK(k)
        BY Types
    <2>2. RemovedOK(k)'
        BY <1>1, <1>7, <2>1 DEF KeyOK, RemovedOK
    <2>3. ASSUME k \in Owned PROVE EntryOK(k)' /\ WriterOK(k)' /\ AnnouncedOK(k)'
        <3>1. EntryOK(k) /\ WriterOK(k)
            BY <2>1, <2>3 DEF KeyOK
        <3>2. \A x \in Nodes(k) : node'[x].val = last'[k]
            BY <1>1, <1>3, <1>4, <3>1 DEF EntryOK, Nodes
        <3>3. /\ EntryOK(k)' /\ AnnouncedOK(k)'
              /\ node'[i].expires = Forever \/ now + MaxStall < node'[i].expires
            BY <1>1, <1>7, <2>3, <3>2, SawFacts, RenewedEntry DEF i
        <3>4. WriterOK(k)'
            <4> SUFFICES ASSUME NEW t \in Threads, op[t].key = k, op[t].at = "assign"
                         PROVE  /\ op[t].found \in Nodes(k)
                                /\ \/ node'[op[t].found].expires = Forever
                                   \/ now + MaxStall < node'[op[t].found].expires + op[t].age
                BY <1>1, <1>2, <1>7, <3>1 DEF WriterOK, Forever
            <4>1. op[t].found \in Nodes(k) /\ op[t].found = i
                BY <1>2, <3>1 DEF WriterOK, EntryOK
            <4>2. op[t].age \in Nat /\ node'[i].expires \in Nat /\ now \in Nat /\ MaxStall \in Nat
                BY <1>2, <1>3, Types DEF OpType, NodeType, TypeOK
            <4> QED BY <3>3, <4>1, <4>2
        <3> QED BY <3>3, <3>4
    <2> QED BY <2>2, <2>3 DEF KeyOK, Owned
<1> QED BY <1>5, <1>6, <1>8, <1>9 DEF IInv

LEMMA ApplyStep ==
    ASSUME IInv, NEW t \in Threads, NEW k \in Keys, NEW v \in Values[k], Apply(t, k, v)
    PROVE  IInv'
<1> DEFINE i == First(k)
           n == Found(i)
<1>1. /\ t \in Writers[k] /\ op[t] = Idle /\ i # NoNode
      /\ node' = [n EXCEPT ![i].val = v] /\ Saw(k) /\ Became(k, v)
      /\ UNCHANGED <<now, invalid, list, op, calls, group, removed, called>>
    BY DEF Apply
<1>2. i \in Nodes(k) /\ i \in NodeIds /\ v \in AllValues
    BY <1>1, FoundFacts, Types
<1>3. /\ n \in [NodeIds -> NodeType]
      /\ \A j \in NodeIds : /\ n[j].key = node[j].key
                            /\ n[j].ttl = node[j].ttl
                            /\ j # i => n[j] = node[j]
    BY <1>1, FoundFacts
<1> HIDE DEF n
<1>4. /\ node' \in [NodeIds -> NodeType]
      /\ node'[i].val = v
      /\ node'[i].expires = n[i].expires
      /\ \A j \in NodeIds : /\ node'[j].key = node[j].key
                            /\ node'[j].ttl = node[j].ttl
                            /\ j # i => node'[j] = node[j]
    BY <1>1, <1>2, <1>3 DEF NodeType
<1> HIDE DEF i
<1>5. Listed \subseteq NodeIds /\ calls \subseteq NodeIds /\ Listed' = Listed
    BY <1>1, Types DEF TypeOK, Listed
<1>6. TypeOK'
    BY <1>1, <1>2, <1>4, Types, SawFacts, BecameFacts DEF TypeOK
<1>7. NodesOK(list', node', calls', group') /\ OpsOK(op', node')
    BY <1>1, <1>4, Carry DEF Listed
<1>8. \A j : Nodes(j)' = Nodes(j)
    BY <1>4, <1>5 DEF Nodes
<1>9. ASSUME NEW j \in Keys, j # k PROVE KeyOK(j)'
    <2>1. \A x \in Nodes(j) : x \in NodeIds /\ x # i
        BY <1>2, <1>5, <1>9 DEF Nodes
    <2>2. Keeps(j)
        BY <1>1, <1>2, <1>4, <1>5, <1>8, <1>9, <2>1, SawFacts, BecameFacts DEF Keeps
    <2> QED BY <2>2, KeepsKey
<1>10. KeyOK(k)'
    <2>1. KeyOK(k)
        BY Types
    <2>2. RemovedOK(k)'
        BY <1>1, <1>8, <2>1 DEF KeyOK, RemovedOK
    <2>3. ASSUME k \in Owned PROVE EntryOK(k)' /\ WriterOK(k)' /\ AnnouncedOK(k)'
        <3>1. EntryOK(k)
            BY <2>1, <2>3 DEF KeyOK
        <3>2. last'[k] = v
            BY <1>1, <1>2, <2>3, BecameFacts
        <3>3. \A x \in Nodes(k) : node'[x].val = last'[k]
            BY <1>2, <1>4, <3>1, <3>2 DEF EntryOK
        <3>4. EntryOK(k)' /\ AnnouncedOK(k)'
            BY <1>1, <1>4, <1>8, <2>3, <3>3, SawFacts, RenewedEntry DEF i, n
        <3>5. \A u \in Threads : op[u].key # k
            <4>1. op[t].key # k
                BY <1>1, Types DEF Idle
            <4> QED BY <1>1, <2>3, <4>1, NobodyElse
        <3>6. WriterOK(k)'
            BY <1>1, <3>5 DEF WriterOK
        <3> QED BY <3>4, <3>6
    <2> QED BY <2>2, <2>3 DEF KeyOK, Owned
<1> QED BY <1>6, <1>7, <1>9, <1>10 DEF IInv

LEMMA SetFindStep ==
    ASSUME IInv, NEW t \in Threads, NEW k \in Keys, NEW v \in Values[k], NEW ttl \in TTLs[k],
           SetFind(t, k, v, ttl)
    PROVE  IInv'
<1> DEFINE i == First(k)
           r == [at |-> IF i = NoNode THEN "push" ELSE "assign", key |-> k,
                 val |-> v, ttl |-> ttl, found |-> i, age |-> 0]
<1>1. /\ t \in Writers[k] /\ op[t] = Idle /\ op' = [op EXCEPT ![t] = r]
      /\ node' = IF i = NoNode THEN node ELSE Found(i)
      /\ Saw(k) /\ removed' = removed \ {k}
      /\ UNCHANGED <<now, invalid, list, calls, group, last, called>>
    BY DEF SetFind
<1>2. i # NoNode => i \in Nodes(k) /\ i \in NodeIds
    BY FoundFacts
<1>3. i = NoNode => Nodes(k) = {}
    BY Types, FirstFacts
<1>4. /\ node' \in [NodeIds -> NodeType]
      /\ \A j \in NodeIds : /\ node'[j].key = node[j].key
                            /\ node'[j].val = node[j].val
                            /\ node'[j].ttl = node[j].ttl
                            /\ j # i => node'[j] = node[j]
    BY <1>1, FoundFacts, Types DEF TypeOK
<1>5. Listed \subseteq NodeIds /\ calls \subseteq NodeIds /\ Listed' = Listed
    BY <1>1, Types DEF TypeOK, Listed
<1>6. r \in OpType
    BY <1>2, Types DEF OpType
<1>7. op' \in [Threads -> OpType] /\ op'[t] = r /\ \A u \in Threads : u # t => op'[u] = op[u]
    BY <1>1, <1>6, Types DEF TypeOK
<1>8. /\ r.key = k /\ r.found = i /\ r.age = 0 /\ r.val = v /\ r.ttl = ttl
      /\ r.at = IF i = NoNode THEN "push" ELSE "assign"
    OBVIOUS
<1> HIDE DEF i, r
<1>9. TypeOK'
    BY <1>1, <1>4, <1>7, Types, SawFacts DEF TypeOK
<1>10. NodesOK(list', node', calls', group') /\ OpsOK(op, node')
    BY <1>1, <1>4, Carry DEF Listed
<1>11. OpsOK(op', node')
    <2>1. OpOK(op', node', t)
        <3>1. i # NoNode => Of(node', i, k)
            BY <1>2, <1>4, <1>5, Types DEF Nodes, Of
        <3> QED BY <1>1, <1>7, <1>8, <3>1, Types DEF OpOK
    <2>2. \A u \in Threads : u # t => OpOK(op', node', u)
        BY <1>7, <1>10 DEF OpsOK, OpOK
    <2> QED BY <2>1, <2>2 DEF OpsOK
<1>12. \A j : Nodes(j)' = Nodes(j)
    BY <1>4, <1>5 DEF Nodes
<1>13. op[t].key \notin Keys
    BY <1>1, Types DEF Idle
<1>14. ASSUME NEW j \in Keys, j # k PROVE KeyOK(j)'
    <2>1. \A x \in Nodes(j) : x \in NodeIds /\ x # i
        BY <1>2, <1>5, <1>14, Types DEF Nodes
    <2>2. Keeps(j)
        BY <1>1, <1>2, <1>4, <1>5, <1>7, <1>8, <1>12, <1>13, <1>14, <2>1, SawFacts DEF Keeps
    <2> QED BY <2>2, KeepsKey
<1>15. KeyOK(k)'
    <2>1. KeyOK(k)
        BY Types
    <2>2. RemovedOK(k)'
        BY <1>1 DEF RemovedOK
    <2>3. ASSUME k \in Owned PROVE EntryOK(k)' /\ WriterOK(k)' /\ AnnouncedOK(k)'
        <3>1. EntryOK(k) /\ AnnouncedOK(k)
            BY <2>1, <2>3 DEF KeyOK
        <3>2. \A u \in Threads : op'[u].key = k => u = t
            BY <1>1, <1>7, <2>3, NobodyElse
        <3>3. CASE i = NoNode
            <4>1. Nodes(k)' = {}
                BY <1>3, <1>12, <3>3
            <4>2. Pushing(k)'
                BY <1>7, <1>8, <3>3 DEF Pushing
            <4>3. EntryOK(k)'
                BY <4>1, <4>2 DEF EntryOK
            <4>4. WriterOK(k)'
                BY <1>7, <1>8, <3>2, <3>3, <4>1 DEF WriterOK
            <4>5. AnnouncedOK(k)'
                BY <1>1, <1>12, <3>1, <3>3 DEF AnnouncedOK
            <4> QED BY <4>3, <4>4, <4>5
        <3>4. CASE i # NoNode
            <4>1. \A x \in Nodes(k) : node'[x].val = last'[k]
                BY <1>1, <1>4, <1>5, <3>1 DEF EntryOK, Nodes
            <4>2. /\ EntryOK(k)' /\ AnnouncedOK(k)'
                  /\ node'[i].expires = Forever \/ now + MaxStall < node'[i].expires
                BY <1>1, <1>12, <2>3, <3>4, <4>1, SawFacts, RenewedEntry DEF i
            <4>3. node'[i].expires \in Nat
                BY <1>2, <1>4, <3>4 DEF NodeType
            <4>4. WriterOK(k)'
                BY <1>1, <1>2, <1>7, <1>8, <1>12, <3>2, <3>4, <4>2, <4>3 DEF WriterOK, Forever
            <4> QED BY <4>2, <4>4
        <3> QED BY <3>3, <3>4
    <2> QED BY <2>2, <2>3 DEF KeyOK, Owned
<1> QED BY <1>9, <1>10, <1>11, <1>14, <1>15 DEF IInv

\* A thread that ends its change.
LEMMA EndFacts ==
    ASSUME IInv, NEW t \in Threads
    PROVE  LET o == [op EXCEPT ![t] = Idle] IN
           /\ o \in [Threads -> OpType]
           /\ o[t] = Idle /\ o[t].key \notin Keys
           /\ \A u \in Threads : u # t => o[u] = op[u]
           /\ \A u \in Threads : o[u] = op[u] \/ o[u] = Idle
BY Types DEF TypeOK, Idle

\* A change that is under way is of a key.
LEMMA ChangeFacts ==
    ASSUME IInv, NEW t \in Threads, op[t].at \in {"push", "assign", "group"}
    PROVE  /\ op[t].key \in Keys /\ t \in Writers[op[t].key]
           /\ op[t].val \in Values[op[t].key] /\ op[t].val \in AllValues
           /\ op[t].ttl \in TTLs[op[t].key] /\ op[t].ttl \in Nat
           /\ op[t].at \in {"assign", "group"} => Of(node, op[t].found, op[t].key)
<1>1. OpOK(op, node, t)
    BY DEF IInv, OpsOK
<1>2. op[t] # Idle
    BY DEF Idle
<1> QED BY <1>1, <1>2, Types DEF OpOK

LEMMA SetPushStep ==
    ASSUME IInv, NEW t \in Threads, SetPush(t)
    PROVE  IInv'
<1>0. op[t].key \in Keys
    BY ChangeFacts DEF SetPush
<1> SUFFICES ASSUME NEW k \in Keys, k = op[t].key
             PROVE  IInv'
    BY <1>0
<1> DEFINE o == [op EXCEPT ![t] = Idle]
           x == [key |-> k, val |-> op[t].val, ttl |-> op[t].ttl,
                 expires |-> ExpiresAt(op[t].ttl), moved |-> FALSE]
<1>1. op[t].at = "push" /\ UNCHANGED <<now, invalid, removed>>
    BY DEF SetPush
<1>2. PICK i \in NodeIds :
          /\ node[i] = Free
          /\ Release(<<i>> \o list, o, calls, [node EXCEPT ![i] = x], group)
          /\ Became(k, op[t].val) /\ Saw(k) /\ called' = called \ {k}
    BY DEF SetPush
<1> DEFINE l == <<i>> \o list
           n == [node EXCEPT ![i] = x]
<1>3. /\ k \in Keys /\ t \in Writers[k] /\ op[t].val \in AllValues
      /\ op[t].ttl \in TTLs[k] /\ op[t].ttl \in Nat
    BY <1>1, ChangeFacts
<1>4. ExpiresAt(op[t].ttl) \in Nat
    BY <1>3, Types DEF ExpiresAt, TypeOK
<1>5. x \in NodeType
    BY <1>3, <1>4 DEF NodeType
<1>6. n \in [NodeIds -> NodeType] /\ n[i] = x /\ \A j \in NodeIds : j # i => n[j] = node[j]
    BY <1>5, Types DEF TypeOK
<1>7. list \in Seq(NodeIds)
    BY Types DEF TypeOK
<1>8. l \in Seq(NodeIds) /\ Range(l) = Listed \cup {i}
    <2>1. l \in Seq(NodeIds) /\ Len(l) = Len(list) + 1 /\ l[1] = i
        BY <1>7
    <2>2. \A m \in 1..Len(list) : l[m + 1] = list[m]
        BY <1>7
    <2>3. \A m \in 1..Len(l) : m = 1 \/ (m - 1 \in 1..Len(list) /\ l[m] = list[m - 1])
        BY <1>7
    <2>4. DOMAIN l = 1..Len(l) /\ DOMAIN list = 1..Len(list) /\ Len(list) \in Nat
        BY <1>7, <2>1
    <2> HIDE DEF l
    <2>5. Range(l) \subseteq Listed \cup {i}
        BY <2>1, <2>3, <2>4 DEF Listed, Range
    <2>6. Listed \subseteq Range(l)
        <3> SUFFICES ASSUME NEW m \in 1..Len(list) PROVE list[m] \in Range(l)
            BY <2>4 DEF Listed, Range
        <3>1. m + 1 \in 1..Len(l)
            BY <2>1, <2>4
        <3> QED BY <2>2, <2>4, <3>1 DEF Range
    <2>7. i \in Range(l)
        BY <2>1, <2>4 DEF Range
    <2> QED BY <2>1, <2>5, <2>6, <2>7
<1>9. /\ o \in [Threads -> OpType] /\ o[t] = Idle /\ o[t].key \notin Keys
      /\ \A u \in Threads : u # t => o[u] = op[u]
      /\ \A u \in Threads : o[u] = op[u] \/ o[u] = Idle
    BY EndFacts
<1>10. node[i].key \notin Keys
    BY <1>2, Types DEF Free
<1>11. Listed \subseteq NodeIds /\ calls \subseteq NodeIds /\ i \notin Listed
    BY <1>10, Types DEF TypeOK
<1>12. x.key = k /\ x.val = op[t].val /\ x.ttl = op[t].ttl /\ x.expires = ExpiresAt(op[t].ttl)
    OBVIOUS
<1> HIDE DEF o, x, l, n
<1>13. NodesOK(l, n, calls, group) /\ OpsOK(o, n)
    <2>1. NodesOK(list, node, calls, group) /\ OpsOK(op, node)
        BY DEF IInv
    <2>2. \A j : \A q \in Keys : Of(node, j, q) => Of(n, j, q)
        BY <1>6, <1>10 DEF Of
    <2>3. Of(n, i, k)
        BY <1>3, <1>6, <1>12 DEF Of
    <2>4. NodesOK(l, n, calls, group)
        BY <1>3, <1>6, <1>8, <1>10, <1>11, <2>1, <2>2, <2>3 DEF NodesOK, Listed
    <2>5. OpsOK(o, n)
        BY <1>9, <2>1, <2>2 DEF OpsOK, OpOK
    <2> QED BY <2>4, <2>5
<1>14. group \in [Keys -> NodeIds \cup {NoNode, DeadNode}]
    BY Types DEF TypeOK
<1>15. Release(l, o, calls, n, group)
    BY <1>2 DEF l, o, n, x
<1>16. /\ list' = l /\ op' = o /\ calls' = calls
       /\ node' \in [NodeIds -> NodeType]
       /\ group' \in [Keys -> NodeIds \cup {NoNode, DeadNode}]
       /\ \A j \in Range(l) \cup calls : j \in NodeIds /\ node'[j] = n[j]
       /\ \A q : Nodes(q)' = {j \in Range(l) : n[j].key = q}
       /\ NodesOK(list', node', calls', group')
       /\ OpsOK(op', node')
    BY <1>6, <1>8, <1>9, <1>11, <1>13, <1>14, <1>15, ReleaseFacts
<1>17. TypeOK'
    BY <1>1, <1>2, <1>3, <1>8, <1>9, <1>11, <1>16, Types, SawFacts, BecameFacts DEF TypeOK
<1>18. ASSUME NEW q \in Keys, q # k PROVE Nodes(q)' = Nodes(q)
    BY <1>6, <1>8, <1>11, <1>12, <1>16, <1>18 DEF Nodes
<1>19. \A j \in Listed \cup calls : j # i => node'[j] = node[j]
    BY <1>6, <1>8, <1>11, <1>16
<1>20. ASSUME NEW q \in Keys, q # k PROVE KeyOK(q)'
    <2>1. \A j \in Nodes(q) : node'[j] = node[j]
        BY <1>11, <1>19 DEF Nodes
    <2>2. \A j \in calls : node[j].key = q => j \in calls' /\ node'[j].key = q
        BY <1>10, <1>16, <1>19
    <2>3. \A u \in Threads : op'[u] = op[u] \/ (op[u].key # q /\ op'[u].key # q)
        BY <1>9, <1>16, <1>20
    <2>4. Keeps(q)
        BY <1>1, <1>2, <1>3, <1>18, <1>20, <2>1, <2>2, <2>3, SawFacts, BecameFacts DEF Keeps
    <2> QED BY <2>4, KeepsKey
<1>21. KeyOK(k)'
    <2>1. KeyOK(k)
        BY <1>3, Types
    <2>2. RemovedOK(k)'
        BY <1>1, <2>1 DEF KeyOK, RemovedOK
    <2>3. ASSUME k \in Owned PROVE EntryOK(k)' /\ WriterOK(k)' /\ AnnouncedOK(k)'
        <3>1. Nodes(k) = {}
            BY <1>1, <2>1, <2>3 DEF KeyOK, WriterOK
        <3>2. Nodes(k)' = {i}
            BY <1>6, <1>8, <1>11, <1>12, <1>16, <3>1 DEF Nodes
        <3>3. \A u \in Threads : op'[u].key # k
            BY <1>3, <1>9, <1>16, <2>3, NobodyElse
        <3>4. node'[i] = x
            BY <1>6, <1>8, <1>16
        <3>5. last'[k] = op[t].val /\ seen'[k] = now
            BY <1>2, <1>3, <2>3, SawFacts, BecameFacts
        <3>6. EntryOK(k)'
            BY <1>3, <1>12, <3>2, <3>4, <3>5 DEF EntryOK, ExpiresAt, Forever
        <3>7. WriterOK(k)' /\ AnnouncedOK(k)'
            BY <3>2, <3>3 DEF WriterOK, AnnouncedOK
        <3> QED BY <3>6, <3>7
    <2> QED BY <2>2, <2>3 DEF KeyOK, Owned
<1> QED BY <1>16, <1>17, <1>20, <1>21 DEF IInv

\* A thread that found an entry writes to it and is done.
LEMMA WriteStep ==
    ASSUME IInv, NEW t \in Threads, op[t].at \in {"assign", "group"},
           NEW y \in NodeType, y.key = op[t].key, y.val = op[t].val,
           y.ttl \in TTLs[op[t].key], y.expires = node[op[t].found].expires,
           Release(list, [op EXCEPT ![t] = Idle], calls,
                   [node EXCEPT ![op[t].found] = y], group),
           UNCHANGED <<now, invalid, seen, removed, called>>,
           IF op[t].found \in Listed THEN Became(op[t].key, op[t].val)
           ELSE last' = last \/ (op[t].key \notin Owned /\ Became(op[t].key, op[t].val))
    PROVE  IInv'
<1>1. op[t].key \in Keys /\ op[t].found \in NodeIds
    BY ChangeFacts DEF Of
<1> SUFFICES ASSUME NEW k \in Keys, k = op[t].key, NEW i \in NodeIds, i = op[t].found
             PROVE  IInv'
    BY <1>1
<1> DEFINE o == [op EXCEPT ![t] = Idle]
           n == [node EXCEPT ![i] = y]
<1>2. t \in Writers[k] /\ op[t].val \in AllValues /\ node[i].key = k
    BY ChangeFacts DEF Of
<1>3. n \in [NodeIds -> NodeType] /\ n[i] = y /\ \A j \in NodeIds : j # i => n[j] = node[j]
    BY Types DEF TypeOK
<1>4. /\ o \in [Threads -> OpType] /\ o[t] = Idle /\ o[t].key \notin Keys
      /\ \A u \in Threads : u # t => o[u] = op[u]
      /\ \A u \in Threads : o[u] = op[u] \/ o[u] = Idle
    BY EndFacts
<1>5. Release(list, o, calls, n, group)
    OBVIOUS
<1> HIDE DEF o, n
<1>6. NodesOK(list, n, calls, group) /\ OpsOK(o, n)
    <2>1. \A j \in NodeIds : /\ n[j].key = node[j].key
                             /\ n[j].ttl = node[j].ttl \/ n[j].ttl \in TTLs[node[j].key]
        BY <1>2, <1>3
    <2> QED BY <1>4, <2>1, Carry DEF Listed
<1>7. /\ list \in Seq(NodeIds) /\ calls \subseteq NodeIds /\ Listed \subseteq NodeIds
      /\ group \in [Keys -> NodeIds \cup {NoNode, DeadNode}]
    BY Types DEF TypeOK
<1>8. /\ list' = list /\ op' = o /\ calls' = calls
      /\ node' \in [NodeIds -> NodeType]
      /\ group' \in [Keys -> NodeIds \cup {NoNode, DeadNode}]
      /\ \A j \in Listed \cup calls : j \in NodeIds /\ node'[j] = n[j]
      /\ \A q : Nodes(q)' = {j \in Listed : n[j].key = q}
      /\ NodesOK(list', node', calls', group')
      /\ OpsOK(op', node')
    BY <1>3, <1>4, <1>5, <1>6, <1>7, ReleaseFacts DEF Listed
<1>9. /\ last' \in [Keys -> AllValues]
      /\ \A q \in Keys : q # k => last'[q] = last[q]
      /\ k \in Owned => last'[k] = IF i \in Listed THEN op[t].val ELSE last[k]
    BY <1>2, BecameFacts, Types DEF TypeOK
<1>10. TypeOK'
    BY <1>4, <1>7, <1>8, <1>9, Types DEF TypeOK
<1>11. \A q : Nodes(q)' = Nodes(q)
    BY <1>2, <1>3, <1>7, <1>8 DEF Nodes
<1>12. \A j \in Listed \cup calls : j # i => node'[j] = node[j]
    BY <1>3, <1>8
<1>13. \A j \in calls : node'[j].key = node[j].key
    BY <1>2, <1>3, <1>8
<1>14. ASSUME NEW q \in Keys, q # k PROVE KeyOK(q)'
    <2>1. \A j \in Nodes(q) : node'[j] = node[j]
        BY <1>2, <1>12, <1>14 DEF Nodes
    <2>2. \A u \in Threads : op'[u] = op[u] \/ (op[u].key # q /\ op'[u].key # q)
        BY <1>4, <1>8, <1>14
    <2>3. Keeps(q)
        BY <1>8, <1>9, <1>11, <1>13, <1>14, <2>1, <2>2 DEF Keeps
    <2> QED BY <2>3, KeepsKey
<1>15. KeyOK(k)'
    <2>1. KeyOK(k)
        BY Types
    <2>2. RemovedOK(k)'
        BY <2>1 DEF KeyOK, RemovedOK
    <2>3. ASSUME k \in Owned PROVE EntryOK(k)' /\ WriterOK(k)' /\ AnnouncedOK(k)'
        <3>1. EntryOK(k) /\ AnnouncedOK(k)
            BY <2>1, <2>3 DEF KeyOK
        <3>2. \A u \in Threads : op'[u].key # k
            BY <1>2, <1>4, <1>8, <2>3, NobodyElse
        <3>3. ~Pushing(k)
            BY <1>2, <2>3, NobodyElse DEF Pushing
        <3>4. \A j \in Nodes(k) : node'[j].expires = node[j].expires /\ node'[j].val = last'[k]
            <4>1. i \in Listed => i \in Nodes(k)
                BY <1>2 DEF Nodes
            <4> SUFFICES ASSUME NEW j \in Nodes(k)
                         PROVE  node'[j].expires = node[j].expires /\ node'[j].val = last'[k]
                OBVIOUS
            <4>2. j \in Listed
                BY DEF Nodes
            <4>3. CASE i \in Listed
                BY <1>3, <1>8, <1>9, <2>3, <3>1, <4>1, <4>2, <4>3 DEF EntryOK
            <4>4. CASE i \notin Listed
                BY <1>9, <1>12, <2>3, <3>1, <4>2, <4>4 DEF EntryOK
            <4> QED BY <4>3, <4>4
        <3>5. last'[k] = last[k] \/ Nodes(k) # {}
            BY <1>2, <1>9, <2>3 DEF Nodes
        <3>6. EntryOK(k)'
            BY <1>11, <3>1, <3>3, <3>4, <3>5 DEF EntryOK, Forever
        <3>7. WriterOK(k)'
            BY <3>2 DEF WriterOK
        <3>8. AnnouncedOK(k)'
            BY <1>8, <1>11, <1>13, <3>1, <3>5 DEF AnnouncedOK
        <3> QED BY <3>6, <3>7, <3>8
    <2> QED BY <2>2, <2>3 DEF KeyOK, Owned
<1> QED BY <1>8, <1>10, <1>14, <1>15 DEF IInv

LEMMA SetAssignStep ==
    ASSUME IInv, NEW t \in Threads, SetAssign(t)
    PROVE  IInv'
<1> DEFINE i == op[t].found
           y == [node[i] EXCEPT !.val = op[t].val]
<1>1. /\ op[t].at = "assign"
      /\ Release(list, [op EXCEPT ![t] = Idle], calls, [node EXCEPT ![i].val = op[t].val], group)
      /\ Became(op[t].key, op[t].val)
      /\ UNCHANGED <<now, invalid, seen, removed, called>>
    BY DEF SetAssign
<1>2. i \in NodeIds /\ Of(node, i, op[t].key) /\ op[t].val \in AllValues /\ op[t].key \in Keys
    BY <1>1, ChangeFacts DEF Of
<1>3. node[i] \in NodeType /\ node \in [NodeIds -> NodeType]
    BY <1>2, Types DEF TypeOK
<1>4. [node EXCEPT ![i].val = op[t].val] = [node EXCEPT ![i] = y]
    BY <1>2, <1>3
<1>5. /\ y \in NodeType /\ y.key = op[t].key /\ y.val = op[t].val
      /\ y.ttl \in TTLs[op[t].key] /\ y.expires = node[i].expires
    BY <1>2, <1>3 DEF Of, NodeType
<1>6. op[t].key \in Owned => i \in Listed
    <2>1. KeyOK(op[t].key)
        BY <1>2, Types
    <2> QED BY <1>1, <2>1 DEF KeyOK, WriterOK, Nodes
<1> HIDE DEF y
<1> QED BY <1>1, <1>4, <1>5, <1>6, WriteStep

LEMMA GroupSetStep ==
    ASSUME IInv, NEW t \in Threads, GroupSet(t)
    PROVE  IInv'
<1> DEFINE i == op[t].found
           y == [node[i] EXCEPT !.val = op[t].val, !.ttl = op[t].ttl]
<1>1. /\ op[t].at = "group"
      /\ Release(list, [op EXCEPT ![t] = Idle], calls,
                 [node EXCEPT ![i].val = op[t].val, ![i].ttl = op[t].ttl], group)
      /\ IF i \in Listed THEN Became(op[t].key, op[t].val) ELSE UNCHANGED last
      /\ UNCHANGED <<now, invalid, seen, removed, called>>
    BY DEF GroupSet
<1>2. /\ i \in NodeIds /\ Of(node, i, op[t].key) /\ op[t].val \in AllValues
      /\ op[t].key \in Keys /\ op[t].ttl \in TTLs[op[t].key] /\ op[t].ttl \in Nat
    BY <1>1, ChangeFacts DEF Of
<1>3. node[i] \in NodeType /\ node \in [NodeIds -> NodeType]
    BY <1>2, Types DEF TypeOK
<1>4. [node EXCEPT ![i].val = op[t].val, ![i].ttl = op[t].ttl] = [node EXCEPT ![i] = y]
    BY <1>2, <1>3 DEF NodeType
<1>5. /\ y \in NodeType /\ y.key = op[t].key /\ y.val = op[t].val
      /\ y.ttl \in TTLs[op[t].key] /\ y.expires = node[i].expires
    BY <1>2, <1>3 DEF Of, NodeType
<1> HIDE DEF y
<1> QED BY <1>1, <1>4, <1>5, WriteStep

LEMMA RemoveStep ==
    ASSUME IInv, NEW t \in Threads, NEW k \in Keys, Remove(t, k)
    PROVE  IInv'
<1> DEFINE l == Without(list, Nodes(k))
<1>1. /\ t \in Writers[k] /\ op[t] = Idle
      /\ Release(l, op, calls, node, group)
      /\ Became(k, NoValue)
      /\ removed' = IF \E u \in Threads : op[u].key = k THEN removed ELSE removed \cup {k}
      /\ UNCHANGED <<now, invalid, seen, called>>
    BY DEF Remove
<1>2. /\ list \in Seq(NodeIds) /\ calls \subseteq NodeIds /\ Listed \subseteq NodeIds
      /\ node \in [NodeIds -> NodeType] /\ op \in [Threads -> OpType]
      /\ group \in [Keys -> NodeIds \cup {NoNode, DeadNode}]
    BY Types DEF TypeOK
<1>3. l \in Seq(NodeIds) /\ Range(l) = Listed \ Nodes(k)
    BY <1>2, WithoutFacts DEF Listed
<1> HIDE DEF l
<1>4. NodesOK(l, node, calls, group) /\ OpsOK(op, node)
    BY <1>3, Carry
<1>5. /\ list' = l /\ op' = op /\ calls' = calls
      /\ node' \in [NodeIds -> NodeType]
      /\ group' \in [Keys -> NodeIds \cup {NoNode, DeadNode}]
      /\ \A j \in Range(l) \cup calls : j \in NodeIds /\ node'[j] = node[j]
      /\ \A q : Nodes(q)' = {j \in Range(l) : node[j].key = q}
      /\ NodesOK(list', node', calls', group')
      /\ OpsOK(op', node')
    BY <1>1, <1>2, <1>3, <1>4, ReleaseFacts
<1>6. /\ last' \in [Keys -> AllValues]
      /\ \A q \in Keys : q # k => last'[q] = last[q]
      /\ k \in Owned => last'[k] = NoValue
    <2>1. NoValue \in AllValues
        BY DEF AllValues
    <2> QED BY <1>1, <2>1, BecameFacts
<1>7. TypeOK'
    BY <1>1, <1>3, <1>5, <1>6, Types DEF TypeOK
<1>8. Nodes(k)' = {}
    BY <1>3, <1>5 DEF Nodes
<1>9. ASSUME NEW q \in Keys, q # k PROVE KeyOK(q)'
    <2>1. Nodes(q)' = Nodes(q)
        BY <1>3, <1>5, <1>9 DEF Nodes
    <2>2. \A j \in Nodes(q) : node'[j] = node[j]
        BY <1>3, <1>5, <1>9 DEF Nodes
    <2>3. Keeps(q)
        BY <1>1, <1>5, <1>6, <1>9, <2>1, <2>2 DEF Keeps
    <2> QED BY <2>3, KeepsKey
<1>10. KeyOK(k)'
    <2>1. KeyOK(k)
        BY Types
    <2>2. RemovedOK(k)'
        BY <1>1, <1>5, <1>8, <2>1 DEF KeyOK, RemovedOK
    <2>3. ASSUME k \in Owned PROVE EntryOK(k)' /\ WriterOK(k)' /\ AnnouncedOK(k)'
        <3>1. op[t].key # k
            BY <1>1, Types DEF Idle
        <3>2. \A u \in Threads : op'[u].key # k
            BY <1>1, <1>5, <2>3, <3>1, NobodyElse
        <3> QED BY <1>6, <1>8, <2>3, <3>2 DEF EntryOK, WriterOK, AnnouncedOK
    <2> QED BY <2>2, <2>3 DEF KeyOK, Owned
<1> QED BY <1>5, <1>7, <1>9, <1>10 DEF IInv

LEMMA CleanupStep ==
    ASSUME IInv, Cleanup
    PROVE  IInv'
<1> DEFINE over == {i \in Listed : Expired(i)}
           due == {i \in over : node[i].key \in WithCallback}
           n == [i \in NodeIds |-> IF i \in due THEN [node[i] EXCEPT !.moved = TRUE] ELSE node[i]]
           l == Without(list, over)
<1>1. /\ calls = {} /\ Release(l, op, due, n, group)
      /\ UNCHANGED <<now, invalid, history>>
    BY DEF Cleanup
<1>2. /\ list \in Seq(NodeIds) /\ calls \subseteq NodeIds /\ Listed \subseteq NodeIds
      /\ node \in [NodeIds -> NodeType] /\ op \in [Threads -> OpType]
      /\ group \in [Keys -> NodeIds \cup {NoNode, DeadNode}]
    BY Types DEF TypeOK
<1>3. l \in Seq(NodeIds) /\ Range(l) = Listed \ over
    BY <1>2, WithoutFacts DEF Listed
<1>4. /\ n \in [NodeIds -> NodeType]
      /\ \A j \in NodeIds : /\ n[j].key = node[j].key /\ n[j].ttl = node[j].ttl
                            /\ j \notin over => n[j] = node[j]
    <2>1. \A j \in NodeIds : /\ [node[j] EXCEPT !.moved = TRUE] \in NodeType
                             /\ [node[j] EXCEPT !.moved = TRUE].key = node[j].key
                             /\ [node[j] EXCEPT !.moved = TRUE].ttl = node[j].ttl
        BY <1>2 DEF NodeType
    <2> HIDE DEF over
    <2> QED BY <1>2, <2>1
<1>5. due \subseteq Listed /\ over \subseteq Listed
    OBVIOUS
<1>6. \A i \in Listed : i \in over <=> node[i].expires <= now
    BY DEF Expired
<1>7. \A i \in over : node[i].key \in WithCallback => i \in due
    OBVIOUS
<1>8. now' = now /\ last' = last /\ seen' = seen /\ removed' = removed /\ called' = called
      /\ invalid' = invalid
    BY <1>1 DEF history
<1> HIDE DEF over, due, n, l
<1>9. NodesOK(l, n, due, group) /\ OpsOK(op, n)
    BY <1>3, <1>4, <1>5, Carry
<1>10. /\ list' = l /\ op' = op /\ calls' = due
       /\ node' \in [NodeIds -> NodeType]
       /\ group' \in [Keys -> NodeIds \cup {NoNode, DeadNode}]
       /\ \A j \in Range(l) \cup due : j \in NodeIds /\ node'[j] = n[j]
       /\ \A q : Nodes(q)' = {j \in Range(l) : n[j].key = q}
       /\ NodesOK(list', node', calls', group')
       /\ OpsOK(op', node')
    BY <1>1, <1>2, <1>3, <1>4, <1>5, <1>9, ReleaseFacts
<1>11. TypeOK'
    BY <1>2, <1>3, <1>5, <1>8, <1>10, Types DEF TypeOK
<1>12. ASSUME NEW k \in Keys PROVE KeyOK(k)'
    <2>1. KeyOK(k)
        BY Types
    <2>2. Nodes(k)' = Nodes(k) \ over
        BY <1>2, <1>3, <1>4, <1>10 DEF Nodes
    <2>3. RemovedOK(k)'
        BY <1>8, <1>10, <2>1, <2>2 DEF KeyOK, RemovedOK
    <2>4. \A j \in Nodes(k)' : node'[j] = node[j]
        BY <1>2, <1>3, <1>4, <1>10, <2>2 DEF Nodes
    <2>5. ASSUME k \in Owned PROVE EntryOK(k)' /\ WriterOK(k)' /\ AnnouncedOK(k)'
        <3>1. EntryOK(k) /\ WriterOK(k) /\ AnnouncedOK(k)
            BY <2>1, <2>5 DEF KeyOK
        <3>2. Pushing(k)' = Pushing(k)
            BY <1>10 DEF Pushing
        <3>3. ASSUME Nodes(k)' = {}, Nodes(k) # {}
              PROVE  \E ttl \in TTLs[k] : ttl # 0 /\ seen[k] + ttl <= now
            <4>1. PICK i \in Nodes(k) : i \in over
                BY <2>2, <3>3
            <4>2. node[i].expires <= now
                BY <1>6, <4>1 DEF Nodes
            <4>3. PICK ttl \in TTLs[k] :
                      node[i].expires = IF ttl = 0 THEN Forever ELSE seen[k] + ttl
                BY <3>1, <4>1 DEF EntryOK
            <4>4. ttl # 0
                BY <4>2, <4>3, Types DEF TypeOK
            <4> QED BY <4>2, <4>3, <4>4
        <3>4. EntryOK(k)'
            BY <1>8, <2>2, <2>4, <3>1, <3>2, <3>3 DEF EntryOK, Forever
        <3>5. WriterOK(k)'
            <4> SUFFICES ASSUME NEW t \in Threads, op[t].key = k, op[t].at = "assign"
                         PROVE  op[t].found \in Nodes(k)'
                BY <1>8, <1>10, <2>2, <2>4, <3>1 DEF WriterOK, Forever
            <4> DEFINE i == op[t].found
            <4>1. /\ i \in Nodes(k)
                  /\ node[i].expires = Forever \/ now + MaxStall < node[i].expires + op[t].age
                BY <3>1 DEF WriterOK
            <4>2. i \in Listed /\ i \in NodeIds
                BY <1>2, <4>1 DEF Nodes
            <4>3. op[t].age <= MaxStall
                <5>1. OpOK(op, node, t) /\ op[t] # Idle
                    BY DEF IInv, OpsOK, Idle
                <5> QED BY <5>1 DEF OpOK
            <4>4. node[i].expires \in Nat /\ op[t].age \in Nat /\ now \in Nat /\ MaxStall \in Nat
                BY <4>2, Types DEF TypeOK, NodeType, OpType
            <4> HIDE DEF i
            <4>5. ~(node[i].expires <= now)
                BY <4>1, <4>3, <4>4, Types
            <4>6. i \notin over
                BY <1>6, <4>2, <4>5
            <4> QED BY <2>2, <4>1, <4>6 DEF i
        <3>6. AnnouncedOK(k)'
            <4> SUFFICES ASSUME k \in WithCallback, last[k] # NoValue, Nodes(k)' = {}
                         PROVE  k \in called \/ \E i \in due : node'[i].key = k
                BY <1>8, <1>10 DEF AnnouncedOK
            <4>1. CASE Nodes(k) = {}
                BY <1>1, <3>1, <4>1 DEF AnnouncedOK
            <4>2. CASE Nodes(k) # {}
                <5>1. PICK i \in Nodes(k) : i \in over
                    BY <2>2, <4>2
                <5>2. i \in due /\ node[i].key = k
                    BY <1>7, <5>1 DEF Nodes
                <5> QED BY <1>2, <1>4, <1>5, <1>10, <5>2
            <4> QED BY <4>1, <4>2
        <3> QED BY <3>4, <3>5, <3>6
    <2> QED BY <2>3, <2>5 DEF KeyOK, Owned
<1> QED BY <1>10, <1>11, <1>12 DEF IInv

LEMMA OnExpiredStep ==
    ASSUME IInv, OnExpired
    PROVE  IInv'
<1>1. PICK i \in calls :
          /\ Release(list, op, calls \ {i}, node, group)
          /\ called' = called \cup {node[i].key}
          /\ UNCHANGED <<now, invalid, last, seen, removed>>
    BY DEF OnExpired
<1>2. /\ list \in Seq(NodeIds) /\ calls \subseteq NodeIds /\ Listed \subseteq NodeIds
      /\ node \in [NodeIds -> NodeType] /\ op \in [Threads -> OpType]
      /\ group \in [Keys -> NodeIds \cup {NoNode, DeadNode}]
    BY Types DEF TypeOK
<1>3. NodesOK(list, node, calls \ {i}, group) /\ OpsOK(op, node)
    BY Carry DEF Listed
<1>4. /\ list' = list /\ op' = op /\ calls' = calls \ {i}
      /\ node' \in [NodeIds -> NodeType]
      /\ group' \in [Keys -> NodeIds \cup {NoNode, DeadNode}]
      /\ \A j \in Listed \cup (calls \ {i}) : j \in NodeIds /\ node'[j] = node[j]
      /\ \A q : Nodes(q)' = {j \in Listed : node[j].key = q}
      /\ NodesOK(list', node', calls', group')
      /\ OpsOK(op', node')
    BY <1>1, <1>2, <1>3, ReleaseFacts DEF Listed
<1>5. TypeOK'
    BY <1>1, <1>2, <1>4, Types DEF TypeOK
<1>6. ASSUME NEW k \in Keys PROVE KeyOK(k)'
    <2>1. KeyOK(k)
        BY Types
    <2>2. Nodes(k)' = Nodes(k) /\ \A j \in Nodes(k) : node'[j] = node[j]
        BY <1>4 DEF Nodes
    <2>3. RemovedOK(k)'
        BY <1>1, <1>4, <2>1, <2>2 DEF KeyOK, RemovedOK
    <2>4. ASSUME k \in Owned PROVE EntryOK(k)' /\ WriterOK(k)' /\ AnnouncedOK(k)'
        <3>1. EntryOK(k) /\ WriterOK(k) /\ AnnouncedOK(k)
            BY <2>1, <2>4 DEF KeyOK
        <3>2. EntryOK(k)'
            BY <1>1, <1>4, <2>2, <3>1 DEF EntryOK, Pushing, Forever
        <3>3. WriterOK(k)'
            BY <1>1, <1>4, <2>2, <3>1 DEF WriterOK, Forever
        <3>4. AnnouncedOK(k)'
            BY <1>1, <1>4, <2>2, <3>1 DEF AnnouncedOK
        <3> QED BY <3>2, <3>3, <3>4
    <2> QED BY <2>3, <2>4 DEF KeyOK, Owned
<1> QED BY <1>4, <1>5, <1>6 DEF IInv

\* Steps of the groups leave the bucket alone.
LEMMA GroupStep ==
    ASSUME IInv, UNCHANGED <<now, list, node, op, calls, history>>,
           invalid' \subseteq Keys,
           group' \in [Keys -> NodeIds \cup {NoNode, DeadNode}],
           \A k \in Keys : \/ group'[k] \in {group[k], NoNode}
                           \/ group'[k] \in Nodes(k)
    PROVE  IInv'
<1>1. last' = last /\ seen' = seen /\ removed' = removed /\ called' = called
    BY DEF history
<1>2. TypeOK'
    BY <1>1, Types DEF TypeOK
<1>3. OpsOK(op', node')
    BY DEF IInv
<1>4. NodesOK(list', node', calls', group')
    <2>1. \A k \in Keys : \A i \in Nodes(k) : Of(node, i, k)
        BY Types DEF Nodes
    <2>2. NodesOK(list, node, calls, group)
        BY DEF IInv
    <2> QED BY <2>1, <2>2, TTLAssumption DEF NodesOK
<1>5. ASSUME NEW k \in Keys PROVE KeyOK(k)'
    <2>1. Keeps(k)
        BY <1>1 DEF Keeps, Nodes, Listed
    <2> QED BY <2>1, KeepsKey
<1> QED BY <1>2, <1>3, <1>4, <1>5 DEF IInv

LEMMA GroupKeyStep ==
    ASSUME IInv, NEW k \in GroupKeys, GroupKey(k)
    PROVE  IInv'
<1>1. group \in [Keys -> NodeIds \cup {NoNode, DeadNode}] /\ invalid \subseteq Keys
    BY Types DEF TypeOK
<1>2. CASE GroupAdd(k)
    <2>1. First(k) = NoNode \/ (First(k) \in Nodes(k) /\ First(k) \in NodeIds)
        BY FirstFacts, Types DEF Nodes
    <2>2. /\ group' = [group EXCEPT ![k] = First(k)]
          /\ UNCHANGED <<now, invalid, list, node, op, calls, history>>
        BY <1>2 DEF GroupAdd
    <2>3. group' \in [Keys -> NodeIds \cup {NoNode, DeadNode}]
        BY <1>1, <2>1, <2>2
    <2>4. \A j \in Keys : group'[j] \in {group[j], NoNode} \/ group'[j] \in Nodes(j)
        BY <1>1, <2>1, <2>2
    <2> QED BY <1>1, <2>2, <2>3, <2>4, GroupStep
<1>3. CASE GroupRemove(k)
    <2>1. /\ group' = [group EXCEPT ![k] = NoNode]
          /\ UNCHANGED <<now, invalid, list, node, op, calls, history>>
        BY <1>3 DEF GroupRemove
    <2>2. group' \in [Keys -> NodeIds \cup {NoNode, DeadNode}]
        BY <1>1, <2>1
    <2>3. \A j \in Keys : group'[j] \in {group[j], NoNode}
        BY <1>1, <2>1
    <2> QED BY <1>1, <2>1, <2>2, <2>3, GroupStep
<1> QED BY <1>2, <1>3 DEF GroupKey

LEMMA GroupWalkStep ==
    ASSUME IInv, GroupForEach \/ GroupDrop
    PROVE  IInv'
<1>1. group \in [Keys -> NodeIds \cup {NoNode, DeadNode}] /\ invalid \subseteq Keys
    BY Types DEF TypeOK
<1>2. UNCHANGED <<now, list, node, op, calls, history>> /\ invalid' \subseteq Keys
    BY DEF GroupForEach, GroupDrop
<1>3. group' \in [Keys -> NodeIds \cup {NoNode, DeadNode}]
    BY <1>1 DEF GroupForEach, GroupDrop
<1>4. \A j \in Keys : group'[j] \in {group[j], NoNode}
    BY <1>1 DEF GroupForEach, GroupDrop
<1> QED BY <1>2, <1>3, <1>4, GroupStep

LEMMA GroupFindStep ==
    ASSUME IInv, NEW t \in Threads, NEW k \in Keys, NEW v \in Values[k], NEW ttl \in TTLs[k],
           GroupFind(t, k, v, ttl)
    PROVE  IInv'
<1> DEFINE r == [at |-> "group", key |-> k, val |-> v, ttl |-> ttl, found |-> group[k], age |-> 0]
<1>1. /\ t \in Writers[k] /\ op[t] = Idle /\ group[k] \in NodeIds /\ op' = [op EXCEPT ![t] = r]
      /\ removed' = removed \ {k}
      /\ UNCHANGED <<now, invalid, list, node, calls, group, last, seen, called>>
    BY DEF GroupFind
<1>2. r \in OpType
    BY <1>1, Types DEF OpType
<1>3. op' \in [Threads -> OpType] /\ op'[t] = r /\ \A u \in Threads : u # t => op'[u] = op[u]
    BY <1>1, <1>2, Types DEF TypeOK
<1>4. TypeOK'
    BY <1>1, <1>3, Types DEF TypeOK
<1>5. /\ r.at = "group" /\ r.key = k /\ r.val = v /\ r.ttl = ttl /\ r.found = group[k]
      /\ r.age = 0
    OBVIOUS
<1> HIDE DEF r
<1>6. NodesOK(list', node', calls', group')
    BY <1>1 DEF IInv
<1>7. OpsOK(op', node')
    <2>1. Of(node, group[k], k)
        BY <1>1 DEF IInv, NodesOK
    <2>2. OpOK(op', node', t)
        BY <1>1, <1>3, <1>5, <2>1, Types DEF OpOK
    <2>3. \A u \in Threads : u # t => OpOK(op', node', u)
        BY <1>1, <1>3 DEF IInv, OpsOK, OpOK
    <2> QED BY <2>2, <2>3 DEF OpsOK
<1>8. op[t].key \notin Keys
    BY <1>1, Types DEF Idle
<1>9. \A q : Nodes(q)' = Nodes(q)
    BY <1>1 DEF Nodes, Listed
<1>10. ASSUME NEW q \in Keys, q # k PROVE KeyOK(q)'
    <2>1. Keeps(q)
        BY <1>1, <1>3, <1>5, <1>8, <1>9, <1>10 DEF Keeps
    <2> QED BY <2>1, KeepsKey
<1>11. KeyOK(k)'
    <2>1. KeyOK(k)
        BY Types
    <2>2. RemovedOK(k)'
        BY <1>1 DEF RemovedOK
    <2>3. ASSUME k \in Owned PROVE EntryOK(k)' /\ WriterOK(k)' /\ AnnouncedOK(k)'
        <3>1. EntryOK(k) /\ AnnouncedOK(k)
            BY <2>1, <2>3 DEF KeyOK
        <3>2. \A u \in Threads : u # t => op[u].key # k
            BY <1>1, <2>3, NobodyElse
        <3>3. ~Pushing(k) /\ ~Pushing(k)'
            BY <1>3, <1>5, <1>8, <3>2 DEF Pushing
        <3>4. EntryOK(k)'
            BY <1>1, <1>9, <3>1, <3>3 DEF EntryOK, Forever
        <3>5. WriterOK(k)'
            BY <1>3, <1>5, <3>2 DEF WriterOK
        <3>6. AnnouncedOK(k)'
            BY <1>1, <1>9, <3>1 DEF AnnouncedOK
        <3> QED BY <3>4, <3>5, <3>6
    <2> QED BY <2>2, <2>3 DEF KeyOK, Owned
<1> QED BY <1>4, <1>6, <1>7, <1>10, <1>11 DEF IInv

LEMMA TickStep ==
    ASSUME IInv, Tick
    PROVE  IInv'
<1>1. /\ now < MaxTime /\ now' = now + 1
      /\ \A t \in Threads : op[t] # Idle => op[t].age < MaxStall
      /\ op' = [t \in Threads |-> IF op[t] = Idle THEN Idle ELSE [op[t] EXCEPT !.age = @ + 1]]
      /\ UNCHANGED <<list, node, calls, group, invalid>>
      /\ last' = last /\ seen' = seen /\ removed' = removed /\ called' = called
    BY DEF Tick, history
<1>2. \A t \in Threads :
          LET r == [op[t] EXCEPT !.age = @ + 1] IN
          /\ r \in OpType /\ r.at = op[t].at /\ r.key = op[t].key /\ r.val = op[t].val
          /\ r.ttl = op[t].ttl /\ r.found = op[t].found /\ r.age = op[t].age + 1
    BY Types DEF OpType
<1>3. \A t \in Threads :
          /\ op'[t] \in OpType /\ op'[t].at = op[t].at /\ op'[t].key = op[t].key
          /\ op'[t].val = op[t].val /\ op'[t].ttl = op[t].ttl /\ op'[t].found = op[t].found
          /\ op[t] = Idle => op'[t] = Idle
          /\ op[t] # Idle => op'[t].age = op[t].age + 1
    BY <1>1, <1>2, Types
<1>4. TypeOK'
    <2>1. op' \in [Threads -> OpType]
        BY <1>1, <1>3
    <2>2. now' \in Nat /\ now' <= MaxTime
        BY <1>1, Types, TTLAssumption DEF TypeOK
    <2> QED BY <1>1, <2>1, <2>2, Types DEF TypeOK
<1>5. NodesOK(list', node', calls', group')
    BY <1>1 DEF IInv
<1>6. OpsOK(op', node')
    <2> SUFFICES ASSUME NEW t \in Threads PROVE OpOK(op', node', t)
        BY DEF OpsOK
    <2>1. OpOK(op, node, t)
        BY DEF IInv, OpsOK
    <2>2. op[t] # Idle => op'[t].age <= MaxStall
        BY <1>1, <1>3, Types DEF OpType
    <2> QED BY <1>1, <1>3, <2>1, <2>2 DEF OpOK
<1>7. ASSUME NEW k \in Keys PROVE KeyOK(k)'
    <2>1. KeyOK(k)
        BY Types
    <2>2. Nodes(k)' = Nodes(k)
        BY <1>1 DEF Nodes, Listed
    <2>3. RemovedOK(k)'
        BY <1>1, <1>3, <2>1, <2>2 DEF KeyOK, RemovedOK
    <2>4. ASSUME k \in Owned PROVE EntryOK(k)' /\ WriterOK(k)' /\ AnnouncedOK(k)'
        <3>1. EntryOK(k) /\ WriterOK(k) /\ AnnouncedOK(k)
            BY <2>1, <2>4 DEF KeyOK
        <3>2. Pushing(k)' = Pushing(k)
            BY <1>3 DEF Pushing
        <3>3. seen[k] \in Nat /\ TTLs[k] \subseteq Nat /\ now \in Nat /\ MaxStall \in Nat
            BY Types DEF TypeOK
        <3>4. \A ttl \in TTLs[k] : seen[k] + ttl <= now => seen[k] + ttl <= now'
            BY <1>1, <3>3
        <3>5. EntryOK(k)'
            BY <1>1, <2>2, <3>1, <3>2, <3>4 DEF EntryOK, Forever
        <3>6. WriterOK(k)'
            <4> SUFFICES ASSUME NEW t \in Threads, op[t].key = k, op[t].at = "assign"
                         PROVE  \/ node[op[t].found].expires = Forever
                                \/ now' + MaxStall < node[op[t].found].expires + op'[t].age
                BY <1>1, <1>3, <2>2, <3>1 DEF WriterOK, Forever
            <4>1. op[t] # Idle
                BY DEF Idle
            <4>2. /\ op[t].found \in Nodes(k)
                  /\ \/ node[op[t].found].expires = Forever
                     \/ now + MaxStall < node[op[t].found].expires + op[t].age
                BY <3>1 DEF WriterOK
            <4>3. node[op[t].found].expires \in Nat /\ op[t].age \in Nat
                BY <4>2, Types DEF Nodes, NodeType, OpType
            <4>4. now' = now + 1 /\ op'[t].age = op[t].age + 1
                BY <1>1, <1>3, <4>1
            <4>5. CASE now + MaxStall < node[op[t].found].expires + op[t].age
                BY <3>3, <4>3, <4>4, <4>5
            <4> QED BY <4>2, <4>5
        <3>7. AnnouncedOK(k)'
            BY <1>1, <2>2, <3>1 DEF AnnouncedOK
        <3> QED BY <3>5, <3>6, <3>7
    <2> QED BY <2>3, <2>4 DEF KeyOK, Owned
<1> QED BY <1>4, <1>5, <1>6, <1>7 DEF IInv

LEMMA StutterStep ==
    ASSUME IInv, UNCHANGED vars
    PROVE  IInv'
<1>1. UNCHANGED <<now, list, node, op, calls, history>> /\ group' = group /\ invalid' = invalid
    BY DEF vars, history
<1>2. /\ group \in [Keys -> NodeIds \cup {NoNode, DeadNode}] /\ invalid \subseteq Keys
    BY Types DEF TypeOK
<1> QED BY <1>1, <1>2, GroupStep

----------------------------------------------------------------------------
(* The theorems                                                            *)

LEMMA InitIInv == Init => IInv
<1> SUFFICES ASSUME Init PROVE IInv
    OBVIOUS
<1>1. Free \in NodeType /\ Idle \in OpType /\ Idle.key \notin Keys
    BY TTLAssumption DEF Free, Idle, NodeType, OpType, AllValues
<1>2. TypeOK
    BY <1>1, TTLAssumption DEF Init, TypeOK, AllValues
<1>3. Listed = {} /\ Range(list) = {}
    BY DEF Init, Listed, Range
<1>4. NodesOK(list, node, calls, group)
    BY <1>3, TTLAssumption DEF Init, NodesOK
<1>5. OpsOK(op, node)
    BY DEF Init, OpsOK, OpOK
<1>6. ASSUME NEW k \in Keys PROVE KeyOK(k)
    <2>1. Nodes(k) = {} /\ last[k] = NoValue /\ k \notin removed /\ \A t \in Threads : op[t].key # k
        BY <1>1, <1>3 DEF Init, Nodes
    <2> QED BY <2>1 DEF KeyOK, EntryOK, WriterOK, AnnouncedOK, RemovedOK
<1> QED BY <1>2, <1>4, <1>5, <1>6 DEF IInv

LEMMA StepIInv == IInv /\ [Next]_vars => IInv'
<1> SUFFICES ASSUME IInv, [Next]_vars
             PROVE  IInv'
    OBVIOUS
<1>1. CASE UNCHANGED vars
    BY <1>1, StutterStep
<1>2. CASE Tick
    BY <1>2, TickStep
<1>3. CASE Cleaner
    BY <1>3, CleanupStep, OnExpiredStep DEF Cleaner
<1>4. CASE GroupForEach \/ GroupDrop
    BY <1>4, GroupWalkStep
<1>5. CASE \E k \in Keys : Lookup(k)
    BY <1>5, LookupStep
<1>6. CASE \E k \in GroupKeys : GroupKey(k)
    BY <1>6, GroupKeyStep
<1>7. ASSUME NEW t \in Threads, Access(t)
      PROVE  IInv'
    <2>1. CASE addOrUpdate(t)
        BY <2>1, SetFindStep, SetPushStep, SetAssignStep DEF addOrUpdate
    <2>2. CASE \E k \in Keys : Remove(t, k) \/ \E v \in Values[k] : Apply(t, k, v)
        BY <2>2, RemoveStep, ApplyStep
    <2> QED BY <1>7, <2>1, <2>2 DEF Access
<1>8. ASSUME NEW t \in Threads, GroupAccess(t)
      PROVE  IInv'
    BY <1>8, GroupFindStep, GroupSetStep DEF GroupAccess
<1> QED BY <1>1, <1>2, <1>3, <1>4, <1>5, <1>6, <1>7, <1>8 DEF Next

\* The inductive invariant holds in every state of a bucket, whatever the threads, the cleanup
\* and the groups do.
THEOREM Invariance == Spec => []IInv
BY InitIInv, StepIInv, PTL DEF Spec

LEMMA OwnedRegisterHolds == IInv => OwnedRegister
<1> SUFFICES ASSUME IInv, NEW k \in Owned, \A t \in Threads : op[t].key # k
             PROVE  /\ Cardinality(Nodes(k)) <= 1
                    /\ \A i \in Nodes(k) : node[i].val = last[k]
                    /\ last[k] # NoValue /\ (\A ttl \in TTLs[k] : ttl = 0 \/ now < seen[k] + ttl)
                          => Nodes(k) # {}
    BY DEF OwnedRegister
<1>1. k \in Keys
    BY DEF Owned
<1>2. EntryOK(k)
    BY <1>1, Types DEF KeyOK
<1>3. Cardinality(Nodes(k)) <= 1
    <2>1. CASE Nodes(k) = {}
        BY <2>1, FS_EmptySet
    <2>2. CASE Nodes(k) # {}
        <3>1. PICK i \in Nodes(k) : TRUE
            BY <2>2
        <3>2. Nodes(k) = {i}
            BY <1>2, <3>1 DEF EntryOK
        <3> QED BY <3>2, FS_Singleton
    <2> QED BY <2>1, <2>2
<1>4. ASSUME last[k] # NoValue, \A ttl \in TTLs[k] : ttl = 0 \/ now < seen[k] + ttl
      PROVE  Nodes(k) # {}
    <2>1. ~Pushing(k)
        BY DEF Pushing
    <2>2. now \in Nat /\ seen[k] \in Nat /\ TTLs[k] \subseteq Nat
        BY <1>1, Types DEF TypeOK
    <2>3. \A ttl \in TTLs[k] : ~(ttl # 0 /\ seen[k] + ttl <= now)
        BY <1>4, <2>2
    <2> QED BY <1>2, <1>4, <2>1, <2>3 DEF EntryOK
<1> QED BY <1>2, <1>3, <1>4 DEF EntryOK

\* Context::Global behaves as a register with a time to live on a key that one thread changes:
\* addOrUpdate, which looks and pushes under no common lock, makes no second entry, and
\* cleanup takes the entry only when it was not looked up for its time to live.
THEOREM OwnedKeyIsRegister == Spec => []OwnedRegister
<1>1. IInv => OwnedRegister
    BY OwnedRegisterHolds
<1> QED BY <1>1, Invariance, PTL

\* removeIf takes every entry of the key out, also the ones concurrent set() calls left.
THEOREM RemovedStaysRemoved == Spec => []RemoveIsComplete
<1>1. IInv => RemoveIsComplete
    BY Types DEF RemoveIsComplete, KeyOK, RemovedOK, TypeOK
<1> QED BY <1>1, Invariance, PTL

\* cleanup, which makes the callbacks after it has unlocked the bucket, forgets none.
THEOREM ExpiryIsAnnounced == Spec => []NoExpiryUnannounced
<1>1. IInv => NoExpiryUnannounced
    BY Types DEF NoExpiryUnannounced, KeyOK, AnnouncedOK, Owned
<1> QED BY <1>1, Invariance, PTL
=============================================================================
