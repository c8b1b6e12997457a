------------------------------ MODULE AuthSample ------------------------------
(***************************************************************************)
(* The blockchain based lists of class FullSupernodeList                   *)
(* (rta/fullsupernodelist.cpp) and the auth samples built from them.       *)
(*                                                                         *)
(* buildAuthSample has two lock sections: the first copies the part of a   *)
(* list that is available, the second seeds m_rng and selects.  Before and *)
(* between them the handlers of FullSupernodeList change m_list and time   *)
(* passes, so each section finds any set of supernodes.                    *)
(*                                                                         *)
(* A list is a sequence of tiers, a tier a sequence of supernode ids.      *)
(***************************************************************************)
EXTENDS Supernodes, Integers, Sequences, FiniteSets, SequencesExt

CONSTANTS
    ListsOf,          \* the blockchain based lists that may arrive for each block
    Payments,         \* payment ids
    Random(_, _),     \* the k-th value of m_rng after it was seeded with a payment id
    Period,           \* after so many values m_rng repeats itself
    TIERS,
    ITEMS_PER_TIER,
    HistorySize,      \* config::graft::SUPERNODE_HISTORY_SIZE
    DelayBlockCount,  \* BLOCKCHAIN_BASED_LIST_DELAY_BLOCK_COUNT
    Word,             \* 2^64
    NoList            \* no entry in m_blockchain_based_lists

ASSUME SampleAssumption ==
    /\ \A b \in Blocks : NoList \notin ListsOf[b]
    /\ TIERS \in Nat \ {0}
    /\ ITEMS_PER_TIER \in Nat \ {0}
    /\ HistorySize \in Nat
    /\ DelayBlockCount \in Nat
    /\ Word \in Nat
    /\ \A b \in Blocks : b + HistorySize < Word
    /\ Period \in Nat \ {0}
    /\ \A p \in Payments, k \in 0 .. Period - 1 : Random({p}, k) \in Nat

\* No tier that the cryptonode sends has a supernode twice: nothing here checks it.
ASSUME ListsAssumption ==
    \A b \in Blocks : \A l \in ListsOf[b] : \A t \in DOMAIN l : l[t] \in Seq(Ids) /\ IsInjective(l[t])

VARIABLES
    lists,            \* m_blockchain_based_lists
    listsMax,         \* m_blockchain_based_list_max_block_number
    requestDue,       \* m_next_recv_blockchain_based_list was never set or is over
    rng,              \* m_rng: what it was seeded with and the values drawn since
    building,         \* the buildAuthSample() each worker is in
    sample,           \* the last sample that was built
    arrived           \* the last list of each block to arrive once the newest block had reached
                      \* HistorySize (for ListsExact)

sampleVars == <<lists, listsMax, requestDue, rng, building, sample, arrived>>

AUTH_SAMPLE_SIZE == TIERS * ITEMS_PER_TIER

NotBuilding == [op |-> "idle"]
NoSample == [built |-> FALSE]

\* uint64_t subtraction
Minus(a, b) == (a - b) % Word

SampleInit ==
    /\ lists = [b \in Blocks |-> NoList]
    /\ listsMax = 0
    /\ requestDue = TRUE
    /\ rng = [seed |-> {}, drawn |-> 0]
    /\ building = [w \in Workers |-> NotBuilding]
    /\ sample = NoSample
    /\ arrived = lists

-----------------------------------------------------------------------------
(* Blockchain based lists.                                                   *)

\* Faulty: the window is counted from the block that arrived.
FlushFromArrived(b, l) ==
    [c \in Blocks |-> IF c < Minus(b, HistorySize) THEN NoList ELSE [lists EXCEPT ![b] = l][c]]

\* Faulty: the oldest block of the window is flushed.
FlushOneTooMany(b, l) ==
    [c \in Blocks |-> IF c <= Minus(listsMax', HistorySize) THEN NoList ELSE [lists EXCEPT ![b] = l][c]]

\* The lists after a new one is stored and those older than the window are flushed.
Flush(b, l) ==
    [c \in Blocks |-> IF c < Minus(listsMax', HistorySize) THEN NoList ELSE [lists EXCEPT ![b] = l][c]]

\* setBlockchainBasedList: an existing list is
\* overridden and nothing else is done; a new one may move the window and puts the
\* next request off.
SetBlockchainBasedList(b, l) ==
    /\ \/ /\ lists[b] # NoList
          /\ lists' = [lists EXCEPT ![b] = l]
          /\ UNCHANGED <<listsMax, requestDue>>
       \/ /\ lists[b] = NoList
          /\ listsMax' = IF b > listsMax THEN b ELSE listsMax
          /\ lists' = Flush(b, l)
          /\ requestDue' = FALSE
    /\ arrived' = IF listsMax' >= HistorySize THEN [arrived EXCEPT ![b] = l] ELSE arrived
    /\ UNCHANGED <<rng, building, sample>>

\* blockchainBasedListHandler: the cryptonode sends the list of a block, as the answer to a
\* request or by itself.
BlockchainBasedList(b) == \E l \in ListsOf[b] : SetBlockchainBasedList(b, l)

\* synchronizeWithCryptonode: a request for lists is sent, REPEATED_REQUEST_DELAY_SECONDS
\* after the last one.  Any answer is a SetBlockchainBasedList.
SynchronizeLists ==
    /\ requestDue
    /\ requestDue' = FALSE
    /\ UNCHANGED <<lists, listsMax, rng, building, sample, arrived>>

\* Time passes: BLOCKCHAIN_BASED_LIST_RECV_TIMEOUT_SECONDS after a list, or
\* REPEATED_REQUEST_DELAY_SECONDS after a request.
ListRecvTimeout ==
    /\ ~requestDue
    /\ requestDue' = TRUE
    /\ UNCHANGED <<lists, listsMax, rng, building, sample, arrived>>

-----------------------------------------------------------------------------
(* Auth samples.                                                             *)

\* The copy_if of a tier.
Copied(tier, available) ==
    LET kept[k \in 0 .. Len(tier)] ==
            IF k = 0 THEN <<>>
            ELSE LET dst == kept[k - 1] IN
                 IF tier[k] \in available THEN Append(dst, tier[k]) ELSE dst
    IN kept[Len(tier)]

\* getBlockchainBasedListForAuthSample, the first lock section of buildAuthSample: of
\* every tier the supernodes that are in m_list with an announce not too old.  Without
\* a list, or if the height it returns is 0, buildAuthSample gives up.
GetBlockchainBasedListForAuthSample(w, b, p, available) ==
    /\ building[w] = NotBuilding
    /\ lists[b] # NoList
    /\ Minus(b, DelayBlockCount) # 0
    /\ building' = [building EXCEPT ![w] =
                  [op |-> "select", payment |-> p,
                   tiers |-> [t \in DOMAIN lists[b] |-> Copied(lists[b][t], available)]]]
    /\ UNCHANGED <<lists, listsMax, requestDue, rng, sample, arrived>>

\* The k-th value of m_rng.
RandomValue(seed, k) == Random(seed, k % Period)

\* Faulty: the clamp counts one element too many as left.
TakenOffByOne(acc, tier, k, value) ==
    IF value % (Len(tier) - k + 2) >= acc.needed THEN acc
    ELSE [needed |-> acc.needed - 1, out |-> Append(acc.out, tier[k])]

\* The k-th element of a tier is taken if the random value, modulo the elements left, is
\* below the number still needed.
Taken(acc, tier, k, value) ==
    IF value % (Len(tier) - k + 1) >= acc.needed THEN acc
    ELSE [needed |-> acc.needed - 1, out |-> Append(acc.out, tier[k])]

\* selectSupernodes: one random value for every element of the tier.
SelectSupernodes(count, tier, seed, drawn) ==
    LET after[k \in 0 .. Len(tier)] ==
            IF k = 0 THEN [needed |-> IF count > Len(tier) THEN Len(tier) ELSE count, out |-> <<>>]
            ELSE LET acc == after[k - 1] IN Taken(acc, tier, k, RandomValue(seed, drawn + k))
    IN after[Len(tier)].out

\* The k-th tier in which a surplus is looked for: the highest comes first.
SurplusTier(k) == TIERS + 1 - k

\* Tier j has more than it needs and makes up for what tier i is short of.
Transfer(size, select, i, j) ==
    LET deficit == select[i] - size[i]
        surplus == size[j] - select[j]
        transfer == IF deficit < surplus THEN deficit ELSE surplus
    IN IF i = j \/ deficit <= 0 \/ surplus <= 0 THEN select
       ELSE [select EXCEPT ![i] = @ - transfer, ![j] = @ + transfer]

\* After each of the tiers in which a surplus for tier i is looked for.
Helped(size, select, i) ==
    LET helped[k \in 0 .. TIERS] ==
            IF k = 0 THEN select
            ELSE LET s == helped[k - 1] IN Transfer(size, s, i, SurplusTier(k))
    IN helped

\* What tier i is still short of is given up.
Settle(size, select, i) ==
    LET helped == Helped(size, select, i)[TIERS]
    IN [helped EXCEPT ![i] = IF @ > size[i] THEN size[i] ELSE @]

\* How many supernodes of each tier, of those selected, a sample takes.
TierShares(size) ==
    LET settled[i \in 0 .. TIERS] ==
            IF i = 0 THEN [t \in 1 .. TIERS |-> ITEMS_PER_TIER]
            ELSE LET select == settled[i - 1] IN Settle(size, select, i)
    IN settled[TIERS]

\* Faulty: the generator is seeded by the first sample only.
SeedOnce(p) == IF rng.seed = {} THEN [seed |-> {p}, drawn |-> 0] ELSE rng

\* m_rng.seed: the payment id alone decides the values that follow.
Seed(p) == [seed |-> {p}, drawn |-> 0]

\* How many values of m_rng have been used before each tier is drawn from.
Drawn(tiers, start) ==
    LET drawn[t \in 0 .. TIERS] == IF t = 0 THEN start.drawn ELSE drawn[t - 1] + Len(tiers[t])
    IN drawn

\* Every tier is drawn from, then the tiers' shares are taken.
SampleParts(tiers, start) ==
    LET selected == [t \in 1 .. TIERS |-> SelectSupernodes(AUTH_SAMPLE_SIZE, tiers[t], start.seed,
                                                           Drawn(tiers, start)[t - 1])]
        shares == TierShares([t \in 1 .. TIERS |-> Len(selected[t])])
    IN [t \in 1 .. TIERS |-> SubSeq(selected[t], 1, shares[t])]

\* The second lock section of buildAuthSample and what it computes from it, for at most
\* TIERS tiers.  It gives up after k draws if the next supernode was removed since the
\* first section.
BuildAuthSample(w) ==
    LET tiers == [t \in 1 .. TIERS |->
                     IF t \in DOMAIN building[w].tiers THEN building[w].tiers[t] ELSE <<>>]
        start == Seed(building[w].payment)
        all == Drawn(tiers, start)[TIERS]
    IN
    /\ building[w].op = "select"
    /\ \/ /\ \E k \in start.drawn .. all - 1 : rng' = [start EXCEPT !.drawn = k]
          /\ UNCHANGED sample
       \/ /\ rng' = [start EXCEPT !.drawn = all]
          /\ sample' = [built |-> TRUE, payment |-> building[w].payment, tiers |-> tiers,
                        parts |-> SampleParts(tiers, start)]
    /\ building' = [building EXCEPT ![w] = NotBuilding]
    /\ UNCHANGED <<lists, listsMax, requestDue, arrived>>

SampleNext ==
    \/ \E b \in Blocks : BlockchainBasedList(b)
    \/ \E w \in Workers, b \in Blocks, p \in Payments : \E available \in SUBSET Ids :
          GetBlockchainBasedListForAuthSample(w, b, p, available)
    \/ \E w \in Workers : BuildAuthSample(w)
    \/ SynchronizeLists \/ ListRecvTimeout

SampleSpec == SampleInit /\ [][SampleNext]_sampleVars

-----------------------------------------------------------------------------

\* Only lists of the last HistorySize blocks before the newest are kept, in whatever order and
\* how often blocks arrive, and the newest is among them unless its number is below
\* HistorySize: the difference in setBlockchainBasedList then wraps round.
HistoryWindow ==
    /\ \A b \in Blocks : lists[b] # NoList => b <= listsMax /\ b + HistorySize >= listsMax
    /\ listsMax # 0 /\ listsMax >= HistorySize => lists[listsMax] # NoList

\* "flush cache - remove old blockchain based lists" (setBlockchainBasedList): from the first
\* block HistorySize on, every block in the window has the list that last arrived for it, and
\* older ones have none; all lists that arrive before that block are lost, as the difference
\* wraps round.
ListsExact ==
    \A b \in Blocks : lists[b] = IF b + HistorySize >= listsMax THEN arrived[b] ELSE NoList

Sums(size) ==
    LET sum[t \in 0 .. TIERS] == IF t = 0 THEN 0 ELSE sum[t - 1] + size[t]
    IN sum
TotalLen(tiers) == Sums([t \in 1 .. TIERS |-> Len(tiers[t])])[TIERS]
TierSize(t) == Len(sample.tiers[t])
Part(t) == sample.parts[t]
Least(a, b) == IF a < b THEN a ELSE b

\* What buildAuthSample promises, for any values of m_rng: distinct supernodes of the
\* tiers of the list, as many as AUTH_SAMPLE_SIZE or all that are available if there
\* are fewer; of every tier its ITEMS_PER_TIER, or all it has; and more of a tier only
\* if every higher one gives all it can ("look for a surplus first at tier 4, then
\* tier 3, then tier 1").
SampleComplete ==
    sample.built =>
        /\ \A t \in 1 .. TIERS :
              /\ ToSet(Part(t)) \subseteq ToSet(sample.tiers[t])
              /\ Cardinality(ToSet(Part(t))) = Len(Part(t))
              /\ Len(Part(t)) >= Least(ITEMS_PER_TIER, TierSize(t))
              /\ Len(Part(t)) > ITEMS_PER_TIER =>
                    \A u \in t + 1 .. TIERS : Len(Part(u)) = Least(TierSize(u), AUTH_SAMPLE_SIZE)
        /\ TotalLen(sample.parts) = Least(AUTH_SAMPLE_SIZE, TotalLen(sample.tiers))

\* "test if result is reproducable" (test/rta_classes_test.cpp): two samples in a row for
\* one payment from the same available supernodes are equal, whatever m_rng was used for
\* before and between.
SampleReproducible ==
    [][sample.built /\ sample'.payment = sample.payment /\ sample'.tiers = sample.tiers
          => sample'.parts = sample.parts]_sampleVars
=============================================================================
