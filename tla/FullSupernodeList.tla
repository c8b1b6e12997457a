-------------------------- MODULE FullSupernodeList --------------------------
(***************************************************************************)
(* The supernodes of class FullSupernodeList (rta/fullsupernodelist.cpp):  *)
(* m_list with the Supernode objects in it (rta/supernode.cpp), the        *)
(* handlers that change it (announces, stakes and the debug request that   *)
(* empties it), and the request for stakes that is repeated until the      *)
(* cryptonode answers.  AuthSample has the blockchain based lists.         *)
(*                                                                         *)
(* The handlers run on worker threads.  Every method of the list takes     *)
(* m_access for its own time only, so a handler that calls several of them *)
(* is a sequence of steps between which other workers change the list:     *)
(* job[w] keeps what worker w has read and not yet used.  updateStakes is  *)
(* one lock section and one action.                                        *)
(*                                                                         *)
(* Times are only compared with the clock, so an announce is fresh or old, *)
(* and the time for the next request is unset, ahead or over.              *)
(***************************************************************************)
EXTENDS Supernodes, Integers, FiniteSets

CONSTANTS
    ValidIds,         \* the ids that hex_to_pod can parse
    Own,              \* the id of this supernode
    StakesOf          \* the stake of each id in each block, 0 if it has none

ASSUME ConstantsAssumption ==
    /\ ValidIds \subseteq Ids
    /\ Own \in ValidIds
    /\ StakesOf \in [Blocks -> [Ids -> Nat]]

VARIABLES
    known,            \* the keys of m_list
    fresh,            \* the supernodes of m_list with an announce not older than ANNOUNCE_TTL_SECONDS
    stake,            \* m_stake_amount of the supernodes in m_list
    ownListed,        \* the supernode of the global context is the one in m_list
    stakesMax,        \* m_stakes_max_block_number
    nextRecvStakes,   \* m_next_recv_stakes
    job,              \* the handler each worker is in
    crashed,          \* a null SupernodePtr was dereferenced
    chain,            \* the cryptonode's newest block
    asked,            \* the cryptonode has a request for stakes
    dropped           \* history: ids removed since stakes were last taken over

listVars == <<known, fresh, stake, ownListed, dropped>>
syncVars == <<stakesMax, nextRecvStakes, chain, asked>>
vars == <<listVars, syncVars, job, crashed>>

Idle == [op |-> "idle"]

Init ==
    /\ known = {Own}
    /\ fresh = {}
    /\ stake = [i \in Ids |-> 0]
    /\ ownListed = TRUE
    /\ stakesMax = 0
    /\ nextRecvStakes = "unset"
    /\ job = [w \in Workers |-> Idle]
    /\ crashed = FALSE
    /\ chain = 0
    /\ asked = FALSE
    /\ dropped = {}

-----------------------------------------------------------------------------
(* Announces.                                                                *)

\* handleSupernodeAnnounce starts with exists().
Announce(w, i) ==
    /\ ~crashed
    /\ job[w] = Idle
    /\ job' = [job EXCEPT ![w] = [op |-> IF i \in known THEN "update" ELSE "create", id |-> i]]
    /\ UNCHANGED <<listVars, syncVars, crashed>>

\* get() and updateFromAnnounce: get() gives a null pointer, which is used, if the
\* supernode was removed since exists().  validateAnnounce may refuse the announce.
UpdateFromAnnounce(w) ==
    /\ ~crashed
    /\ job[w].op = "update"
    /\ \/ /\ job[w].id \notin known
          /\ crashed' = TRUE
          /\ UNCHANGED fresh
       \/ /\ job[w].id \in known
          /\ fresh' \in {fresh, fresh \cup {job[w].id}}
          /\ UNCHANGED crashed
    /\ job' = [job EXCEPT ![w] = Idle]
    /\ UNCHANGED <<known, stake, ownListed, dropped, syncVars>>

\* createFromAnnounce makes a supernode without stake, or nothing if the announce
\* is not valid.
CreateFromAnnounce(w) ==
    /\ ~crashed
    /\ job[w].op = "create"
    /\ \/ /\ job[w].id \in ValidIds
          /\ job' = [job EXCEPT ![w].op = "add"]
       \/ job' = [job EXCEPT ![w] = Idle]
    /\ UNCHANGED <<listVars, syncVars, crashed>>

\* The first half of add(): exists(), under a lock of its own.
AddExists(w) ==
    /\ ~crashed
    /\ job[w].op = "add"
    /\ \/ /\ job[w].id \in known
          /\ job' = [job EXCEPT ![w] = Idle]
       \/ /\ job[w].id \notin known
          /\ job' = [job EXCEPT ![w].op = "insert"]
    /\ UNCHANGED <<listVars, syncVars, crashed>>

\* Faulty: addImpl overwrites an entry that is there by now.
AddImplOverwrites(w) ==
    /\ ~crashed
    /\ job[w].op = "insert"
    /\ known' = known \cup {job[w].id}
    /\ stake' = [stake EXCEPT ![job[w].id] = 0]
    /\ fresh' = fresh \cup {job[w].id}
    /\ job' = [job EXCEPT ![w] = Idle]
    /\ UNCHANGED <<ownListed, dropped, syncVars, crashed>>

\* The second half of add(): addImpl, whose insert leaves an entry alone that is
\* there by now.  The announce may have become old since the supernode was made.
AddImpl(w) ==
    /\ ~crashed
    /\ job[w].op = "insert"
    /\ \/ /\ job[w].id \in known
          /\ UNCHANGED <<known, fresh>>
       \/ /\ job[w].id \notin known
          /\ known' = known \cup {job[w].id}
          /\ fresh' \in {fresh, fresh \cup {job[w].id}}
    /\ job' = [job EXCEPT ![w] = Idle]
    /\ UNCHANGED <<stake, ownListed, dropped, syncVars, crashed>>

\* sendAnnounce, the periodic task: it stamps the supernode of the global context.
SendAnnounce ==
    /\ ~crashed
    /\ ownListed
    /\ fresh' = fresh \cup {Own}
    /\ UNCHANGED <<known, stake, ownListed, dropped, syncVars, job, crashed>>

\* Time passes: an announce becomes older than ANNOUNCE_TTL_SECONDS.
AnnounceAges(i) ==
    /\ ~crashed
    /\ i \in fresh
    /\ fresh' = fresh \ {i}
    /\ UNCHANGED <<known, stake, ownListed, dropped, syncVars, job, crashed>>

-----------------------------------------------------------------------------
(* Stakes.                                                                   *)

\* The stakes of a block take the place of all others: every stake is cleared, then
\* those of the message are set.  A supernode that is not in the list is created
\* unless its id cannot be parsed.
SetStakes(b) ==
    LET new == {i \in ValidIds \ known : StakesOf[b][i] > 0} IN
    /\ known' = known \cup new
    /\ fresh' = fresh \cup new
    /\ stake' = [i \in Ids |-> IF i \in known \cup new THEN StakesOf[b][i] ELSE 0]
    /\ dropped' = {}

\* Faulty: stakes of an older block are taken over too.
UpdateStakesAnyOrder(b) ==
    /\ SetStakes(b)
    /\ stakesMax' = IF b > stakesMax THEN b ELSE stakesMax
    /\ nextRecvStakes' = "ahead"

\* updateStakes: stakes that are not newer than the last ones are ignored.
UpdateStakes(b) ==
    \/ /\ b > stakesMax
       /\ SetStakes(b)
       /\ stakesMax' = b
       /\ nextRecvStakes' = "ahead"
    \/ /\ b <= stakesMax
       /\ UNCHANGED <<known, fresh, stake, dropped, stakesMax, nextRecvStakes>>

\* supernodeStakesHandler, for stakes the cryptonode sends on its own account: of any
\* block it has, in any order, more than once.
StakesArrive(b) ==
    /\ ~crashed
    /\ b \in Blocks
    /\ b <= chain
    /\ UpdateStakes(b)
    /\ UNCHANGED <<ownListed, chain, asked, job, crashed>>

\* The cryptonode answers a request with the stakes of its newest block.
StakesAnswered ==
    /\ ~crashed
    /\ asked
    /\ asked' = FALSE
    /\ \/ chain # 0 /\ UpdateStakes(chain)
       \/ chain = 0 /\ UNCHANGED <<known, fresh, stake, dropped, stakesMax, nextRecvStakes>>
    /\ UNCHANGED <<ownListed, chain, job, crashed>>

\* A request or its answer is lost.
StakesLost ==
    /\ asked
    /\ asked' = FALSE
    /\ UNCHANGED <<listVars, stakesMax, nextRecvStakes, chain, job, crashed>>

NewBlock ==
    /\ \E b \in Blocks : b > chain /\ chain' = b
    /\ UNCHANGED <<listVars, stakesMax, nextRecvStakes, asked, job, crashed>>

\* Faulty: a time that was never set counts as not over.
SynchronizeNeedsTime ==
    /\ ~crashed
    /\ nextRecvStakes = "over"
    /\ nextRecvStakes' = "ahead"
    /\ asked' = TRUE
    /\ UNCHANGED <<listVars, stakesMax, chain, job, crashed>>

\* synchronizeWithCryptonode, every second: check_timeout_expired sets the next time
\* without a lock, whatever updateStakes does meanwhile, and the request is sent.
Synchronize ==
    /\ ~crashed
    /\ nextRecvStakes \in {"unset", "over"}
    /\ nextRecvStakes' = "ahead"
    /\ asked' = TRUE
    /\ UNCHANGED <<listVars, stakesMax, chain, job, crashed>>

\* Time passes: STAKES_RECV_TIMEOUT_SECONDS after stakes, or
\* REPEATED_REQUEST_DELAY_SECONDS after a request.
RecvTimeout ==
    /\ ~crashed
    /\ nextRecvStakes = "ahead"
    /\ nextRecvStakes' = "over"
    /\ UNCHANGED <<listVars, stakesMax, chain, asked, job, crashed>>

-----------------------------------------------------------------------------
(* The debug request /debug/close_wallets.                                   *)

\* closeStakeWallets starts with items(),
Items(w) ==
    /\ ~crashed
    /\ job[w] = Idle
    /\ known # {}
    /\ job' = [job EXCEPT ![w] = [op |-> "close", items |-> known]]
    /\ UNCHANGED <<listVars, syncVars, crashed>>

\* and goes on with remove() for one item after the other, in the order of a hash map.
RemoveSupernode(w) ==
    /\ ~crashed
    /\ job[w].op = "close"
    /\ \E i \in job[w].items :
          /\ known' = known \ {i}
          /\ fresh' = fresh \ {i}
          /\ stake' = [stake EXCEPT ![i] = 0]
          /\ ownListed' = (ownListed /\ i # Own)
          /\ dropped' = dropped \cup {i}
          /\ job' = [job EXCEPT ![w] = IF job[w].items = {i} THEN Idle
                                       ELSE [op |-> "close", items |-> job[w].items \ {i}]]
    /\ UNCHANGED <<syncVars, crashed>>

-----------------------------------------------------------------------------

\* The process has ended.
Crashed == crashed /\ UNCHANGED vars

Next ==
    \/ \E w \in Workers, i \in Ids : Announce(w, i)
    \/ \E w \in Workers :
          \/ UpdateFromAnnounce(w) \/ CreateFromAnnounce(w) \/ AddExists(w) \/ AddImpl(w)
          \/ Items(w) \/ RemoveSupernode(w)
    \/ SendAnnounce
    \/ \E i \in Ids : AnnounceAges(i)
    \/ \E b \in Blocks : StakesArrive(b)
    \/ StakesAnswered \/ StakesLost \/ NewBlock
    \/ Synchronize \/ RecvTimeout
    \/ Crashed

Spec == Init /\ [][Next]_vars

\* The periodic task runs, time passes, and of infinitely many requests for stakes one
\* is answered.  Nothing is assumed of stakes the cryptonode sends unasked.
FairSpec ==
    /\ Spec
    /\ WF_vars(Synchronize)
    /\ WF_vars(RecvTimeout)
    /\ SF_vars(StakesAnswered)

-----------------------------------------------------------------------------

Jobs ==
    {Idle} \cup [op : {"update", "create"}, id : Ids]
           \cup [op : {"add", "insert"}, id : ValidIds]
           \cup [op : {"close"}, items : SUBSET Ids]

\* Every variable keeps its type; only supernodes in m_list are fresh or have a stake.
TypeOK ==
    /\ known \subseteq ValidIds
    /\ fresh \subseteq known
    /\ stake \in [Ids -> Nat]
    /\ \A i \in Ids \ known : stake[i] = 0
    /\ ownListed \in BOOLEAN
    /\ ownListed => Own \in known
    /\ stakesMax \in Blocks \cup {0}
    /\ nextRecvStakes \in {"unset", "ahead", "over"}
    /\ job \in [Workers -> Jobs]
    /\ crashed \in BOOLEAN
    /\ chain \in Blocks \cup {0}
    /\ asked \in BOOLEAN
    /\ dropped \subseteq Ids

NewestStakesOf == IF stakesMax = 0 THEN [i \in Ids |-> 0] ELSE StakesOf[stakesMax]

\* The stakes in the list are those of the newest block received, however late or
\* often stakes arrive and although an announce may create a supernode without stake
\* while updateStakes creates it with one: a supernode in the list has its stake in
\* that block, and every supernode with a stake in it is in the list.  A supernode
\* removed since, by the debug request, may have no stake until the next block.
NewestStakes ==
    /\ stakesMax <= chain
    /\ \A i \in known : stake[i] = NewestStakesOf[i] \/ (i \in dropped /\ stake[i] = 0)
    /\ \A i \in ValidIds \ known : NewestStakesOf[i] > 0 => i \in dropped

\* synchronizeWithCryptonode asks again until it has the stakes of a block at least as
\* new as any the cryptonode had, although requests and answers get lost.
StakesCatchUp ==
    \A b \in Blocks : chain = b ~> (stakesMax >= b \/ crashed)
=============================================================================
