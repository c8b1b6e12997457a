----------------------- MODULE FullSupernodeListProofs -----------------------
(***************************************************************************)
(* Class FullSupernodeList for any supernodes, workers, blocks, stakes and *)
(* lists: the types and the stakes of FullSupernodeList, then the history  *)
(* window and the reproducible samples of AuthSample for every history     *)
(* size and every order in which lists arrive.                             *)
(***************************************************************************)
EXTENDS FullSupernodeList, AuthSample, FiniteSetTheorems, WellFoundedInduction, NaturalsInduction, TLAPS

\* Inductive together: a supernode that AddImpl inserts without stake is not in the
\* newest stakes only because TypeOK has no stake for unknown ids and NewestStakes has
\* every staked id in the list unless it was dropped.
IInv == TypeOK /\ NewestStakes

\* A step that changes nothing but the jobs and what is not part of NewestStakes.
LEMMA StakesUntouched ==
    ASSUME NewestStakes, UNCHANGED <<known, stake, dropped, stakesMax, chain>>
    PROVE  NewestStakes'
  BY DEF NewestStakes, NewestStakesOf

LEMMA IdleIsJob == Idle \in Jobs
  BY DEF Jobs

LEMMA InitIInv == Init => IInv
  <1> SUFFICES ASSUME Init PROVE IInv
    OBVIOUS
  <1>1. job \in [Workers -> Jobs]
    BY IdleIsJob DEF Init
  <1>2. TypeOK
    BY <1>1, ConstantsAssumption, BlocksAssumption DEF Init, TypeOK
  <1>3. NewestStakesOf = [i \in Ids |-> 0]
    BY DEF Init, NewestStakesOf
  <1>4. NewestStakes
    BY <1>3, ConstantsAssumption, BlocksAssumption DEF Init, NewestStakes
  <1> QED BY <1>2, <1>4 DEF IInv

\* A worker that only goes on to another step of its handler.
LEMMA JobStep ==
    ASSUME IInv, NEW w \in Workers, NEW j \in Jobs,
           job' = [job EXCEPT ![w] = j], UNCHANGED <<listVars, syncVars, crashed>>
    PROVE  IInv'
  <1>1. TypeOK'
    BY DEF IInv, TypeOK, listVars, syncVars
  <1>2. NewestStakes'
    BY StakesUntouched DEF IInv, listVars, syncVars
  <1> QED BY <1>1, <1>2 DEF IInv

\* The id a worker in an announce has.
LEMMA JobIds ==
    ASSUME TypeOK, NEW w \in Workers
    PROVE  /\ job[w].op = "update" => job[w].id \in Ids
           /\ job[w].op = "create" =>
                 job[w].id \in Ids /\ job[w] = [op |-> "create", id |-> job[w].id]
           /\ job[w].op = "add" =>
                 job[w].id \in ValidIds /\ job[w] = [op |-> "add", id |-> job[w].id]
           /\ job[w].op = "insert" => job[w].id \in ValidIds
           /\ job[w].op = "close" => job[w].items \subseteq Ids
  <1>1. job[w] \in Jobs
    BY DEF TypeOK
  <1> QED BY <1>1 DEF Jobs, Idle

LEMMA AnnounceStep ==
    ASSUME IInv, NEW w \in Workers, NEW i \in Ids, Announce(w, i)
    PROVE  IInv'
  <1>1. PICK o \in {"update", "create"} : job' = [job EXCEPT ![w] = [op |-> o, id |-> i]]
    BY DEF Announce
  <1>2. [op |-> o, id |-> i] \in Jobs
    BY DEF Jobs
  <1> QED BY <1>1, <1>2, JobStep DEF Announce

LEMMA UpdateFromAnnounceStep ==
    ASSUME IInv, NEW w \in Workers, UpdateFromAnnounce(w)
    PROVE  IInv'
  <1>1. job' \in [Workers -> Jobs]
    BY IdleIsJob DEF IInv, TypeOK, UpdateFromAnnounce
  <1>2. fresh' \subseteq known /\ crashed' \in BOOLEAN
    BY DEF IInv, TypeOK, UpdateFromAnnounce
  <1>3. TypeOK'
    BY <1>1, <1>2 DEF IInv, TypeOK, UpdateFromAnnounce, syncVars
  <1>4. NewestStakes'
    BY StakesUntouched DEF IInv, UpdateFromAnnounce, syncVars
  <1> QED BY <1>3, <1>4 DEF IInv

LEMMA CreateFromAnnounceStep ==
    ASSUME IInv, NEW w \in Workers, CreateFromAnnounce(w)
    PROVE  IInv'
  <1>1. CASE job' = [job EXCEPT ![w] = Idle]
    BY <1>1, IdleIsJob, JobStep DEF CreateFromAnnounce
  <1>2. CASE job[w].id \in ValidIds /\ job' = [job EXCEPT ![w].op = "add"]
    <2> DEFINE j == [op |-> "add", id |-> job[w].id]
    <2>1. j \in Jobs
      BY <1>2 DEF Jobs
    <2>2. job[w] = [op |-> "create", id |-> job[w].id]
      BY JobIds DEF IInv, CreateFromAnnounce
    <2>3. [job[w] EXCEPT !.op = "add"] = j
      BY <2>2
    <2>4. job' = [job EXCEPT ![w] = j]
      BY <1>2, <2>3
    <2> QED BY <2>1, <2>4, JobStep DEF CreateFromAnnounce
  <1> QED BY <1>1, <1>2 DEF CreateFromAnnounce

LEMMA AddExistsStep ==
    ASSUME IInv, NEW w \in Workers, AddExists(w)
    PROVE  IInv'
  <1>1. CASE job' = [job EXCEPT ![w] = Idle]
    BY <1>1, IdleIsJob, JobStep DEF AddExists
  <1>2. CASE job' = [job EXCEPT ![w].op = "insert"]
    <2> DEFINE j == [op |-> "insert", id |-> job[w].id]
    <2>1. job[w].id \in ValidIds /\ job[w] = [op |-> "add", id |-> job[w].id]
      BY JobIds DEF IInv, AddExists
    <2>2. j \in Jobs
      BY <2>1 DEF Jobs
    <2>3. [job[w] EXCEPT !.op = "insert"] = j
      BY <2>1
    <2>4. job' = [job EXCEPT ![w] = j]
      BY <1>2, <2>3
    <2> QED BY <2>2, <2>4, JobStep DEF AddExists
  <1> QED BY <1>1, <1>2 DEF AddExists

\* The race of the announce with the stakes: the inserted supernode has no stake.
LEMMA AddImplStep ==
    ASSUME IInv, NEW w \in Workers, AddImpl(w)
    PROVE  IInv'
  <1> DEFINE i == job[w].id
  <1>1. i \in ValidIds /\ i \in Ids
    BY JobIds, ConstantsAssumption, BlocksAssumption DEF IInv, AddImpl
  <1>2. job' \in [Workers -> Jobs]
    BY IdleIsJob DEF IInv, TypeOK, AddImpl
  <1>3. /\ known' = known \cup {i}
        /\ fresh' \subseteq known'
    BY DEF IInv, TypeOK, AddImpl
  <1>4. TypeOK'
    BY <1>1, <1>2, <1>3 DEF IInv, TypeOK, AddImpl, syncVars
  <1>5. UNCHANGED <<stake, dropped, stakesMax, chain>>
    BY DEF AddImpl, syncVars
  <1>6. NewestStakesOf' = NewestStakesOf
    BY <1>5 DEF NewestStakesOf
  <1>7. i \in known \/ stake[i] = NewestStakesOf[i] \/ (i \in dropped /\ stake[i] = 0)
    <2> SUFFICES ASSUME i \notin known PROVE stake[i] = NewestStakesOf[i] \/ (i \in dropped /\ stake[i] = 0)
      OBVIOUS
    <2>1. stake[i] = 0
      BY <1>1 DEF IInv, TypeOK
    <2>2. NewestStakesOf[i] \in Nat
      BY <1>1, ConstantsAssumption, BlocksAssumption DEF IInv, TypeOK, NewestStakesOf
    <2> QED BY <1>1, <2>1, <2>2 DEF IInv, NewestStakes
  <1>8. NewestStakes'
    BY <1>3, <1>5, <1>6, <1>7 DEF IInv, NewestStakes
  <1> QED BY <1>4, <1>8 DEF IInv

\* The stakes of a block that is newer than the last one.
LEMMA SetStakesStep ==
    ASSUME IInv, NEW b \in Blocks, SetStakes(b), stakesMax' = b
    PROVE  /\ known \subseteq known' /\ known' \subseteq ValidIds /\ fresh' \subseteq known'
           /\ stake' \in [Ids -> Nat]
           /\ \A i \in Ids \ known' : stake'[i] = 0
           /\ dropped' = {}
           /\ \A i \in known' : stake'[i] = NewestStakesOf'[i]
           /\ \A i \in ValidIds \ known' : ~(NewestStakesOf'[i] > 0)
  <1> DEFINE new == {i \in ValidIds \ known : StakesOf[b][i] > 0}
  <1>1. /\ known' = known \cup new
        /\ fresh' = fresh \cup new
        /\ stake' = [i \in Ids |-> IF i \in known \cup new THEN StakesOf[b][i] ELSE 0]
        /\ dropped' = {}
    BY DEF SetStakes
  <1>2. StakesOf[b] \in [Ids -> Nat] /\ b # 0 /\ ValidIds \subseteq Ids
    BY ConstantsAssumption, BlocksAssumption
  <1>3. NewestStakesOf' = StakesOf[b]
    BY <1>2 DEF NewestStakesOf
  <1>4. known \subseteq ValidIds /\ fresh \subseteq known
    BY DEF IInv, TypeOK
  <1> QED BY <1>1, <1>2, <1>3, <1>4

LEMMA UpdateStakesStep ==
    ASSUME IInv, NEW b \in Blocks, UpdateStakes(b), b <= chain,
           UNCHANGED <<ownListed, chain, job, crashed>>, asked' \in BOOLEAN
    PROVE  IInv'
  <1>1. CASE b > stakesMax
    <2>1. SetStakes(b) /\ stakesMax' = b /\ nextRecvStakes' = "ahead"
      BY <1>1, ConstantsAssumption, BlocksAssumption DEF UpdateStakes, IInv, TypeOK
    <2>2. TypeOK'
      BY <2>1, SetStakesStep DEF IInv, TypeOK
    <2>3. NewestStakes'
      BY <2>1, SetStakesStep DEF NewestStakes
    <2> QED BY <2>2, <2>3 DEF IInv
  <1>2. CASE b <= stakesMax
    <2>1. UNCHANGED <<known, fresh, stake, dropped, stakesMax, nextRecvStakes>>
      BY <1>2, ConstantsAssumption, BlocksAssumption DEF UpdateStakes, IInv, TypeOK
    <2>2. TypeOK'
      BY <2>1 DEF IInv, TypeOK
    <2>3. NewestStakes'
      BY <2>1, StakesUntouched DEF IInv
    <2> QED BY <2>2, <2>3 DEF IInv
  <1> QED BY <1>1, <1>2 DEF UpdateStakes

LEMMA RemoveSupernodeStep ==
    ASSUME IInv, NEW w \in Workers, RemoveSupernode(w)
    PROVE  IInv'
  <1>1. PICK i \in job[w].items :
          /\ known' = known \ {i}
          /\ fresh' = fresh \ {i}
          /\ stake' = [stake EXCEPT ![i] = 0]
          /\ ownListed' = (ownListed /\ i # Own)
          /\ dropped' = dropped \cup {i}
          /\ job' = [job EXCEPT ![w] = IF job[w].items = {i} THEN Idle
                                       ELSE [op |-> "close", items |-> job[w].items \ {i}]]
    BY DEF RemoveSupernode
  <1>2. job[w].items \subseteq Ids /\ i \in Ids
    BY <1>1, JobIds DEF IInv, RemoveSupernode
  <1>3. [op |-> "close", items |-> job[w].items \ {i}] \in Jobs
    BY <1>2 DEF Jobs
  <1>4. job' \in [Workers -> Jobs]
    BY <1>1, <1>3, IdleIsJob DEF IInv, TypeOK
  <1>5. ownListed' \in BOOLEAN /\ (ownListed' => Own \in known')
    BY <1>1 DEF IInv, TypeOK
  <1>6. TypeOK'
    BY <1>1, <1>2, <1>4, <1>5 DEF IInv, TypeOK, RemoveSupernode, syncVars
  <1>7. NewestStakesOf' = NewestStakesOf /\ UNCHANGED <<stakesMax, chain>>
    BY DEF RemoveSupernode, syncVars, NewestStakesOf
  <1>8. NewestStakes'
    BY <1>1, <1>2, <1>7, ConstantsAssumption, BlocksAssumption DEF IInv, TypeOK, NewestStakes
  <1> QED BY <1>6, <1>8 DEF IInv

LEMMA StepIInv == IInv /\ [Next]_vars => IInv'
  <1> SUFFICES ASSUME IInv, [Next]_vars PROVE IInv'
    OBVIOUS
  <1>1. CASE \E w \in Workers, i \in Ids : Announce(w, i)
    BY <1>1, AnnounceStep
  <1>2. CASE \E w \in Workers : UpdateFromAnnounce(w)
    BY <1>2, UpdateFromAnnounceStep
  <1>3. CASE \E w \in Workers : CreateFromAnnounce(w)
    BY <1>3, CreateFromAnnounceStep
  <1>4. CASE \E w \in Workers : AddExists(w)
    BY <1>4, AddExistsStep
  <1>5. CASE \E w \in Workers : AddImpl(w)
    BY <1>5, AddImplStep
  <1>6. CASE \E w \in Workers : Items(w)
    <2> PICK w \in Workers : Items(w)
      BY <1>6
    <2>1. [op |-> "close", items |-> known] \in Jobs
      BY ConstantsAssumption, BlocksAssumption DEF IInv, TypeOK, Jobs
    <2> QED BY <2>1, JobStep DEF Items
  <1>7. CASE \E w \in Workers : RemoveSupernode(w)
    BY <1>7, RemoveSupernodeStep
  <1>8. CASE SendAnnounce
    <2>1. TypeOK'
      BY <1>8 DEF IInv, TypeOK, SendAnnounce, syncVars
    <2>2. NewestStakes'
      BY <1>8, StakesUntouched DEF IInv, SendAnnounce, syncVars
    <2> QED BY <2>1, <2>2 DEF IInv
  <1>9. CASE \E i \in Ids : AnnounceAges(i)
    <2>1. TypeOK'
      BY <1>9 DEF IInv, TypeOK, AnnounceAges, syncVars
    <2>2. NewestStakes'
      BY <1>9, StakesUntouched DEF IInv, AnnounceAges, syncVars
    <2> QED BY <2>1, <2>2 DEF IInv
  <1>10. CASE \E b \in Blocks : StakesArrive(b)
    <2> PICK b \in Blocks : StakesArrive(b)
      BY <1>10
    <2>1. asked' \in BOOLEAN
      BY DEF StakesArrive, IInv, TypeOK
    <2> QED BY <2>1, UpdateStakesStep DEF StakesArrive
  <1>11. CASE StakesAnswered
    <2>1. CASE chain # 0 /\ UpdateStakes(chain)
      <3>1. chain \in Blocks /\ chain \in Nat
        BY <2>1, ConstantsAssumption, BlocksAssumption DEF IInv, TypeOK
      <3>2. chain <= chain
        BY <3>1
      <3>3. asked' \in BOOLEAN
        BY <1>11 DEF StakesAnswered
      <3> QED BY <1>11, <2>1, <3>1, <3>2, <3>3, UpdateStakesStep DEF StakesAnswered
    <2>2. CASE UNCHANGED <<known, fresh, stake, dropped, stakesMax, nextRecvStakes>>
      <3>1. TypeOK'
        BY <1>11, <2>2 DEF IInv, TypeOK, StakesAnswered
      <3>2. NewestStakes'
        BY <1>11, <2>2, StakesUntouched DEF IInv, StakesAnswered
      <3> QED BY <3>1, <3>2 DEF IInv
    <2> QED BY <1>11, <2>1, <2>2 DEF StakesAnswered
  <1>12. CASE StakesLost \/ Synchronize \/ RecvTimeout
    <2>0. /\ UNCHANGED <<listVars, stakesMax, chain, job, crashed>>
          /\ asked' \in BOOLEAN
          /\ nextRecvStakes' \in {"unset", "ahead", "over"}
      <3>1. CASE StakesLost
        BY <3>1 DEF StakesLost, IInv, TypeOK
      <3>2. CASE Synchronize
        BY <3>2 DEF Synchronize
      <3>3. CASE RecvTimeout
        BY <3>3 DEF RecvTimeout, IInv, TypeOK
      <3> QED BY <1>12, <3>1, <3>2, <3>3
    <2>1. TypeOK'
      BY <2>0 DEF IInv, TypeOK, listVars
    <2>2. NewestStakes'
      BY <2>0, StakesUntouched DEF IInv, listVars
    <2> QED BY <2>1, <2>2 DEF IInv
  <1>13. CASE NewBlock
    <2>1. PICK b \in Blocks : b > chain /\ chain' = b
      BY <1>13 DEF NewBlock
    <2>2. TypeOK'
      BY <1>13, <2>1 DEF IInv, TypeOK, NewBlock, listVars
    <2>3. stakesMax \in Nat /\ chain \in Nat /\ b \in Nat
      BY ConstantsAssumption, BlocksAssumption DEF IInv, TypeOK
    <2>4. stakesMax' <= chain'
      BY <1>13, <2>1, <2>3 DEF IInv, NewestStakes, NewBlock
    <2>5. NewestStakes'
      BY <1>13, <2>4 DEF IInv, NewestStakes, NewestStakesOf, NewBlock, listVars
    <2> QED BY <2>2, <2>5 DEF IInv
  <1>14. CASE UNCHANGED vars
    <2>1. TypeOK'
      BY <1>14 DEF IInv, TypeOK, vars, listVars, syncVars
    <2>2. NewestStakes'
      BY <1>14, StakesUntouched DEF IInv, vars, listVars, syncVars
    <2> QED BY <2>1, <2>2 DEF IInv
  <1> QED
    BY <1>1, <1>2, <1>3, <1>4, <1>5, <1>6, <1>7, <1>8, <1>9, <1>10, <1>11, <1>12, <1>13, <1>14
       DEF Next, Crashed

\* Every variable keeps its type: only supernodes in m_list are fresh or have a stake.
THEOREM TypeCorrect == Spec => []TypeOK
  <1>1. IInv => TypeOK
    BY DEF IInv
  <1> QED BY <1>1, InitIInv, StepIInv, PTL DEF Spec

\* The list holds the stakes of the newest block received, for any interleaving of
\* announces, stakes out of order and removals by any number of workers.
THEOREM StakesAreNewest == Spec => []NewestStakes
  <1>1. IInv => NewestStakes
    BY DEF IInv
  <1> QED BY <1>1, InitIInv, StepIInv, PTL DEF Spec

-----------------------------------------------------------------------------
(* The history window of the blockchain based lists.                         *)

\* The lists and the newest block number are what the code keeps them to be.
ListsTyped ==
    /\ DOMAIN lists = Blocks
    /\ DOMAIN arrived = Blocks
    /\ listsMax \in Blocks \cup {0}

\* What has arrived since the newest block reached the history size.
ArrivedOK ==
    /\ \A b \in Blocks : arrived[b] # NoList => b <= listsMax /\ listsMax >= HistorySize
    /\ listsMax # 0 /\ listsMax >= HistorySize => arrived[listsMax] # NoList

WindowInv == ListsTyped /\ ArrivedOK /\ ListsExact

\* The uint64_t subtraction of setBlockchainBasedList is exact as long as it does not
\* wrap round; when it does, it is larger than any block number.
LEMMA MinusExact ==
    ASSUME NEW x \in Nat, NEW y \in Nat, y <= x, x < Word
    PROVE  Minus(x, y) = x - y
  BY SampleAssumption DEF Minus

LEMMA MinusWraps ==
    ASSUME NEW x \in Nat, NEW y \in Nat, x < y, y < Word
    PROVE  Minus(x, y) = x - y + Word
  BY SampleAssumption DEF Minus

\* What SetBlockchainBasedList leaves of the lists.
LEMMA FlushKeepsWindow ==
    ASSUME NEW b \in Blocks, NEW l \in ListsOf[b], ListsTyped,
           listsMax' = IF b > listsMax THEN b ELSE listsMax
    PROVE  /\ listsMax' \in Blocks
           /\ \A c \in Blocks :
                 Flush(b, l)[c] = IF listsMax' < HistorySize \/ c + HistorySize < listsMax'
                                  THEN NoList
                                  ELSE IF c = b THEN l ELSE lists[c]
  <1>1. listsMax' \in Blocks /\ listsMax' \in Nat /\ HistorySize \in Nat /\ Word \in Nat
    BY SampleAssumption, BlocksAssumption DEF ListsTyped
  <1>2. \A c \in Blocks : c \in Nat /\ c + HistorySize < Word
    BY SampleAssumption, BlocksAssumption
  <1>3. listsMax' < Word /\ HistorySize < Word
    BY <1>1, <1>2
  <1>4. ASSUME NEW c \in Blocks
        PROVE  c < Minus(listsMax', HistorySize)
                  <=> listsMax' < HistorySize \/ c + HistorySize < listsMax'
    <2>1. CASE HistorySize <= listsMax'
      <3>1. Minus(listsMax', HistorySize) = listsMax' - HistorySize
        BY <1>1, <1>3, <2>1, MinusExact
      <3>2. c \in Nat
        BY <1>2
      <3>3. \A m, h, k \in Nat : h <= m => (k < m - h <=> m < h \/ k + h < m)
        OBVIOUS
      <3>4. c < listsMax' - HistorySize <=> listsMax' < HistorySize \/ c + HistorySize < listsMax'
        BY <1>1, <2>1, <3>2, <3>3
      <3> QED BY <3>1, <3>4
    <2>2. CASE listsMax' < HistorySize
      <3>1. Minus(listsMax', HistorySize) = listsMax' - HistorySize + Word
        BY <1>1, <1>3, <2>2, MinusWraps
      <3>2. c \in Nat /\ c + HistorySize < Word
        BY <1>2
      <3>3. \A m, h, k, w \in Nat : k + h < w => k < m - h + w
        OBVIOUS
      <3>4. c < listsMax' - HistorySize + Word
        BY <1>1, <3>2, <3>3
      <3> QED BY <2>2, <3>1, <3>4
    <2>3. \A m, h \in Nat : h <= m \/ m < h
      OBVIOUS
    <2> QED BY <1>1, <2>1, <2>2, <2>3
  <1> QED BY <1>1, <1>4 DEF Flush, ListsTyped

LEMMA InitWindow == SampleInit => WindowInv
  BY SampleAssumption, BlocksAssumption DEF SampleInit, WindowInv, ListsTyped, ArrivedOK, ListsExact

LEMMA StepWindow == WindowInv /\ [SampleNext]_sampleVars => WindowInv'
  <1> SUFFICES ASSUME WindowInv, [SampleNext]_sampleVars PROVE WindowInv'
    OBVIOUS
  <1>0. /\ HistorySize \in Nat /\ listsMax \in Nat /\ Blocks \subseteq Nat \ {0}
        /\ ListsTyped /\ ArrivedOK /\ ListsExact
    BY SampleAssumption, BlocksAssumption DEF WindowInv, ListsTyped
  <1>1. ASSUME NEW b \in Blocks, NEW l \in ListsOf[b], SetBlockchainBasedList(b, l)
        PROVE  WindowInv'
    <2>0. l # NoList /\ b \in Nat
      BY <1>0, SampleAssumption
    <2>1. CASE lists[b] # NoList
      <3>1. /\ lists' = [lists EXCEPT ![b] = l] /\ listsMax' = listsMax
            /\ arrived' = IF listsMax >= HistorySize THEN [arrived EXCEPT ![b] = l] ELSE arrived
        BY <1>1, <2>1 DEF SetBlockchainBasedList
      <3>2. arrived[b] # NoList /\ b + HistorySize >= listsMax /\ b <= listsMax
            /\ listsMax >= HistorySize
        BY <1>0, <2>1 DEF ListsExact, ArrivedOK
      <3>3. arrived' = [arrived EXCEPT ![b] = l]
        BY <3>1, <3>2
      <3>4. ListsTyped'
        BY <1>0, <3>1, <3>3 DEF ListsTyped
      <3>5. ArrivedOK'
        BY <1>0, <2>0, <3>1, <3>2, <3>3 DEF ArrivedOK, ListsTyped
      <3>6. ListsExact'
        BY <1>0, <3>1, <3>2, <3>3 DEF ListsExact, ListsTyped
      <3> QED BY <3>4, <3>5, <3>6 DEF WindowInv
    <2>2. CASE lists[b] = NoList
      <3>1. /\ listsMax' = (IF b > listsMax THEN b ELSE listsMax) /\ lists' = Flush(b, l)
            /\ arrived' = IF listsMax' >= HistorySize THEN [arrived EXCEPT ![b] = l] ELSE arrived
        BY <1>1, <2>2 DEF SetBlockchainBasedList
      <3>2. /\ listsMax' \in Blocks
            /\ \A c \in Blocks :
                  lists'[c] = IF listsMax' < HistorySize \/ c + HistorySize < listsMax'
                              THEN NoList
                              ELSE IF c = b THEN l ELSE lists[c]
        BY <1>0, <3>1, FlushKeepsWindow
      <3>3. listsMax' \in Nat /\ listsMax <= listsMax' /\ b <= listsMax'
        BY <1>0, <2>0, <3>1
      <3>4. ListsTyped'
        BY <1>0, <3>1, <3>2 DEF ListsTyped, Flush
      <3>5. CASE listsMax' < HistorySize
        <4>1. arrived' = arrived /\ \A c \in Blocks : arrived[c] = NoList /\ lists'[c] = NoList
          <5>1. \A m, n, h \in Nat : n <= m /\ m < h => ~(n >= h) /\ ~(m >= h)
            OBVIOUS
          <5>2. ~(listsMax >= HistorySize) /\ ~(listsMax' >= HistorySize)
            BY <1>0, <3>3, <3>5, <5>1
          <5> QED BY <1>0, <3>1, <3>2, <3>5, <5>2 DEF ArrivedOK
        <4>2. \A m, h \in Nat : m < h => ~(m >= h)
          OBVIOUS
        <4>3. ~(listsMax' >= HistorySize)
          BY <1>0, <3>3, <3>5, <4>2
        <4>4. ArrivedOK'
          BY <4>1, <4>3 DEF ArrivedOK
        <4>5. ListsExact'
          BY <4>1 DEF ListsExact
        <4> QED BY <3>4, <4>4, <4>5 DEF WindowInv
      <3>6. CASE listsMax' >= HistorySize
        <4>1. \A c \in Blocks : arrived'[c] = IF c = b THEN l ELSE arrived[c]
          BY <1>0, <3>1, <3>6 DEF ListsTyped
        <4>2. ArrivedOK'
          <5>1. ASSUME NEW c \in Blocks, arrived'[c] # NoList PROVE c <= listsMax'
            <6>1. c = b \/ c <= listsMax
              BY <1>0, <4>1, <5>1 DEF ArrivedOK
            <6>2. \A m, n, k \in Nat : k <= n /\ n <= m => k <= m
              OBVIOUS
            <6> QED BY <1>0, <3>3, <6>1, <6>2
          <5>2. arrived'[listsMax'] # NoList
            <6>1. CASE listsMax' = b
              BY <2>0, <3>2, <4>1, <6>1
            <6>2. CASE listsMax' = listsMax /\ listsMax # b
              BY <1>0, <3>2, <3>6, <4>1, <6>2 DEF ArrivedOK
            <6> QED BY <3>1, <6>1, <6>2
          <5> QED BY <3>6, <5>1, <5>2 DEF ArrivedOK
        <4>3. ASSUME NEW c \in Blocks
              PROVE  lists'[c] = IF c + HistorySize >= listsMax' THEN arrived'[c] ELSE NoList
          <5>1. c \in Nat /\ (c + HistorySize >= listsMax' => c + HistorySize >= listsMax)
            BY <1>0, <3>3
          <5>2. lists[c] = IF c + HistorySize >= listsMax THEN arrived[c] ELSE NoList
            BY <1>0 DEF ListsExact
          <5> QED BY <1>0, <3>2, <3>3, <3>6, <4>1, <5>1, <5>2
        <4> QED BY <3>4, <4>2, <4>3 DEF WindowInv, ListsExact
      <3> QED BY <1>0, <3>3, <3>5, <3>6
    <2> QED BY <2>1, <2>2
  <1>2. ASSUME lists' = lists, listsMax' = listsMax, arrived' = arrived PROVE WindowInv'
    BY <1>2 DEF WindowInv, ListsTyped, ArrivedOK, ListsExact
  <1>3. CASE \E w \in Workers, b \in Blocks, p \in Payments : \E available \in SUBSET Ids :
                GetBlockchainBasedListForAuthSample(w, b, p, available)
    BY <1>2, <1>3 DEF GetBlockchainBasedListForAuthSample
  <1>4. CASE \E w \in Workers : BuildAuthSample(w)
    BY <1>2, <1>4 DEF BuildAuthSample
  <1>5. CASE SynchronizeLists \/ ListRecvTimeout
    BY <1>2, <1>5 DEF SynchronizeLists, ListRecvTimeout
  <1>6. CASE UNCHANGED sampleVars
    BY <1>2, <1>6 DEF sampleVars
  <1> QED BY <1>1, <1>3, <1>4, <1>5, <1>6 DEF SampleNext, BlockchainBasedList

\* Only lists in the window are kept, and the newest is one of them once block numbers have
\* reached the history size, for any history size and order of arrival.
THEOREM WindowKept == SampleSpec => []HistoryWindow
  <1>1. WindowInv => HistoryWindow
    <2> SUFFICES ASSUME WindowInv PROVE HistoryWindow
      OBVIOUS
    <2>1. /\ HistorySize \in Nat /\ listsMax \in Nat /\ Blocks \subseteq Nat \ {0}
          /\ listsMax # 0 => listsMax \in Blocks /\ listsMax + HistorySize >= listsMax
      BY SampleAssumption, BlocksAssumption DEF WindowInv, ListsTyped
    <2> QED BY <2>1 DEF WindowInv, ArrivedOK, ListsExact, HistoryWindow
  <1> QED BY <1>1, InitWindow, StepWindow, PTL DEF SampleSpec

\* setBlockchainBasedList keeps for every block in the window the list that arrived last, and
\* none before the newest block has reached the history size.
THEOREM ListsAreExact == SampleSpec => []ListsExact
  <1>1. WindowInv => ListsExact
    BY DEF WindowInv
  <1> QED BY <1>1, InitWindow, StepWindow, PTL DEF SampleSpec

-----------------------------------------------------------------------------
(* Samples are reproducible.                                                 *)

\* The sample that was built last is what its payment id and its tiers make of it.
SampleOfPayment == sample.built => sample.parts = SampleParts(sample.tiers, Seed(sample.payment))

LEMMA SampleStep ==
    ASSUME [SampleNext]_sampleVars
    PROVE  \/ sample' = sample
           \/ sample'.built /\ sample'.parts = SampleParts(sample'.tiers, Seed(sample'.payment))
  <1>1. ASSUME NEW w \in Workers, BuildAuthSample(w), sample' # sample
        PROVE  sample'.built /\ sample'.parts = SampleParts(sample'.tiers, Seed(sample'.payment))
    <2> DEFINE tiers == [t \in 1 .. TIERS |->
                            IF t \in DOMAIN building[w].tiers THEN building[w].tiers[t] ELSE <<>>]
    <2>1. sample' = [built |-> TRUE, payment |-> building[w].payment, tiers |-> tiers,
                     parts |-> SampleParts(tiers, Seed(building[w].payment))]
      BY <1>1 DEF BuildAuthSample
    <2> HIDE DEF tiers
    <2> QED BY <2>1
  <1> QED BY <1>1 DEF SampleNext, BlockchainBasedList, SetBlockchainBasedList, SynchronizeLists, ListRecvTimeout,
             GetBlockchainBasedListForAuthSample, sampleVars

LEMMA SampleOfPaymentInv == SampleSpec => []SampleOfPayment
  <1>1. SampleInit => SampleOfPayment
    BY DEF SampleInit, SampleOfPayment, NoSample
  <1>2. SampleOfPayment /\ [SampleNext]_sampleVars => SampleOfPayment'
    <2> SUFFICES ASSUME SampleOfPayment, [SampleNext]_sampleVars PROVE SampleOfPayment'
      OBVIOUS
    <2> QED BY SampleStep DEF SampleOfPayment, Seed
  <1> QED BY <1>1, <1>2, PTL DEF SampleSpec

\* A sample depends on the payment id and on who is available, and not on what m_rng was
\* used for before, by this worker or another.
THEOREM SampleIsReproducible == SampleSpec => SampleReproducible
  <1> DEFINE Same == sample.built /\ sample'.payment = sample.payment /\ sample'.tiers = sample.tiers
                        => sample'.parts = sample.parts
  <1>1. SampleOfPayment /\ [SampleNext]_sampleVars => [Same]_sampleVars
    <2> SUFFICES ASSUME SampleOfPayment, [SampleNext]_sampleVars PROVE Same
      OBVIOUS
    <2> QED BY SampleStep DEF SampleOfPayment, Seed
  <1> QED BY <1>1, SampleOfPaymentInv, PTL DEF SampleSpec, SampleReproducible

-----------------------------------------------------------------------------
(* Induction along the loops of buildAuthSample.                             *)

\* What holds at 0 and goes on from each step to the next holds up to n.
LEMMA Upto ==
    ASSUME NEW n \in Nat, NEW P, 0 \in P, \A k \in 1 .. n : k - 1 \in P => k \in P
    PROVE  \A k \in 0 .. n : k \in P
  <1> DEFINE bad == {k \in 0 .. n : k \notin P}
  <1> SUFFICES ASSUME bad # {} PROVE FALSE
    OBVIOUS
  <1>1. PICK x \in bad : \A y \in bad : ~ (<<y, x>> \in OpToRel(<, Nat))
    <2>1. bad \subseteq Nat
      OBVIOUS
    <2> HIDE DEF bad
    <2> QED BY <2>1, NatLessThanWellFounded, WFMin
  <1>2. x \in 1 .. n
    OBVIOUS
  <1>3. x - 1 \in 0 .. n /\ <<x - 1, x>> \in OpToRel(<, Nat)
    BY <1>2 DEF OpToRel
  <1>4. x - 1 \in P
    BY <1>1, <1>3
  <1> QED BY <1>2, <1>4

\* The values of a loop over 1 .. n, from the one before it on.
Loop(f, n, init, step) == f[0] = init /\ \A k \in 1 .. n : f[k] = step[<<k, f[k - 1]>>]

\* A loop has a value after every step.
LEMMA LoopExists ==
    ASSUME NEW n \in Nat, NEW S, NEW init \in S, NEW step \in [(1 .. n) \X S -> S]
    PROVE  \E f \in [0 .. n -> S] : Loop(f, n, init, step)
  <1> DEFINE P == {m \in 0 .. n : \E f \in [0 .. m -> S] : Loop(f, m, init, step)}
  <1>1. 0 \in P
    <2>1. [k \in 0 .. 0 |-> init] \in [0 .. 0 -> S] /\ Loop([k \in 0 .. 0 |-> init], 0, init, step)
      BY DEF Loop
    <2>2. \E f \in [0 .. 0 -> S] : Loop(f, 0, init, step)
      BY <2>1
    <2> QED BY <2>2
  <1>2. ASSUME NEW m \in 1 .. n, m - 1 \in P PROVE m \in P
    <2>1. PICK f \in [0 .. (m - 1) -> S] : Loop(f, m - 1, init, step)
      BY <1>2
    <2>2. m - 1 \in 0 .. (m - 1) /\ f[m - 1] \in S
      OBVIOUS
    <2>3. step[<<m, f[m - 1]>>] \in S
      BY <2>2
    <2> DEFINE g == [k \in 0 .. m |-> IF k = m THEN step[<<m, f[m - 1]>>] ELSE f[k]]
    <2>4. g \in [0 .. m -> S]
      BY <2>3
    <2>5. g[0] = init
      BY <2>1 DEF Loop
    <2>6. ASSUME NEW k \in 1 .. m PROVE g[k] = step[<<k, g[k - 1]>>]
      <3>1. k - 1 \in 0 .. m /\ k - 1 # m /\ k \in 0 .. m
        OBVIOUS
      <3>2. g[k - 1] = f[k - 1]
        BY <3>1
      <3>3. CASE k = m
        BY <3>1, <3>2, <3>3
      <3>4. CASE k # m
        <4>1. k \in 1 .. (m - 1)
          BY <3>4
        <4> QED BY <2>1, <3>1, <3>2, <3>4, <4>1 DEF Loop
      <3> QED BY <3>3, <3>4
    <2>7. Loop(g, m, init, step)
      BY <2>5, <2>6 DEF Loop
    <2>8. \E h \in [0 .. m -> S] : Loop(h, m, init, step)
      <3> HIDE DEF g
      <3> QED BY <2>4, <2>7
    <2>9. m \in 0 .. n
      OBVIOUS
    <2> QED BY <2>8, <2>9
  <1>3. n \in P
    <2> HIDE DEF P
    <2> QED BY <1>1, <1>2, Upto
  <1> QED BY <1>3

-----------------------------------------------------------------------------
(* Sums over the tiers.                                                      *)

LEMMA TiersTyped == TIERS \in Nat /\ TIERS >= 1 /\ ITEMS_PER_TIER \in Nat /\ ITEMS_PER_TIER >= 1
  BY SampleAssumption

LEMMA SumsIs ==
    ASSUME NEW f \in [1 .. TIERS -> Int]
    PROVE  /\ Sums(f) \in [0 .. TIERS -> Int] /\ Sums(f)[0] = 0
           /\ \A k \in 1 .. TIERS : Sums(f)[k] = Sums(f)[k - 1] + f[k]
  <1> USE TiersTyped
  <1> DEFINE Eq(g) == g = [k \in 0 .. TIERS |-> IF k = 0 THEN 0 ELSE g[k - 1] + f[k]]
             step == [kx \in (1 .. TIERS) \X Int |-> kx[2] + f[kx[1]]]
  <1>1. step \in [(1 .. TIERS) \X Int -> Int]
    OBVIOUS
  <1>2. PICK h \in [0 .. TIERS -> Int] : Loop(h, TIERS, 0, step)
    <2> HIDE DEF step
    <2>1. TIERS \in Nat /\ 0 \in Int
      OBVIOUS
    <2> QED BY <1>1, <2>1, LoopExists, Zenon
  <1>3. Eq(h)
    <2>1. ASSUME NEW k \in 1 .. TIERS PROVE h[k] = h[k - 1] + f[k]
      <3>1. k - 1 \in 0 .. TIERS /\ h[k - 1] \in Int
        OBVIOUS
      <3> QED BY <1>2, <3>1 DEF Loop
    <2> QED BY <1>2, <2>1 DEF Loop
  <1>4. Sums(f) = CHOOSE g : Eq(g)
    BY DEF Sums
  <1>5. Eq(Sums(f))
    <2> HIDE DEF Eq
    <2> QED BY <1>3, <1>4
  <1> DEFINE s == Sums(f)
             P == {k \in 0 .. TIERS : s[k] \in Int}
  <1>6. 0 \in P
    BY <1>5
  <1>7. ASSUME NEW k \in 1 .. TIERS, k - 1 \in P PROVE k \in P
    <2>1. k \in 0 .. TIERS /\ k # 0 /\ f[k] \in Int /\ s[k - 1] \in Int
      BY <1>7
    <2>2. s[k] = s[k - 1] + f[k]
      BY <1>5, <2>1
    <2> HIDE DEF s
    <2> QED BY <2>1, <2>2
  <1>8. \A k \in 0 .. TIERS : k \in P
    <2> HIDE DEF P
    <2> QED BY <1>6, <1>7, Upto
  <1>9. s = [k \in 0 .. TIERS |-> IF k = 0 THEN 0 ELSE s[k - 1] + f[k]]
    BY <1>5
  <1>10. \A k \in 0 .. TIERS : s[k] \in Int
    BY <1>8
  <1> HIDE DEF s
  <1>11. s \in [0 .. TIERS -> Int]
    BY <1>9, <1>10
  <1>12. s[0] = 0
    BY <1>9
  <1>13. ASSUME NEW k \in 1 .. TIERS PROVE s[k] = s[k - 1] + f[k]
    <2>1. k \in 0 .. TIERS /\ k # 0
      OBVIOUS
    <2> QED BY <1>9, <2>1
  <1> QED BY <1>11, <1>12, <1>13, Zenon DEF s

LEMMA SumTyped ==
    ASSUME NEW f \in [1 .. TIERS -> Int], NEW k \in 0 .. TIERS
    PROVE  Sums(f)[k] \in Int
  BY SumsIs

LEMMA SumOfConstant ==
    ASSUME NEW f \in [1 .. TIERS -> Int], NEW c \in Int, \A t \in 1 .. TIERS : f[t] = c
    PROVE  Sums(f)[TIERS] = TIERS * c
  <1> USE TiersTyped
  <1> DEFINE P == {k \in 0 .. TIERS : Sums(f)[k] = k * c}
  <1>1. 0 \in P
    BY SumsIs
  <1>2. ASSUME NEW k \in 1 .. TIERS, k - 1 \in P PROVE k \in P
    <2>1. Sums(f)[k] = (k - 1) * c + c
      BY <1>2, SumsIs
    <2>2. \A x \in Nat : (x - 1) * c + c = x * c
      OBVIOUS
    <2> QED BY <2>1, <2>2
  <1>3. \A k \in 0 .. TIERS : k \in P
    <2> HIDE DEF P
    <2> QED BY <1>1, <1>2, Upto
  <1> QED BY <1>3

LEMMA SumMonotonic ==
    ASSUME NEW f \in [1 .. TIERS -> Int], NEW g \in [1 .. TIERS -> Int], \A t \in 1 .. TIERS : f[t] <= g[t]
    PROVE  Sums(f)[TIERS] <= Sums(g)[TIERS]
  <1> USE TiersTyped
  <1> DEFINE P == {k \in 0 .. TIERS : Sums(f)[k] <= Sums(g)[k]}
  <1>a. Sums(f)[0] = 0
    BY SumsIs
  <1>b. Sums(g)[0] = 0
    BY SumsIs
  <1>1. 0 \in P
    BY <1>a, <1>b
  <1>2. ASSUME NEW k \in 1 .. TIERS, k - 1 \in P PROVE k \in P
    <2>0. k - 1 \in 0 .. TIERS
      OBVIOUS
    <2>1. Sums(f)[k - 1] \in Int
      BY <2>0, SumTyped
    <2>a. Sums(g)[k - 1] \in Int
      BY <2>0, SumTyped
    <2>2. Sums(f)[k] = Sums(f)[k - 1] + f[k]
      BY SumsIs
    <2>b. Sums(g)[k] = Sums(g)[k - 1] + g[k]
      BY SumsIs
    <2> QED BY <1>2, <2>1, <2>a, <2>2, <2>b
  <1>3. \A k \in 0 .. TIERS : k \in P
    <2> HIDE DEF P
    <2> QED BY <1>1, <1>2, Upto
  <1> QED BY <1>3

\* One summand changes.
LEMMA SumChanged ==
    ASSUME NEW f \in [1 .. TIERS -> Int], NEW g \in [1 .. TIERS -> Int], NEW i \in 1 .. TIERS,
           \A t \in 1 .. TIERS : t # i => g[t] = f[t]
    PROVE  Sums(g)[TIERS] = Sums(f)[TIERS] + g[i] - f[i]
  <1> USE TiersTyped
  <1> DEFINE d == g[i] - f[i]
             P == {k \in 0 .. TIERS : Sums(g)[k] = Sums(f)[k] + (IF k >= i THEN d ELSE 0)}
  <1>a. Sums(f)[0] = 0
    BY SumsIs
  <1>b. Sums(g)[0] = 0
    BY SumsIs
  <1>1. 0 \in P
    BY <1>a, <1>b
  <1>2. ASSUME NEW k \in 1 .. TIERS, k - 1 \in P PROVE k \in P
    <2>0. k - 1 \in 0 .. TIERS
      OBVIOUS
    <2>1. Sums(f)[k - 1] \in Int
      BY <2>0, SumTyped
    <2>a. Sums(g)[k - 1] \in Int
      BY <2>0, SumTyped
    <2>2. Sums(f)[k] = Sums(f)[k - 1] + f[k]
      BY SumsIs
    <2>b. Sums(g)[k] = Sums(g)[k - 1] + g[k]
      BY SumsIs
    <2>3. CASE k = i
      <3>1. Sums(g)[k - 1] = Sums(f)[k - 1]
        BY <1>2, <2>1, <2>3
      <3>2. g[k] = f[k] + d /\ f[k] \in Int /\ d \in Int
        BY <2>3
      <3> HIDE DEF d
      <3>3. Sums(g)[k] = Sums(f)[k] + d
        BY <2>1, <2>2, <2>b, <3>1, <3>2
      <3> QED BY <2>3, <3>3
    <2>4. CASE k # i
      <3>1. g[k] = f[k] /\ f[k] \in Int /\ (k >= i <=> k - 1 >= i)
        BY <2>4
      <3>2. Sums(g)[k - 1] = Sums(f)[k - 1] + (IF k - 1 >= i THEN d ELSE 0)
        BY <1>2
      <3>3. d \in Int
        OBVIOUS
      <3> HIDE DEF d
      <3>4. Sums(g)[k] = Sums(f)[k] + (IF k >= i THEN d ELSE 0)
        BY <2>1, <2>2, <2>b, <3>1, <3>2, <3>3
      <3> QED BY <3>4
    <2> QED BY <2>3, <2>4
  <1>3. \A k \in 0 .. TIERS : k \in P
    <2> HIDE DEF P
    <2> QED BY <1>1, <1>2, Upto
  <1>4. Sums(g)[TIERS] = Sums(f)[TIERS] + d
    BY <1>3
  <1>5. Sums(f)[TIERS] \in Int
    BY SumTyped
  <1> QED BY <1>4, <1>5

\* What one tier loses another gains.
Moved(f, g, i, j) ==
    /\ f \in [1 .. TIERS -> Int] /\ g \in [1 .. TIERS -> Int]
    /\ i \in 1 .. TIERS /\ j \in 1 .. TIERS /\ i # j /\ g[i] + g[j] = f[i] + f[j]
    /\ \A t \in 1 .. TIERS : t # i /\ t # j => g[t] = f[t]

LEMMA SumMoved ==
    ASSUME NEW f, NEW g, NEW i, NEW j, Moved(f, g, i, j)
    PROVE  Sums(g)[TIERS] = Sums(f)[TIERS]
  <1> USE DEF Moved
  <1> DEFINE m == [f EXCEPT ![i] = g[i]]
  <1>1. m \in [1 .. TIERS -> Int] /\ \A t \in 1 .. TIERS : m[t] = IF t = i THEN g[t] ELSE f[t]
    OBVIOUS
  <1> HIDE DEF m
  <1>a. /\ f \in [1 .. TIERS -> Int] /\ g \in [1 .. TIERS -> Int] /\ m \in [1 .. TIERS -> Int]
        /\ i \in 1 .. TIERS /\ j \in 1 .. TIERS
    BY <1>1
  <1>b. /\ \A t \in 1 .. TIERS : t # i => m[t] = f[t]
        /\ \A t \in 1 .. TIERS : t # j => g[t] = m[t]
    BY <1>1
  <1>2. Sums(m)[TIERS] = Sums(f)[TIERS] + m[i] - f[i]
    BY <1>a, <1>b, SumChanged, Zenon
  <1>3. Sums(g)[TIERS] = Sums(m)[TIERS] + g[j] - m[j]
    BY <1>a, <1>b, SumChanged, Zenon
  <1>4. Sums(f)[TIERS] \in Int
    BY SumTyped, TiersTyped
  <1>5. m[i] = g[i] /\ m[j] = f[j] /\ f[i] \in Int /\ f[j] \in Int /\ g[i] \in Int /\ g[j] \in Int
    BY <1>1
  <1> QED BY <1>2, <1>3, <1>4, <1>5

\* A sum is at least each of its summands when none is negative.
LEMMA SumBounds ==
    ASSUME NEW f \in [1 .. TIERS -> Int], \A t \in 1 .. TIERS : f[t] >= 0, NEW i \in 1 .. TIERS
    PROVE  f[i] <= Sums(f)[TIERS]
  <1> DEFINE z == [t \in 1 .. TIERS |-> 0]
             m == [z EXCEPT ![i] = f[i]]
  <1>1. /\ z \in [1 .. TIERS -> Int] /\ \A t \in 1 .. TIERS : z[t] = 0
        /\ m \in [1 .. TIERS -> Int] /\ \A t \in 1 .. TIERS : m[t] = IF t = i THEN f[i] ELSE 0
    OBVIOUS
  <1> HIDE DEF z, m
  <1>2. Sums(z)[TIERS] = TIERS * 0
    <2>1. z \in [1 .. TIERS -> Int] /\ 0 \in Int /\ \A t \in 1 .. TIERS : z[t] = 0
      BY <1>1
    <2> QED BY <2>1, SumOfConstant, Zenon
  <1>3. Sums(z)[TIERS] = 0
    BY <1>2, TiersTyped
  <1>4. Sums(m)[TIERS] = Sums(z)[TIERS] + m[i] - z[i]
    <2>1. \A t \in 1 .. TIERS : t # i => m[t] = z[t]
      BY <1>1
    <2>2. z \in [1 .. TIERS -> Int] /\ m \in [1 .. TIERS -> Int]
      BY <1>1
    <2> QED BY <2>1, <2>2, SumChanged, Zenon
  <1>5. Sums(m)[TIERS] <= Sums(f)[TIERS]
    <2>1. \A t \in 1 .. TIERS : m[t] <= f[t]
      BY <1>1
    <2>2. m \in [1 .. TIERS -> Int]
      BY <1>1
    <2> QED BY <2>1, <2>2, SumMonotonic
  <1> QED BY <1>1, <1>3, <1>4, <1>5

-----------------------------------------------------------------------------
(* What is taken from a tier.                                                *)

\* Of the first k elements of a tier, none twice.
Picked(s, tier, k) ==
    s \in Seq(Ids) /\ IsInjective(s) /\ \A x \in DOMAIN s : \E j \in 1 .. k : s[x] = tier[j]

LEMMA PickedNone ==
    ASSUME NEW tier PROVE Picked(<<>>, tier, 0)
  BY DEF Picked, IsInjective

LEMMA PickedNext ==
    ASSUME NEW tier \in Seq(Ids), IsInjective(tier), NEW k \in 1 .. Len(tier), NEW s, Picked(s, tier, k - 1)
    PROVE  Picked(s, tier, k) /\ Picked(Append(s, tier[k]), tier, k)
  <1>1. Picked(s, tier, k)
    BY DEF Picked
  <1> DEFINE e == tier[k]
             a == Append(s, e)
  <1>2. e \in Ids /\ s \in Seq(Ids)
    BY DEF Picked
  <1>3. ASSUME NEW x \in DOMAIN s PROVE s[x] # e
    <2>1. PICK j \in 1 .. (k - 1) : s[x] = tier[j]
      BY DEF Picked
    <2>2. j \in DOMAIN tier /\ k \in DOMAIN tier /\ j # k
      OBVIOUS
    <2> QED BY <2>1, <2>2 DEF IsInjective
  <1> HIDE DEF e
  <1>4. a \in Seq(Ids) /\ DOMAIN a = 1 .. Len(s) + 1 /\ DOMAIN s = 1 .. Len(s) /\ Len(s) \in Nat
    BY <1>2
  <1>5. \A x \in DOMAIN a : a[x] = IF x = Len(s) + 1 THEN e ELSE s[x]
    BY <1>2
  <1> HIDE DEF a
  <1>6. \A x \in DOMAIN a : x \in DOMAIN s \/ x = Len(s) + 1
    BY <1>4
  <1>7. IsInjective(a)
    <2>1. ASSUME NEW x \in DOMAIN a, NEW y \in DOMAIN a, a[x] = a[y] PROVE x = y
      <3>1. CASE x = Len(s) + 1 /\ y \in DOMAIN s
        BY <1>3, <1>5, <2>1, <3>1
      <3>2. CASE y = Len(s) + 1 /\ x \in DOMAIN s
        BY <1>3, <1>5, <2>1, <3>2
      <3>3. CASE x \in DOMAIN s /\ y \in DOMAIN s
        <4>1. x # Len(s) + 1 /\ y # Len(s) + 1
          BY <1>4, <3>3
        <4>2. s[x] = s[y]
          BY <1>5, <2>1, <4>1
        <4> QED BY <3>3, <4>2 DEF Picked, IsInjective
      <3> QED BY <1>6, <3>1, <3>2, <3>3
    <2> QED BY <2>1 DEF IsInjective
  <1>8. ASSUME NEW x \in DOMAIN a PROVE \E j \in 1 .. k : a[x] = tier[j]
    <2>1. CASE x = Len(s) + 1
      BY <1>5, <2>1 DEF e
    <2>2. CASE x # Len(s) + 1
      <3>1. x \in DOMAIN s /\ a[x] = s[x]
        BY <1>5, <1>6, <2>2
      <3> QED BY <3>1 DEF Picked
    <2> QED BY <2>1, <2>2
  <1>9. Picked(a, tier, k)
    BY <1>4, <1>7, <1>8 DEF Picked
  <1> QED BY <1>1, <1>9 DEF a, e

LEMMA CopiedPicked ==
    ASSUME NEW tier \in Seq(Ids), IsInjective(tier), NEW available
    PROVE  Picked(Copied(tier, available), tier, Len(tier))
  <1> DEFINE Body(k, dst) == IF tier[k] \in available THEN Append(dst, tier[k]) ELSE dst
  <1>a. SUFFICES ASSUME NEW n \in Nat, n = Len(tier) PROVE Picked(Copied(tier, available), tier, n)
    OBVIOUS
  <1> DEFINE Eq(g) == g = [k \in 0 .. n |-> IF k = 0 THEN <<>> ELSE Body(k, g[k - 1])]
             step == [kx \in (1 .. n) \X Seq(Ids) |-> Body(kx[1], kx[2])]
  <1>0. <<>> \in Seq(Ids) /\ \A k \in 1 .. n : tier[k] \in Ids
    BY <1>a
  <1>b. ASSUME NEW k \in 1 .. n, NEW x \in Seq(Ids) PROVE Body(k, x) \in Seq(Ids)
    BY <1>0
  <1>c. \A k \in 1 .. n : k - 1 \in 0 .. n /\ k \in 0 .. n /\ k # 0
    OBVIOUS
  <1>4. Copied(tier, available) = (CHOOSE g : Eq(g))[n]
    BY <1>a DEF Copied
  <1> HIDE DEF Body
  <1>1. step \in [(1 .. n) \X Seq(Ids) -> Seq(Ids)]
    BY <1>b
  <1>2. PICK h \in [0 .. n -> Seq(Ids)] : Loop(h, n, <<>>, step)
    <2> HIDE DEF step
    <2> QED BY <1>0, <1>1, LoopExists, Zenon
  <1>3. Eq(h)
    <2>1. ASSUME NEW k \in 1 .. n PROVE h[k] = Body(k, h[k - 1])
      <3>1. h[k - 1] \in Seq(Ids) /\ h[k] = step[<<k, h[k - 1]>>]
        BY <1>2, <1>c DEF Loop
      <3> QED BY <3>1
    <2>2. h[0] = <<>>
      BY <1>2 DEF Loop
    <2>3. \A k \in 0 .. n : k = 0 \/ k \in 1 .. n
      OBVIOUS
    <2> QED BY <2>1, <2>2, <2>3
  <1>5. PICK f : Eq(f) /\ f = CHOOSE g : Eq(g)
    <2> HIDE DEF Eq
    <2> QED BY <1>3
  <1>6. f[0] = <<>> /\ \A k \in 1 .. n : f[k] = Body(k, f[k - 1])
    <2>a. Eq(f)
      <3> HIDE DEF Eq
      <3> QED BY <1>5
    <2>1. f = [k \in 0 .. n |-> IF k = 0 THEN <<>> ELSE Body(k, f[k - 1])]
      BY <2>a, Zenon
    <2>2. f[0] = <<>>
      BY <2>1
    <2>3. ASSUME NEW k \in 1 .. n PROVE f[k] = Body(k, f[k - 1])
      <3>1. k \in 0 .. n /\ k # 0
        BY <1>c
      <3> QED BY <2>1, <3>1
    <2> QED BY <2>2, <2>3
  <1> DEFINE P == {k \in 0 .. n : Picked(f[k], tier, k)}
  <1>7. 0 \in P
    BY <1>6, PickedNone
  <1>8. ASSUME NEW k \in 1 .. n, k - 1 \in P PROVE k \in P
    <2>2. Picked(f[k - 1], tier, k - 1) /\ k \in 1 .. Len(tier)
      BY <1>8, <1>a
    <2>3. Picked(f[k - 1], tier, k) /\ Picked(Append(f[k - 1], tier[k]), tier, k)
      BY <2>2, PickedNext
    <2>1. Picked(f[k], tier, k)
      BY <1>6, <2>3 DEF Body
    <2> QED BY <2>1
  <1>9. \A k \in 0 .. n : k \in P
    <2> HIDE DEF P
    <2> QED BY <1>7, <1>8, Upto
  <1>10. Picked(f[n], tier, n)
    <2>1. n \in 0 .. n
      OBVIOUS
    <2> QED BY <1>9, <2>1
  <1> QED BY <1>4, <1>5, <1>10, Zenon

\* How many are still needed, and what was taken so far.
Accs == [needed : Int, out : Seq(Ids)]

LEMMA TakenTyped ==
    ASSUME NEW tier \in Seq(Ids), NEW k \in 1 .. Len(tier), NEW acc \in Accs, NEW value
    PROVE  Taken(acc, tier, k, value) \in Accs
  <1>1. tier[k] \in Ids /\ acc.needed \in Int /\ acc.out \in Seq(Ids)
    BY DEF Accs
  <1>2. [needed |-> acc.needed - 1, out |-> Append(acc.out, tier[k])] \in Accs
    BY <1>1 DEF Accs
  <1> QED BY <1>2 DEF Taken

\* One more step of the loop: never fewer left than are needed, and never less than none
\* needed.
Going(acc, tier, k, n, all) ==
    /\ Picked(acc.out, tier, k) /\ acc.needed \in Nat
    /\ acc.needed <= n - k /\ acc.needed + Len(acc.out) = all

LEMMA TakenGoing ==
    ASSUME NEW tier \in Seq(Ids), IsInjective(tier), NEW n \in Nat, n = Len(tier), NEW k \in 1 .. n,
           NEW all \in Nat, NEW value \in Nat, NEW acc, Going(acc, tier, k - 1, n, all)
    PROVE  Going(Taken(acc, tier, k, value), tier, k, n, all)
  <1>0. n - k + 1 \in Nat /\ n - k + 1 >= 1
    OBVIOUS
  <1>1. PICK left \in Nat : left >= 1 /\ left = n - k + 1
    BY <1>0
  <1>2. value % left \in 0 .. (left - 1)
    BY <1>1
  <1>3. Picked(acc.out, tier, k) /\ Picked(Append(acc.out, tier[k]), tier, k) /\ acc.out \in Seq(Ids)
    <2>1. Picked(acc.out, tier, k - 1) /\ k \in 1 .. Len(tier)
      BY DEF Going
    <2>2. acc.out \in Seq(Ids)
      BY <2>1 DEF Picked
    <2> QED BY <2>1, <2>2, PickedNext
  <1>4. Taken(acc, tier, k, value) = IF value % left >= acc.needed THEN acc
                 ELSE [needed |-> acc.needed - 1, out |-> Append(acc.out, tier[k])]
    BY <1>1 DEF Taken
  <1>a. acc.needed \in Nat /\ acc.needed <= left /\ acc.needed + Len(acc.out) = all
    BY <1>1 DEF Going
  <1>5. CASE value % left >= acc.needed
    <2>1. acc.needed <= n - k
      BY <1>1, <1>2, <1>5, <1>a
    <2> QED BY <1>3, <1>4, <1>5, <1>a, <2>1 DEF Going
  <1>6. CASE ~(value % left >= acc.needed)
    <2>1. acc.needed >= 1
      BY <1>2, <1>6, <1>a
    <2>2. Len(Append(acc.out, tier[k])) = Len(acc.out) + 1 /\ Len(acc.out) \in Nat
      BY <1>3
    <2>3. acc.needed - 1 \in Nat /\ acc.needed - 1 <= n - k /\ acc.needed - 1 + (Len(acc.out) + 1) = all
      <3>1. acc.needed - 1 \in Nat
        BY <1>a, <2>1
      <3>2. acc.needed - 1 <= n - k
        BY <1>1, <1>a
      <3>3. acc.needed - 1 + (Len(acc.out) + 1) = all
        BY <1>a, <2>2
      <3> QED BY <3>1, <3>2, <3>3
    <2>4. SUFFICES ASSUME NEW r, r = [needed |-> acc.needed - 1, out |-> Append(acc.out, tier[k])]
                   PROVE  Going(r, tier, k, n, all)
      BY <1>4, <1>6
    <2>5. r.needed = acc.needed - 1 /\ r.out = Append(acc.out, tier[k])
      BY <2>4
    <2> QED BY <1>3, <2>2, <2>3, <2>5 DEF Going
  <1> QED BY <1>5, <1>6

LEMMA RandomTyped ==
    ASSUME NEW p \in Payments, NEW k \in Nat
    PROVE  RandomValue({p}, k) \in Nat
  <1>1. Period \in Nat \ {0}
    BY SampleAssumption
  <1>2. k % Period \in 0 .. Period - 1
    BY <1>1
  <1> QED BY <1>2, SampleAssumption DEF RandomValue

\* selectSupernodes takes as many as it was asked for, or all of a tier that has no more.
LEMMA SelectedPicked ==
    ASSUME NEW count \in Nat, NEW tier \in Seq(Ids), IsInjective(tier), NEW p \in Payments, NEW drawn \in Nat
    PROVE  /\ Picked(SelectSupernodes(count, tier, {p}, drawn), tier, Len(tier))
           /\ Len(SelectSupernodes(count, tier, {p}, drawn)) = Least(count, Len(tier))
  <1> DEFINE Body(k, acc) == Taken(acc, tier, k, RandomValue({p}, drawn + k))
  <1>g. Len(tier) \in Nat
    OBVIOUS
  <1>a. SUFFICES ASSUME NEW n \in Nat, n = Len(tier)
                 PROVE  /\ Picked(SelectSupernodes(count, tier, {p}, drawn), tier, n)
                        /\ Len(SelectSupernodes(count, tier, {p}, drawn)) = Least(count, n)
    BY <1>g, Zenon
  <1> DEFINE init == [needed |-> IF count > n THEN n ELSE count, out |-> <<>>]
             Eq(g) == g = [k \in 0 .. n |-> IF k = 0 THEN init ELSE Body(k, g[k - 1])]
             step == [kx \in (1 .. n) \X Accs |-> Body(kx[1], kx[2])]
  <1>0. init \in Accs
    BY DEF Accs
  <1>b. ASSUME NEW k \in 1 .. n, NEW x \in Accs PROVE Body(k, x) \in Accs
    BY <1>a, TakenTyped
  <1>c. \A k \in 1 .. n : k - 1 \in 0 .. n /\ k \in 0 .. n /\ k # 0
    OBVIOUS
  <1>4. SelectSupernodes(count, tier, {p}, drawn) = (CHOOSE g : Eq(g))[n].out
    BY <1>a DEF SelectSupernodes
  <1>d. init.needed = Least(count, n) /\ init.out = <<>>
    BY DEF Least
  <1> HIDE DEF Body, init
  <1>1. step \in [(1 .. n) \X Accs -> Accs]
    BY <1>b
  <1>2. PICK h \in [0 .. n -> Accs] : Loop(h, n, init, step)
    <2> HIDE DEF step
    <2> QED BY <1>0, <1>1, LoopExists, Zenon
  <1>3. Eq(h)
    <2>1. ASSUME NEW k \in 1 .. n PROVE h[k] = Body(k, h[k - 1])
      <3>1. h[k - 1] \in Accs /\ h[k] = step[<<k, h[k - 1]>>]
        BY <1>2, <1>c DEF Loop
      <3> QED BY <3>1
    <2>2. h[0] = init
      BY <1>2 DEF Loop
    <2>3. \A k \in 0 .. n : k = 0 \/ k \in 1 .. n
      OBVIOUS
    <2> QED BY <2>1, <2>2, <2>3
  <1>5. PICK f : Eq(f) /\ f = CHOOSE g : Eq(g)
    <2> HIDE DEF Eq
    <2> QED BY <1>3
  <1>f. f = [k \in 0 .. n |-> IF k = 0 THEN init ELSE Body(k, f[k - 1])]
    BY <1>5
  <1>6. f[0] = init /\ \A k \in 1 .. n : f[k] = Body(k, f[k - 1])
    <2>1. f[0] = init
      BY <1>f
    <2>2. ASSUME NEW k \in 1 .. n PROVE f[k] = Body(k, f[k - 1])
      <3>1. k \in 0 .. n /\ k # 0
        BY <1>c
      <3> QED BY <1>f, <3>1, Zenon
    <2> QED BY <2>1, <2>2
  <1>e. SUFFICES ASSUME NEW all \in Nat, all = Least(count, n)
                 PROVE  Picked(f[n].out, tier, n) /\ Len(f[n].out) = all
    BY <1>4, <1>5 DEF Least
  <1> DEFINE P == {k \in 0 .. n : Going(f[k], tier, k, n, all)}
  <1>7. 0 \in P
    <2>1. all <= n /\ Len(<<>>) = 0
      BY <1>e DEF Least
    <2>2. f[0].out = <<>> /\ f[0].needed = all
      BY <1>6, <1>d, <1>e
    <2>3. Picked(f[0].out, tier, 0)
      BY <2>2, PickedNone
    <2>4. Going(f[0], tier, 0, n, all)
      BY <2>1, <2>2, <2>3 DEF Going
    <2> QED BY <2>4
  <1>8. ASSUME NEW k \in 1 .. n, k - 1 \in P PROVE k \in P
    <2>0. drawn + k \in Nat
      OBVIOUS
    <2>1. Going(f[k - 1], tier, k - 1, n, all)
      BY <1>8
    <2>3. RandomValue({p}, drawn + k) \in Nat
      BY <2>0, RandomTyped
    <2>4. Going(Body(k, f[k - 1]), tier, k, n, all)
      BY <1>a, <2>1, <2>3, TakenGoing DEF Body
    <2>2. Going(f[k], tier, k, n, all)
      BY <1>6, <2>4
    <2> QED BY <2>2
  <1>9. n \in P
    <2> HIDE DEF P
    <2>1. n \in 0 .. n
      OBVIOUS
    <2> QED BY <1>7, <1>8, <2>1, Upto
  <1>10. Going(f[n], tier, n, n, all)
    BY <1>9
  <1>11. f[n].out \in Seq(Ids)
    BY <1>10 DEF Going, Picked
  <1>12. \A s \in Seq(Ids) : Len(s) \in Nat
    OBVIOUS
  <1>13. Len(f[n].out) \in Nat
    BY <1>11, <1>12
  <1>14. ASSUME NEW x \in Nat, NEW y \in Nat, x <= n - n, x + y = all PROVE y = all
    BY <1>14
  <1> QED BY <1>10, <1>13, <1>14 DEF Going

-----------------------------------------------------------------------------
(* What the tiers give to a sample.                                          *)

Ts == 1 .. TIERS

\* Of every tier its ITEMS_PER_TIER, or all it has; more of a tier only if every higher one
\* gives all it has.
Balanced(size, select) ==
    /\ \A t \in Ts : select[t] >= Least(ITEMS_PER_TIER, size[t])
    /\ \A t, u \in Ts : t < u /\ select[t] > ITEMS_PER_TIER => select[u] >= size[u]

\* The shares add up to the sample, or no tier has more to give.
Adequate(size, select) ==
    /\ Sums(select)[TIERS] <= AUTH_SAMPLE_SIZE
    /\ Sums(select)[TIERS] = AUTH_SAMPLE_SIZE \/ \A t \in Ts : select[t] >= size[t]

\* The shares after tier i is settled.
Fair(size, select, i) ==
    /\ select \in [Ts -> Int]
    /\ Balanced(size, select)
    /\ Adequate(size, select)
    /\ \A t \in Ts : t <= i => select[t] <= size[t]

\* Tier i needs nothing more, or none of the tiers from j up has a surplus for it.
Searched(size, select, i, j) == \A u \in Ts : u >= j /\ u # i => select[i] <= size[i] \/ size[u] <= select[u]

\* A transfer of d from tier j.
Given(select, i, j, d) == [select EXCEPT ![i] = @ - d, ![j] = @ + d]

LEMMA GivenFair ==
    ASSUME NEW size \in [Ts -> Nat], NEW s, NEW i \in Ts, NEW j \in Ts, i # j,
           Fair(size, s, i - 1), Searched(size, s, i, j + 1), NEW d \in Nat, d >= 1,
           d <= s[i] - size[i], d <= size[j] - s[j], d = s[i] - size[i] \/ d = size[j] - s[j]
    PROVE  Fair(size, Given(s, i, j, d), i - 1) /\ Searched(size, Given(s, i, j, d), i, j)
  <1>0. s \in [Ts -> Int] /\ Ts \subseteq Nat /\ ITEMS_PER_TIER \in Nat
    <2>1. s \in [Ts -> Int]
      BY DEF Fair
    <2>2. Ts \subseteq Nat
      BY TiersTyped DEF Ts
    <2> QED BY <2>1, <2>2, TiersTyped
  <1>1. SUFFICES ASSUME NEW r, r = Given(s, i, j, d)
                 PROVE  Fair(size, r, i - 1) /\ Searched(size, r, i, j)
    OBVIOUS
  <1>2. r \in [Ts -> Int] /\ r[i] = s[i] - d /\ r[j] = s[j] + d /\ \A t \in Ts : t # i /\ t # j => r[t] = s[t]
    BY <1>0, <1>1 DEF Given
  <1>3. /\ s[i] \in Int /\ s[j] \in Int /\ size[i] \in Nat /\ size[j] \in Nat
        /\ r[i] >= size[i] /\ r[i] <= s[i] /\ r[j] >= s[j] /\ r[j] <= size[j] /\ s[j] < size[j]
    BY <1>0, <1>2
  <1>4. \A t \in Ts : r[t] \in Int /\ s[t] \in Int /\ size[t] \in Nat
    BY <1>0, <1>2
  <1>5. \A t \in Ts : r[t] >= Least(ITEMS_PER_TIER, size[t])
    <2> SUFFICES ASSUME NEW t \in Ts PROVE r[t] >= Least(ITEMS_PER_TIER, size[t])
      OBVIOUS
    <2>1. s[t] >= Least(ITEMS_PER_TIER, size[t])
      BY DEF Fair, Balanced
    <2>2. CASE t = i
      BY <1>0, <1>3, <1>4, <2>2 DEF Least
    <2>3. CASE t = j
      BY <1>0, <1>3, <1>4, <2>1, <2>3 DEF Least
    <2> QED BY <1>2, <2>1, <2>2, <2>3
  <1>6. ASSUME NEW t \in Ts, NEW u \in Ts, t < u, r[t] > ITEMS_PER_TIER PROVE r[u] >= size[u]
    <2>1. CASE u = i
      BY <1>3, <2>1
    <2>2. CASE u # i /\ t = j
      <3>1. u >= j + 1 /\ u # j
        BY <1>0, <1>6, <2>2
      <3>2. ~(s[i] <= size[i])
        BY <1>0, <1>3
      <3>3. size[u] <= s[u]
        BY <2>2, <3>1, <3>2 DEF Searched
      <3> QED BY <1>2, <1>4, <2>2, <3>1, <3>3
    <2>3. CASE u # i /\ t # j
      <3>1. s[t] > ITEMS_PER_TIER
        BY <1>0, <1>2, <1>3, <1>4, <1>6, <2>3
      <3>2. s[u] >= size[u]
        BY <1>6, <3>1 DEF Fair, Balanced
      <3>3. u # j
        BY <1>3, <1>4, <3>2
      <3> QED BY <1>2, <2>3, <3>2, <3>3
    <2> QED BY <2>1, <2>2, <2>3
  <1>7. Sums(r)[TIERS] = Sums(s)[TIERS]
    <2>1. r \in [1 .. TIERS -> Int]
      BY <1>2 DEF Ts
    <2>2. s \in [1 .. TIERS -> Int]
      BY <1>0 DEF Ts
    <2>3. i \in 1 .. TIERS
      BY DEF Ts
    <2>4. j \in 1 .. TIERS
      BY DEF Ts
    <2>5. \A t \in 1 .. TIERS : t # i /\ t # j => r[t] = s[t]
      BY <1>2 DEF Ts
    <2>6. r[i] + r[j] = s[i] + s[j]
      BY <1>2, <1>3
    <2>7. Moved(s, r, i, j)
      BY <2>1, <2>2, <2>3, <2>4, <2>5, <2>6 DEF Moved
    <2> QED BY <2>7, SumMoved
  <1>8. ~ \A t \in Ts : s[t] >= size[t]
    BY <1>3
  <1>9. Adequate(size, r)
    BY <1>7, <1>8 DEF Fair, Adequate
  <1>10. ASSUME NEW t \in Ts, t <= i - 1 PROVE r[t] <= size[t]
    <2>1. s[t] <= size[t] /\ t # i
      BY <1>0, <1>10 DEF Fair
    <2>2. CASE t = j
      BY <1>3, <2>2
    <2> QED BY <1>2, <2>1, <2>2
  <1>11. ASSUME NEW u \in Ts, u >= j, u # i PROVE r[i] <= size[i] \/ size[u] <= r[u]
    <2>1. CASE u = j
      BY <1>2, <1>3, <2>1
    <2>2. CASE u # j
      <3>1. u >= j + 1
        BY <1>0, <1>11, <2>2
      <3>2. ~(s[i] <= size[i])
        BY <1>0, <1>3
      <3>3. size[u] <= s[u]
        BY <1>11, <3>1, <3>2 DEF Searched
      <3> QED BY <1>2, <1>11, <2>2, <3>3
    <2> QED BY <2>1, <2>2
  <1> QED BY <1>2, <1>5, <1>6, <1>9, <1>10, <1>11 DEF Fair, Balanced, Searched

LEMMA TransferFair ==
    ASSUME NEW size \in [Ts -> Nat], NEW s, NEW i \in Ts, NEW j \in Ts,
           Fair(size, s, i - 1), Searched(size, s, i, j + 1)
    PROVE  Fair(size, Transfer(size, s, i, j), i - 1) /\ Searched(size, Transfer(size, s, i, j), i, j)
  <1>0. s \in [Ts -> Int] /\ Ts \subseteq Nat
    BY DEF Fair, Ts
  <1>1. s[i] \in Int /\ s[j] \in Int /\ size[i] \in Nat /\ size[j] \in Nat
    BY <1>0
  <1>2. CASE i = j \/ s[i] - size[i] <= 0 \/ size[j] - s[j] <= 0
    <2>1. Transfer(size, s, i, j) = s
      BY <1>2 DEF Transfer
    <2>2. ASSUME NEW u \in Ts, u >= j, u # i PROVE s[i] <= size[i] \/ size[u] <= s[u]
      <3>1. CASE u = j
        BY <1>1, <1>2, <2>2, <3>1
      <3>2. CASE u # j
        <4>1. u >= j + 1
          BY <1>0, <2>2, <3>2
        <4> QED BY <2>2, <4>1 DEF Searched
      <3> QED BY <3>1, <3>2
    <2> QED BY <2>1, <2>2 DEF Searched
  <1>3. CASE ~(i = j \/ s[i] - size[i] <= 0 \/ size[j] - s[j] <= 0)
    <2>1. PICK d : d = IF s[i] - size[i] < size[j] - s[j] THEN s[i] - size[i] ELSE size[j] - s[j]
      OBVIOUS
    <2>2. /\ d \in Nat /\ d >= 1 /\ d <= s[i] - size[i] /\ d <= size[j] - s[j]
          /\ d = s[i] - size[i] \/ d = size[j] - s[j]
      BY <1>1, <1>3, <2>1
    <2>3. Transfer(size, s, i, j) = Given(s, i, j, d)
      BY <1>3, <2>1 DEF Transfer, Given
    <2> QED BY <1>3, <2>2, <2>3, GivenFair
  <1> QED BY <1>2, <1>3

LEMMA TransferTyped ==
    ASSUME NEW size \in [Ts -> Nat], NEW s \in [Ts -> Int], NEW i \in Ts, NEW j \in Ts
    PROVE  Transfer(size, s, i, j) \in [Ts -> Int]
  <1>1. PICK d : d = IF s[i] - size[i] < size[j] - s[j] THEN s[i] - size[i] ELSE size[j] - s[j]
    OBVIOUS
  <1>2. d \in Int
    <2>1. s[i] \in Int /\ s[j] \in Int /\ size[i] \in Int /\ size[j] \in Int
      OBVIOUS
    <2> QED BY <1>1, <2>1
  <1>3. Given(s, i, j, d) \in [Ts -> Int]
    BY <1>2 DEF Given
  <1>4. Transfer(size, s, i, j) = s \/ Transfer(size, s, i, j) = Given(s, i, j, d)
    BY <1>1 DEF Transfer, Given
  <1> QED BY <1>3, <1>4

\* The values of the loop that looks for a surplus.
LEMMA HelpedIs ==
    ASSUME NEW size \in [Ts -> Nat], NEW select \in [Ts -> Int], NEW i \in Ts
    PROVE  /\ Helped(size, select, i)[0] = select
           /\ \A k \in Ts : Helped(size, select, i)[k] =
                               Transfer(size, Helped(size, select, i)[k - 1], i, SurplusTier(k))
  <1> DEFINE Body(k, s) == Transfer(size, s, i, SurplusTier(k))
             Eq(g) == g = [k \in 0 .. TIERS |-> IF k = 0 THEN select ELSE Body(k, g[k - 1])]
             step == [kx \in (1 .. TIERS) \X [Ts -> Int] |-> Body(kx[1], kx[2])]
  <1>0. TIERS \in Nat
    BY TiersTyped
  <1>b. ASSUME NEW k \in 1 .. TIERS, NEW x \in [Ts -> Int] PROVE Body(k, x) \in [Ts -> Int]
    <2>1. SurplusTier(k) \in Ts
      BY <1>0 DEF SurplusTier, Ts
    <2> QED BY <2>1, TransferTyped
  <1>c. \A k \in 1 .. TIERS : k - 1 \in 0 .. TIERS /\ k \in 0 .. TIERS /\ k # 0
    BY <1>0
  <1>4. Helped(size, select, i) = CHOOSE g : Eq(g)
    BY DEF Helped
  <1> HIDE DEF Body
  <1>1. step \in [(1 .. TIERS) \X [Ts -> Int] -> [Ts -> Int]]
    BY <1>b
  <1>2. PICK h \in [0 .. TIERS -> [Ts -> Int]] : Loop(h, TIERS, select, step)
    <2> HIDE DEF step
    <2> QED BY <1>0, <1>1, LoopExists, Zenon
  <1>3. Eq(h)
    <2>1. ASSUME NEW k \in 1 .. TIERS PROVE h[k] = Body(k, h[k - 1])
      <3>1. h[k - 1] \in [Ts -> Int] /\ h[k] = step[<<k, h[k - 1]>>]
        BY <1>2, <1>c DEF Loop
      <3> QED BY <3>1
    <2>2. h[0] = select
      BY <1>2 DEF Loop
    <2>3. \A k \in 0 .. TIERS : k = 0 \/ k \in 1 .. TIERS
      BY <1>0
    <2> QED BY <2>1, <2>2, <2>3
  <1>5. PICK f : Eq(f) /\ f = CHOOSE g : Eq(g)
    <2> HIDE DEF Eq
    <2> QED BY <1>3
  <1>f. f = [k \in 0 .. TIERS |-> IF k = 0 THEN select ELSE Body(k, f[k - 1])]
    BY <1>5
  <1>6. f[0] = select
    BY <1>0, <1>f
  <1>7. ASSUME NEW k \in 1 .. TIERS PROVE f[k] = Body(k, f[k - 1])
    <2>1. k \in 0 .. TIERS /\ k # 0
      BY <1>c
    <2> QED BY <1>f, <2>1, Zenon
  <1>8. f = Helped(size, select, i)
    BY <1>4, <1>5, Zenon
  <1> QED BY <1>6, <1>7, <1>8 DEF Body, Ts

LEMMA HelpedFair ==
    ASSUME NEW size \in [Ts -> Nat], NEW select, NEW i \in Ts, Fair(size, select, i - 1)
    PROVE  LET s == Helped(size, select, i)[TIERS] IN Fair(size, s, i - 1) /\ Searched(size, s, i, 1)
  <1>0. TIERS \in Nat /\ i \in Nat /\ select \in [Ts -> Int]
    BY TiersTyped DEF Ts, Fair
  <1>1. PICK f : f = Helped(size, select, i)
    OBVIOUS
  <1>2. f[0] = select /\ \A k \in Ts : f[k] = Transfer(size, f[k - 1], i, SurplusTier(k))
    BY <1>0, <1>1, HelpedIs
  <1> DEFINE P == {k \in 0 .. TIERS : Fair(size, f[k], i - 1) /\ Searched(size, f[k], i, TIERS + 1 - k)}
  <1>3. 0 \in P
    <2>1. Searched(size, select, i, TIERS + 1 - 0)
      BY <1>0 DEF Searched, Ts
    <2> QED BY <1>0, <1>2, <2>1
  <1>4. ASSUME NEW k \in 1 .. TIERS, k - 1 \in P PROVE k \in P
    <2>1. PICK j \in Ts : j = TIERS + 1 - k
      BY <1>0 DEF Ts
    <2>2. TIERS + 1 - (k - 1) = j + 1
      BY <1>0, <2>1
    <2>3. Fair(size, f[k - 1], i - 1) /\ Searched(size, f[k - 1], i, j + 1)
      BY <1>4, <2>2
    <2>4. f[k] = Transfer(size, f[k - 1], i, j)
      BY <1>2, <2>1 DEF SurplusTier, Ts
    <2>5. Fair(size, f[k], i - 1) /\ Searched(size, f[k], i, j)
      BY <2>3, <2>4, TransferFair
    <2> QED BY <2>1, <2>5
  <1>5. TIERS \in P
    <2>1. TIERS \in 0 .. TIERS
      BY <1>0
    <2> HIDE DEF P
    <2> QED BY <1>0, <1>3, <1>4, <2>1, Upto
  <1>6. TIERS + 1 - TIERS = 1
    BY <1>0
  <1>7. Fair(size, f[TIERS], i - 1) /\ Searched(size, f[TIERS], i, 1)
    BY <1>5, <1>6
  <1> QED BY <1>1, <1>7

LEMMA SettleFair ==
    ASSUME NEW size \in [Ts -> Nat], NEW select, NEW i \in Ts, Fair(size, select, i - 1)
    PROVE  Fair(size, Settle(size, select, i), i)
  <1>0. TIERS \in Nat /\ Ts \subseteq Nat /\ Ts = 1 .. TIERS /\ ITEMS_PER_TIER \in Nat
    BY TiersTyped DEF Ts
  <1>1. PICK s : s = Helped(size, select, i)[TIERS]
    OBVIOUS
  <1>2. Fair(size, s, i - 1) /\ Searched(size, s, i, 1) /\ s \in [Ts -> Int]
    BY <1>1, HelpedFair DEF Fair
  <1>3. PICK r : r = Settle(size, select, i)
    OBVIOUS
  <1>4. r = [s EXCEPT ![i] = IF s[i] > size[i] THEN size[i] ELSE s[i]]
    BY <1>1, <1>3 DEF Settle
  <1>5. s[i] \in Int /\ size[i] \in Nat /\ \A t \in Ts : s[t] \in Int /\ size[t] \in Nat
    BY <1>2
  <1>6. CASE s[i] <= size[i]
    <2>1. r = s
      BY <1>2, <1>4, <1>5, <1>6
    <2>2. ASSUME NEW t \in Ts, t <= i PROVE s[t] <= size[t]
      <3>1. t = i \/ t <= i - 1
        BY <1>0, <2>2
      <3> QED BY <1>2, <1>6, <3>1 DEF Fair
    <2>3. Fair(size, s, i)
      BY <1>2, <2>2 DEF Fair
    <2> QED BY <1>3, <2>1, <2>3
  <1>7. CASE s[i] > size[i]
    <2>1. r \in [Ts -> Int] /\ r[i] = size[i] /\ \A t \in Ts : t # i => r[t] = s[t]
      BY <1>2, <1>4, <1>5, <1>7
    <2>2. \A t \in Ts : r[t] >= size[t]
      <3>1. ASSUME NEW t \in Ts, t # i PROVE s[t] >= size[t]
        <4>1. t >= 1 /\ ~(s[i] <= size[i])
          BY <1>0, <1>5, <1>7
        <4>2. size[t] <= s[t]
          BY <1>2, <3>1, <4>1 DEF Searched
        <4> QED BY <1>5, <4>2
      <3> QED BY <1>5, <2>1, <3>1
    <2>3. Sums(r)[TIERS] = Sums(s)[TIERS] + r[i] - s[i]
      BY <1>0, <1>2, <2>1, SumChanged
    <2>4. AUTH_SAMPLE_SIZE \in Int /\ Sums(s)[TIERS] \in Int
      <3>1. AUTH_SAMPLE_SIZE \in Int
        BY TiersTyped DEF AUTH_SAMPLE_SIZE
      <3>2. s \in [1 .. TIERS -> Int]
        BY <1>2 DEF Fair, Ts
      <3>3. TIERS \in 0 .. TIERS
        BY TiersTyped
      <3>4. Sums(s)[TIERS] \in Int
        BY <3>2, <3>3, SumTyped, Zenon
      <3> QED BY <3>1, <3>4
    <2>5. Adequate(size, r)
      BY <1>2, <1>5, <1>7, <2>1, <2>2, <2>3, <2>4 DEF Fair, Adequate
    <2>6. \A t \in Ts : r[t] >= Least(ITEMS_PER_TIER, size[t])
      BY <1>0, <1>5, <2>1, <2>2 DEF Least
    <2>7. Balanced(size, r)
      BY <2>2, <2>6 DEF Balanced
    <2>8. ASSUME NEW t \in Ts, t <= i PROVE r[t] <= size[t]
      <3>1. t = i \/ t <= i - 1
        BY <1>0, <2>8
      <3>2. CASE t = i
        BY <1>5, <2>1, <3>2
      <3>3. CASE t # i
        BY <1>2, <2>1, <3>1, <3>3 DEF Fair
      <3> QED BY <3>2, <3>3
    <2> QED BY <1>3, <2>1, <2>5, <2>7, <2>8 DEF Fair
  <1> QED BY <1>5, <1>6, <1>7

LEMMA SettleTyped ==
    ASSUME NEW size \in [Ts -> Nat], NEW select \in [Ts -> Int], NEW i \in Ts
    PROVE  Settle(size, select, i) \in [Ts -> Int]
  <1>0. TIERS \in Nat
    BY TiersTyped
  <1>1. PICK f : f = Helped(size, select, i)
    OBVIOUS
  <1>2. f[0] = select /\ \A k \in Ts : f[k] = Transfer(size, f[k - 1], i, SurplusTier(k))
    BY <1>1, HelpedIs
  <1> DEFINE P == {k \in 0 .. TIERS : f[k] \in [Ts -> Int]}
  <1>3. 0 \in P
    BY <1>0, <1>2
  <1>4. ASSUME NEW k \in 1 .. TIERS, k - 1 \in P PROVE k \in P
    <2>1. SurplusTier(k) \in Ts /\ k \in Ts
      BY <1>0 DEF SurplusTier, Ts
    <2>2. f[k] \in [Ts -> Int]
      <3>1. f[k - 1] \in [Ts -> Int]
        BY <1>4
      <3>2. Transfer(size, f[k - 1], i, SurplusTier(k)) \in [Ts -> Int]
        BY <2>1, <3>1, TransferTyped
      <3> QED BY <1>2, <2>1, <3>2
    <2> QED BY <2>2
  <1>5. TIERS \in P
    <2>1. TIERS \in 0 .. TIERS
      BY <1>0
    <2> HIDE DEF P
    <2> QED BY <1>0, <1>3, <1>4, <2>1, Upto
  <1>6. Helped(size, select, i)[TIERS] \in [Ts -> Int] /\ size[i] \in Int
    BY <1>1, <1>5
  <1> QED BY <1>6 DEF Settle

\* The shares of a sample: balanced, never more than a tier has, and enough of them.
LEMMA SharesFair ==
    ASSUME NEW size \in [Ts -> Nat]
    PROVE  Fair(size, TierShares(size), TIERS)
  <1> DEFINE init == [t \in 1 .. TIERS |-> ITEMS_PER_TIER]
             Body(k, s) == Settle(size, s, k)
             Eq(g) == g = [k \in 0 .. TIERS |-> IF k = 0 THEN init ELSE Body(k, g[k - 1])]
             step == [kx \in (1 .. TIERS) \X [Ts -> Int] |-> Body(kx[1], kx[2])]
  <1>0. TIERS \in Nat /\ ITEMS_PER_TIER \in Nat
    BY TiersTyped
  <1>a. init \in [Ts -> Int] /\ \A t \in Ts : init[t] = ITEMS_PER_TIER
    BY <1>0 DEF Ts
  <1>b. ASSUME NEW k \in 1 .. TIERS, NEW x \in [Ts -> Int] PROVE Body(k, x) \in [Ts -> Int]
    BY SettleTyped DEF Ts
  <1>c. \A k \in 1 .. TIERS : k - 1 \in 0 .. TIERS /\ k \in 0 .. TIERS /\ k # 0
    BY <1>0
  <1>4. TierShares(size) = (CHOOSE g : Eq(g))[TIERS]
    BY DEF TierShares
  <1> HIDE DEF Body, init
  <1>1. step \in [(1 .. TIERS) \X [Ts -> Int] -> [Ts -> Int]]
    BY <1>b
  <1>2. PICK h \in [0 .. TIERS -> [Ts -> Int]] : Loop(h, TIERS, init, step)
    <2> HIDE DEF step
    <2> QED BY <1>0, <1>1, <1>a, LoopExists, Zenon
  <1>3. Eq(h)
    <2>1. ASSUME NEW k \in 1 .. TIERS PROVE h[k] = Body(k, h[k - 1])
      <3>1. h[k - 1] \in [Ts -> Int] /\ h[k] = step[<<k, h[k - 1]>>]
        BY <1>2, <1>c DEF Loop
      <3> QED BY <3>1
    <2>2. h[0] = init
      BY <1>2 DEF Loop
    <2>3. \A k \in 0 .. TIERS : k = 0 \/ k \in 1 .. TIERS
      BY <1>0
    <2> QED BY <2>1, <2>2, <2>3
  <1>5. PICK f : Eq(f) /\ f = CHOOSE g : Eq(g)
    <2> HIDE DEF Eq
    <2> QED BY <1>3
  <1>f. f = [k \in 0 .. TIERS |-> IF k = 0 THEN init ELSE Body(k, f[k - 1])]
    BY <1>5
  <1>6. f[0] = init
    BY <1>0, <1>f
  <1>7. ASSUME NEW k \in 1 .. TIERS PROVE f[k] = Body(k, f[k - 1])
    <2>1. k \in 0 .. TIERS /\ k # 0
      BY <1>c
    <2> QED BY <1>f, <2>1, Zenon
  <1> DEFINE P == {k \in 0 .. TIERS : Fair(size, f[k], k)}
  <1>8. 0 \in P
    <2>1. Sums(init)[TIERS] = TIERS * ITEMS_PER_TIER
      <3>1. init \in [1 .. TIERS -> Int] /\ \A t \in 1 .. TIERS : init[t] = ITEMS_PER_TIER
        BY <1>a DEF Ts
      <3>2. ITEMS_PER_TIER \in Int
        BY <1>0
      <3> QED BY <3>1, <3>2, SumOfConstant, Zenon
    <2>2. Adequate(size, init)
      <3>1. TIERS * ITEMS_PER_TIER \in Int
        BY <1>0
      <3> QED BY <2>1, <3>1 DEF Adequate, AUTH_SAMPLE_SIZE
    <2>3. Balanced(size, init)
      BY <1>0, <1>a DEF Balanced, Least
    <2>4. \A t \in Ts : ~(t <= 0)
      BY <1>0 DEF Ts
    <2>5. Fair(size, init, 0)
      BY <1>a, <2>2, <2>3, <2>4 DEF Fair
    <2> QED BY <1>0, <1>6, <2>5
  <1>9. ASSUME NEW k \in 1 .. TIERS, k - 1 \in P PROVE k \in P
    <2>1. Fair(size, f[k - 1], k - 1) /\ k \in Ts
      BY <1>9 DEF Ts
    <2>2. Fair(size, f[k], k)
      BY <1>7, <2>1, SettleFair DEF Body
    <2> QED BY <2>2
  <1>10. TIERS \in P
    <2>1. TIERS \in 0 .. TIERS
      BY <1>0
    <2> HIDE DEF P
    <2> QED BY <1>0, <1>8, <1>9, <2>1, Upto
  <1>11. Fair(size, f[TIERS], TIERS)
    BY <1>10
  <1> QED BY <1>4, <1>5, <1>11, Zenon

-----------------------------------------------------------------------------
(* A sample is complete.                                                     *)

LEMMA InjectiveCount ==
    ASSUME NEW s \in Seq(Ids), IsInjective(s)
    PROVE  Cardinality(ToSet(s)) = Len(s)
  <1>1. PICK n \in Nat : n = Len(s)
    OBVIOUS
  <1>2. DOMAIN s = 1 .. n /\ s = [x \in 1 .. n |-> s[x]]
    BY <1>1
  <1>3. s \in Surjection(1 .. n, ToSet(s))
    BY <1>2 DEF Surjection, ToSet
  <1>4. s \in Injection(1 .. n, ToSet(s))
    BY <1>2 DEF Injection, ToSet
  <1>5. IsFiniteSet(1 .. n) /\ Cardinality(1 .. n) = n
    BY FS_Interval
  <1>6. Cardinality(ToSet(s)) = Cardinality(1 .. n)
    BY <1>3, <1>4, <1>5, FS_Surjection
  <1> QED BY <1>1, <1>5, <1>6

\* The beginning of what was picked from a tier.
LEMMA BeginningPicked ==
    ASSUME NEW tier \in Seq(Ids), NEW s, Picked(s, tier, Len(tier)), NEW m \in 0 .. Len(s)
    PROVE  LET part == SubSeq(s, 1, m)
           IN /\ Len(part) = m /\ ToSet(part) \subseteq ToSet(tier)
              /\ Cardinality(ToSet(part)) = Len(part)
  <1>0. s \in Seq(Ids) /\ Len(s) \in Nat
    BY DEF Picked
  <1>1. PICK part : part = SubSeq(s, 1, m)
    OBVIOUS
  <1>2. part \in Seq(Ids) /\ Len(part) = m /\ DOMAIN part = 1 .. m /\ DOMAIN s = 1 .. Len(s)
    BY <1>0, <1>1
  <1>3. \A x \in 1 .. m : part[x] = s[x] /\ x \in DOMAIN s
    BY <1>0, <1>1
  <1>4. IsInjective(part)
    BY <1>2, <1>3 DEF Picked, IsInjective
  <1>5. ToSet(part) \subseteq ToSet(tier)
    <2> SUFFICES ASSUME NEW x \in 1 .. m PROVE part[x] \in ToSet(tier)
      BY <1>2 DEF ToSet
    <2>1. PICK j \in 1 .. Len(tier) : s[x] = tier[j]
      BY <1>3 DEF Picked
    <2> QED BY <1>3, <2>1 DEF ToSet
  <1>6. Cardinality(ToSet(part)) = Len(part)
    BY <1>2, <1>4, InjectiveCount
  <1> QED BY <1>1, <1>2, <1>5, <1>6

LEMMA DrawnTyped ==
    ASSUME NEW tiers \in [Ts -> Seq(Ids)], NEW start, start.drawn \in Nat
    PROVE  \A t \in 0 .. TIERS : Drawn(tiers, start)[t] \in Nat
  <1> DEFINE Body(k, x) == x + Len(tiers[k])
             Eq(g) == g = [k \in 0 .. TIERS |-> IF k = 0 THEN start.drawn ELSE Body(k, g[k - 1])]
             step == [kx \in (1 .. TIERS) \X Nat |-> Body(kx[1], kx[2])]
  <1>0. TIERS \in Nat
    BY TiersTyped
  <1>b. ASSUME NEW k \in 1 .. TIERS, NEW x \in Nat PROVE Body(k, x) \in Nat
    <2>1. tiers[k] \in Seq(Ids)
      BY DEF Ts
    <2>2. Len(tiers[k]) \in Nat
      BY <2>1
    <2> QED BY <2>2
  <1>c. \A k \in 1 .. TIERS : k - 1 \in 0 .. TIERS /\ k \in 0 .. TIERS /\ k # 0
    BY <1>0
  <1>4. Drawn(tiers, start) = CHOOSE g : Eq(g)
    BY DEF Drawn
  <1> HIDE DEF Body
  <1>1. step \in [(1 .. TIERS) \X Nat -> Nat]
    BY <1>b
  <1>2. PICK h \in [0 .. TIERS -> Nat] : Loop(h, TIERS, start.drawn, step)
    <2> HIDE DEF step
    <2> QED BY <1>0, <1>1, LoopExists, Zenon
  <1>3. Eq(h)
    <2>1. ASSUME NEW k \in 1 .. TIERS PROVE h[k] = Body(k, h[k - 1])
      <3>1. h[k - 1] \in Nat /\ h[k] = step[<<k, h[k - 1]>>]
        BY <1>2, <1>c DEF Loop
      <3> QED BY <3>1
    <2>2. h[0] = start.drawn
      BY <1>2 DEF Loop
    <2>3. \A k \in 0 .. TIERS : k = 0 \/ k \in 1 .. TIERS
      BY <1>0
    <2> QED BY <2>1, <2>2, <2>3
  <1>5. PICK f : Eq(f) /\ f = CHOOSE g : Eq(g)
    <2> HIDE DEF Eq
    <2> QED BY <1>3
  <1>f. f = [k \in 0 .. TIERS |-> IF k = 0 THEN start.drawn ELSE Body(k, f[k - 1])]
    BY <1>5
  <1>6. f[0] = start.drawn
    BY <1>0, <1>f
  <1>7. ASSUME NEW k \in 1 .. TIERS PROVE f[k] = Body(k, f[k - 1])
    <2>1. k \in 0 .. TIERS /\ k # 0
      BY <1>c
    <2> QED BY <1>f, <2>1, Zenon
  <1> DEFINE P == {k \in 0 .. TIERS : f[k] \in Nat}
  <1>8. 0 \in P
    BY <1>0, <1>6
  <1>9. ASSUME NEW k \in 1 .. TIERS, k - 1 \in P PROVE k \in P
    <2>1. f[k] \in Nat
      BY <1>7, <1>9, <1>b
    <2> QED BY <2>1
  <1>10. \A k \in 0 .. TIERS : k \in P
    <2> HIDE DEF P
    <2> QED BY <1>0, <1>8, <1>9, Upto
  <1>11. \A k \in 0 .. TIERS : f[k] \in Nat
    BY <1>10
  <1> QED BY <1>4, <1>5, <1>11, Zenon

LEMMA SizeTyped == AUTH_SAMPLE_SIZE \in Nat /\ AUTH_SAMPLE_SIZE >= ITEMS_PER_TIER
  <1>1. \A x, y \in Nat : x >= 1 => x * y \in Nat /\ x * y >= y
    <2>1. ASSUME NEW x \in Nat, NEW y \in Nat, x >= 1 PROVE x * y \in Nat /\ x * y >= y
      <3>1. PICK z \in Nat : x = z + 1
        <4>1. x - 1 \in Nat /\ x = (x - 1) + 1
          BY <2>1
        <4> QED BY <4>1
      <3>2. z * y \in Nat
        OBVIOUS
      <3>3. x * y = z * y + y
        BY <3>1
      <3> QED BY <3>2, <3>3
    <2> QED BY <2>1
  <1> QED BY <1>1, TiersTyped DEF AUTH_SAMPLE_SIZE

\* With fair shares of what was selected, a sample has AUTH_SAMPLE_SIZE supernodes or all.
LEMMA SharesTotal ==
    ASSUME NEW len \in [Ts -> Nat], NEW size \in [Ts -> Nat], NEW shares,
           \A t \in Ts : size[t] = Least(AUTH_SAMPLE_SIZE, len[t]), Fair(size, shares, TIERS)
    PROVE  Sums(shares)[TIERS] = Least(AUTH_SAMPLE_SIZE, Sums(len)[TIERS])
  <1>0. /\ TIERS \in Nat /\ Ts = 1 .. TIERS /\ AUTH_SAMPLE_SIZE \in Nat
        /\ shares \in [Ts -> Int] /\ len \in [Ts -> Int] /\ size \in [Ts -> Int]
    BY TiersTyped, SizeTyped DEF Ts, Fair
  <1>1. \A t \in Ts : shares[t] <= size[t] /\ shares[t] \in Int /\ size[t] \in Nat /\ len[t] \in Nat
    BY <1>0 DEF Fair
  <1>2. ASSUME NEW t \in Ts PROVE size[t] <= len[t]
    <2>1. size[t] = IF AUTH_SAMPLE_SIZE < len[t] THEN AUTH_SAMPLE_SIZE ELSE len[t]
      BY DEF Least
    <2>2. AUTH_SAMPLE_SIZE \in Nat /\ len[t] \in Nat
      BY <1>0
    <2> QED BY <2>1, <2>2
  <1>3. Sums(shares)[TIERS] \in Int
    BY <1>0, SumTyped
  <1>4. Sums(size)[TIERS] \in Int
    BY <1>0, SumTyped
  <1>5. Sums(len)[TIERS] \in Int
    <2>1. len \in [1 .. TIERS -> Int] /\ TIERS \in 0 .. TIERS
      BY <1>0
    <2> QED BY <2>1, SumTyped
  <1>6. CASE Sums(shares)[TIERS] = AUTH_SAMPLE_SIZE
    <2>1. \A t \in Ts : shares[t] <= len[t]
      BY <1>1, <1>2
    <2>2. Sums(shares)[TIERS] <= Sums(len)[TIERS]
      BY <1>0, <2>1, SumMonotonic
    <2> QED BY <1>0, <1>3, <1>5, <1>6, <2>2 DEF Least
  <1>7. CASE \A t \in Ts : shares[t] >= size[t]
    <2>1. shares = size
      <3>1. \A t \in Ts : shares[t] = size[t]
        BY <1>1, <1>7
      <3> QED BY <1>0, <3>1
    <2>2. Sums(size)[TIERS] <= AUTH_SAMPLE_SIZE
      BY <2>1 DEF Fair, Adequate
    <2>3. CASE \E t \in Ts : len[t] > AUTH_SAMPLE_SIZE
      <3>1. PICK t \in Ts : len[t] > AUTH_SAMPLE_SIZE
        BY <2>3
      <3>2. size[t] = AUTH_SAMPLE_SIZE
        BY <1>0, <1>1, <3>1 DEF Least
      <3>3. size[t] <= Sums(size)[TIERS]
        <4>1. size \in [1 .. TIERS -> Int] /\ t \in 1 .. TIERS
          BY <1>0
        <4>2. \A u \in 1 .. TIERS : size[u] >= 0
          BY <1>0, <1>1
        <4> QED BY <4>1, <4>2, SumBounds
      <3>4. len[t] <= Sums(len)[TIERS]
        <4>1. len \in [1 .. TIERS -> Int] /\ t \in 1 .. TIERS
          BY <1>0
        <4>2. \A u \in 1 .. TIERS : len[u] >= 0
          BY <1>0, <1>1
        <4> QED BY <4>1, <4>2, SumBounds
      <3> QED BY <1>0, <1>1, <1>4, <1>5, <2>1, <2>2, <3>1, <3>2, <3>3, <3>4 DEF Least
    <2>4. CASE ~ \E t \in Ts : len[t] > AUTH_SAMPLE_SIZE
      <3>1. \A t \in Ts : size[t] = len[t]
        BY <1>0, <1>1, <2>4 DEF Least
      <3>2. size = len
        BY <1>0, <3>1
      <3> QED BY <1>0, <1>4, <2>1, <2>2, <3>2 DEF Least
    <2> QED BY <2>3, <2>4
  <1> QED BY <1>6, <1>7 DEF Fair, Adequate

\* What buildAuthSample makes of the tiers and a payment id.
Complete(tiers, parts) ==
    /\ \A t \in 1 .. TIERS :
          /\ ToSet(parts[t]) \subseteq ToSet(tiers[t])
          /\ Cardinality(ToSet(parts[t])) = Len(parts[t])
          /\ Len(parts[t]) >= Least(ITEMS_PER_TIER, Len(tiers[t]))
          /\ Len(parts[t]) > ITEMS_PER_TIER =>
                \A u \in t + 1 .. TIERS : Len(parts[u]) = Least(Len(tiers[u]), AUTH_SAMPLE_SIZE)
    /\ TotalLen(parts) = Least(AUTH_SAMPLE_SIZE, TotalLen(tiers))

LEMMA PartsComplete ==
    ASSUME NEW tiers \in [Ts -> Seq(Ids)], \A t \in Ts : IsInjective(tiers[t]), NEW p \in Payments
    PROVE  Complete(tiers, SampleParts(tiers, Seed(p)))
  <1>0. /\ TIERS \in Nat /\ Ts = 1 .. TIERS /\ Ts \subseteq Nat /\ ITEMS_PER_TIER \in Nat
        /\ AUTH_SAMPLE_SIZE \in Nat /\ AUTH_SAMPLE_SIZE >= ITEMS_PER_TIER
    BY TiersTyped, SizeTyped DEF Ts
  <1>1. PICK start : start = Seed(p)
    OBVIOUS
  <1>2. start.seed = {p} /\ start.drawn \in Nat
    BY <1>1 DEF Seed
  <1>3. PICK sel : sel = [t \in 1 .. TIERS |-> SelectSupernodes(AUTH_SAMPLE_SIZE, tiers[t], start.seed,
                                                                Drawn(tiers, start)[t - 1])]
    OBVIOUS
  <1>4. PICK len : len = [t \in Ts |-> Len(tiers[t])]
    OBVIOUS
  <1>5. \A t \in Ts : tiers[t] \in Seq(Ids) /\ Len(tiers[t]) \in Nat
    OBVIOUS
  <1>6. len \in [Ts -> Nat] /\ \A t \in Ts : len[t] = Len(tiers[t])
    BY <1>4, <1>5
  <1>7. ASSUME NEW t \in Ts
        PROVE  Picked(sel[t], tiers[t], Len(tiers[t])) /\ Len(sel[t]) = Least(AUTH_SAMPLE_SIZE, Len(tiers[t]))
    <2>1. t - 1 \in 0 .. TIERS /\ t \in 1 .. TIERS
      BY <1>0
    <2>2. PICK drawn \in Nat : drawn = Drawn(tiers, start)[t - 1]
      BY <1>2, <2>1, DrawnTyped
    <2>3. sel[t] = SelectSupernodes(AUTH_SAMPLE_SIZE, tiers[t], {p}, drawn)
      BY <1>2, <1>3, <2>1, <2>2
    <2>4. tiers[t] \in Seq(Ids) /\ IsInjective(tiers[t]) /\ AUTH_SAMPLE_SIZE \in Nat
      BY <1>0, <1>5
    <2> QED BY <2>3, <2>4, SelectedPicked
  <1>8. PICK size : size = [t \in 1 .. TIERS |-> Len(sel[t])]
    OBVIOUS
  <1>9. \A t \in Ts : Least(AUTH_SAMPLE_SIZE, len[t]) \in Nat
    BY <1>0, <1>6 DEF Least
  <1>10. size \in [Ts -> Nat] /\ \A t \in Ts : size[t] = Len(sel[t]) /\ size[t] = Least(AUTH_SAMPLE_SIZE, len[t])
    BY <1>0, <1>6, <1>7, <1>8, <1>9
  <1>11. PICK shares : shares = TierShares(size)
    OBVIOUS
  <1>12. Fair(size, shares, TIERS)
    BY <1>10, <1>11, SharesFair
  <1>13. \A t \in Ts : shares[t] \in 0 .. size[t]
    <2> SUFFICES ASSUME NEW t \in Ts PROVE shares[t] \in 0 .. size[t]
      OBVIOUS
    <2>1. t <= TIERS /\ shares[t] \in Int /\ size[t] \in Nat
      BY <1>0, <1>10, <1>12 DEF Fair
    <2>2. shares[t] <= size[t] /\ shares[t] >= Least(ITEMS_PER_TIER, size[t])
      BY <1>12, <2>1 DEF Fair, Balanced
    <2>3. Least(ITEMS_PER_TIER, size[t]) \in Nat
      BY <1>0, <2>1 DEF Least
    <2> QED BY <2>1, <2>2, <2>3
  <1>14. PICK parts : parts = SampleParts(tiers, start)
    OBVIOUS
  <1>15. parts = [t \in 1 .. TIERS |-> SubSeq(sel[t], 1, shares[t])]
    BY <1>3, <1>8, <1>11, <1>14 DEF SampleParts
  <1>16. ASSUME NEW t \in Ts
         PROVE  /\ Len(parts[t]) = shares[t] /\ ToSet(parts[t]) \subseteq ToSet(tiers[t])
                /\ Cardinality(ToSet(parts[t])) = Len(parts[t])
    <2>1. parts[t] = SubSeq(sel[t], 1, shares[t])
      BY <1>0, <1>15
    <2>2. shares[t] \in 0 .. Len(sel[t])
      BY <1>10, <1>13
    <2> QED BY <1>5, <1>7, <2>1, <2>2, BeginningPicked
  <1>17. ASSUME NEW t \in Ts PROVE shares[t] >= Least(ITEMS_PER_TIER, len[t])
    <2>1. shares[t] >= Least(ITEMS_PER_TIER, size[t])
      BY <1>12 DEF Fair, Balanced
    <2>2. size[t] = Least(AUTH_SAMPLE_SIZE, len[t]) /\ len[t] \in Nat /\ size[t] \in Nat /\ shares[t] \in Int
      BY <1>6, <1>10, <1>13
    <2> QED BY <1>0, <2>1, <2>2 DEF Least
  <1>18. ASSUME NEW t \in Ts, shares[t] > ITEMS_PER_TIER, NEW u \in t + 1 .. TIERS
         PROVE  shares[u] = Least(len[u], AUTH_SAMPLE_SIZE)
    <2>1. u \in Ts /\ t < u
      BY <1>0, <1>18
    <2>2. shares[u] >= size[u]
      BY <1>12, <1>18, <2>1 DEF Fair, Balanced
    <2>3. size[u] = Least(AUTH_SAMPLE_SIZE, len[u]) /\ len[u] \in Nat /\ shares[u] \in 0 .. size[u]
      BY <1>6, <1>10, <1>13, <2>1
    <2> QED BY <1>0, <2>2, <2>3 DEF Least
  <1>19. TotalLen(parts) = Sums(shares)[TIERS]
    <2>1. [t \in 1 .. TIERS |-> Len(parts[t])] = shares
      BY <1>0, <1>12, <1>16 DEF Fair
    <2> QED BY <2>1 DEF TotalLen
  <1>20. TotalLen(tiers) = Sums(len)[TIERS]
    BY <1>0, <1>4 DEF TotalLen
  <1>21. Sums(shares)[TIERS] = Least(AUTH_SAMPLE_SIZE, Sums(len)[TIERS])
    BY <1>6, <1>10, <1>12, SharesTotal
  <1>22. TotalLen(parts) = Least(AUTH_SAMPLE_SIZE, TotalLen(tiers))
    BY <1>19, <1>20, <1>21
  <1>23. ASSUME NEW t \in 1 .. TIERS
         PROVE  /\ ToSet(parts[t]) \subseteq ToSet(tiers[t])
                /\ Cardinality(ToSet(parts[t])) = Len(parts[t])
                /\ Len(parts[t]) >= Least(ITEMS_PER_TIER, Len(tiers[t]))
                /\ Len(parts[t]) > ITEMS_PER_TIER =>
                      \A u \in t + 1 .. TIERS : Len(parts[u]) = Least(Len(tiers[u]), AUTH_SAMPLE_SIZE)
    <2>1. t \in Ts
      BY <1>0
    <2>2. \A u \in t + 1 .. TIERS : u \in Ts
      BY <1>0
    <2>3. Len(parts[t]) = shares[t] /\ len[t] = Len(tiers[t])
      BY <1>6, <1>16, <2>1
    <2>4. \A u \in t + 1 .. TIERS : Len(parts[u]) = shares[u] /\ len[u] = Len(tiers[u])
      BY <1>6, <1>16, <2>2
    <2>5. ASSUME Len(parts[t]) > ITEMS_PER_TIER, NEW u \in t + 1 .. TIERS
          PROVE  Len(parts[u]) = Least(Len(tiers[u]), AUTH_SAMPLE_SIZE)
      BY <1>18, <2>1, <2>3, <2>4, <2>5
    <2> QED BY <1>16, <1>17, <2>1, <2>3, <2>5
  <1> QED BY <1>1, <1>14, <1>22, <1>23 DEF Complete

\* What is kept of a list is of its tiers, none twice, whatever the worker does in between.
SampleInv ==
    /\ DOMAIN lists = Blocks
    /\ \A b \in Blocks : lists[b] # NoList => lists[b] \in ListsOf[b]
    /\ DOMAIN building = Workers
    /\ \A w \in Workers : building[w].op = "select" =>
          /\ building[w].payment \in Payments
          /\ \A t \in DOMAIN building[w].tiers :
                building[w].tiers[t] \in Seq(Ids) /\ IsInjective(building[w].tiers[t])
    /\ sample.built => Complete(sample.tiers, sample.parts)

LEMMA BuiltComplete ==
    ASSUME SampleInv, NEW w \in Workers, BuildAuthSample(w), sample' # sample
    PROVE  Complete(sample'.tiers, sample'.parts)
  <1>1. PICK tiers : tiers = [t \in 1 .. TIERS |->
                                 IF t \in DOMAIN building[w].tiers THEN building[w].tiers[t] ELSE <<>>]
    OBVIOUS
  <1>2. /\ building[w].op = "select"
        /\ sample' = [built |-> TRUE, payment |-> building[w].payment, tiers |-> tiers,
                      parts |-> SampleParts(tiers, Seed(building[w].payment))]
    BY <1>1 DEF BuildAuthSample
  <1>3. ASSUME NEW t \in Ts PROVE tiers[t] \in Seq(Ids) /\ IsInjective(tiers[t])
    <2>1. <<>> \in Seq(Ids) /\ IsInjective(<<>>)
      BY DEF IsInjective
    <2>2. tiers[t] = IF t \in DOMAIN building[w].tiers THEN building[w].tiers[t] ELSE <<>>
      BY <1>1 DEF Ts
    <2> QED BY <1>2, <2>1, <2>2 DEF SampleInv
  <1>4. tiers \in [Ts -> Seq(Ids)]
    BY <1>1, <1>3 DEF Ts
  <1>5. building[w].payment \in Payments
    BY <1>2 DEF SampleInv
  <1>6. Complete(tiers, SampleParts(tiers, Seed(building[w].payment)))
    BY <1>3, <1>4, <1>5, PartsComplete
  <1>7. sample'.tiers = tiers /\ sample'.parts = SampleParts(tiers, Seed(building[w].payment))
    BY <1>2
  <1> QED BY <1>6, <1>7

LEMMA InitSample == SampleInit => SampleInv
  BY DEF SampleInit, SampleInv, NotBuilding, NoSample

LEMMA StepSample == SampleInv /\ [SampleNext]_sampleVars => SampleInv'
  <1> SUFFICES ASSUME SampleInv, [SampleNext]_sampleVars PROVE SampleInv'
    OBVIOUS
  <1>1. ASSUME NEW b \in Blocks, NEW l \in ListsOf[b], SetBlockchainBasedList(b, l) PROVE SampleInv'
    <2>1. UNCHANGED <<building, sample>> /\ DOMAIN lists = Blocks
      BY <1>1 DEF SetBlockchainBasedList, SampleInv
    <2>2. DOMAIN lists' = Blocks /\ \A c \in Blocks : lists'[c] = NoList \/ lists'[c] = lists[c] \/ (c = b /\ lists'[c] = l)
      BY <1>1, <2>1 DEF SetBlockchainBasedList, Flush
    <2> QED BY <2>1, <2>2 DEF SampleInv
  <1>2. ASSUME NEW w \in Workers, NEW b \in Blocks, NEW p \in Payments, NEW available,
               GetBlockchainBasedListForAuthSample(w, b, p, available)
        PROVE  SampleInv'
    <2>1. UNCHANGED <<lists, sample>> /\ lists[b] \in ListsOf[b]
      BY <1>2 DEF GetBlockchainBasedListForAuthSample, SampleInv
    <2>2. PICK tiers : tiers = [t \in DOMAIN lists[b] |-> Copied(lists[b][t], available)]
      OBVIOUS
    <2>3. PICK job1 : job1 = [op |-> "select", payment |-> p, tiers |-> tiers]
      OBVIOUS
    <2>4. building' = [building EXCEPT ![w] = job1]
      BY <1>2, <2>2, <2>3 DEF GetBlockchainBasedListForAuthSample
    <2>5. ASSUME NEW t \in DOMAIN tiers PROVE tiers[t] \in Seq(Ids) /\ IsInjective(tiers[t])
      <3>1. t \in DOMAIN lists[b] /\ tiers[t] = Copied(lists[b][t], available)
        BY <2>2
      <3>2. lists[b][t] \in Seq(Ids) /\ IsInjective(lists[b][t])
        BY <2>1, <3>1, ListsAssumption
      <3> QED BY <3>1, <3>2, CopiedPicked DEF Picked
    <2>6. job1.payment = p /\ job1.tiers = tiers
      BY <2>3
    <2>7. DOMAIN building' = Workers /\ building'[w] = job1 /\ \A v \in Workers : v # w => building'[v] = building[v]
      BY <2>4 DEF SampleInv
    <2> QED BY <2>1, <2>5, <2>6, <2>7 DEF SampleInv
  <1>3. ASSUME NEW w \in Workers, BuildAuthSample(w) PROVE SampleInv'
    <2>1. UNCHANGED lists /\ building' = [building EXCEPT ![w] = NotBuilding]
      BY <1>3 DEF BuildAuthSample
    <2>2. /\ DOMAIN building' = Workers /\ building'[w].op = "idle"
          /\ \A v \in Workers : v # w => building'[v] = building[v]
      BY <2>1 DEF SampleInv, NotBuilding
    <2>3. sample'.built => Complete(sample'.tiers, sample'.parts)
      BY <1>3, BuiltComplete DEF SampleInv
    <2>4. ASSUME NEW v \in Workers, building'[v].op = "select"
          PROVE  building'[v] = building[v]
      BY <2>2, <2>4
    <2> QED BY <2>1, <2>2, <2>3, <2>4 DEF SampleInv
  <1>4. ASSUME UNCHANGED <<lists, building, sample>> PROVE SampleInv'
    BY <1>4 DEF SampleInv
  <1>5. CASE SynchronizeLists \/ ListRecvTimeout
    BY <1>4, <1>5 DEF SynchronizeLists, ListRecvTimeout
  <1>6. CASE UNCHANGED sampleVars
    BY <1>4, <1>6 DEF sampleVars
  <1> QED BY <1>1, <1>2, <1>3, <1>5, <1>6 DEF SampleNext, BlockchainBasedList

\* buildAuthSample makes complete samples for any tiers, any sizes, any random values, and
\* whatever lists arrive while a sample is built.
THEOREM SamplesAreComplete == SampleSpec => []SampleComplete
  <1>1. SampleInv => SampleComplete
    BY DEF SampleInv, SampleComplete, Complete, Part, TierSize
  <1> QED BY <1>1, InitSample, StepSample, PTL DEF SampleSpec
=============================================================================
