------------------------- MODULE InstancePoolProofs -------------------------
(***************************************************************************)
(* Proofs that the instance pool keeps its accounts for every number of    *)
(* requests, every number of overlapping drains and all channel sizes.     *)
(***************************************************************************)
EXTENDS InstancePool, FiniteSetTheorems, TLAPS

\* What a goroutine in the state s contributes to the count of Q.
Weight(s, Q) == IF s \in Q THEN 1 ELSE 0

(***************************************************************************)
(* Moving one goroutine x to the state s changes the number of goroutines  *)
(* in Q by exactly what x contributes before and after the move.           *)
(***************************************************************************)
LEMMA MoveCount ==
    ASSUME NEW pc, NEW npc, NEW x, NEW Q,
           IsFiniteSet(DOMAIN pc), x \in DOMAIN pc, DOMAIN npc = DOMAIN pc,
           \A y \in DOMAIN pc : y # x => npc[y] = pc[y]
    PROVE  /\ Count(pc, Q) \in Nat
           /\ pc[x] \in Q => Count(pc, Q) > 0
           /\ Count(npc, Q) = Count(pc, Q) - Weight(pc[x], Q) + Weight(npc[x], Q)
<1> DEFINE A == {y \in DOMAIN pc : pc[y] \in Q}
           B == {y \in DOMAIN pc : npc[y] \in Q}
           C == A \ {x}
<1>1. Count(pc, Q) = Cardinality(A) /\ Count(npc, Q) = Cardinality(B)
  BY DEF Count
<1>2. IsFiniteSet(A) /\ IsFiniteSet(B) /\ IsFiniteSet(C)
  BY FS_Subset
<1>a. pc[x] \in Q => x \in A
  OBVIOUS
<1>b. pc[x] \notin Q => A = C
  OBVIOUS
<1>c. npc[x] \in Q => B = C \cup {x}
  OBVIOUS
<1>d. npc[x] \notin Q => B = C
  OBVIOUS
<1>e. C = A \ {x} /\ x \notin C
  OBVIOUS
<1> HIDE DEF A, B, C
<1>3. Cardinality(A) \in Nat /\ Cardinality(C) \in Nat
  BY <1>2, FS_CardinalityType
<1>4. Cardinality(A) = Cardinality(C) + Weight(pc[x], Q)
  <2>1. CASE pc[x] \in Q
    <3>1. Cardinality(C) = Cardinality(A) - 1
      BY <2>1, <1>a, <1>e, <1>2, FS_RemoveElement
    <3> QED BY <3>1, <2>1, <1>3 DEF Weight
  <2>2. CASE pc[x] \notin Q
    BY <1>b, <2>2, <1>3 DEF Weight
  <2> QED BY <2>1, <2>2
<1>5. Cardinality(B) = Cardinality(C) + Weight(npc[x], Q)
  <2>1. CASE npc[x] \in Q
    <3>1. Cardinality(C \cup {x}) = Cardinality(C) + 1
      BY <1>e, <1>2, FS_AddElement
    <3> QED BY <3>1, <1>c, <2>1, <1>3 DEF Weight
  <2>2. CASE npc[x] \notin Q
    BY <1>d, <2>2, <1>3 DEF Weight
  <2> QED BY <2>1, <2>2
<1>6. Count(npc, Q) = Count(pc, Q) - Weight(pc[x], Q) + Weight(npc[x], Q)
  BY <1>1, <1>3, <1>4, <1>5 DEF Weight
<1>7. pc[x] \in Q => Count(pc, Q) > 0
  BY <1>1, <1>3, <1>4 DEF Weight
<1> QED BY <1>1, <1>3, <1>6, <1>7

\* The count of a set of states is zero
\* when no goroutine is in one of them.
LEMMA ZeroCount ==
    ASSUME NEW pc, NEW Q, \A x \in DOMAIN pc : pc[x] \notin Q
    PROVE  Count(pc, Q) = 0
<1>1. {x \in DOMAIN pc : pc[x] \in Q} = {}
  OBVIOUS
<1> QED BY <1>1, FS_EmptySet DEF Count

(***************************************************************************)
(* What a move of one request goroutine does to the three counts over bpc. *)
(***************************************************************************)
LEMMA BorrowerMove ==
    ASSUME TypeOK, NEW b \in Borrowers, NEW s \in BorrowerStates, BGoto(b, s)
    PROVE  /\ bpc' \in [Borrowers -> BorrowerStates]
           /\ \A Q \in {TokenStates, InstanceStates, BorrowedStates} :
                  /\ Count(bpc, Q) \in Nat
                  /\ bpc[b] \in Q => Count(bpc, Q) > 0
                  /\ Count(bpc', Q) = Count(bpc, Q) - Weight(bpc[b], Q)
                                                    + Weight(s, Q)
<1>1. bpc \in [Borrowers -> BorrowerStates] /\ bpc' = [bpc EXCEPT ![b] = s]
  BY DEF TypeOK, BGoto
<1>0. DOMAIN bpc = Borrowers /\ IsFiniteSet(DOMAIN bpc)
  BY <1>1, FiniteAssumption
<1>2. bpc' \in [Borrowers -> BorrowerStates]
  BY <1>1
<1>3. ASSUME NEW Q
      PROVE  /\ Count(bpc, Q) \in Nat
             /\ bpc[b] \in Q => Count(bpc, Q) > 0
             /\ Count(bpc', Q) = Count(bpc, Q) - Weight(bpc[b], Q)
                                               + Weight(s, Q)
  <2>1. /\ DOMAIN bpc' = DOMAIN bpc
        /\ b \in DOMAIN bpc
        /\ \A y \in DOMAIN bpc : y # b => bpc'[y] = bpc[y]
    BY <1>1, <1>0
  <2>0. IsFiniteSet(DOMAIN bpc)
    BY <1>0
  <2>2. /\ Count(bpc, Q) \in Nat
        /\ bpc[b] \in Q => Count(bpc, Q) > 0
        /\ Count(bpc', Q) = Count(bpc, Q) - Weight(bpc[b], Q) + Weight(bpc'[b], Q)
    BY <2>1, <2>0, MoveCount
  <2>3. bpc'[b] = s
    BY <1>1, <1>0
  <2> QED BY <2>2, <2>3
<1> QED BY <1>2, <1>3

(***************************************************************************)
(* The same for a goroutine that drains the pool.                          *)
(***************************************************************************)
LEMMA DrainerMove ==
    ASSUME TypeOK, NEW d \in Drainers, NEW s \in DrainerStates, DGoto(d, s)
    PROVE  /\ dpc' = [dpc EXCEPT ![d] = s]
           /\ dpc' \in [Drainers -> DrainerStates]
           /\ Count(dpc, SweepTokenStates) \in Nat
           /\ dpc[d] \in SweepTokenStates => Count(dpc, SweepTokenStates) > 0
           /\ Count(dpc', SweepTokenStates) =
                  Count(dpc, SweepTokenStates)
                    - Weight(dpc[d], SweepTokenStates)
                    + Weight(s, SweepTokenStates)
<1>1. dpc \in [Drainers -> DrainerStates] /\ dpc' = [dpc EXCEPT ![d] = s]
  BY DEF TypeOK, DGoto
<1>0. DOMAIN dpc = Drainers /\ IsFiniteSet(DOMAIN dpc)
  BY <1>1, FiniteAssumption
<1>2. dpc' \in [Drainers -> DrainerStates]
  BY <1>1
<1>3. /\ DOMAIN dpc' = DOMAIN dpc
      /\ d \in DOMAIN dpc
      /\ \A y \in DOMAIN dpc : y # d => dpc'[y] = dpc[y]
  BY <1>1, <1>0
<1>4. IsFiniteSet(DOMAIN dpc)
  BY <1>0
<1>5. ASSUME NEW Q
      PROVE  /\ Count(dpc, Q) \in Nat
             /\ dpc[d] \in Q => Count(dpc, Q) > 0
             /\ Count(dpc', Q) = Count(dpc, Q) - Weight(dpc[d], Q) + Weight(dpc'[d], Q)
  BY <1>3, <1>4, MoveCount
<1>6. dpc'[d] = s
  BY <1>1, <1>0
<1> QED BY <1>1, <1>2, <1>5, <1>6

(***************************************************************************)
(* The counts are natural numbers.                                         *)
(***************************************************************************)
LEMMA CountType ==
    ASSUME TypeOK, NEW Q
    PROVE  Count(bpc, Q) \in Nat /\ Count(dpc, Q) \in Nat
<1>1. IsFiniteSet({x \in DOMAIN bpc : bpc[x] \in Q}) /\ IsFiniteSet({x \in DOMAIN dpc : dpc[x] \in Q})
  <2>1. DOMAIN bpc = Borrowers /\ DOMAIN dpc = Drainers
    BY DEF TypeOK
  <2> QED BY <2>1, FiniteAssumption, FS_Subset
<1> QED BY <1>1, FS_CardinalityType DEF Count

(***************************************************************************)
(* Initially nothing is counted.                                           *)
(***************************************************************************)
LEMMA InitInv == Init => PoolInv
<1> SUFFICES ASSUME Init PROVE PoolInv
  OBVIOUS
<1> USE DEF Init
<1>1. TypeOK
  <2>1. tokens \in 0..MaxSize /\ idle \in 0..WarmSize /\ borrowed \in Nat /\ live \in Nat
    BY SizeAssumption
  <2>2. idleClosed \in BOOLEAN /\ draining \in BOOLEAN /\ stop \in BOOLEAN
    BY Zenon
  <2>3. once \in {"no", "running", "done"} /\ rpc \in ReplenishStates
    BY DEF ReplenishStates
  <2>4. bpc \in [Borrowers -> BorrowerStates] /\ dpc \in [Drainers -> DrainerStates]
    BY DEF BorrowerStates, DrainerStates
  <2> QED BY <2>1, <2>2, <2>3, <2>4 DEF TypeOK
<1>2. /\ Count(bpc, TokenStates) = 0
      /\ Count(bpc, InstanceStates) = 0
      /\ Count(bpc, BorrowedStates) = 0
      /\ Count(dpc, SweepTokenStates) = 0
  <2>1. /\ \A x \in DOMAIN bpc : /\ bpc[x] \notin TokenStates
                                 /\ bpc[x] \notin InstanceStates
                                 /\ bpc[x] \notin BorrowedStates
        /\ \A x \in DOMAIN dpc : dpc[x] \notin SweepTokenStates
    BY DEF TokenStates, InstanceStates, BorrowedStates, SweepTokenStates
  <2> QED BY <2>1, ZeroCount
<1>3. NoSendOnClosed /\ DrainProtocol
  BY DEF NoSendOnClosed, DrainProtocol, CloserStates
<1> QED BY <1>1, <1>2, <1>3
        DEF PoolInv, TokenAccounting, BorrowedAccounting, ReplenishTokens, ReplenishInstances
(***************************************************************************)
(* A step of a request goroutine that moves it to the state s and keeps    *)
(* the three balances preserves the invariant.                             *)
(***************************************************************************)
LEMMA BorrowerFrame ==
    ASSUME PoolInv, NEW b \in Borrowers, NEW s \in BorrowerStates, BGoto(b, s),
           UNCHANGED <<idleClosed, draining, stop, once, rpc, dpc>>,
           tokens' \in 0..MaxSize, idle' \in 0..idle,
           tokens' - idle' = tokens - idle - Weight(bpc[b], TokenStates) + Weight(s, TokenStates),
           live' - idle' = live - idle - Weight(bpc[b], InstanceStates) + Weight(s, InstanceStates),
           live' \in Int,
           borrowed' = borrowed - Weight(bpc[b], BorrowedStates) + Weight(s, BorrowedStates)
    PROVE  PoolInv'
<1> DEFINE CT == Count(bpc, TokenStates)
           CI == Count(bpc, InstanceStates)
           CB == Count(bpc, BorrowedStates)
           CD == Count(dpc, SweepTokenStates)
<1>1. TypeOK
  BY DEF PoolInv
<1>2. /\ bpc' \in [Borrowers -> BorrowerStates]
      /\ CT \in Nat /\ CT' = CT - Weight(bpc[b], TokenStates) + Weight(s, TokenStates)
      /\ CI \in Nat /\ CI' = CI - Weight(bpc[b], InstanceStates) + Weight(s, InstanceStates)
      /\ CB \in Nat /\ CB' = CB - Weight(bpc[b], BorrowedStates) + Weight(s, BorrowedStates)
  BY <1>1, BorrowerMove
<1>3. CD \in Nat /\ CD' = CD /\ CT' \in Nat /\ CI' \in Nat /\ CB' \in Nat
  <2>1. CD \in Nat
    BY <1>1, CountType
  <2>2. CT' \in Nat /\ CI' \in Nat /\ CB' \in Nat
    BY <1>1, <1>2, BorrowerMove DEF Weight
  <2> QED BY <2>1, <2>2
<1>4. /\ tokens = idle + CT + ReplenishTokens + CD
      /\ live = idle + CI + ReplenishInstances
      /\ borrowed = CB
  BY DEF PoolInv, TokenAccounting, BorrowedAccounting
<1>5. ReplenishTokens \in {0, 1} /\ ReplenishTokens' = ReplenishTokens
  BY DEF ReplenishTokens
<1>6. ReplenishInstances \in {0, 1} /\ ReplenishInstances' = ReplenishInstances
  BY DEF ReplenishInstances
<1>7. tokens \in Nat /\ idle \in 0..WarmSize /\ live \in Nat /\ borrowed \in Nat
  BY <1>1, SizeAssumption DEF TypeOK
<1>8. /\ Weight(s, TokenStates) \in Int /\ Weight(bpc[b], TokenStates) \in Int
      /\ Weight(s, InstanceStates) \in Int /\ Weight(bpc[b], InstanceStates) \in Int
      /\ Weight(s, BorrowedStates) \in Int /\ Weight(bpc[b], BorrowedStates) \in Int
  BY DEF Weight
<1> HIDE DEF CT, CI, CB, CD
<1>9. idle' \in 0..WarmSize /\ tokens' \in Int
  BY <1>7, SizeAssumption
<1>10. tokens' = idle' + CT' + ReplenishTokens' + CD'
  BY <1>2, <1>3, <1>4, <1>5, <1>7, <1>8, <1>9
<1>11. live' = idle' + CI' + ReplenishInstances' /\ live' \in Nat
  BY <1>2, <1>3, <1>4, <1>6, <1>7, <1>8, <1>9
<1>12. borrowed' = CB' /\ borrowed' \in Nat
  BY <1>2, <1>3, <1>4, <1>7, <1>8
<1>13. TypeOK'
  BY <1>1, <1>2, <1>9, <1>11, <1>12 DEF TypeOK
<1>14. NoSendOnClosed' /\ DrainProtocol'
  BY <1>7, <1>9 DEF PoolInv, NoSendOnClosed, DrainProtocol
<1> QED BY <1>10, <1>11, <1>12, <1>13, <1>14
        DEF PoolInv, TokenAccounting, BorrowedAccounting, CT, CI, CB, CD

(***************************************************************************)
(* Every step of Borrow and Return preserves the invariant.                *)
(***************************************************************************)
LEMMA BorrowerStep ==
    ASSUME PoolInv, NEW b \in Borrowers, Borrow(b) \/ Return(b)
    PROVE  PoolInv'
<1> USE DEF Weight, TokenStates, InstanceStates, BorrowedStates
<1>0. /\ tokens \in 0..MaxSize /\ idle \in 0..WarmSize /\ live \in Nat /\ borrowed \in Nat
      /\ MaxSize \in Nat /\ WarmSize \in Nat
  BY SizeAssumption DEF PoolInv, TypeOK
<1>a. {"out", "tryIdle", "select", "instantiate", "dropToken", "got", "using", "retToken", "retDone"}
         \subseteq BorrowerStates
  BY DEF BorrowerStates
<1>b. ASSUME RecvIdle(b), bpc[b] \in {"tryIdle", "select"} PROVE PoolInv'
  BY <1>b, <1>0, <1>a, BorrowerFrame DEF RecvIdle
<1>c. ASSUME RecvClosed(b), bpc[b] \in {"tryIdle", "select"} PROVE PoolInv'
  BY <1>c, <1>0, <1>a, BorrowerFrame DEF RecvClosed
<1>1. CASE BorrowCheck(b)
  <2>1. CASE draining
    BY <1>1, <2>1, <1>0, <1>a, BorrowerFrame DEF BorrowCheck
  <2>2. CASE ~draining
    BY <1>1, <2>2, <1>0, <1>a, BorrowerFrame DEF BorrowCheck
  <2> QED BY <2>1, <2>2
<1>2. CASE BorrowTryIdle(b)
  <2>1. CASE RecvIdle(b) \/ RecvClosed(b)
    BY <1>2, <2>1, <1>b, <1>c DEF BorrowTryIdle
  <2>2. CASE ~(RecvIdle(b) \/ RecvClosed(b))
    BY <1>2, <2>2, <1>0, <1>a, BorrowerFrame DEF BorrowTryIdle
  <2> QED BY <2>1, <2>2
<1>3. CASE BorrowToken(b)
  BY <1>3, <1>0, <1>a, BorrowerFrame DEF BorrowToken
<1>4. CASE BorrowSelectIdle(b)
  BY <1>4, <1>b, <1>c DEF BorrowSelectIdle
<1>5. CASE BorrowTimeout(b)
  BY <1>5, <1>0, <1>a, BorrowerFrame DEF BorrowTimeout
<1>6. CASE BorrowInstantiate(b)
  <2>1. CASE BGoto(b, "got") /\ live' = live + 1
    BY <1>6, <2>1, <1>0, <1>a, BorrowerFrame DEF BorrowInstantiate
  <2>2. CASE BGoto(b, "dropToken") /\ live' = live
    BY <1>6, <2>2, <1>0, <1>a, BorrowerFrame DEF BorrowInstantiate
  <2> QED BY <1>6, <2>1, <2>2 DEF BorrowInstantiate
<1>7. CASE BorrowDropToken(b)
  BY <1>7, <1>0, <1>a, BorrowerFrame DEF BorrowDropToken
<1>8. CASE AfterBorrow(b)
  BY <1>8, <1>0, <1>a, BorrowerFrame DEF AfterBorrow
<1>9. CASE ReturnClose(b)
  BY <1>9, <1>0, <1>a, BorrowerFrame DEF ReturnClose
<1>10. CASE ReturnToken(b)
  BY <1>10, <1>0, <1>a, BorrowerFrame DEF ReturnToken
<1>11. CASE ReturnDone(b)
  BY <1>11, <1>0, <1>a, BorrowerFrame DEF ReturnDone
<1> QED BY <1>1, <1>2, <1>3, <1>4, <1>5, <1>6, <1>7, <1>8, <1>9, <1>10, <1>11
        DEF Borrow, Return

(***************************************************************************)
(* Every step of replenishLoop preserves the invariant.                    *)
(***************************************************************************)
LEMMA ReplenishStep ==
    ASSUME PoolInv, replenishLoop
    PROVE  PoolInv'
<1> DEFINE CT == Count(bpc, TokenStates)
           CI == Count(bpc, InstanceStates)
           CD == Count(dpc, SweepTokenStates)
<1>1. TypeOK /\ TokenAccounting /\ BorrowedAccounting /\ NoSendOnClosed /\ DrainProtocol
  BY DEF PoolInv
<1>2. /\ CT \in Nat /\ CI \in Nat /\ CD \in Nat
      /\ tokens \in 0..MaxSize /\ idle \in 0..WarmSize /\ live \in Nat
      /\ MaxSize \in Nat /\ WarmSize \in Nat
  BY <1>1, CountType, SizeAssumption DEF TypeOK
<1>3. UNCHANGED <<idleClosed, draining, stop, once, borrowed, bpc, dpc>>
  BY DEF replenishLoop, ReplenishStop, ReplenishToken, ReplenishInstantiate,
         ReplenishFailToken, ReplenishOffer, ReplenishOfferStop, ReplenishDropToken
<1>4. CT' = CT /\ CI' = CI /\ CD' = CD
  BY <1>3
<1>5. rpc # "done"
  BY DEF replenishLoop, ReplenishStop, ReplenishToken, ReplenishInstantiate,
         ReplenishFailToken, ReplenishOffer, ReplenishOfferStop, ReplenishDropToken
<1>6. ~idleClosed
  BY <1>1, <1>5 DEF NoSendOnClosed
<1>7. BorrowedAccounting' /\ NoSendOnClosed' /\ DrainProtocol'
  BY <1>1, <1>3, <1>6 DEF BorrowedAccounting, NoSendOnClosed, DrainProtocol
<1>8. /\ tokens = idle + CT + ReplenishTokens + CD
      /\ live = idle + CI + ReplenishInstances
  BY DEF PoolInv, TokenAccounting
<1> HIDE DEF CT, CI, CD
<1> DEFINE Goal == /\ tokens' \in 0..MaxSize /\ idle' \in 0..WarmSize /\ live' \in Nat
                   /\ rpc' \in ReplenishStates
                   /\ tokens' = idle' + CT + ReplenishTokens' + CD
                   /\ live' = idle' + CI + ReplenishInstances'
<1>9. Goal
  <2> USE <1>2, <1>8 DEF ReplenishTokens, ReplenishInstances, ReplenishStates
  <2>1. CASE ReplenishStop
    BY <2>1 DEF ReplenishStop
  <2>2. CASE ReplenishToken
    BY <2>2 DEF ReplenishToken
  <2>3. CASE ReplenishInstantiate
    BY <2>3 DEF ReplenishInstantiate
  <2>4. CASE ReplenishFailToken
    BY <2>4 DEF ReplenishFailToken
  <2>5. CASE ReplenishOffer
    BY <2>5 DEF ReplenishOffer
  <2>6. CASE ReplenishOfferStop
    BY <2>6 DEF ReplenishOfferStop
  <2>7. CASE ReplenishDropToken
    BY <2>7 DEF ReplenishDropToken
  <2> QED BY <2>1, <2>2, <2>3, <2>4, <2>5, <2>6, <2>7 DEF replenishLoop
<1>10. TypeOK'
  BY <1>1, <1>3, <1>9 DEF TypeOK
<1> QED BY <1>4, <1>7, <1>9, <1>10 DEF PoolInv, TokenAccounting, CT, CI, CD

(***************************************************************************)
(* Every step of DrainAndClose preserves the invariant.                    *)
(***************************************************************************)
LEMMA DrainerStep ==
    ASSUME PoolInv, NEW d \in Drainers, DrainAndClose(d)
    PROVE  PoolInv'
<1> DEFINE CT == Count(bpc, TokenStates)
           CI == Count(bpc, InstanceStates)
           CD == Count(dpc, SweepTokenStates)
<1>1. TypeOK /\ TokenAccounting /\ BorrowedAccounting /\ NoSendOnClosed /\ DrainProtocol
  BY DEF PoolInv
<1>2. /\ CT \in Nat /\ CI \in Nat /\ CD \in Nat
      /\ tokens \in 0..MaxSize /\ idle \in 0..WarmSize /\ live \in Nat
      /\ MaxSize \in Nat /\ WarmSize \in Nat
  BY <1>1, CountType, SizeAssumption DEF TypeOK
<1>3. UNCHANGED <<borrowed, bpc, rpc>>
  BY DEF DrainAndClose, DrainStart, CloseIdle, CloseIdleFirst, CloseIdleLater, CloseIdleChannel,
         SweepIdle, SweepToken, SweepDone, PollBorrowed, DrainPoll, DrainTick, DrainTimeout
<1>4. /\ CT' = CT /\ CI' = CI /\ ReplenishTokens' = ReplenishTokens
      /\ ReplenishInstances' = ReplenishInstances
  BY <1>3 DEF ReplenishTokens, ReplenishInstances
<1>5. /\ tokens = idle + CT + ReplenishTokens + CD
      /\ live = idle + CI + ReplenishInstances
      /\ ReplenishTokens \in {0, 1} /\ ReplenishInstances \in {0, 1}
  BY DEF PoolInv, TokenAccounting, ReplenishTokens, ReplenishInstances
<1>6. PICK s \in DrainerStates : DGoto(d, s)
  BY DEF DrainAndClose, DrainStart, CloseIdle, CloseIdleFirst, CloseIdleLater, CloseIdleChannel,
         SweepIdle, SweepToken, SweepDone, PollBorrowed, DrainPoll, DrainTick, DrainTimeout,
         DrainerStates
<1>7. /\ dpc \in [Drainers -> DrainerStates]
      /\ dpc' = [dpc EXCEPT ![d] = s]
      /\ dpc' \in [Drainers -> DrainerStates]
      /\ dpc'[d] = s
      /\ dpc[d] \in SweepTokenStates => CD > 0
      /\ CD' = CD - Weight(dpc[d], SweepTokenStates) + Weight(s, SweepTokenStates)
  BY <1>1, <1>6, DrainerMove DEF TypeOK
<1> HIDE DEF CT, CI, CD
<1> DEFINE Goal == /\ tokens' \in 0..MaxSize /\ idle' \in 0..WarmSize /\ live' \in Nat
                   /\ once' \in {"no", "running", "done"}
                   /\ tokens' = idle' + CT + ReplenishTokens + CD'
                   /\ live' = idle' + CI + ReplenishInstances
           Flags == idleClosed' \in BOOLEAN /\ draining' \in BOOLEAN /\ stop' \in BOOLEAN
<1>8. /\ idleClosed \in BOOLEAN /\ draining \in BOOLEAN /\ stop \in BOOLEAN
      /\ once \in {"no", "running", "done"}
  BY <1>1 DEF TypeOK
<1> DEFINE Local == Goal /\ Flags /\ NoSendOnClosed' /\ DrainProtocol'
<1>9. ASSUME DrainStart(d) PROVE Local
  <2>1. s = "closeIdle" /\ dpc[d] = "init"
    BY <1>9, <1>7 DEF DrainStart, DGoto
  <2>2. Goal
    BY <1>9, <2>1, <1>2, <1>5, <1>7, <1>8 DEF DrainStart, Weight, SweepTokenStates
  <2>3. NoSendOnClosed' /\ DrainProtocol'
    BY <1>9, <2>1, <1>1, <1>7 DEF DrainStart, NoSendOnClosed, DrainProtocol, CloserStates
  <2>4. Flags
    BY <1>9, <1>8, Zenon DEF DrainStart
  <2> QED BY <2>2, <2>3, <2>4
<1>10. ASSUME CloseIdleFirst(d) PROVE Local
  <2>1. s = "waitReplenish" /\ dpc[d] = "closeIdle"
    BY <1>10, <1>7 DEF CloseIdleFirst, DGoto
  <2>2. Goal
    BY <1>10, <2>1, <1>2, <1>5, <1>7, <1>8 DEF CloseIdleFirst, Weight, SweepTokenStates
  <2>3. NoSendOnClosed' /\ DrainProtocol'
    BY <1>10, <2>1, <1>1, <1>7 DEF CloseIdleFirst, NoSendOnClosed, DrainProtocol, CloserStates
  <2>4. Flags
    BY <1>10, <1>8, Zenon DEF CloseIdleFirst
  <2> QED BY <2>2, <2>3, <2>4
<1>11. ASSUME CloseIdleLater(d) PROVE Local
  <2>1. s = "poll" /\ dpc[d] = "closeIdle"
    BY <1>11, <1>7 DEF CloseIdleLater, DGoto
  <2>2. Goal
    BY <1>11, <2>1, <1>2, <1>5, <1>7, <1>8 DEF CloseIdleLater, Weight, SweepTokenStates
  <2>3. NoSendOnClosed' /\ DrainProtocol'
    BY <1>11, <2>1, <1>1, <1>7 DEF CloseIdleLater, NoSendOnClosed, DrainProtocol, CloserStates
  <2>4. Flags
    BY <1>11, <1>8, Zenon DEF CloseIdleLater
  <2> QED BY <2>2, <2>3, <2>4
<1>12. ASSUME CloseIdleChannel(d) PROVE Local
  <2>1. s = "sweep" /\ dpc[d] = "waitReplenish"
    BY <1>12, <1>7 DEF CloseIdleChannel, DGoto
  <2>2. Goal
    BY <1>12, <2>1, <1>2, <1>5, <1>7, <1>8 DEF CloseIdleChannel, Weight, SweepTokenStates
  <2>3. NoSendOnClosed' /\ DrainProtocol'
    BY <1>12, <2>1, <1>1, <1>7 DEF CloseIdleChannel, NoSendOnClosed, DrainProtocol, CloserStates
  <2>4. Flags
    BY <1>12, <1>8, Zenon DEF CloseIdleChannel
  <2> QED BY <2>2, <2>3, <2>4
<1>13. ASSUME SweepIdle(d) PROVE Local
  <2>1. s = "sweepToken" /\ dpc[d] = "sweep"
    BY <1>13, <1>7 DEF SweepIdle, DGoto
  <2>2. Goal
    BY <1>13, <2>1, <1>2, <1>5, <1>7, <1>8 DEF SweepIdle, Weight, SweepTokenStates
  <2>3. NoSendOnClosed' /\ DrainProtocol'
    BY <1>13, <2>1, <1>1, <1>7 DEF SweepIdle, NoSendOnClosed, DrainProtocol, CloserStates
  <2>4. Flags
    BY <1>13, <1>8, Zenon DEF SweepIdle
  <2> QED BY <2>2, <2>3, <2>4
<1>14. ASSUME SweepToken(d) PROVE Local
  <2>1. s = "sweep" /\ dpc[d] = "sweepToken"
    BY <1>14, <1>7 DEF SweepToken, DGoto
  <2>2. Goal
    BY <1>14, <2>1, <1>2, <1>5, <1>7, <1>8 DEF SweepToken, Weight, SweepTokenStates
  <2>3. NoSendOnClosed' /\ DrainProtocol'
    BY <1>14, <2>1, <1>1, <1>7 DEF SweepToken, NoSendOnClosed, DrainProtocol, CloserStates
  <2>4. Flags
    BY <1>14, <1>8, Zenon DEF SweepToken
  <2> QED BY <2>2, <2>3, <2>4
<1>15. ASSUME SweepDone(d) PROVE Local
  <2>1. s = "poll" /\ dpc[d] = "sweep"
    BY <1>15, <1>7 DEF SweepDone, DGoto
  <2>2. Goal
    BY <1>15, <2>1, <1>2, <1>5, <1>7, <1>8 DEF SweepDone, Weight, SweepTokenStates
  <2>3. NoSendOnClosed' /\ DrainProtocol'
    BY <1>15, <2>1, <1>1, <1>7 DEF SweepDone, NoSendOnClosed, DrainProtocol, CloserStates
  <2>4. Flags
    BY <1>15, <1>8, Zenon DEF SweepDone
  <2> QED BY <2>2, <2>3, <2>4
<1>16. ASSUME DrainPoll(d) PROVE Local
  <2>1. s \in {"drained", "wait"} /\ dpc[d] = "poll"
    BY <1>16, <1>7 DEF DrainPoll, DGoto
  <2>2. Goal
    BY <1>16, <2>1, <1>2, <1>5, <1>7, <1>8 DEF DrainPoll, Weight, SweepTokenStates
  <2>3. NoSendOnClosed' /\ DrainProtocol'
    BY <1>16, <2>1, <1>1, <1>7 DEF DrainPoll, NoSendOnClosed, DrainProtocol, CloserStates
  <2>4. Flags
    BY <1>16, <1>8, Zenon DEF DrainPoll
  <2> QED BY <2>2, <2>3, <2>4
<1>17. ASSUME DrainTick(d) PROVE Local
  <2>1. s = "poll" /\ dpc[d] = "wait"
    BY <1>17, <1>7 DEF DrainTick, DGoto
  <2>2. Goal
    BY <1>17, <2>1, <1>2, <1>5, <1>7, <1>8 DEF DrainTick, Weight, SweepTokenStates
  <2>3. NoSendOnClosed' /\ DrainProtocol'
    BY <1>17, <2>1, <1>1, <1>7 DEF DrainTick, NoSendOnClosed, DrainProtocol, CloserStates
  <2>4. Flags
    BY <1>17, <1>8, Zenon DEF DrainTick
  <2> QED BY <2>2, <2>3, <2>4
<1>18. ASSUME DrainTimeout(d) PROVE Local
  <2>1. s = "timedOut" /\ dpc[d] = "wait"
    BY <1>18, <1>7 DEF DrainTimeout, DGoto
  <2>2. Goal
    BY <1>18, <2>1, <1>2, <1>5, <1>7, <1>8 DEF DrainTimeout, Weight, SweepTokenStates
  <2>3. NoSendOnClosed' /\ DrainProtocol'
    BY <1>18, <2>1, <1>1, <1>7 DEF DrainTimeout, NoSendOnClosed, DrainProtocol, CloserStates
  <2>4. Flags
    BY <1>18, <1>8, Zenon DEF DrainTimeout
  <2> QED BY <2>2, <2>3, <2>4
<1>19. Local
  BY <1>9, <1>10, <1>11, <1>12, <1>13, <1>14, <1>15, <1>16, <1>17, <1>18
     DEF DrainAndClose, CloseIdle, PollBorrowed
<1>20. TypeOK'
  BY <1>1, <1>3, <1>7, <1>19 DEF TypeOK
<1> QED BY <1>1, <1>3, <1>4, <1>19, <1>20 DEF PoolInv, TokenAccounting, BorrowedAccounting, CT, CI, CD

(***************************************************************************)
(* PoolInv is an invariant of the pool.                                    *)
(***************************************************************************)
THEOREM PoolInvariance == Spec => []PoolInv
<1>1. PoolInv /\ [Next]_vars => PoolInv'
  <2> SUFFICES ASSUME PoolInv, [Next]_vars PROVE PoolInv'
    OBVIOUS
  <2>1. CASE \E b \in Borrowers : Borrow(b) \/ Return(b)
    BY <2>1, BorrowerStep
  <2>2. CASE replenishLoop
    BY <2>2, ReplenishStep
  <2>3. CASE \E d \in Drainers : DrainAndClose(d)
    BY <2>3, DrainerStep
  <2>4. CASE UNCHANGED vars
    <3>1. UNCHANGED <<tokens, idle, idleClosed, draining, stop, once, borrowed, live, bpc, rpc, dpc>>
      BY <2>4 DEF vars
    <3>2. /\ Count(bpc, TokenStates)' = Count(bpc, TokenStates)
          /\ Count(bpc, InstanceStates)' = Count(bpc, InstanceStates)
          /\ Count(bpc, BorrowedStates)' = Count(bpc, BorrowedStates)
          /\ Count(dpc, SweepTokenStates)' = Count(dpc, SweepTokenStates)
      BY <3>1
    <3> QED BY <3>1, <3>2 DEF PoolInv, TypeOK, TokenAccounting, BorrowedAccounting, NoSendOnClosed,
               DrainProtocol, ReplenishTokens, ReplenishInstances
  <2> QED BY <2>1, <2>2, <2>3, <2>4 DEF Next
<1> QED BY InitInv, <1>1, PTL DEF Spec

(***************************************************************************)
(* No path through the pool loses or doubles a token.                      *)
(***************************************************************************)
THEOREM TokensBalance == Spec => []TokenAccounting
<1>1. PoolInv => TokenAccounting
  BY DEF PoolInv
<1> QED BY PoolInvariance, <1>1, PTL

(***************************************************************************)
(* Open instances are accounted for and never exceed MaxSize: each of them *)
(* is matched by a token of its own, and the channel holds MaxSize.        *)
(***************************************************************************)
THEOREM InstancesBounded == Spec => []InstanceAccounting
<1>1. PoolInv => InstanceAccounting
  <2> SUFFICES ASSUME PoolInv PROVE InstanceAccounting
    OBVIOUS
  <2> DEFINE A == {b \in DOMAIN bpc : bpc[b] \in InstanceStates}
             B == {b \in DOMAIN bpc : bpc[b] \in TokenStates}
  <2>1. TypeOK /\ DOMAIN bpc = Borrowers
    BY DEF PoolInv, TypeOK
  <2>2. A \subseteq B /\ IsFiniteSet(B)
    BY <2>1, FiniteAssumption, FS_Subset DEF InstanceStates, TokenStates
  <2>3. Cardinality(A) <= Cardinality(B) /\ Cardinality(A) \in Nat /\ Cardinality(B) \in Nat
    BY <2>2, FS_Subset, FS_CardinalityType
  <2>4. Count(bpc, InstanceStates) = Cardinality(A) /\ Count(bpc, TokenStates) = Cardinality(B)
    BY DEF Count
  <2>5. ReplenishInstances <= ReplenishTokens /\ ReplenishInstances \in Nat /\ ReplenishTokens \in Nat
    BY DEF ReplenishInstances, ReplenishTokens
  <2>6. Count(dpc, SweepTokenStates) \in Nat
    BY <2>1, CountType
  <2>7. /\ tokens = idle + Count(bpc, TokenStates) + ReplenishTokens + Count(dpc, SweepTokenStates)
        /\ live = idle + Count(bpc, InstanceStates) + ReplenishInstances
        /\ tokens \in 0..MaxSize /\ idle \in Nat /\ MaxSize \in Nat
    BY <2>1, SizeAssumption DEF PoolInv, TokenAccounting, TypeOK
  <2> HIDE DEF A, B
  <2> QED BY <2>3, <2>4, <2>5, <2>6, <2>7 DEF InstanceAccounting
<1> QED BY PoolInvariance, <1>1, PTL

(***************************************************************************)
(* A goroutine that reaches a release of its token finds one to receive.   *)
(***************************************************************************)
THEOREM ReleasesNeverBlock == Spec => []ReleaseNeverBlocks
<1>1. PoolInv => ReleaseNeverBlocks
  <2> SUFFICES ASSUME PoolInv PROVE ReleaseNeverBlocks
    OBVIOUS
  <2>1. TypeOK /\ DOMAIN bpc = Borrowers /\ DOMAIN dpc = Drainers
    BY DEF PoolInv, TypeOK
  <2>2. IsFiniteSet(DOMAIN bpc) /\ IsFiniteSet(DOMAIN dpc)
    BY <2>1, FiniteAssumption
  <2>3. \A b \in Borrowers : bpc[b] \in TokenStates => Count(bpc, TokenStates) > 0
    <3>1. \A b \in DOMAIN bpc : bpc[b] \in TokenStates => Count(bpc, TokenStates) > 0
      BY <2>2, MoveCount
    <3> QED BY <3>1, <2>1
  <2>4. \A d \in Drainers : dpc[d] \in SweepTokenStates => Count(dpc, SweepTokenStates) > 0
    <3>1. \A d \in DOMAIN dpc : dpc[d] \in SweepTokenStates => Count(dpc, SweepTokenStates) > 0
      BY <2>2, MoveCount
    <3> QED BY <3>1, <2>1
  <2>5. /\ tokens = idle + Count(bpc, TokenStates) + ReplenishTokens + Count(dpc, SweepTokenStates)
        /\ idle \in Nat /\ ReplenishTokens \in {0, 1}
        /\ Count(bpc, TokenStates) \in Nat /\ Count(dpc, SweepTokenStates) \in Nat
    BY <2>1, CountType, SizeAssumption DEF PoolInv, TokenAccounting, TypeOK, ReplenishTokens
  <2>6. CASE \E b \in Borrowers : bpc[b] \in {"dropToken", "retToken"}
    BY <2>3, <2>5, <2>6 DEF ReleaseNeverBlocks, TokenStates
  <2>7. CASE rpc \in {"failToken", "dropToken"}
    <3>1. ReplenishTokens = 1
      BY <2>7 DEF ReplenishTokens
    <3> QED BY <3>1, <2>5 DEF ReleaseNeverBlocks
  <2>8. CASE \E d \in Drainers : dpc[d] = "sweepToken"
    BY <2>4, <2>5, <2>8 DEF ReleaseNeverBlocks, SweepTokenStates
  <2> QED BY <2>6, <2>7, <2>8 DEF ReleaseNeverBlocks
<1> QED BY PoolInvariance, <1>1, PTL

(***************************************************************************)
(* The idle channel is closed after its only sender has ended.             *)
(***************************************************************************)
THEOREM NeverSendsOnClosed == Spec => []NoSendOnClosed
<1>1. PoolInv => NoSendOnClosed
  BY DEF PoolInv
<1> QED BY PoolInvariance, <1>1, PTL

(***************************************************************************)
(* A drained pool with no request inside holds no token and no instance.   *)
(***************************************************************************)
THEOREM DrainLeavesNothing == Spec => []NothingLeaks
<1>1. PoolInv => NothingLeaks
  <2> SUFFICES ASSUME PoolInv, once = "done", \A b \in Borrowers : bpc[b] = "out"
               PROVE  tokens = 0 /\ live = 0 /\ borrowed = 0
    BY DEF NothingLeaks
  <2>1. TypeOK /\ DOMAIN bpc = Borrowers /\ DOMAIN dpc = Drainers
    BY DEF PoolInv, TypeOK
  <2>2. idle = 0 /\ rpc = "done" /\ \A d \in Drainers : dpc[d] \notin CloserStates
    BY DEF PoolInv, DrainProtocol, NoSendOnClosed
  <2>3. /\ \A x \in DOMAIN bpc : /\ bpc[x] \notin TokenStates
                                 /\ bpc[x] \notin InstanceStates
                                 /\ bpc[x] \notin BorrowedStates
        /\ \A x \in DOMAIN dpc : dpc[x] \notin SweepTokenStates
    BY <2>1, <2>2 DEF TokenStates, InstanceStates, BorrowedStates, SweepTokenStates, CloserStates
  <2>4. /\ Count(bpc, TokenStates) = 0
        /\ Count(bpc, InstanceStates) = 0
        /\ Count(bpc, BorrowedStates) = 0
        /\ Count(dpc, SweepTokenStates) = 0
    BY <2>3, ZeroCount
  <2> QED BY <2>2, <2>4 DEF PoolInv, TokenAccounting, BorrowedAccounting, ReplenishTokens, ReplenishInstances
<1> QED BY PoolInvariance, <1>1, PTL

(***************************************************************************)
(* The counter DrainAndClose polls is the number of instances out on loan  *)
(* or on their way back, on every path through Borrow and Return: a drain  *)
(* neither stops waiting early nor waits for an instance nobody has.       *)
(***************************************************************************)
THEOREM BorrowedBalances == Spec => []BorrowedAccounting
<1>1. PoolInv => BorrowedAccounting
  BY DEF PoolInv
<1> QED BY PoolInvariance, <1>1, PTL
=============================================================================
