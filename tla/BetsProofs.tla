----------------------------- MODULE BetsProofs -----------------------------
(***************************************************************************)
(* Proofs about Bets for any number of handlers in flight, attempts and    *)
(* faults: typing and NodesInv without assumptions, and from it what holds *)
(* on several nodes; the inductive invariant IInv, and from it the safety  *)
(* properties, the finality of a void and the refinement of BetOutcome,    *)
(* for the faults SingleLeader leaves.                                     *)
(***************************************************************************)
EXTENDS BetsInv, TLAPS

(* The actions by the part of the code they belong to: the induction step  *)
(* has one lemma per family and one step per part of the invariant.        *)

PlaceFamily(p) ==
    \/ \E b \in BetIds : PlaceStart(p, b)
    \/ PlaceReserve(p) \/ PlaceDebit(p) \/ PlaceDebitFails(p) \/ PlaceDebitLost(p)
    \/ PlaceRelease(p) \/ PlaceActivate(p)
CancelFamily(p) ==
    CancelStart(p) \/ CancelRead(p) \/ CancelClaim(p) \/ CancelCredit(p) \/ CancelCreditThrows(p)
CashOutFamily(p) ==
    \/ \E b \in BetIds : CashOutStart(p, b)
    \/ CashOutClaim(p) \/ CashOutCredit(p) \/ CashOutCreditThrows(p) \/ CashOutPark(p) \/ CashOutLoot(p)
VoidFamily(p) ==
    \/ \E b \in BetIds : VoidStart(p, b) \/ VoidSweep(p, b)
    \/ VoidClaim(p) \/ VoidReclaim(p) \/ VoidReclaimFails(p) \/ VoidRefund(p) \/ VoidFinalize(p)
RepayFamily(p) ==
    \/ \E b \in BetIds : RepaySweep(p, b)
    \/ RepayCredit(p) \/ RepayCreditThrows(p) \/ RepayFinalize(p) \/ RepayLoot(p)
SweepFamily(p) == \E b \in BetIds : RecoverSweep(p, b) \/ StrandedSweep(p, b)
RecoverFamily(a) ==
    \/ RecoverClaim(a) \/ RecoverLookup(a) \/ RecoverRefund(a) \/ RecoverRefundThrows(a)
    \/ RecoverCancel(a) \/ RecoverDrop(a)
StrandFamily(a) == StrandedReverse(a) \/ StrandedReverseThrows(a) \/ StrandedCancel(a)
BootFamily ==
    BootStranded \/ BootReserving \/ BootFresh \/ BootResume \/ BootSettleExtra \/ BootClose
CloseFamily == CloseReverse \/ CloseReverseThrows \/ CloseCancel \/ CloseRound
EngineFamily == EngineSteps \/ SettleRound
LossFamily == Orphan \/ SettleLost \/ Failover

-----------------------------------------------------------------------------

\* The vocabulary of the actions: where an actor goes, what a write does.
USE ActorsAssumption, FaultsAssumption
    DEF Actors, Go, Begin, After, Finish, SetStatus, Claim, Post, PostOrNot, Fault, Sees, Alone, InFlight,
        roundVars, moneyVars, Live, Wagered, WorkPcs, FreePcs, PlacePcs, SweepPcs, RepayPcs, OwingPcs,
        PlayerPcs, VoidPcs, RecoverPcs, StrandPcs, LootPcs

\* A step of Next is a step of one of the families.
LEMMA Families ==
  ASSUME [Next]_vars
  PROVE  \/ \E p \in Procs : \/ PlaceFamily(p) \/ CancelFamily(p) \/ CashOutFamily(p) \/ VoidFamily(p)
                             \/ RepayFamily(p) \/ SweepFamily(p) \/ Die(p)
         \/ \E a \in Actors : RecoverFamily(a) \/ StrandFamily(a)
         \/ BootFamily \/ CloseFamily \/ EngineFamily \/ LossFamily \/ Crash
         \/ UNCHANGED vars
  BY Zenon DEF Next, PlayerSteps, SweepSteps, WorkSteps, RecoverSteps, BootSteps, FaultSteps,
     PlaceFamily, CancelFamily,
     CashOutFamily, VoidFamily, RepayFamily, SweepFamily, RecoverFamily, StrandFamily, BootFamily, CloseFamily,
     EngineFamily, LossFamily

-----------------------------------------------------------------------------
(* Typing, whatever the faults.                                            *)

Typed == TypeOK /\ PcOK

LEMMA TypedInit == Init => Typed
<1> SUFFICES ASSUME Init PROVE Typed
  OBVIOUS
<1>1. round \in Phases /\ loop \in {"here", "newer", "between"} /\ ancient \in BOOLEAN /\ settleDue \in BOOLEAN
  BY DEF Init, Phases
<1>2. TypeOK
  BY <1>1 DEF Init, TypeOK, Statuses, Legs
<1>3. PcOK
  BY DEF Init, PcOK
<1> QED BY <1>2, <1>3 DEF Typed

LEMMA TypedStep == ASSUME Typed, [Next]_vars PROVE Typed'
<1> USE DEF Typed, TypeOK, PcOK
<1> DEFINE RoundTyped == /\ round \in Phases /\ loop \in {"here", "newer", "between"}
                         /\ ancient \in BOOLEAN /\ settleDue \in BOOLEAN
<1>1. ASSUME NEW p \in Procs, PlaceFamily(p) PROVE Typed'
  BY <1>1 DEF PlaceFamily, PlaceStart, PlaceReserve, PlaceDebit, PlaceDebitFails, PlaceDebitLost,
     PlaceRelease, PlaceActivate, Delete, Statuses, Legs
<1>2. ASSUME NEW p \in Procs, CancelFamily(p) PROVE Typed'
  BY <1>2 DEF CancelFamily, CancelStart, CancelRead, CancelClaim, CancelCredit,
     CancelCreditThrows, Statuses, Legs
<1>3. ASSUME NEW p \in Procs, CashOutFamily(p) PROVE Typed'
  BY <1>3 DEF CashOutFamily, CashOutStart, CashOutClaim, CashOutCredit, CashOutCreditThrows,
     CashOutPark, CashOutLoot, CountLoot, Statuses, Legs
<1>4. ASSUME NEW p \in Procs, VoidFamily(p) PROVE Typed'
  BY <1>4 DEF VoidFamily, VoidStart, VoidClaim, VoidReclaim, VoidReclaimFails, VoidRefund,
     VoidFinalize, VoidSweep, Statuses, Legs
<1>5. ASSUME NEW p \in Procs, RepayFamily(p) PROVE Typed'
  BY <1>5 DEF RepayFamily, RepaySweep, RepayCredit, RepayCreditThrows, RepayFinalize, RepayLoot,
     CountLoot, Statuses, Legs
<1>6. ASSUME NEW p \in Procs, SweepFamily(p) PROVE Typed'
  BY <1>6 DEF SweepFamily, RecoverSweep, RecoverRow, StrandedSweep, Stranded, Aged, Statuses, Legs
<1>7. ASSUME NEW a \in Actors, RecoverFamily(a) PROVE Typed'
  BY <1>7 DEF RecoverFamily, RecoverClaim, RecoverLookup, RecoverRefund, RecoverRefundThrows,
     RecoverCancel, RecoverDrop, Delete, Statuses, Legs
<1>8. ASSUME NEW a \in Actors, StrandFamily(a) PROVE Typed'
  BY <1>8 DEF StrandFamily, StrandedReverse, StrandedReverseThrows, StrandedCancel, Statuses, Legs
<1>9. ASSUME BootFamily PROVE Typed'
  <2> USE <1>9 DEF BootFamily, BootStranded, Stranded, BootReserving, RecoverRow, BootFresh,
      BootResume, BootSettleExtra, BootClose
  <2>1. RoundTyped'
    BY DEF Phases
  <2>2. TypeOK'
    BY <2>1 DEF Statuses, Legs
  <2>3. PcOK'
    OBVIOUS
  <2> QED BY <2>2, <2>3
<1>10. ASSUME CloseFamily PROVE Typed'
  <2> USE <1>10 DEF CloseFamily, CloseReverse, CloseReverseThrows, CloseCancel, CloseRound
  <2>1. RoundTyped'
    BY DEF Phases
  <2>2. TypeOK'
    BY <2>1 DEF Statuses, Legs
  <2>3. PcOK'
    OBVIOUS
  <2> QED BY <2>2, <2>3
<1>11. ASSUME EngineFamily PROVE Typed'
  <2> USE <1>11 DEF EngineFamily, EngineSteps, EnterRunning, EnterCrashed, EnterSettling,
      EnterCompleted, EnterPhase, OtherRound, Ages, SettleRound
  <2>1. RoundTyped'
    BY DEF Phases
  <2>2. TypeOK'
    BY <2>1 DEF Statuses, Legs
  <2>3. PcOK'
    OBVIOUS
  <2> QED BY <2>2, <2>3
<1>12. ASSUME LossFamily PROVE Typed'
  <2> USE <1>12 DEF LossFamily, Orphan, SettleLost, Failover
  <2>1. RoundTyped'
    BY DEF Phases
  <2>2. TypeOK'
    BY <2>1 DEF Statuses, Legs
  <2>3. PcOK'
    OBVIOUS
  <2> QED BY <2>2, <2>3
<1>13. ASSUME NEW p \in Procs, Die(p) PROVE Typed'
  BY <1>13 DEF Die, Statuses, Legs
<1>14. ASSUME Crash PROVE Typed'
  <2> USE <1>14 DEF Crash
  <2>1. RoundTyped'
    BY DEF Phases
  <2>2. TypeOK'
    BY <2>1 DEF Statuses, Legs
  <2>3. PcOK'
    OBVIOUS
  <2> QED BY <2>2, <2>3
<1>15. CASE UNCHANGED vars
  BY <1>15 DEF vars
<1> QED BY Families, <1>1, <1>2, <1>3, <1>4, <1>5, <1>6, <1>7, <1>8, <1>9, <1>10, <1>11, <1>12, <1>13, <1>14, <1>15

\* Every handler keeps the columns of the row, the ledger and its own place
\* well-typed, under every fault of the model: BetsService, the recovery of
\* GameEngineService and the sweeps of GameGateway.
THEOREM TypeCorrect == Spec => []TypeOK
<1>1. Typed /\ [Next]_vars => Typed'
  BY TypedStep
<1> QED BY <1>1, TypedInit, PTL DEF Spec, Typed

-----------------------------------------------------------------------------
(* Several nodes: what holds whatever the faults.                          *)

LEMMA NodesInit == Init => NodesInv
<1> SUFFICES ASSUME Init PROVE NodesInv
  OBVIOUS
<1>1. TypeOK /\ PcOK
  BY TypedInit DEF Typed
<1>2. BirthOK /\ CountOK
  BY DEF Init, BirthOK, AttemptsDistinct, CountOK, Undecided
<1>3. ASSUME NEW b \in BetIds PROVE ClaimOK(b) /\ WonOK(b)
  BY DEF Init, ClaimOK, WonOK, DecidedPcs
<1> QED BY <1>1, <1>2, <1>3 DEF NodesInv

\* Handlers, sweeps, the boot and every fault keep it.
LEMMA NodesStep == ASSUME NodesInv, [Next]_vars PROVE NodesInv'
<1>0. Typed'
  BY TypedStep DEF NodesInv, Typed
<1> USE DEF NodesInv, TypeOK, PcOK, Undecided, DecidedPcs
<1>1. ASSUME NEW p \in Procs, PlaceFamily(p) PROVE NodesInv'
  <2> USE <1>1 DEF PlaceFamily, PlaceStart, PlaceReserve, PlaceDebit, PlaceDebitFails, PlaceDebitLost, PlaceRelease,
      PlaceActivate, Delete
  <2>1. BirthOK'
    BY DEF BirthOK, AttemptsDistinct
  <2>2. ASSUME NEW b \in BetIds PROVE ClaimOK(b)'
    BY DEF ClaimOK, BirthOK
  <2>3. ASSUME NEW b \in BetIds PROVE WonOK(b)'
    BY DEF WonOK, ClaimOK
  <2>4. CountOK'
    BY DEF CountOK, BirthOK
  <2> QED BY <1>0, <2>1, <2>2, <2>3, <2>4 DEF Typed
<1>2. ASSUME NEW p \in Procs, CancelFamily(p) PROVE NodesInv'
  <2> USE <1>2 DEF CancelFamily, CancelStart, CancelRead, CancelClaim, CancelCredit, CancelCreditThrows
  <2>1. BirthOK'
    BY DEF BirthOK, AttemptsDistinct
  <2>2. ASSUME NEW b \in BetIds PROVE ClaimOK(b)'
    BY DEF ClaimOK, BirthOK
  <2>3. ASSUME NEW b \in BetIds PROVE WonOK(b)'
    BY DEF WonOK, ClaimOK
  <2>4. CountOK'
    BY DEF CountOK, BirthOK
  <2> QED BY <1>0, <2>1, <2>2, <2>3, <2>4 DEF Typed
<1>3. ASSUME NEW p \in Procs, CashOutFamily(p) PROVE NodesInv'
  <2> USE <1>3 DEF CashOutFamily, CashOutStart, CashOutClaim, CashOutCredit, CashOutCreditThrows, CashOutPark, CashOutLoot,
      CountLoot
  <2>1. BirthOK'
    BY DEF BirthOK, AttemptsDistinct
  <2>2. ASSUME NEW b \in BetIds PROVE ClaimOK(b)'
    BY DEF ClaimOK, BirthOK
  <2>3. ASSUME NEW b \in BetIds PROVE WonOK(b)'
    BY DEF WonOK, ClaimOK
  <2>4. CountOK'
    BY DEF CountOK, BirthOK
  <2> QED BY <1>0, <2>1, <2>2, <2>3, <2>4 DEF Typed
<1>4. ASSUME NEW p \in Procs, VoidFamily(p) PROVE NodesInv'
  <2> USE <1>4 DEF VoidFamily, VoidStart, VoidClaim, VoidReclaim, VoidReclaimFails, VoidRefund, VoidFinalize, VoidSweep
  <2>1. BirthOK'
    BY DEF BirthOK, AttemptsDistinct
  <2>2. ASSUME NEW b \in BetIds PROVE ClaimOK(b)'
    BY DEF ClaimOK, BirthOK
  <2>3. ASSUME NEW b \in BetIds PROVE WonOK(b)'
    BY DEF WonOK, ClaimOK
  <2>4. CountOK'
    BY DEF CountOK, BirthOK
  <2> QED BY <1>0, <2>1, <2>2, <2>3, <2>4 DEF Typed
<1>5. ASSUME NEW p \in Procs, RepayFamily(p) PROVE NodesInv'
  <2> USE <1>5 DEF RepayFamily, RepaySweep, RepayCredit, RepayCreditThrows, RepayFinalize, RepayLoot, CountLoot
  <2>1. BirthOK'
    BY DEF BirthOK, AttemptsDistinct
  <2>2. ASSUME NEW b \in BetIds PROVE ClaimOK(b)'
    BY DEF ClaimOK, BirthOK
  <2>3. ASSUME NEW b \in BetIds PROVE WonOK(b)'
    BY DEF WonOK, ClaimOK
  <2>4. CountOK'
    BY DEF CountOK, BirthOK
  <2> QED BY <1>0, <2>1, <2>2, <2>3, <2>4 DEF Typed
<1>6. ASSUME NEW p \in Procs, SweepFamily(p) PROVE NodesInv'
  <2> USE <1>6 DEF SweepFamily, RecoverSweep, RecoverRow, StrandedSweep, Stranded, Aged
  <2>1. BirthOK'
    BY DEF BirthOK, AttemptsDistinct
  <2>2. ASSUME NEW b \in BetIds PROVE ClaimOK(b)'
    BY DEF ClaimOK, BirthOK
  <2>3. ASSUME NEW b \in BetIds PROVE WonOK(b)'
    BY DEF WonOK, ClaimOK
  <2>4. CountOK'
    BY DEF CountOK, BirthOK
  <2> QED BY <1>0, <2>1, <2>2, <2>3, <2>4 DEF Typed
<1>7. ASSUME NEW a \in Actors, RecoverFamily(a) PROVE NodesInv'
  <2> USE <1>7 DEF RecoverFamily, RecoverClaim, RecoverLookup, RecoverRefund, RecoverRefundThrows, RecoverCancel, RecoverDrop,
      Delete
  <2>1. BirthOK'
    BY DEF BirthOK, AttemptsDistinct
  <2>2. ASSUME NEW b \in BetIds PROVE ClaimOK(b)'
    BY DEF ClaimOK, BirthOK
  <2>3. ASSUME NEW b \in BetIds PROVE WonOK(b)'
    BY DEF WonOK, ClaimOK
  <2>4. CountOK'
    BY DEF CountOK, BirthOK
  <2> QED BY <1>0, <2>1, <2>2, <2>3, <2>4 DEF Typed
<1>8. ASSUME NEW a \in Actors, StrandFamily(a) PROVE NodesInv'
  <2> USE <1>8 DEF StrandFamily, StrandedReverse, StrandedReverseThrows, StrandedCancel
  <2>1. BirthOK'
    BY DEF BirthOK, AttemptsDistinct
  <2>2. ASSUME NEW b \in BetIds PROVE ClaimOK(b)'
    BY DEF ClaimOK, BirthOK
  <2>3. ASSUME NEW b \in BetIds PROVE WonOK(b)'
    BY DEF WonOK, ClaimOK
  <2>4. CountOK'
    BY DEF CountOK, BirthOK
  <2> QED BY <1>0, <2>1, <2>2, <2>3, <2>4 DEF Typed
<1>9. ASSUME BootFamily PROVE NodesInv'
  <2> USE <1>9 DEF BootFamily, BootStranded, Stranded, BootReserving, RecoverRow, BootFresh, BootResume, BootSettleExtra, BootClose
  <2>1. BirthOK'
    BY DEF BirthOK, AttemptsDistinct
  <2>2. ASSUME NEW b \in BetIds PROVE ClaimOK(b)'
    BY DEF ClaimOK, BirthOK
  <2>3. ASSUME NEW b \in BetIds PROVE WonOK(b)'
    BY DEF WonOK, ClaimOK
  <2>4. CountOK'
    BY DEF CountOK, BirthOK
  <2> QED BY <1>0, <2>1, <2>2, <2>3, <2>4 DEF Typed
<1>10. ASSUME CloseFamily PROVE NodesInv'
  <2> USE <1>10 DEF CloseFamily, CloseReverse, CloseReverseThrows, CloseCancel, CloseRound
  <2>1. BirthOK'
    BY DEF BirthOK, AttemptsDistinct
  <2>2. ASSUME NEW b \in BetIds PROVE ClaimOK(b)'
    BY DEF ClaimOK, BirthOK
  <2>3. ASSUME NEW b \in BetIds PROVE WonOK(b)'
    BY DEF WonOK, ClaimOK
  <2>4. CountOK'
    BY DEF CountOK, BirthOK
  <2> QED BY <1>0, <2>1, <2>2, <2>3, <2>4 DEF Typed
<1>11. ASSUME EngineFamily PROVE NodesInv'
  <2> USE <1>11 DEF EngineFamily, EngineSteps, EnterRunning, EnterCrashed, EnterSettling, EnterCompleted, EnterPhase, OtherRound,
      Ages, SettleRound
  <2>1. BirthOK'
    BY DEF BirthOK, AttemptsDistinct
  <2>2. ASSUME NEW b \in BetIds PROVE ClaimOK(b)'
    BY DEF ClaimOK, BirthOK
  <2>3. ASSUME NEW b \in BetIds PROVE WonOK(b)'
    BY DEF WonOK, ClaimOK
  <2>4. CountOK'
    BY DEF CountOK, BirthOK
  <2> QED BY <1>0, <2>1, <2>2, <2>3, <2>4 DEF Typed
<1>12. ASSUME LossFamily PROVE NodesInv'
  <2> USE <1>12 DEF LossFamily, Orphan, SettleLost, Failover
  <2>1. BirthOK'
    BY DEF BirthOK, AttemptsDistinct
  <2>2. ASSUME NEW b \in BetIds PROVE ClaimOK(b)'
    BY DEF ClaimOK, BirthOK
  <2>3. ASSUME NEW b \in BetIds PROVE WonOK(b)'
    BY DEF WonOK, ClaimOK
  <2>4. CountOK'
    BY DEF CountOK, BirthOK
  <2> QED BY <1>0, <2>1, <2>2, <2>3, <2>4 DEF Typed
<1>13. ASSUME NEW p \in Procs, Die(p) PROVE NodesInv'
  <2> USE <1>13 DEF Die
  <2>1. BirthOK'
    BY DEF BirthOK, AttemptsDistinct
  <2>2. ASSUME NEW b \in BetIds PROVE ClaimOK(b)'
    BY DEF ClaimOK, BirthOK
  <2>3. ASSUME NEW b \in BetIds PROVE WonOK(b)'
    BY DEF WonOK, ClaimOK
  <2>4. CountOK'
    BY DEF CountOK, BirthOK
  <2> QED BY <1>0, <2>1, <2>2, <2>3, <2>4 DEF Typed
<1>14. ASSUME Crash PROVE NodesInv'
  <2> USE <1>14 DEF Crash
  <2>1. BirthOK'
    BY DEF BirthOK, AttemptsDistinct
  <2>2. ASSUME NEW b \in BetIds PROVE ClaimOK(b)'
    BY DEF ClaimOK, BirthOK
  <2>3. ASSUME NEW b \in BetIds PROVE WonOK(b)'
    BY DEF WonOK, ClaimOK
  <2>4. CountOK'
    BY DEF CountOK, BirthOK
  <2> QED BY <1>0, <2>1, <2>2, <2>3, <2>4 DEF Typed
<1>15. CASE UNCHANGED vars
  BY <1>15 DEF vars, BirthOK, AttemptsDistinct, ClaimOK, WonOK, CountOK
<1> QED BY Families, <1>1, <1>2, <1>3, <1>4, <1>5, <1>6, <1>7, <1>8, <1>9, <1>10, <1>11, <1>12, <1>13, <1>14, <1>15

\* The claims of cashOut, cancelBet, settleRound and voidBet decide a bet once, with
\* any number of nodes, handlers in flight over a change of leader, lost answers,
\* early sweeps and racing voids.
THEOREM NodesInvariance == Spec => []NodesInv
<1>1. NodesInv /\ [Next]_vars => NodesInv'
  BY NodesStep
<1> QED BY <1>1, NodesInit, PTL DEF Spec

\* Whatever the faults, a busted bet was never paid, and a cancel and a cash-out never
\* both pay.
THEOREM OutcomesExcludeEachOther == Spec => []OutcomesExclude
<1>1. NodesInv => OutcomesExclude
  BY DEF NodesInv, OutcomesExclude, BustedNeverPaid, CancelXorPayout, ClaimOK, WonOK, Undecided
<1> QED BY <1>1, NodesInvariance, PTL

\* Whatever the faults, cashOut and reconcilePendingPayouts count the win of a bet in
\* the leaderboard at most once.
THEOREM LootIsCountedOnce == Spec => []LootOnce
<1>1. NodesInv => LootOnce
  BY DEF NodesInv, LootOnce, CountOK
<1> QED BY <1>1, NodesInvariance, PTL

-----------------------------------------------------------------------------
(* The induction step of IInv, family by family.                           *)

LEMMA PlaceKeeps == ASSUME IInv, SingleLeader, Typed', NEW p \in Procs, PlaceFamily(p) PROVE IInv'
<1> USE DEF IInv, SingleLeader, PlaceFamily, PlaceStart, PlaceReserve, PlaceDebit,
    PlaceDebitFails, PlaceDebitLost, PlaceRelease, PlaceActivate, Delete
<1>1. QuietOK'
  BY DEF QuietOK, Closed, Doomed, TypeOK, PcOK, ActorOK
<1>2. OneRowPerSlot'
  BY DEF OneRowPerSlot, TypeOK, PcOK, ActorOK
<1>3. AttemptsDistinct'
  BY DEF AttemptsDistinct, TypeOK, PcOK
<1>4. ASSUME NEW b \in BetIds PROVE RowOK(b)'
  BY DEF RowOK, QuietOK, Closed, Doomed, OneRowPerSlot, TypeOK, PcOK, ActorOK
<1>5. ASSUME NEW b \in BetIds PROVE OwedOK(b)'
  BY DEF OwedOK, TypeOK, PcOK, RowOK, ActorOK
<1>6. ASSUME NEW c \in Actors PROVE ActorOK(c)'
  BY DEF ActorOK, QuietOK, Closed, Doomed, AttemptsDistinct, OneRowPerSlot, TypeOK, PcOK, RowOK
<1>7. LootOK'
  BY DEF LootOK, TypeOK, PcOK, ActorOK, RowOK
<1> QED BY <1>1, <1>2, <1>3, <1>4, <1>5, <1>6, <1>7 DEF Typed

LEMMA CancelKeeps == ASSUME IInv, SingleLeader, Typed', NEW p \in Procs, CancelFamily(p) PROVE IInv'
<1> USE DEF IInv, SingleLeader, CancelFamily, CancelStart, CancelRead, CancelClaim, CancelCredit,
    CancelCreditThrows
<1>1. QuietOK'
  BY DEF QuietOK, Closed, Doomed, TypeOK, PcOK, ActorOK
<1>2. OneRowPerSlot'
  BY DEF OneRowPerSlot, TypeOK, PcOK, ActorOK
<1>3. AttemptsDistinct'
  BY DEF AttemptsDistinct, TypeOK, PcOK
<1>4. ASSUME NEW b \in BetIds PROVE RowOK(b)'
  BY DEF RowOK, QuietOK, Closed, Doomed, OneRowPerSlot, TypeOK, PcOK, ActorOK
<1>5. ASSUME NEW b \in BetIds PROVE OwedOK(b)'
  BY DEF OwedOK, TypeOK, PcOK, RowOK, ActorOK
<1>6. ASSUME NEW c \in Actors PROVE ActorOK(c)'
  BY DEF ActorOK, QuietOK, Closed, Doomed, AttemptsDistinct, OneRowPerSlot, TypeOK, PcOK, RowOK
<1>7. LootOK'
  BY DEF LootOK, TypeOK, PcOK, ActorOK, RowOK
<1> QED BY <1>1, <1>2, <1>3, <1>4, <1>5, <1>6, <1>7 DEF Typed

LEMMA CashOutKeeps == ASSUME IInv, SingleLeader, Typed', NEW p \in Procs, CashOutFamily(p) PROVE IInv'
<1> USE DEF IInv, SingleLeader, CashOutFamily, CashOutStart, CashOutClaim, CashOutCredit,
    CashOutCreditThrows, CashOutPark, CashOutLoot, CountLoot
<1>1. QuietOK'
  BY DEF QuietOK, Closed, Doomed, TypeOK, PcOK, ActorOK
<1>2. OneRowPerSlot'
  BY DEF OneRowPerSlot, TypeOK, PcOK, ActorOK
<1>3. AttemptsDistinct'
  BY DEF AttemptsDistinct, TypeOK, PcOK
<1>4. ASSUME NEW b \in BetIds PROVE RowOK(b)'
  BY DEF RowOK, QuietOK, Closed, Doomed, OneRowPerSlot, TypeOK, PcOK, ActorOK
<1>5. ASSUME NEW b \in BetIds PROVE OwedOK(b)'
  BY DEF OwedOK, TypeOK, PcOK, RowOK, ActorOK
<1>6. ASSUME NEW c \in Actors PROVE ActorOK(c)'
  <2> USE DEF ActorOK, TypeOK, PcOK, RowOK, Doomed
  <2>1. CASE \E b \in BetIds : CashOutStart(p, b)
    BY <2>1 DEF QuietOK
  <2>2. CASE CashOutClaim(p)
    BY <2>2 DEF QuietOK, OneRowPerSlot
  <2>3. CASE CashOutCredit(p) \/ CashOutCreditThrows(p)
    BY <2>3
  <2>4. CASE CashOutPark(p)
    BY <2>4 DEF LootOK
  <2>5. CASE CashOutLoot(p)
    BY <2>5
  <2> QED BY <2>1, <2>2, <2>3, <2>4, <2>5
<1>7. LootOK'
  BY DEF LootOK, TypeOK, PcOK, ActorOK, RowOK
<1> QED BY <1>1, <1>2, <1>3, <1>4, <1>5, <1>6, <1>7 DEF Typed

LEMMA VoidKeeps == ASSUME IInv, SingleLeader, Typed', NEW p \in Procs, VoidFamily(p) PROVE IInv'
<1> USE DEF IInv, SingleLeader, VoidFamily, VoidStart, VoidClaim, VoidReclaim, VoidReclaimFails,
    VoidRefund, VoidFinalize, VoidSweep
<1>1. QuietOK'
  BY DEF QuietOK, Closed, Doomed, TypeOK, PcOK, ActorOK
<1>2. OneRowPerSlot'
  BY DEF OneRowPerSlot, TypeOK, PcOK, ActorOK
<1>3. AttemptsDistinct'
  BY DEF AttemptsDistinct, TypeOK, PcOK
<1>4. ASSUME NEW b \in BetIds PROVE RowOK(b)'
  BY DEF RowOK, QuietOK, Closed, Doomed, OneRowPerSlot, TypeOK, PcOK, ActorOK
<1>5. ASSUME NEW b \in BetIds PROVE OwedOK(b)'
  BY DEF OwedOK, TypeOK, PcOK, RowOK, ActorOK
<1>6. ASSUME NEW c \in Actors PROVE ActorOK(c)'
  BY DEF ActorOK, QuietOK, Closed, Doomed, AttemptsDistinct, OneRowPerSlot, TypeOK, PcOK, RowOK
<1>7. LootOK'
  BY DEF LootOK, TypeOK, PcOK, ActorOK, RowOK
<1> QED BY <1>1, <1>2, <1>3, <1>4, <1>5, <1>6, <1>7 DEF Typed

LEMMA RepayKeeps == ASSUME IInv, SingleLeader, Typed', NEW p \in Procs, RepayFamily(p) PROVE IInv'
<1> USE DEF IInv, SingleLeader, RepayFamily, RepaySweep, RepayCredit, RepayCreditThrows,
    RepayFinalize, RepayLoot, CountLoot
<1>1. QuietOK'
  BY DEF QuietOK, Closed, Doomed, TypeOK, PcOK, ActorOK
<1>2. OneRowPerSlot'
  BY DEF OneRowPerSlot, TypeOK, PcOK, ActorOK
<1>3. AttemptsDistinct'
  BY DEF AttemptsDistinct, TypeOK, PcOK
<1>4. ASSUME NEW b \in BetIds PROVE RowOK(b)'
  BY DEF RowOK, QuietOK, Closed, Doomed, OneRowPerSlot, TypeOK, PcOK, ActorOK
<1>5. ASSUME NEW b \in BetIds PROVE OwedOK(b)'
  BY DEF OwedOK, TypeOK, PcOK, RowOK, ActorOK
<1>6. ASSUME NEW c \in Actors PROVE ActorOK(c)'
  BY DEF ActorOK, QuietOK, Closed, Doomed, AttemptsDistinct, OneRowPerSlot, TypeOK, PcOK, RowOK
<1>7. LootOK'
  BY DEF LootOK, TypeOK, PcOK, ActorOK, RowOK
<1> QED BY <1>1, <1>2, <1>3, <1>4, <1>5, <1>6, <1>7 DEF Typed

LEMMA SweepKeeps == ASSUME IInv, SingleLeader, Typed', NEW p \in Procs, SweepFamily(p) PROVE IInv'
<1> USE DEF IInv, SingleLeader, SweepFamily, RecoverSweep, RecoverRow, StrandedSweep, Stranded,
    Aged
<1>1. QuietOK'
  BY DEF QuietOK, Closed, Doomed, TypeOK, PcOK, ActorOK
<1>2. OneRowPerSlot'
  BY DEF OneRowPerSlot, TypeOK, PcOK, ActorOK
<1>3. AttemptsDistinct'
  BY DEF AttemptsDistinct, TypeOK, PcOK
<1>4. ASSUME NEW b \in BetIds PROVE RowOK(b)'
  BY DEF RowOK, QuietOK, Closed, Doomed, OneRowPerSlot, TypeOK, PcOK, ActorOK
<1>5. ASSUME NEW b \in BetIds PROVE OwedOK(b)'
  BY DEF OwedOK, TypeOK, PcOK, RowOK, ActorOK
<1>6. ASSUME NEW c \in Actors PROVE ActorOK(c)'
  BY DEF ActorOK, QuietOK, Closed, Doomed, AttemptsDistinct, OneRowPerSlot, TypeOK, PcOK, RowOK
<1>7. LootOK'
  BY DEF LootOK, TypeOK, PcOK, ActorOK, RowOK
<1> QED BY <1>1, <1>2, <1>3, <1>4, <1>5, <1>6, <1>7 DEF Typed

LEMMA RecoverKeeps == ASSUME IInv, SingleLeader, Typed', NEW a \in Actors, RecoverFamily(a) PROVE IInv'
<1> USE DEF IInv, SingleLeader, RecoverFamily, RecoverClaim, RecoverLookup, RecoverRefund,
    RecoverRefundThrows, RecoverCancel, RecoverDrop, Delete
<1>1. QuietOK'
  BY DEF QuietOK, Closed, Doomed, TypeOK, PcOK, ActorOK
<1>2. OneRowPerSlot'
  BY DEF OneRowPerSlot, TypeOK, PcOK, ActorOK
<1>3. AttemptsDistinct'
  BY DEF AttemptsDistinct, TypeOK, PcOK
<1>4. ASSUME NEW b \in BetIds PROVE RowOK(b)'
  BY DEF RowOK, QuietOK, Closed, Doomed, OneRowPerSlot, TypeOK, PcOK, ActorOK
<1>5. ASSUME NEW b \in BetIds PROVE OwedOK(b)'
  BY DEF OwedOK, TypeOK, PcOK, RowOK, ActorOK
<1>6. ASSUME NEW c \in Actors PROVE ActorOK(c)'
  BY DEF ActorOK, QuietOK, Closed, Doomed, AttemptsDistinct, OneRowPerSlot, TypeOK, PcOK, RowOK
<1>7. LootOK'
  BY DEF LootOK, TypeOK, PcOK, ActorOK, RowOK
<1> QED BY <1>1, <1>2, <1>3, <1>4, <1>5, <1>6, <1>7 DEF Typed

LEMMA StrandKeeps == ASSUME IInv, SingleLeader, Typed', NEW a \in Actors, StrandFamily(a) PROVE IInv'
<1> USE DEF IInv, SingleLeader, StrandFamily, StrandedReverse, StrandedReverseThrows,
    StrandedCancel
<1>1. QuietOK'
  BY DEF QuietOK, Closed, Doomed, TypeOK, PcOK, ActorOK
<1>2. OneRowPerSlot'
  BY DEF OneRowPerSlot, TypeOK, PcOK, ActorOK
<1>3. AttemptsDistinct'
  BY DEF AttemptsDistinct, TypeOK, PcOK
<1>4. ASSUME NEW b \in BetIds PROVE RowOK(b)'
  BY DEF RowOK, QuietOK, Closed, Doomed, OneRowPerSlot, TypeOK, PcOK, ActorOK
<1>5. ASSUME NEW b \in BetIds PROVE OwedOK(b)'
  BY DEF OwedOK, TypeOK, PcOK, RowOK, ActorOK
<1>6. ASSUME NEW c \in Actors PROVE ActorOK(c)'
  BY DEF ActorOK, QuietOK, Closed, Doomed, AttemptsDistinct, OneRowPerSlot, TypeOK, PcOK, RowOK
<1>7. LootOK'
  BY DEF LootOK, TypeOK, PcOK, ActorOK, RowOK
<1> QED BY <1>1, <1>2, <1>3, <1>4, <1>5, <1>6, <1>7 DEF Typed

LEMMA BootKeeps == ASSUME IInv, SingleLeader, Typed', BootFamily PROVE IInv'
<1> USE DEF IInv, SingleLeader, BootFamily, BootStranded, Stranded, BootReserving, RecoverRow,
    BootFresh, BootResume, BootSettleExtra, BootClose
<1>1. QuietOK'
  BY DEF QuietOK, Closed, Doomed, TypeOK, PcOK, ActorOK
<1>2. OneRowPerSlot'
  BY DEF OneRowPerSlot, TypeOK, PcOK, ActorOK
<1>3. AttemptsDistinct'
  BY DEF AttemptsDistinct, TypeOK, PcOK
<1>4. ASSUME NEW b \in BetIds PROVE RowOK(b)'
  BY DEF RowOK, QuietOK, Closed, Doomed, OneRowPerSlot, TypeOK, PcOK, ActorOK
<1>5. ASSUME NEW b \in BetIds PROVE OwedOK(b)'
  BY DEF OwedOK, TypeOK, PcOK, RowOK, ActorOK
<1>6. ASSUME NEW c \in Actors PROVE ActorOK(c)'
  BY DEF ActorOK, QuietOK, Closed, Doomed, AttemptsDistinct, OneRowPerSlot, TypeOK, PcOK, RowOK
<1>7. LootOK'
  BY DEF LootOK, TypeOK, PcOK, ActorOK, RowOK
<1> QED BY <1>1, <1>2, <1>3, <1>4, <1>5, <1>6, <1>7 DEF Typed

LEMMA CloseKeeps == ASSUME IInv, SingleLeader, Typed', CloseFamily PROVE IInv'
<1> USE DEF IInv, SingleLeader, CloseFamily, CloseReverse, CloseReverseThrows, CloseCancel,
    CloseRound
<1>1. QuietOK'
  BY DEF QuietOK, Closed, Doomed, TypeOK, PcOK, ActorOK
<1>2. OneRowPerSlot'
  BY DEF OneRowPerSlot, TypeOK, PcOK, ActorOK
<1>3. AttemptsDistinct'
  BY DEF AttemptsDistinct, TypeOK, PcOK
<1>4. ASSUME NEW b \in BetIds PROVE RowOK(b)'
  BY DEF RowOK, QuietOK, Closed, Doomed, OneRowPerSlot, TypeOK, PcOK, ActorOK
<1>5. ASSUME NEW b \in BetIds PROVE OwedOK(b)'
  BY DEF OwedOK, TypeOK, PcOK, RowOK, ActorOK
<1>6. ASSUME NEW c \in Actors PROVE ActorOK(c)'
  BY DEF ActorOK, QuietOK, Closed, Doomed, AttemptsDistinct, OneRowPerSlot, TypeOK, PcOK, RowOK
<1>7. LootOK'
  BY DEF LootOK, TypeOK, PcOK, ActorOK, RowOK
<1> QED BY <1>1, <1>2, <1>3, <1>4, <1>5, <1>6, <1>7 DEF Typed

LEMMA EngineKeeps == ASSUME IInv, SingleLeader, Typed', EngineFamily PROVE IInv'
<1> USE DEF IInv, SingleLeader, EngineFamily, EngineSteps, EnterRunning, EnterCrashed,
    EnterSettling, EnterCompleted, EnterPhase, OtherRound, Ages, SettleRound
<1>1. QuietOK'
  BY DEF QuietOK, Closed, Doomed, TypeOK, PcOK, ActorOK
<1>2. OneRowPerSlot'
  BY DEF OneRowPerSlot, TypeOK, PcOK, ActorOK
<1>3. AttemptsDistinct'
  BY DEF AttemptsDistinct, TypeOK, PcOK
<1>4. ASSUME NEW b \in BetIds PROVE RowOK(b)'
  BY DEF RowOK, QuietOK, Closed, Doomed, OneRowPerSlot, TypeOK, PcOK, ActorOK
<1>5. ASSUME NEW b \in BetIds PROVE OwedOK(b)'
  BY DEF OwedOK, TypeOK, PcOK, RowOK, ActorOK
<1>6. ASSUME NEW c \in Actors PROVE ActorOK(c)'
  BY DEF ActorOK, QuietOK, Closed, Doomed, AttemptsDistinct, OneRowPerSlot, TypeOK, PcOK, RowOK
<1>7. LootOK'
  BY DEF LootOK, TypeOK, PcOK, ActorOK, RowOK
<1> QED BY <1>1, <1>2, <1>3, <1>4, <1>5, <1>6, <1>7 DEF Typed

LEMMA LossKeeps == ASSUME IInv, SingleLeader, Typed', LossFamily PROVE IInv'
<1> USE DEF IInv, SingleLeader, LossFamily, Orphan, SettleLost, Failover
<1>1. QuietOK'
  BY DEF QuietOK, Closed, Doomed, TypeOK, PcOK, ActorOK
<1>2. OneRowPerSlot'
  BY DEF OneRowPerSlot, TypeOK, PcOK, ActorOK
<1>3. AttemptsDistinct'
  BY DEF AttemptsDistinct, TypeOK, PcOK
<1>4. ASSUME NEW b \in BetIds PROVE RowOK(b)'
  BY DEF RowOK, QuietOK, Closed, Doomed, OneRowPerSlot, TypeOK, PcOK, ActorOK
<1>5. ASSUME NEW b \in BetIds PROVE OwedOK(b)'
  BY DEF OwedOK, TypeOK, PcOK, RowOK, ActorOK
<1>6. ASSUME NEW c \in Actors PROVE ActorOK(c)'
  BY DEF ActorOK, QuietOK, Closed, Doomed, AttemptsDistinct, OneRowPerSlot, TypeOK, PcOK, RowOK
<1>7. LootOK'
  BY DEF LootOK, TypeOK, PcOK, ActorOK, RowOK
<1> QED BY <1>1, <1>2, <1>3, <1>4, <1>5, <1>6, <1>7 DEF Typed

LEMMA DieKeeps == ASSUME IInv, SingleLeader, Typed', NEW p \in Procs, Die(p) PROVE IInv'
<1> USE DEF IInv, SingleLeader, Die
<1>1. QuietOK'
  BY DEF QuietOK, Closed, Doomed, TypeOK, PcOK, ActorOK
<1>2. OneRowPerSlot'
  BY DEF OneRowPerSlot, TypeOK, PcOK, ActorOK
<1>3. AttemptsDistinct'
  BY DEF AttemptsDistinct, TypeOK, PcOK
<1>4. ASSUME NEW b \in BetIds PROVE RowOK(b)'
  BY DEF RowOK, QuietOK, Closed, Doomed, OneRowPerSlot, TypeOK, PcOK, ActorOK
<1>5. ASSUME NEW b \in BetIds PROVE OwedOK(b)'
  BY DEF OwedOK, TypeOK, PcOK, RowOK, ActorOK
<1>6. ASSUME NEW c \in Actors PROVE ActorOK(c)'
  BY DEF ActorOK, QuietOK, Closed, Doomed, AttemptsDistinct, OneRowPerSlot, TypeOK, PcOK, RowOK
<1>7. LootOK'
  BY DEF LootOK, TypeOK, PcOK, ActorOK, RowOK
<1> QED BY <1>1, <1>2, <1>3, <1>4, <1>5, <1>6, <1>7 DEF Typed

LEMMA CrashKeeps == ASSUME IInv, SingleLeader, Typed', Crash PROVE IInv'
<1> USE DEF IInv, SingleLeader, Crash
<1>1. QuietOK'
  BY DEF QuietOK, Closed, Doomed, TypeOK, PcOK, ActorOK
<1>2. OneRowPerSlot'
  BY DEF OneRowPerSlot, TypeOK, PcOK, ActorOK
<1>3. AttemptsDistinct'
  BY DEF AttemptsDistinct, TypeOK, PcOK
<1>4. ASSUME NEW b \in BetIds PROVE RowOK(b)'
  BY DEF RowOK, QuietOK, Closed, Doomed, OneRowPerSlot, TypeOK, PcOK, ActorOK
<1>5. ASSUME NEW b \in BetIds PROVE OwedOK(b)'
  BY DEF OwedOK, TypeOK, PcOK, RowOK, ActorOK
<1>6. ASSUME NEW c \in Actors PROVE ActorOK(c)'
  BY DEF ActorOK, QuietOK, Closed, Doomed, AttemptsDistinct, OneRowPerSlot, TypeOK, PcOK, RowOK
<1>7. LootOK'
  BY DEF LootOK, TypeOK, PcOK, ActorOK, RowOK
<1> QED BY <1>1, <1>2, <1>3, <1>4, <1>5, <1>6, <1>7 DEF Typed

LEMMA IInvInit == Init => IInv
<1> SUFFICES ASSUME Init PROVE IInv
  OBVIOUS
<1>1. Typed
  BY TypedInit
<1>2. QuietOK /\ OneRowPerSlot /\ AttemptsDistinct /\ LootOK
  BY DEF Init, QuietOK, OneRowPerSlot, AttemptsDistinct, LootOK
<1>3. ASSUME NEW b \in BetIds PROVE RowOK(b) /\ OwedOK(b)
  BY DEF Init, RowOK, OwedOK
<1>4. ASSUME NEW a \in Actors PROVE ActorOK(a)
  BY DEF Init, ActorOK
<1> QED BY <1>1, <1>2, <1>3, <1>4 DEF Typed, IInv

LEMMA IInvStep == ASSUME SingleLeader, IInv, [Next]_vars PROVE IInv'
<1>1. Typed'
  BY TypedStep DEF IInv, Typed
<1>2. CASE UNCHANGED vars
  BY <1>2 DEF vars, IInv, TypeOK, PcOK, QuietOK, Closed, OneRowPerSlot, AttemptsDistinct, RowOK,
     OwedOK,
     ActorOK, Doomed, LootOK
<1> QED
  BY <1>1, <1>2, Families, PlaceKeeps, CancelKeeps, CashOutKeeps, VoidKeeps, RepayKeeps, SweepKeeps,
     RecoverKeeps, StrandKeeps, BootKeeps, CloseKeeps, EngineKeeps, LossKeeps, DieKeeps, CrashKeeps

\* The inductive invariant holds of every behaviour of a single leader.
THEOREM Invariance == ASSUME SingleLeader PROVE Spec => []IInv
<1>1. IInv /\ [Next]_vars => IInv'
  BY IInvStep
<1> QED BY <1>1, IInvInit, PTL DEF Spec

-----------------------------------------------------------------------------
(* What the invariant gives.                                               *)

LEMMA StakeFromIInv == IInv => StakeLinkage
  BY DEF IInv, StakeLinkage, RowOK, TypeOK, Statuses

LEMMA CreditFromIInv == IInv => OneCreditPerBet
  BY DEF IInv, OneCreditPerBet, RowOK, TypeOK, Statuses, Legs

LEMMA LootFromIInv == IInv => LootOnce
  BY DEF IInv, LootOnce, LootOK

LEMMA OrphanFromIInv == IInv => NoOrphanedDebit
  BY DEF IInv, NoOrphanedDebit, RowOK

LEMMA BooksFromIInv == IInv => BooksBalance
<1> SUFFICES ASSUME IInv, NEW b \in BetIds, ~InFlight(b, WorkPcs), ~Backlog(b), b \notin abandoned,
                    status[b] \notin {"reserving", "cancelling", "voiding", "payout_pending"}
             PROVE  Reconciles(b)
  BY DEF BooksBalance, Handled
<1> USE DEF IInv, RowOK, Reconciles, Bit, TypeOK
<1>1. CASE status[b] \in {"unborn", "deleted", "busted"}
  BY <1>1
<1>2. CASE status[b] = "active"
  BY <1>2 DEF Backlog, Doomed
<1>3. CASE status[b] = "cashed_out"
  BY <1>3 DEF OwedOK
<1>4. CASE status[b] = "cancelled"
  BY <1>4 DEF OwedOK
<1>5. CASE status[b] = "voided"
  BY <1>5 DEF OwedOK
<1> QED BY <1>1, <1>2, <1>3, <1>4, <1>5 DEF Statuses

\* One leader, any interleaving of its handlers, restarts, failing credits and
\* abandoned rounds: a slot has one row; a wagered bet has its own debit and a
\* debit its row; payout, cancel refund and restart refund exclude each other;
\* the books of a finished bet reconcile; a win is counted once; and a deleted
\* row leaves no debit behind.
THEOREM MoneySafety ==
  ASSUME SingleLeader
  PROVE  Spec => [](OneRowPerSlot /\ StakeLinkage /\ OneCreditPerBet /\ BooksBalance /\ LootOnce /\ NoOrphanedDebit)
<1>1. IInv => OneRowPerSlot
  BY DEF IInv
<1> QED BY <1>1, Invariance, StakeFromIInv, CreditFromIInv, BooksFromIInv, LootFromIInv, OrphanFromIInv, PTL

\* Whichever of cashOut, cancelBet, settleRound, closeAndRefundRound and the recovery
\* passes race for a bet: payout, cancel refund and restart refund exclude each other.
THEOREM PaidOnce == ASSUME SingleLeader PROVE Spec => []OneCreditPerBet
  BY Invariance, CreditFromIInv, PTL

\* recoverReservingBets and placeBet delete the row of a slot only while the slot has no
\* debit, or its debit was refunded.
THEOREM NoDebitIsOrphaned == ASSUME SingleLeader PROVE Spec => []NoOrphanedDebit
  BY Invariance, OrphanFromIInv, PTL

-----------------------------------------------------------------------------
(* Steps: the finality of a void, and the refinement of BetOutcome.        *)

\* What a step of a single leader may do to the status of a bet.
Moves == {<<"unborn", "reserving">>, <<"reserving", "active">>, <<"reserving", "cancelling">>,
          <<"reserving", "deleted">>, <<"cancelling", "cancelled">>, <<"cancelling", "deleted">>,
          <<"active", "cashed_out">>, <<"active", "busted">>, <<"active", "cancelled">>,
          <<"cashed_out", "payout_pending">>, <<"payout_pending", "cashed_out">>,
          <<"cashed_out", "voiding">>, <<"busted", "voiding">>, <<"voiding", "voided">>}

StatusStep == \A b \in BetIds : status'[b] = status[b] \/ <<status[b], status'[b]>> \in Moves

LEMMA StatusSteps == ASSUME SingleLeader, IInv, [Next]_vars PROVE StatusStep
<1> USE DEF IInv, SingleLeader, TypeOK, PcOK, StatusStep, Moves, Statuses
<1>1. ASSUME NEW p \in Procs, PlaceFamily(p) PROVE StatusStep
  BY <1>1 DEF ActorOK, PlaceFamily, PlaceStart, PlaceReserve, PlaceDebit, PlaceDebitFails,
     PlaceDebitLost, PlaceRelease, PlaceActivate, Delete
<1>2. ASSUME NEW p \in Procs, CancelFamily(p) PROVE StatusStep
  BY <1>2 DEF ActorOK, CancelFamily, CancelStart, CancelRead, CancelClaim, CancelCredit,
     CancelCreditThrows
<1>3. ASSUME NEW p \in Procs, CashOutFamily(p) PROVE StatusStep
  BY <1>3 DEF ActorOK, CashOutFamily, CashOutStart, CashOutClaim, CashOutCredit,
     CashOutCreditThrows, CashOutPark, CashOutLoot, CountLoot
<1>4. ASSUME NEW p \in Procs, VoidFamily(p) PROVE StatusStep
  BY <1>4 DEF ActorOK, VoidFamily, VoidStart, VoidClaim, VoidReclaim, VoidReclaimFails,
     VoidRefund, VoidFinalize, VoidSweep
<1>5. ASSUME NEW p \in Procs, RepayFamily(p) PROVE StatusStep
  BY <1>5 DEF ActorOK, RepayFamily, RepaySweep, RepayCredit, RepayCreditThrows, RepayFinalize,
     RepayLoot, CountLoot
<1>6. ASSUME NEW p \in Procs, SweepFamily(p) PROVE StatusStep
  BY <1>6 DEF ActorOK, SweepFamily, RecoverSweep, RecoverRow, StrandedSweep, Stranded, Aged
<1>7. ASSUME NEW a \in Actors, RecoverFamily(a) PROVE StatusStep
  BY <1>7 DEF ActorOK, RowOK, RecoverFamily, RecoverClaim, RecoverLookup, RecoverRefund,
     RecoverRefundThrows, RecoverCancel, RecoverDrop, Delete
<1>8. ASSUME NEW a \in Actors, StrandFamily(a) PROVE StatusStep
  BY <1>8 DEF ActorOK, StrandFamily, StrandedReverse, StrandedReverseThrows, StrandedCancel
<1>9. ASSUME BootFamily PROVE StatusStep
  BY <1>9 DEF ActorOK, BootFamily, BootStranded, Stranded, BootReserving, RecoverRow, BootFresh,
     BootResume, BootSettleExtra, BootClose
<1>10. ASSUME CloseFamily PROVE StatusStep
  BY <1>10 DEF ActorOK, CloseFamily, CloseReverse, CloseReverseThrows, CloseCancel, CloseRound
<1>11. ASSUME EngineFamily PROVE StatusStep
  BY <1>11 DEF ActorOK, EngineFamily, EngineSteps, EnterRunning, EnterCrashed, EnterSettling,
     EnterCompleted, EnterPhase, OtherRound, Ages, SettleRound
<1>12. ASSUME LossFamily PROVE StatusStep
  BY <1>12 DEF ActorOK, LossFamily, Orphan, SettleLost, Failover
<1>13. ASSUME NEW p \in Procs, Die(p) PROVE StatusStep
  BY <1>13 DEF ActorOK, Die
<1>14. ASSUME Crash PROVE StatusStep
  BY <1>14 DEF ActorOK, Crash
<1>15. CASE UNCHANGED vars
  BY <1>15 DEF vars
<1> QED BY Families, <1>1, <1>2, <1>3, <1>4, <1>5, <1>6, <1>7, <1>8, <1>9, <1>10, <1>11, <1>12, <1>13, <1>14, <1>15

\* A void is final: no handler or sweep of a single leader moves a voided row,
\* the unconditional writes of cashOut and the recovery passes included.
THEOREM VoidFinality == ASSUME SingleLeader PROVE Spec => VoidedIsFinal
<1>1. ASSUME IInv, [Next]_vars PROVE [\A b \in BetIds : status[b] = "voided" => status'[b] = "voided"]_vars
  <2>1. StatusStep
    BY <1>1, StatusSteps
  <2> QED BY <1>1, <2>1 DEF StatusStep, Moves, Statuses, IInv, TypeOK
<1> QED BY <1>1, Invariance, PTL DEF Spec, VoidedIsFinal

LEMMA OutcomeInit == Init => Abstract!Init
  BY DEF Init, Abstract!Init, OutcomeOf

LEMMA OutcomeStep ==
  ASSUME SingleLeader, IInv, [Next]_vars
  PROVE  [Abstract!Next]_([b \in BetIds |-> OutcomeOf(status[b])])
<1> DEFINE outcome == [b \in BetIds |-> OutcomeOf(status[b])]
<1>1. StatusStep /\ IInv'
  BY StatusSteps, IInvStep
<1> USE DEF OutcomeOf
<1>2. CASE \A b \in BetIds : OutcomeOf(status'[b]) = OutcomeOf(status[b])
  <2>1. outcome' = outcome
    BY <1>2
  <2> QED BY <2>1
<1>3. ASSUME NEW b \in BetIds, OutcomeOf(status'[b]) # OutcomeOf(status[b])
      PROVE  Abstract!Next
  <2>1. ASSUME NEW c \in BetIds, c # b PROVE status[c] \notin Live /\ status'[c] \notin Live
    BY <1>1, <1>3, <2>1 DEF StatusStep, Moves, IInv, OneRowPerSlot, TypeOK, Statuses
  <2>2. ASSUME NEW c \in BetIds, c # b PROVE OutcomeOf(status[c]) = "none" /\ OutcomeOf(status'[c]) = "none"
    BY <1>1, <2>1, <2>2 DEF IInv, TypeOK, Statuses
  <2>3. outcome' = [outcome EXCEPT ![b] = OutcomeOf(status'[b])]
    BY <2>2
  <2>4. \/ OutcomeOf(status[b]) = "none" /\ OutcomeOf(status'[b]) \in {"held", "returned"}
        \/ OutcomeOf(status[b]) = "held" /\ OutcomeOf(status'[b]) \in {"won", "lost"}
        \/ OutcomeOf(status[b]) \in {"held", "won", "lost"} /\ OutcomeOf(status'[b]) = "returned"
    BY <1>1, <1>3 DEF StatusStep, Moves
  <2> HIDE DEF OutcomeOf
  <2> QED BY <2>2, <2>3, <2>4 DEF Abstract!Next, Abstract!Enter, Abstract!Decide, Abstract!GiveBack
<1> QED BY <1>2, <1>3

\* The handlers of a single leader implement BetOutcome: a slot yields at most
\* one bet, a decided bet is only ever given back, and then stays given back.
THEOREM Refinement == ASSUME SingleLeader PROVE Spec => ImplementsBetOutcome
<1>1. IInv /\ [Next]_vars => [Abstract!Next]_([b \in BetIds |-> OutcomeOf(status[b])])
  BY OutcomeStep
<1> QED BY <1>1, OutcomeInit, Invariance, PTL DEF Spec, ImplementsBetOutcome, Abstract!Spec
=============================================================================
