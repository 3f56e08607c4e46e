-------------------------------- MODULE Bets --------------------------------
(***************************************************************************)
(* The money life of ONE bet slot (round, user, panel) of the Vault Runner *)
(* game server: every handler of BetsService, the recovery passes of       *)
(* GameEngineService and the sweeps of GameGateway that touch a bet row or *)
(* post a leg of it to the internal ledger.                                *)
(*                                                                         *)
(* Each handler is an asynchronous function; every await on the database   *)
(* or on the wallet is a point where other handlers run.  So a handler is  *)
(* an actor with a program counter, and one action is what happens between *)
(* two awaits.  A slot may see several attempts (bet ids): a released      *)
(* reservation deletes its row and the player may bet again.               *)
(*                                                                         *)
(* Data abstraction: a stake or a payout is one unit.  Every leg posts the *)
(* amount or the payout column of its own row, and each of these columns   *)
(* is written once, so which legs are on the ledger is all there is to     *)
(* know about the money of a bet.                                          *)
(***************************************************************************)
EXTENDS Integers, FiniteSets

CONSTANTS
    BetIds,      \* the ids placeBet may draw (randomUUID): one per attempt
    Procs,       \* handlers that can be in flight at once, besides the boot
    Boot,        \* the leader's start() sequence
    NoBet,       \* "no bet": the job of an idle actor, the owner of no debit
    OperatorMode,\* WALLET_PROVIDER_TYPE is operator: the slot's wallet is a demo wallet
    Faults,      \* which of FaultKinds may happen
    MaxFaults    \* bound on the number of faults of a behaviour

(***************************************************************************)
(*  crash        the process restarts: every handler in flight is gone     *)
(*  die          one handler stops at an await (its database call threw)   *)
(*  throw        a wallet credit throws, applied or not (lost answer)      *)
(*  lost_debit   the debit is committed but its answer is lost             *)
(*  orphan       safe() gives up on a phase transition: the engine opens   *)
(*               another round and leaves this one open                    *)
(*  failover     leadership is lost and taken again, by this or another    *)
(*               node, with handlers of players still in flight            *)
(*  early_sweep  the age gate of the sweep does not outlast a placeBet     *)
(*  void_race    an operator voids a win whose cash-out is still in flight *)
(***************************************************************************)
FaultKinds == {"crash", "die", "throw", "lost_debit", "orphan", "failover", "early_sweep", "void_race"}

ASSUME ActorsAssumption == /\ Boot \notin Procs
                           /\ NoBet \notin BetIds
ASSUME FaultsAssumption == Faults \subseteq FaultKinds /\ MaxFaults \in Nat
ASSUME ModeAssumption == OperatorMode \in BOOLEAN

Actors == Procs \cup {Boot}

VARIABLES
    round,      \* Round.status; "refunded" is completed with crashedAt null
    loop,       \* "here": engine.state is this round, and no newer one is open;
                \* "newer": the loop runs a newer round; "between": no newer is open
    ancient,    \* phaseEndsAt is past by more than RESUME_MAX_STALENESS_MS
    settleDue,  \* a settle event was emitted and onSettle has not run yet
    status,     \* Bet.status of each id; "unborn" and "deleted": no row
    won,        \* the ids whose row has payout > 0
    debitBy,    \* refId of the ledger row keyed bet:{round}:{user}:{panel}:debit
    posted,     \* the legs on the ledger, keyed bet:{id}:{leg}
    loot,       \* how often Profile.total_loot counted the win of the id
    pc, job,    \* where each actor is, and the bet it works on
    faults,     \* faults so far
    abandoned   \* history: ids whose claimer stopped before its credit landed

vars == <<round, loop, ancient, settleDue, status, won, debitBy, posted,
          loot, pc, job, faults, abandoned>>

roundVars == <<round, loop, ancient, settleDue>>
moneyVars == <<won, debitBy, posted, loot>>

Phases == {"betting", "running", "crashed", "settling", "completed", "refunded"}

Statuses == {"unborn", "deleted", "reserving", "cancelling", "active", "cashed_out",
             "busted", "cancelled", "payout_pending", "voiding", "voided"}

\* The statuses of a row that exists: unique on (roundId, userId, panel).
Live == Statuses \ {"unborn", "deleted"}

Wagered == {"active", "cashed_out", "busted", "payout_pending"}

Legs == {"payout", "refund", "restart_refund", "void_reclaim", "void_refund"}

WorkPcs == {"place_reserve", "place_debit", "place_release", "place_activate",
            "cancel_claim", "cancel_credit",
            "cashout_claim", "cashout_credit", "cashout_park", "cashout_loot",
            "void_busted", "void_cashed_out", "void_reclaim", "void_refund", "void_finalize",
            "repay_credit", "repay_finalize", "repay_loot",
            "recover_claim", "recover_lookup", "recover_refund", "recover_cancel", "recover_drop",
            "strand_reverse", "strand_cancel",
            "close_reverse", "close_cancel"}

FreePcs == {"idle", "cancel_read", "up", "boot_stranded", "boot_reserving", "boot_resume", "close_round"}

PlacePcs == {"place_reserve", "place_debit", "place_release", "place_activate"}

SweepPcs == {"recover_claim", "recover_lookup", "recover_refund", "recover_cancel", "recover_drop",
             "strand_reverse", "strand_cancel"}

RepayPcs == {"repay_credit", "repay_finalize", "repay_loot"}

\* Between winning the claim of a bet and posting the credit the claim owes.
OwingPcs == {"cancel_credit", "cashout_credit", "cashout_park"}

TypeOK ==
    /\ round \in Phases
    /\ loop \in {"here", "newer", "between"} /\ ancient \in BOOLEAN /\ settleDue \in BOOLEAN
    /\ status \in [BetIds -> Statuses]
    /\ won \subseteq BetIds
    /\ debitBy \in BetIds \cup {NoBet}
    /\ posted \in [BetIds -> SUBSET Legs]
    /\ loot \in [BetIds -> Nat]
    /\ pc \in [Actors -> WorkPcs \cup FreePcs]
    /\ job \in [Actors -> BetIds \cup {NoBet}]
    /\ faults \in Nat
    /\ abandoned \subseteq BetIds

Init ==
    /\ round = "betting" /\ loop = "here" /\ ancient = FALSE /\ settleDue = FALSE
    /\ status = [b \in BetIds |-> "unborn"]
    /\ won = {} /\ debitBy = NoBet
    /\ posted = [b \in BetIds |-> {}]
    /\ loot = [b \in BetIds |-> 0]
    /\ pc = [a \in Actors |-> IF a = Boot THEN "up" ELSE "idle"]
    /\ job = [a \in Actors |-> NoBet]
    /\ faults = 0 /\ abandoned = {}

-----------------------------------------------------------------------------
(* Steps of a handler                                                      *)

Go(a, next) == pc' = [pc EXCEPT ![a] = next] /\ job' = job

Begin(a, b, next) == pc' = [pc EXCEPT ![a] = next] /\ job' = [job EXCEPT ![a] = b]

\* Where an actor goes when its handler returns: a boot continues with the
\* next part of start(), any other handler is over.
After(a) ==
    IF a # Boot THEN "idle"
    ELSE IF pc[a] \in {"boot_stranded", "strand_reverse", "strand_cancel"} THEN "boot_reserving"
    ELSE IF pc[a] \in {"boot_reserving", "recover_claim", "recover_refund", "recover_cancel",
                       "recover_drop"} THEN "boot_resume"
    ELSE "up"

Finish(a) == Begin(a, NoBet, After(a))

\* UPDATE bets SET status = to WHERE id = job[a]
SetStatus(a, to) == status' = [status EXCEPT ![job[a]] = to]

\* The compare-and-swap UPDATE ... WHERE id AND status = from: the handler
\* goes on to then if it changed the row and returns if count = 0.
Claim(a, from, to, then) ==
    IF status[job[a]] = from
    THEN SetStatus(a, to) /\ Go(a, then)
    ELSE status' = status /\ Finish(a)

\* LedgerService.record under key bet:{id}:{leg}: a key already there is a no-op.
Post(b, leg) == posted' = [posted EXCEPT ![b] = @ \cup {leg}]

Fault(kind) == kind \in Faults /\ faults < MaxFaults /\ faults' = faults + 1

\* A credit that throws was applied or not: the answer may be what got lost.
PostOrNot(b, leg) == Post(b, leg) \/ posted' = posted

\* engine.getPublicState() shows this round in phase ph.  A node that is not
\* the leader answers from a cache that may lag behind the round.
Order == [ph \in Phases |-> CASE ph = "betting" -> 1 [] ph = "running" -> 2 [] ph = "crashed" -> 3
                              [] ph = "settling" -> 4 [] OTHER -> 5]
Sees(ph) ==
    IF "failover" \in Faults THEN Order[ph] <= Order[round]
    ELSE pc[Boot] = "up" /\ loop = "here" /\ round = ph

\* The sweeping and reconciling flags keep passes of one node from overlapping.
Alone(pcs) == "failover" \in Faults \/ \A q \in Procs : pc[q] \notin pcs

InFlight(b, pcs) == \E a \in Actors : job[a] = b /\ pc[a] \in pcs

-----------------------------------------------------------------------------
(* BetsService.placeBet                                                    *)

\* Phase gate and the early look for a row: a reserving one does not reject.
PlaceStart(p, b) ==
    /\ pc[p] = "idle"
    /\ Sees("betting")
    /\ \A c \in BetIds : status[c] \notin Live \ {"reserving"}
    /\ status[b] = "unborn" /\ ~InFlight(b, PlacePcs)
    /\ Begin(p, b, "place_reserve")
    /\ UNCHANGED <<roundVars, status, moneyVars, faults, abandoned>>

\* The reserve transaction: the unique index admits one row per slot.
PlaceReserve(p) ==
    /\ pc[p] = "place_reserve"
    /\ IF \A c \in BetIds : status[c] \notin Live
       THEN SetStatus(p, "reserving") /\ Go(p, "place_debit")
       ELSE status' = status /\ Finish(p)
    /\ UNCHANGED <<roundVars, moneyVars, faults, abandoned>>

\* The debit key names the slot, not the attempt: a debit that is already
\* there is returned as this attempt's.
PlaceDebit(p) ==
    /\ pc[p] = "place_debit"
    /\ debitBy' = IF debitBy = NoBet THEN job[p] ELSE debitBy
    /\ Go(p, "place_activate")
    /\ UNCHANGED <<roundVars, status, won, posted, loot, faults, abandoned>>

\* insufficient_balance: the transaction rolled back, nothing moved.  A key
\* that is on the ledger answers before the balance is looked at.
PlaceDebitFails(p) ==
    /\ pc[p] = "place_debit"
    /\ debitBy = NoBet
    /\ Go(p, "place_release")
    /\ UNCHANGED <<roundVars, status, moneyVars, faults, abandoned>>

\* The transaction committed and its answer was lost: placeBet takes the
\* error for a debit that did not happen.
PlaceDebitLost(p) ==
    /\ pc[p] = "place_debit"
    /\ Fault("lost_debit")
    /\ debitBy' = IF debitBy = NoBet THEN job[p] ELSE debitBy
    /\ Go(p, "place_release")
    /\ UNCHANGED <<roundVars, status, won, posted, loot, abandoned>>

\* bet.delete({ id }): whatever its status, and no error if it is gone.
Delete(a) ==
    /\ IF status[job[a]] \in Live THEN SetStatus(a, "deleted") ELSE status' = status
    /\ Finish(a)

PlaceRelease(p) ==
    /\ pc[p] = "place_release"
    /\ Delete(p)
    /\ UNCHANGED <<roundVars, moneyVars, faults, abandoned>>

PlaceActivate(p) ==
    /\ pc[p] = "place_activate"
    /\ IF status[job[p]] = "reserving" THEN SetStatus(p, "active") ELSE status' = status
    /\ Finish(p)
    /\ UNCHANGED <<roundVars, moneyVars, faults, abandoned>>

-----------------------------------------------------------------------------
(* BetsService.cancelBet                                                   *)

CancelStart(p) ==
    /\ pc[p] = "idle"
    /\ Sees("betting")
    /\ Go(p, "cancel_read")
    /\ UNCHANGED <<roundVars, status, moneyVars, faults, abandoned>>

\* The row is read after the gate: the round may be running by now.
CancelRead(p) ==
    /\ pc[p] = "cancel_read"
    /\ \/ \E b \in BetIds : status[b] = "active" /\ Begin(p, b, "cancel_claim")
       \/ (\A b \in BetIds : status[b] # "active") /\ Finish(p)
    /\ UNCHANGED <<roundVars, status, moneyVars, faults, abandoned>>

\* Mutant: an update by id instead of the compare-and-swap.
CancelClaimUnchecked(p) ==
    /\ pc[p] = "cancel_claim"
    /\ SetStatus(p, "cancelled") /\ Go(p, "cancel_credit")
    /\ UNCHANGED <<roundVars, moneyVars, faults, abandoned>>

CancelClaim(p) ==
    /\ pc[p] = "cancel_claim"
    /\ Claim(p, "active", "cancelled", "cancel_credit")
    /\ UNCHANGED <<roundVars, moneyVars, faults, abandoned>>

CancelCredit(p) ==
    /\ pc[p] = "cancel_credit"
    /\ Post(job[p], "refund")
    /\ Finish(p)
    /\ UNCHANGED <<roundVars, status, won, debitBy, loot, faults, abandoned>>

\* Nobody catches the error: the bet stays cancelled.
CancelCreditThrows(p) ==
    /\ pc[p] = "cancel_credit"
    /\ Fault("throw")
    /\ PostOrNot(job[p], "refund")
    /\ abandoned' = abandoned \cup {job[p]}
    /\ Finish(p)
    /\ UNCHANGED <<roundVars, status, won, debitBy, loot>>

-----------------------------------------------------------------------------
(* BetsService.cashOut: manual, or for a due auto-cashout                  *)

\* The phase gate may be stale; the read of bet and round is authoritative.
CashOutStart(p, b) ==
    /\ pc[p] = "idle"
    /\ Sees("running") /\ round = "running" /\ status[b] = "active"
    /\ Begin(p, b, "cashout_claim")
    /\ UNCHANGED <<roundVars, status, moneyVars, faults, abandoned>>

CashOutClaim(p) ==
    /\ pc[p] = "cashout_claim"
    /\ Claim(p, "active", "cashed_out", "cashout_credit")
    /\ won' = IF status[job[p]] = "active" THEN won \cup {job[p]} ELSE won
    /\ UNCHANGED <<roundVars, debitBy, posted, loot, faults, abandoned>>

CashOutCredit(p) ==
    /\ pc[p] = "cashout_credit"
    /\ Post(job[p], "payout")
    /\ Go(p, "cashout_loot")
    /\ UNCHANGED <<roundVars, status, won, debitBy, loot, faults, abandoned>>

CashOutCreditThrows(p) ==
    /\ pc[p] = "cashout_credit"
    /\ Fault("throw")
    /\ PostOrNot(job[p], "payout")
    /\ Go(p, "cashout_park")
    /\ UNCHANGED <<roundVars, status, won, debitBy, loot, abandoned>>

\* An UPDATE by id alone: whatever the status is by now.
CashOutPark(p) ==
    /\ pc[p] = "cashout_park"
    /\ SetStatus(p, "payout_pending")
    /\ Finish(p)
    /\ UNCHANGED <<roundVars, moneyVars, faults, abandoned>>

CountLoot(p, at) ==
    /\ pc[p] = at
    /\ loot' = [loot EXCEPT ![job[p]] = @ + 1]
    /\ Finish(p)
    /\ UNCHANGED <<roundVars, status, won, debitBy, posted, faults, abandoned>>

CashOutLoot(p) == CountLoot(p, "cashout_loot")

-----------------------------------------------------------------------------
(* BetsService.settleRound, on the engine's settle event                   *)

\* Mutant: paid bets are not excluded.
SettleRoundPaid ==
    /\ settleDue
    /\ status' = [b \in BetIds |-> IF status[b] \in {"active", "cashed_out"} THEN "busted" ELSE status[b]]
    /\ settleDue' = FALSE
    /\ UNCHANGED <<round, loop, ancient, moneyVars, pc, job, faults, abandoned>>

SettleRound ==
    /\ settleDue
    /\ status' = [b \in BetIds |-> IF status[b] = "active" THEN "busted" ELSE status[b]]
    /\ settleDue' = FALSE
    /\ UNCHANGED <<round, loop, ancient, moneyVars, pc, job, faults, abandoned>>

-----------------------------------------------------------------------------
(* BetsService.voidBet and the reconcileVoidingBets sweep                  *)

VoidStart(p, b) ==
    /\ pc[p] = "idle"
    /\ \/ status[b] = "busted" /\ Begin(p, b, "void_busted")
       \/ /\ status[b] = "cashed_out"
          /\ "void_race" \in Faults \/ ~InFlight(b, OwingPcs)
          /\ Begin(p, b, "void_cashed_out")
       \/ status[b] = "voiding" /\ Begin(p, b, "void_reclaim")
    /\ UNCHANGED <<roundVars, status, moneyVars, faults, abandoned>>

\* Mutant: an update by id instead of the compare-and-swap.
VoidClaimUnchecked(p) ==
    /\ pc[p] \in {"void_busted", "void_cashed_out"}
    /\ SetStatus(p, "voiding") /\ Go(p, "void_reclaim")
    /\ UNCHANGED <<roundVars, moneyVars, faults, abandoned>>

\* The claim is pinned to the status that was read.
VoidClaim(p) ==
    /\ \/ pc[p] = "void_busted" /\ Claim(p, "busted", "voiding", "void_reclaim")
       \/ pc[p] = "void_cashed_out" /\ Claim(p, "cashed_out", "voiding", "void_reclaim")
    /\ UNCHANGED <<roundVars, moneyVars, faults, abandoned>>

\* Mutant: only the stake is refunded.
VoidReclaimSkipped(p) ==
    /\ pc[p] = "void_reclaim"
    /\ Go(p, "void_refund")
    /\ UNCHANGED <<roundVars, status, moneyVars, faults, abandoned>>

\* performVoidReversals: the payout is taken back first, if there was one.
VoidReclaim(p) ==
    /\ pc[p] = "void_reclaim"
    /\ IF job[p] \in won THEN Post(job[p], "void_reclaim") ELSE posted' = posted
    /\ Go(p, "void_refund")
    /\ UNCHANGED <<roundVars, status, won, debitBy, loot, faults, abandoned>>

\* The player has spent the payout: insufficient_balance, the void stays open.
VoidReclaimFails(p) ==
    /\ pc[p] = "void_reclaim"
    /\ job[p] \in won
    /\ Fault("throw")
    /\ Finish(p)
    /\ UNCHANGED <<roundVars, status, moneyVars, abandoned>>

VoidRefund(p) ==
    /\ pc[p] = "void_refund"
    /\ Post(job[p], "void_refund")
    /\ Go(p, "void_finalize")
    /\ UNCHANGED <<roundVars, status, won, debitBy, loot, faults, abandoned>>

VoidFinalize(p) ==
    /\ pc[p] = "void_finalize"
    /\ IF status[job[p]] = "voiding" THEN SetStatus(p, "voided") ELSE status' = status
    /\ Finish(p)
    /\ UNCHANGED <<roundVars, moneyVars, faults, abandoned>>

\* A pass may overlap with voidBet of an operator who resumes the same void.
VoidSweep(p, b) ==
    /\ pc[p] = "idle"
    /\ status[b] = "voiding"
    /\ Begin(p, b, "void_reclaim")
    /\ UNCHANGED <<roundVars, status, moneyVars, faults, abandoned>>

-----------------------------------------------------------------------------
(* BetsService.reconcilePendingPayouts                                     *)

\* The gateway arms the reconciler in operator mode only.
RepaySweep(p, b) ==
    /\ OperatorMode
    /\ pc[p] = "idle" /\ Alone(RepayPcs)
    /\ status[b] = "payout_pending"
    /\ Begin(p, b, "repay_credit")
    /\ UNCHANGED <<roundVars, status, moneyVars, faults, abandoned>>

RepayCredit(p) ==
    /\ pc[p] = "repay_credit"
    /\ Post(job[p], "payout")
    /\ Go(p, "repay_finalize")
    /\ UNCHANGED <<roundVars, status, won, debitBy, loot, faults, abandoned>>

RepayCreditThrows(p) ==
    /\ pc[p] = "repay_credit"
    /\ Fault("throw")
    /\ PostOrNot(job[p], "payout")
    /\ Finish(p)
    /\ UNCHANGED <<roundVars, status, won, debitBy, loot, abandoned>>

\* Mutant: the count of the compare-and-swap is ignored.
RepayFinalizeUncounted(p) ==
    /\ pc[p] = "repay_finalize"
    /\ IF status[job[p]] = "payout_pending" THEN SetStatus(p, "cashed_out") ELSE status' = status
    /\ Go(p, "repay_loot")
    /\ UNCHANGED <<roundVars, moneyVars, faults, abandoned>>

RepayFinalize(p) ==
    /\ pc[p] = "repay_finalize"
    /\ Claim(p, "payout_pending", "cashed_out", "repay_loot")
    /\ UNCHANGED <<roundVars, moneyVars, faults, abandoned>>

RepayLoot(p) == CountLoot(p, "repay_loot")

-----------------------------------------------------------------------------
(* GameEngineService.recoverReservingBets: at boot and as an aged sweep    *)

\* Mutant: a slot whose reversal failed is not selected again.
RecoverRowOnce(a, b) == status[b] = "reserving" /\ Begin(a, b, "recover_claim")

RecoverRow(a, b) ==
    \/ status[b] = "reserving" /\ Begin(a, b, "recover_claim")
    \/ status[b] = "cancelling" /\ Begin(a, b, "recover_lookup")

\* Mutant: no age gate.
AgedAlways == TRUE

\* Only rows older than RESERVING_STALE_SEC: their betting window is long over
\* and no placeBet of the slot is still in flight, or the gate is set too low.
Aged == /\ round = "betting" => ancient
        /\ \A c \in BetIds : ~InFlight(c, PlacePcs)

RecoverSweep(p, b) ==
    /\ pc[p] = "idle" /\ Alone(SweepPcs)
    /\ "early_sweep" \in Faults \/ Aged
    /\ RecoverRow(p, b)
    /\ UNCHANGED <<roundVars, status, moneyVars, faults, abandoned>>

RecoverClaim(a) ==
    /\ pc[a] = "recover_claim"
    /\ Claim(a, "reserving", "cancelling", "recover_lookup")
    /\ UNCHANGED <<roundVars, moneyVars, faults, abandoned>>

\* Mutant: the row's debitTxId, set only on activation, is asked instead.
RecoverLookupStamp(a) ==
    /\ pc[a] = "recover_lookup"
    /\ Go(a, "recover_drop")
    /\ UNCHANGED <<roundVars, status, moneyVars, faults, abandoned>>

\* The ledger is asked whether the slot was debited.
RecoverLookup(a) ==
    /\ pc[a] = "recover_lookup"
    /\ Go(a, IF debitBy # NoBet THEN "recover_refund" ELSE "recover_drop")
    /\ UNCHANGED <<roundVars, status, moneyVars, faults, abandoned>>

RecoverRefund(a) ==
    /\ pc[a] = "recover_refund"
    /\ Post(job[a], "restart_refund")
    /\ Go(a, "recover_cancel")
    /\ UNCHANGED <<roundVars, status, won, debitBy, loot, faults, abandoned>>

RecoverRefundThrows(a) ==
    /\ pc[a] = "recover_refund"
    /\ Fault("throw")
    /\ PostOrNot(job[a], "restart_refund")
    /\ Finish(a)
    /\ UNCHANGED <<roundVars, status, won, debitBy, loot, abandoned>>

\* An UPDATE by id: P2025 if the row is gone, and the pass goes on.
RecoverCancel(a) ==
    /\ pc[a] = "recover_cancel"
    /\ IF status[job[a]] \in Live THEN SetStatus(a, "cancelled") ELSE status' = status
    /\ Finish(a)
    /\ UNCHANGED <<roundVars, moneyVars, faults, abandoned>>

RecoverDrop(a) ==
    /\ pc[a] = "recover_drop"
    /\ Delete(a)
    /\ UNCHANGED <<roundVars, moneyVars, faults, abandoned>>

-----------------------------------------------------------------------------
(* GameEngineService.recoverStrandedActiveBets: at boot and as a sweep     *)

Stranded(b) == status[b] = "active" /\ round = "refunded"

StrandedSweep(p, b) ==
    /\ pc[p] = "idle" /\ Alone(SweepPcs)
    /\ Stranded(b)
    /\ Begin(p, b, "strand_reverse")
    /\ UNCHANGED <<roundVars, status, moneyVars, faults, abandoned>>

StrandedReverse(a) ==
    /\ pc[a] = "strand_reverse"
    /\ Post(job[a], "restart_refund")
    /\ Go(a, "strand_cancel")
    /\ UNCHANGED <<roundVars, status, won, debitBy, loot, faults, abandoned>>

StrandedReverseThrows(a) ==
    /\ pc[a] = "strand_reverse"
    /\ Fault("throw")
    /\ PostOrNot(job[a], "restart_refund")
    /\ Finish(a)
    /\ UNCHANGED <<roundVars, status, won, debitBy, loot, abandoned>>

StrandedCancel(a) ==
    /\ pc[a] = "strand_cancel"
    /\ IF status[job[a]] = "active" THEN SetStatus(a, "cancelled") ELSE status' = status
    /\ Finish(a)
    /\ UNCHANGED <<roundVars, moneyVars, faults, abandoned>>

-----------------------------------------------------------------------------
(* GameEngineService.start: the boot of a leader                           *)

\* recoverStrandedActiveBets(0)
BootStranded ==
    /\ pc[Boot] = "boot_stranded"
    /\ \/ \E b \in BetIds : Stranded(b) /\ Begin(Boot, b, "strand_reverse")
       \/ (\A b \in BetIds : ~Stranded(b)) /\ Finish(Boot)
    /\ UNCHANGED <<roundVars, status, moneyVars, faults, abandoned>>

\* resumeOrRecover (1): recoverReservingBets(), no age gate
BootReserving ==
    /\ pc[Boot] = "boot_reserving"
    /\ \/ \E b \in BetIds : RecoverRow(Boot, b)
       \/ (\A b \in BetIds : status[b] \notin {"reserving", "cancelling"}) /\ Finish(Boot)
    /\ UNCHANGED <<roundVars, status, moneyVars, faults, abandoned>>

\* The round is over: the engine opens another one.
BootFresh ==
    /\ pc[Boot] = "boot_resume"
    /\ round \in {"completed", "refunded"}
    /\ Finish(Boot)
    /\ UNCHANGED <<roundVars, status, moneyVars, faults, abandoned>>

\* The newest open round is resumed, unless its betting window is ancient.
\* resumeRound: the loop continues with the persisted phase; a settling round
\* has its settle event emitted again.
BootResume ==
    /\ pc[Boot] = "boot_resume"
    /\ loop # "newer" /\ round \notin {"completed", "refunded"}
    /\ round = "betting" => ~ancient
    /\ loop' = "here"
    /\ settleDue' = (settleDue \/ round = "settling")
    /\ Finish(Boot)
    /\ UNCHANGED <<round, ancient, status, moneyVars, faults, abandoned>>

\* closeStaleExtra after the outcome: settle it and mark it completed.
BootSettleExtra ==
    /\ pc[Boot] = "boot_resume"
    /\ loop = "newer" /\ round \in {"running", "crashed", "settling"}
    /\ settleDue' = TRUE
    /\ round' = "completed"
    /\ Finish(Boot)
    /\ UNCHANGED <<loop, ancient, status, moneyVars, faults, abandoned>>

\* closeAndRefundRound, of an ancient round or of a stale extra before the
\* outcome: first the active bet, if there is one.
BootClose ==
    /\ pc[Boot] = "boot_resume"
    /\ round = "betting" /\ (ancient \/ loop = "newer")
    /\ \/ \E b \in BetIds : status[b] = "active" /\ Begin(Boot, b, "close_reverse")
       \/ (\A b \in BetIds : status[b] # "active") /\ Go(Boot, "close_round")
    /\ UNCHANGED <<roundVars, status, moneyVars, faults, abandoned>>

CloseReverse ==
    /\ pc[Boot] = "close_reverse"
    /\ Post(job[Boot], "restart_refund")
    /\ Go(Boot, "close_cancel")
    /\ UNCHANGED <<roundVars, status, won, debitBy, loot, faults, abandoned>>

CloseReverseThrows ==
    /\ pc[Boot] = "close_reverse"
    /\ Fault("throw")
    /\ PostOrNot(job[Boot], "restart_refund")
    /\ Begin(Boot, NoBet, "close_round")
    /\ UNCHANGED <<roundVars, status, won, debitBy, loot, abandoned>>

\* An UPDATE by id alone.
CloseCancel ==
    /\ pc[Boot] = "close_cancel"
    /\ SetStatus(Boot, "cancelled")
    /\ Begin(Boot, NoBet, "close_round")
    /\ UNCHANGED <<roundVars, moneyVars, faults, abandoned>>

CloseRound ==
    /\ pc[Boot] = "close_round"
    /\ round' = "refunded"
    /\ loop' = IF loop = "newer" THEN "newer" ELSE "between"
    /\ Finish(Boot)
    /\ UNCHANGED <<ancient, settleDue, status, moneyVars, faults, abandoned>>

-----------------------------------------------------------------------------
(* The engine's phases of this round                                       *)

EnterPhase(from, to) ==
    /\ pc[Boot] = "up" /\ loop = "here"
    /\ round = from
    /\ round' = to
    /\ UNCHANGED <<ancient, status, moneyVars, pc, job, faults, abandoned>>

EnterRunning == EnterPhase("betting", "running") /\ UNCHANGED <<loop, settleDue>>
EnterCrashed == EnterPhase("running", "crashed") /\ UNCHANGED <<loop, settleDue>>
\* Mutant: no settle event.
EnterSettlingSilent == EnterPhase("crashed", "settling") /\ UNCHANGED <<loop, settleDue>>
EnterSettling == EnterPhase("crashed", "settling") /\ settleDue' = TRUE /\ UNCHANGED loop
EnterCompleted == EnterPhase("settling", "completed") /\ loop' = "between" /\ UNCHANGED settleDue

\* The engine has left this round open behind it: newer rounds come and go.
OtherRound ==
    /\ pc[Boot] = "up" /\ loop # "here"
    /\ round \notin {"completed", "refunded"}
    /\ loop' = (IF loop = "newer" THEN "between" ELSE "newer")
    /\ UNCHANGED <<round, ancient, settleDue, status, moneyVars, pc, job, faults, abandoned>>

\* The deadline of the betting window it left behind recedes into the past.
Ages ==
    /\ pc[Boot] = "up" /\ loop # "here"
    /\ round = "betting" /\ ~ancient /\ ancient' = TRUE
    /\ UNCHANGED <<round, loop, settleDue, status, moneyVars, pc, job, faults, abandoned>>

-----------------------------------------------------------------------------
(* Faults                                                                  *)

\* safe(): a failed or hung transition is answered with a fresh round.  The
\* write of enterSettling may have landed without its settle event.
Orphan ==
    /\ Fault("orphan")
    /\ pc[Boot] = "up" /\ loop = "here"
    /\ loop' = "between"
    /\ round' = round \/ (round = "crashed" /\ round' = "settling")
    /\ UNCHANGED <<ancient, settleDue, status, moneyVars, pc, job, abandoned>>

\* onSettle throws: the event is consumed and nobody was busted.
SettleLost ==
    /\ Fault("die")
    /\ settleDue /\ settleDue' = FALSE
    /\ UNCHANGED <<round, loop, ancient, status, moneyVars, pc, job, abandoned>>

\* A handler stops at an await: the credit its claim owes is not coming.
Die(p) ==
    /\ Fault("die")
    /\ pc[p] \in WorkPcs
    /\ abandoned' = IF pc[p] \in OwingPcs THEN abandoned \cup {job[p]} ELSE abandoned
    /\ Begin(p, NoBet, "idle")
    /\ UNCHANGED <<roundVars, status, moneyVars>>

\* The process restarts, with any amount of time in between.
Crash ==
    /\ Fault("crash")
    /\ abandoned' = abandoned \cup {b \in BetIds : InFlight(b, OwingPcs)}
    /\ pc' = [a \in Actors |-> IF a = Boot THEN "boot_stranded" ELSE "idle"]
    /\ job' = [a \in Actors |-> NoBet]
    /\ settleDue' = FALSE
    /\ ancient' \in BOOLEAN /\ (ancient => ancient')
    /\ UNCHANGED <<round, loop, status, moneyVars>>

\* Leadership is lost and acquired again; the handlers of players go on.
Failover ==
    /\ Fault("failover")
    /\ pc[Boot] = "up"
    /\ pc' = [pc EXCEPT ![Boot] = "boot_stranded"]
    /\ ancient' \in BOOLEAN /\ (ancient => ancient')
    /\ UNCHANGED <<round, loop, settleDue, status, moneyVars, job, abandoned>>

-----------------------------------------------------------------------------

PlayerSteps(p) ==
    CancelStart(p) \/ \E b \in BetIds : PlaceStart(p, b) \/ CashOutStart(p, b) \/ VoidStart(p, b)

SweepSteps(p) ==
    \E b \in BetIds : VoidSweep(p, b) \/ RepaySweep(p, b) \/ RecoverSweep(p, b) \/ StrandedSweep(p, b)

WorkSteps(p) ==
    \/ PlaceReserve(p) \/ PlaceDebit(p) \/ PlaceDebitFails(p) \/ PlaceRelease(p) \/ PlaceActivate(p)
    \/ PlaceDebitLost(p) \/ CancelRead(p) \/ CancelClaim(p) \/ CancelCredit(p) \/ CancelCreditThrows(p)
    \/ CashOutClaim(p) \/ CashOutCredit(p) \/ CashOutCreditThrows(p) \/ CashOutPark(p) \/ CashOutLoot(p)
    \/ VoidClaim(p) \/ VoidReclaim(p) \/ VoidReclaimFails(p) \/ VoidRefund(p) \/ VoidFinalize(p)
    \/ RepayCredit(p) \/ RepayCreditThrows(p) \/ RepayFinalize(p) \/ RepayLoot(p)

\* Steps a sweep and the boot share.
RecoverSteps(a) ==
    \/ RecoverClaim(a) \/ RecoverLookup(a) \/ RecoverRefund(a) \/ RecoverRefundThrows(a)
    \/ RecoverCancel(a) \/ RecoverDrop(a)
    \/ StrandedReverse(a) \/ StrandedReverseThrows(a) \/ StrandedCancel(a)

BootSteps ==
    \/ BootStranded \/ BootReserving \/ BootFresh \/ BootResume \/ BootSettleExtra \/ BootClose
    \/ CloseReverse \/ CloseReverseThrows \/ CloseCancel \/ CloseRound

EngineSteps == EnterRunning \/ EnterCrashed \/ EnterSettling \/ EnterCompleted \/ OtherRound \/ Ages

FaultSteps == Orphan \/ SettleLost \/ Crash \/ Failover \/ \E p \in Procs : Die(p)

Next ==
    \/ \E p \in Procs : PlayerSteps(p) \/ SweepSteps(p) \/ WorkSteps(p)
    \/ \E a \in Actors : RecoverSteps(a)
    \/ BootSteps \/ EngineSteps \/ SettleRound \/ FaultSteps

Spec == Init /\ [][Next]_vars

-----------------------------------------------------------------------------
(* Properties                                                              *)

Handled(b) == InFlight(b, WorkPcs)

\* The slot's unique index (Bet, @@unique([roundId, userId, panel])) holds at
\* every step of every handler: two rows of one slot never exist together.
OneRowPerSlot == \A b, c \in BetIds : status[b] \in Live /\ status[c] \in Live => b = c

\* "Stake linkage": every wagered bet, and every bet being voided or voided, is
\* backed by a debit that its own attempt made; placeBet never activates a bet
\* on another attempt's debit, and recovery never releases a debited slot.
StakeLinkage ==
    \A b \in BetIds :
        /\ status[b] \in Wagered \cup {"voiding", "voided"} => debitBy = b
        /\ debitBy = b => status[b] \in Live

\* Pay exactly once: the payout, the refund of a cancel and the refund of a
\* recovery exclude each other, whichever of cashOut, cancelBet, settleRound,
\* closeAndRefundRound and the recovery passes race for the bet.
OneCreditPerBet ==
    \A b \in BetIds : \A k, l \in {"payout", "refund", "restart_refund"} :
        k \in posted[b] /\ l \in posted[b] => k = l

\* A bet that a closed, dead or abandoned round still holds as active: the
\* next boot or the F-083 sweep refunds or settles it.
Backlog(b) == status[b] = "active" /\ (round \in {"completed", "refunded"} \/ ancient \/ loop # "here")

\* The reconciliation identities 1a and 1b of scripts/reconcile-check.ts, for
\* one bet: its debit net of the refunds that have one is the stake held, payouts
\* net of reclaims are the payout of a paid win.
Bit(x) == IF x THEN 1 ELSE 0
Reconciles(b) ==
    /\ (IF debitBy # b THEN 0
        ELSE 1 - Bit("refund" \in posted[b]) - Bit("restart_refund" \in posted[b])
               - Bit("void_refund" \in posted[b])) = Bit(status[b] \in Wagered)
    /\ Bit("payout" \in posted[b]) - Bit("void_reclaim" \in posted[b]) = Bit(status[b] = "cashed_out")

\* The books balance: a bet nobody is working on, in a status no sweep has
\* still to resolve, satisfies the identities of the reconciliation check,
\* unless the handler that claimed it stopped before its credit.
BooksBalance ==
    \A b \in BetIds :
        \/ Handled(b) \/ Backlog(b) \/ b \in abandoned
        \/ status[b] \in {"reserving", "cancelling", "voiding", "payout_pending"}
        \/ Reconciles(b)

\* "the leaderboard increment can never be double-counted" (cashOut, and the
\* finalisation in reconcilePendingPayouts): at most one handler counts a win.
LootOnce == \A b \in BetIds : loot[b] <= 1

\* A busted bet was never paid, and a cancel and a cash-out never both pay.
BustedNeverPaid == \A b \in BetIds : status[b] = "busted" => posted[b] \subseteq {"restart_refund"}
CancelXorPayout == \A b \in BetIds : ~ {"refund", "payout"} \subseteq posted[b]

\* The outcomes of a bet exclude each other across nodes, with any handlers in
\* flight over a change of leader (the claims of cancelBet, cashOut and settleRound).
OutcomesExclude == BustedNeverPaid /\ CancelXorPayout

\* "Orphaned debits always had a paired refund": the row of a slot is only
\* deleted while the slot has no debit, or the debit was refunded.
NoOrphanedDebit ==
    \A b \in BetIds :
        debitBy = b /\ status[b] = "deleted" => Handled(b) \/ "restart_refund" \in posted[b]

\* "never cashed_out-but-unpaid-and-invisible": a claimed win is paid, or parked
\* as payout_pending, or its cash-out is still running.
ClaimedWinIsPaid ==
    \A b \in BetIds : status[b] = "cashed_out" => "payout" \in posted[b] \/ Handled(b)

\* A bet the player cancelled has its stake back unless the cancel is running.
CancelIsRefunded ==
    \A b \in BetIds :
        status[b] = "cancelled" => Handled(b) \/ posted[b] \cap {"refund", "restart_refund"} # {}

\* voidBet's "Idempotent terminal short-circuits": voided is final.
VoidedIsFinal == [][\A b \in BetIds : status[b] = "voided" => status'[b] = "voided"]_vars

\* What a row's status means for the player.
OutcomeOf(s) ==
    CASE s \in {"unborn", "deleted", "reserving", "cancelling"} -> "none"
      [] s = "active" -> "held"
      [] s \in {"cashed_out", "payout_pending"} -> "won"
      [] s = "busted" -> "lost"
      [] OTHER -> "returned"

Abstract == INSTANCE BetOutcome WITH outcome <- [b \in BetIds |-> OutcomeOf(status[b])]

\* The handlers, claims and sweeps together implement BetOutcome: every write
\* of a status, the unconditional ones of cashOut, recoverReservingBets and
\* closeAndRefundRound included, moves the slot's only bet forward.
ImplementsBetOutcome == Abstract!Spec

-----------------------------------------------------------------------------
(* Liveness.  The event loop runs every handler that is not waiting on a   *)
(* dead call, the timers of the engine fire, and the sweeps are intervals. *)

Fairness ==
    /\ \A p \in Procs : WF_vars(WorkSteps(p)) /\ WF_vars(RecoverSteps(p))
    /\ WF_vars(RecoverSteps(Boot)) /\ WF_vars(BootSteps)
    /\ WF_vars(EngineSteps) /\ WF_vars(Ages) /\ WF_vars(SettleRound)
    /\ \A b \in BetIds :
        /\ SF_vars(\E p \in Procs : VoidSweep(p, b)) /\ SF_vars(\E p \in Procs : RepaySweep(p, b))
        /\ SF_vars(\E p \in Procs : RecoverSweep(p, b)) /\ SF_vars(\E p \in Procs : StrandedSweep(p, b))

FairSpec == Spec /\ Fairness

Unresolved == {"reserving", "cancelling", "voiding", "payout_pending"}

\* "Backlog drained": no bet stays in a transient status once faults stop.
BacklogDrains == \A b \in BetIds : status[b] \in Unresolved ~> status[b] \notin Unresolved

\* A bet that is active when its round crashes is settled, unless a fault hits
\* the round on the way.
CrashSettlesBets ==
    \A b \in BetIds :
        round = "crashed" /\ status[b] = "active" /\ faults = 0 ~> status[b] # "active" \/ faults > 0

\* settleRound leaves no bet behind: a bet of a settled round does not stay
\* active for good.
NoBetOutlivesItsRound == \A b \in BetIds : round = "completed" ~> status[b] # "active"
=============================================================================
