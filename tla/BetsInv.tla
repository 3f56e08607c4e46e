------------------------------- MODULE BetsInv -------------------------------
(***************************************************************************)
(* The inductive invariant behind the safety properties of Bets, for a     *)
(* deployment without the faults lost_debit, failover, early_sweep and     *)
(* void_race: one leader whose restarts lose every handler in flight, a    *)
(* sweep whose age gate outlasts placeBet, and voids of finished           *)
(* cash-outs only.                                                         *)
(***************************************************************************)
EXTENDS Bets

SingleLeader == Faults \cap {"lost_debit", "failover", "early_sweep", "void_race"} = {}

RecoverPcs == {"recover_claim", "recover_lookup", "recover_refund", "recover_cancel", "recover_drop"}
StrandPcs == {"strand_reverse", "strand_cancel"}
PlayerPcs == PlacePcs \cup {"cancel_read", "cancel_claim", "cancel_credit",
                            "cashout_claim", "cashout_credit", "cashout_park", "cashout_loot"}
VoidPcs == {"void_busted", "void_cashed_out", "void_reclaim", "void_refund", "void_finalize"}

\* Which actor can be where, and who has a job.
PcOK ==
    /\ \A a \in Actors : pc[a] \in WorkPcs <=> job[a] # NoBet
    /\ \A p \in Procs : pc[p] \in {"idle"} \cup PlayerPcs \cup VoidPcs \cup RepayPcs \cup SweepPcs
    /\ pc[Boot] \in {"up", "boot_stranded", "boot_reserving", "boot_resume", "close_round",
                     "close_reverse", "close_cancel"} \cup SweepPcs

\* The betting window of the round is over, or too old to be resumed.
Closed == round = "betting" => ancient

\* The round is being closed with refunds.
Doomed == round = "betting" /\ (ancient \/ loop = "newer")

\* No player's handler is in flight while the leader boots, none on a round
\* that was closed with refunds; no attempt is in flight while a sweep runs.
QuietOK ==
    /\ pc[Boot] # "up" => \A a \in Actors : pc[a] \notin PlayerPcs
    /\ round = "refunded" => \A a \in Actors : pc[a] \notin PlayerPcs
    /\ (\E p \in Procs : pc[p] \in RecoverPcs) => Closed /\ \A a \in Actors : pc[a] \notin PlacePcs
    /\ settleDue => round \in {"settling", "completed"}
    /\ (round \in {"completed", "refunded"} \/ (round = "betting" /\ ancient /\ pc[Boot] = "up")) => loop # "here"

\* Two attempts in flight never share an id.
AttemptsDistinct ==
    \A a, c \in Actors : pc[a] \in PlacePcs /\ pc[c] \in PlacePcs /\ job[a] = job[c] => a = c

\* What the row of a bet says about the ledger.
RowOK(b) ==
    /\ status[b] \in {"unborn", "deleted", "reserving", "busted"} => posted[b] = {}
    /\ status[b] \in {"unborn", "deleted"} => debitBy # b
    /\ status[b] = "cancelling" => posted[b] \subseteq {"restart_refund"}
    /\ "restart_refund" \in posted[b] => debitBy = b
    /\ status[b] = "active" => posted[b] \subseteq {"restart_refund"}
    /\ status[b] = "active" /\ "restart_refund" \in posted[b] =>
          round = "refunded" \/ (Doomed /\ pc[Boot] # "up")
    /\ status[b] \in {"cashed_out", "payout_pending"} => b \in won /\ posted[b] \subseteq {"payout"}
    /\ status[b] = "cancelled" => posted[b] \subseteq {"refund"} \/ posted[b] \subseteq {"restart_refund"}
    /\ status[b] \in {"voiding", "voided"} =>
          /\ posted[b] \subseteq {"payout", "void_reclaim", "void_refund"}
          /\ b \notin won => posted[b] \subseteq {"void_refund"}
          /\ "void_refund" \in posted[b] /\ b \in won => "void_reclaim" \in posted[b]
    /\ status[b] = "voided" => "void_refund" \in posted[b]
    /\ status[b] \in Wagered \cup {"cancelled", "voiding", "voided"} => debitBy = b
    /\ b \in won => status[b] \in {"cashed_out", "payout_pending", "voiding", "voided"}

\* Whoever owes a bet its credit is still in flight, or has abandoned it.
OwedOK(b) ==
    /\ status[b] = "cashed_out" =>
          "payout" \in posted[b] \/ b \in abandoned \/ InFlight(b, {"cashout_credit", "cashout_park"})
    /\ status[b] \in {"voiding", "voided"} /\ b \in won => "payout" \in posted[b] \/ b \in abandoned
    /\ status[b] = "cancelled" =>
          "refund" \in posted[b] \/ "restart_refund" \in posted[b]
          \/ b \in abandoned \/ InFlight(b, {"cancel_credit"})

\* What an actor's place in its handler says about its bet.
ActorOK(a) ==
    LET b == job[a] IN
    /\ pc[a] = "place_reserve" => status[b] = "unborn"
    /\ pc[a] \in {"place_debit", "place_release", "place_activate"} => status[b] = "reserving"
    /\ pc[a] \in {"place_debit", "place_release"} => debitBy = NoBet
    /\ pc[a] = "place_activate" => debitBy = b
    /\ pc[a] = "cancel_credit" => status[b] = "cancelled" /\ posted[b] \subseteq {"refund"}
    /\ pc[a] \in {"cashout_credit", "cashout_park"} => status[b] = "cashed_out"
    /\ pc[a] = "cashout_loot" =>
          status[b] \in {"cashed_out", "voiding", "voided"} /\ "payout" \in posted[b]
    /\ pc[a] = "void_cashed_out" =>
          status[b] \in {"cashed_out", "voiding", "voided"}
          /\ ~InFlight(b, {"cashout_credit", "cashout_park"})
    /\ pc[a] \in {"void_reclaim", "void_refund", "void_finalize"} => status[b] \in {"voiding", "voided"}
    /\ pc[a] \in {"void_refund", "void_finalize"} /\ b \in won => "void_reclaim" \in posted[b]
    /\ pc[a] = "void_finalize" => "void_refund" \in posted[b]
    /\ pc[a] \in RepayPcs => b \in won
    /\ pc[a] \in {"repay_finalize", "repay_loot"} => "payout" \in posted[b]
    /\ pc[a] \in {"recover_lookup", "recover_refund", "recover_cancel", "recover_drop"} =>
          /\ status[b] \in {"cancelling", "cancelled", "deleted"}
          /\ status[b] = "cancelled" => "restart_refund" \in posted[b]
          /\ status[b] = "deleted" => debitBy = NoBet
    /\ pc[a] \in {"recover_refund", "recover_cancel"} => debitBy = b
    /\ pc[a] = "recover_cancel" => "restart_refund" \in posted[b]
    /\ pc[a] = "recover_drop" => debitBy = NoBet
    /\ pc[a] \in StrandPcs =>
          round = "refunded" /\ status[b] \in {"active", "cancelled"} /\ posted[b] \subseteq {"restart_refund"}
    /\ pc[a] \in {"strand_cancel", "close_cancel"} => "restart_refund" \in posted[b]
    /\ pc[a] \in {"close_reverse", "close_cancel"} => Doomed /\ status[b] = "active"
    /\ pc[a] = "close_round" => Doomed

\* At most one handler is on the way to counting the win of a bet.
LootPcs == {"cashout_credit", "cashout_park", "cashout_loot", "repay_loot"}
LootOK ==
    /\ \A b \in BetIds : loot[b] <= 1
    /\ \A b \in BetIds :
          loot[b] > 0 \/ InFlight(b, LootPcs) => status[b] \in {"cashed_out", "voiding", "voided"}
    /\ \A a \in Actors : pc[a] \in LootPcs => loot[job[a]] = 0
    /\ \A a, c \in Actors : pc[a] \in LootPcs /\ pc[c] \in LootPcs /\ job[a] = job[c] => a = c

IInv ==
    /\ TypeOK /\ PcOK /\ QuietOK /\ OneRowPerSlot /\ AttemptsDistinct
    /\ \A b \in BetIds : RowOK(b) /\ OwedOK(b)
    /\ \A a \in Actors : ActorOK(a)
    /\ LootOK

-----------------------------------------------------------------------------
(* The part that needs no assumption: it survives a change of leader with  *)
(* handlers in flight, lost answers, an early sweep and a void that races. *)

\* The statuses a decided bet never comes back to, and the places of a handler
\* that has won a claim and acts on it.
Undecided == {"unborn", "reserving", "active", "busted"}
DecidedPcs == {"cancel_credit", "cashout_credit", "cashout_park", "cashout_loot",
               "void_reclaim", "void_refund", "void_finalize"} \cup RepayPcs

\* An id that was never reserved is known to its one attempt only.
BirthOK ==
    /\ AttemptsDistinct
    /\ \A a \in Actors : pc[a] = "place_reserve" => status[job[a]] = "unborn"
    /\ \A a \in Actors : job[a] \in BetIds /\ status[job[a]] = "unborn" => pc[a] = "place_reserve"

\* Nobody acts on a bet before a claim decides it.
ClaimOK(b) ==
    status[b] \in Undecided =>
        posted[b] \subseteq {"restart_refund"} /\ b \notin won /\ ~InFlight(b, DecidedPcs)

\* Payouts are for a bet whose cash-out won the claim, cancel refunds for one whose
\* cancel did.
WonOK(b) ==
    /\ "payout" \in posted[b] \/ status[b] = "payout_pending" => b \in won
    /\ InFlight(b, {"cashout_credit", "cashout_park", "repay_credit"}) => b \in won
    /\ "refund" \in posted[b] \/ InFlight(b, {"cancel_credit"}) => b \notin won

\* One handler, one parked win or one count at a time.
CountOK ==
    /\ \A b \in BetIds : loot[b] <= 1
    /\ \A b \in BetIds : loot[b] > 0 \/ InFlight(b, LootPcs) =>
          status[b] \notin Undecided \cup {"payout_pending"}
    /\ \A a \in Actors : pc[a] \in LootPcs => loot[job[a]] = 0
    /\ \A a, c \in Actors : pc[a] \in LootPcs /\ pc[c] \in LootPcs /\ job[a] = job[c] => a = c

NodesInv == TypeOK /\ PcOK /\ BirthOK /\ (\A b \in BetIds : ClaimOK(b) /\ WonOK(b)) /\ CountOK
=============================================================================
