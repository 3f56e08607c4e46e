----------------------------- MODULE Reporting -----------------------------
(***************************************************************************)
(* What an operator reads of the books of Risk: ReportingService           *)
(* (reporting.service.ts). A report changes nothing, and each is a         *)
(* function of the rows that its statement sees. A round stands for the    *)
(* day its bets were placed on; setup[w] also says which operator the      *)
(* wallet belongs to and whether it plays with play money.                 *)
(*                                                                         *)
(* Left out: the second statement of summary, which counts the players a   *)
(* moment after the totals, the pages of bets, and the names of players.   *)
(***************************************************************************)
EXTENDS Risk

Operators == {setup[w].operator : w \in Wallets}

\* where: the operator of the key, never its play money.
ReportRows(o) ==
  {i \in DOMAIN bets : setup[bets[i].wallet].operator = o /\ ~ setup[bets[i].wallet].demo}
CurrencyOf(i) == setup[bets[i].wallet].currency

\* toCurrencyStat, with rtpRatioString in ten-thousandths, rounded down.
CurrencyStat(betCount, wagered, won) ==
  [betCount |-> betCount, wagered |-> wagered, won |-> won, ggr |-> wagered - won,
   rtp |-> IF wagered = 0 THEN 0 ELSE (won * 10000) \div wagered]

(* --------------------------------------------------------------- summary *)

\* groupBy currency and status: counts and sums.
Grouped(o) ==
  LET rows == ReportRows(o)
      group(c, s) == {i \in rows : CurrencyOf(i) = c /\ bets[i].status = s}
  IN  [k \in {<<CurrencyOf(i), bets[i].status>> : i \in rows} |->
         [count |-> Cardinality(group(k[1], k[2])),
          amount |-> SumOf(group(k[1], k[2]), Stake), payout |-> SumOf(group(k[1], k[2]), Win)]]

\* A column of a report, added up over some of its keys.
Column(report, f, keys) == SumFunctionOnSet([k \in DOMAIN report |-> report[k][f]], keys)

\* foldCurrencies: the groups of a currency that wagered, and those that won.
FoldCurrencies(grouped, c) ==
  LET total(S, f) == Column(grouped, f, {k \in DOMAIN grouped : k[1] = c /\ k[2] \in S})
  IN  CurrencyStat(total(WageredStatuses, "count"), total(WageredStatuses, "amount"),
                   total(WonStatuses, "payout"))

\* Currencies without a bet are dropped.
Summary(o) ==
  LET grouped == Grouped(o)
      stats == [c \in {k[1] : k \in DOMAIN grouped} |-> FoldCurrencies(grouped, c)]
  IN  [c \in {c \in DOMAIN stats : stats[c].betCount > 0} |-> stats[c]]

(* ----------------------------------------------------------------- daily *)

\* One bucket per day and currency, filled row by row; empty ones are dropped.
Daily(o) ==
  LET day(i) == <<bets[i].round, CurrencyOf(i)>>
      rows == ReportRows(o)
      wagered == {i \in rows : bets[i].status \in WageredStatuses}
      won == {i \in rows : bets[i].status \in WonStatuses}
      on(ids, k) == {i \in ids : day(i) = k}
  IN  [k \in {day(i) : i \in wagered} |->
         CurrencyStat(Cardinality(on(wagered, k)), SumOf(on(wagered, k), Stake), SumOf(on(won, k), Win))]

(* ----------------------------------------------------- transactionStatus *)

DebitStateOf(status) ==
  CASE status \in {"reserving", "voiding"} -> "pending"
    [] status \in {"cancelled", "voided"} -> "reversed"
    [] OTHER -> "applied"
RefundStateOf(status) ==
  CASE status \in {"cancelling", "voiding"} -> "pending"
    [] status \in {"cancelled", "voided"} -> "applied"
    [] OTHER -> "none"
PayoutStateOf(status) ==
  CASE status = "cashed_out" -> "paid"
    [] status \in {"payout_pending", "voiding"} -> "pending"
    [] OTHER -> "none"

\* A lookup by bet: its dispositions, or nothing when it is not the operator's.
TransactionStatus(o, i) ==
  IF setup[bets[i].wallet].operator # o THEN {}
  ELSE {[debit |-> DebitStateOf(bets[i].status), refund |-> RefundStateOf(bets[i].status),
         payout |-> PayoutStateOf(bets[i].status)]}

(* ------------------------------------------------------------ properties *)

\* What the house holds of a row, and of a group of rows, by the entries of the wallet.
HeldOf(b) ==
  (IF b.charged /\ ~ b.refunded THEN b.amount ELSE 0)
    + (IF b.clawed THEN b.payout ELSE 0) - (IF b.paid THEN b.payout ELSE 0)
Held(ids) == SumOf(ids, [i \in DOMAIN bets |-> HeldOf(bets[i])])

\* Nobody works on the row or has left it behind, and no sweep selects it.
AtRest(b) ==
  /\ b.claim = "none"
  /\ b.status \in {"active", "cashed_out", "busted", "cancelled", "voided"}

\* The GGR of an operator in a currency never counts money the house does not hold, void
\* reversals under way apart, and counts all of it once every row is at rest.
TotalsReconcile(summary, rows, c) ==
  LET ggr == IF c \in DOMAIN summary THEN summary[c].ggr ELSE 0
  IN  /\ ggr <= Held({i \in rows : bets[i].status # "voiding"})
      /\ (\A i \in rows : AtRest(bets[i])) => ggr = Held(rows)

\* The days add up to the summary.
DaysAddUp(summary, daily, c) ==
  LET days == {k \in DOMAIN daily : k[2] = c}
  IN  IF c \in DOMAIN summary
      THEN \A f \in {"betCount", "ggr"} : Column(daily, f, days) = summary[c][f]
      ELSE days = {}

\* The comment of transactionStatus: never "none" of a move that did happen.
NoneIsNone(t, b) ==
  /\ t.refund = "none" => ~ b.refunded
  /\ t.payout = "none" => (b.paid /\ b.payout > 0 => b.clawed)

\* And what is not pending is what the wallet has.
DoneIsDone(t, b) ==
  /\ t.debit = "applied" => b.charged
  /\ t.refund = "applied" => b.refunded
  /\ t.debit = "reversed" => HeldOf(b) = 0
  /\ t.payout = "paid" => b.paid

DispositionIsTrue(o, i) ==
  \A t \in TransactionStatus(o, i) :
    NoneIsNone(t, bets[i]) /\ (AtRest(bets[i]) => DoneIsDone(t, bets[i]))

\* The reports of an operator agree with each other, and with the money at every await of
\* the handlers that move it: a status is claimed before its credit is posted, handlers die
\* in between, answers are lost, and what is left behind is recovered, repaid or voided.
ReportsReconcile ==
  \A o \in Operators :
    LET summary == Summary(o)
        daily == Daily(o)
        all == ReportRows(o)
        rows(c) == {i \in all : CurrencyOf(i) = c}
    IN  /\ \A c \in {CurrencyOf(i) : i \in all} :
             TotalsReconcile(summary, rows(c), c) /\ DaysAddUp(summary, daily, c)
        /\ \A i \in DOMAIN bets : DispositionIsTrue(o, i)

\* The comments of payoutStateOf ("payout credited AND confirmed"), of refundStateOf
\* ("refund/reversal completed") and of debitStateOf ("the stake WAS debited", of cancelling),
\* for every row.
PaidIsCredited ==
  \A o \in Operators, i \in DOMAIN bets : \A t \in TransactionStatus(o, i) :
    t.payout = "paid" => bets[i].paid
RefundIsCompleted ==
  \A o \in Operators, i \in DOMAIN bets : \A t \in TransactionStatus(o, i) :
    t.refund = "applied" => bets[i].refunded
StakeWasDebited ==
  \A o \in Operators, i \in DOMAIN bets : \A t \in TransactionStatus(o, i) :
    t.debit = "applied" => bets[i].charged
=============================================================================
