------------------------------- MODULE MCRisk -------------------------------
(* A bounded instance of Risk, and of the reports on it, for TLC. *)
EXTENDS Reporting, TLC

CONSTANTS w1, w2, eur, usd, pA, pB, pC, op1, op2

\* One player bets on both panels, the other on one; the two panels are alike.
MCSeats == {<<w1, pA>>, <<w1, pB>>, <<w2, pC>>}
Symmetric == Permutations({pA, pB})

OptLimits == {[minBet |-> 2, maxBet |-> 2, maxWinPerBet |-> 7]}
Session(o, demo, c, limits, wager, loss) ==
  [operator |-> o, demo |-> demo, currency |-> c, limits |-> limits, wager |-> wager, loss |-> loss]
MCSetups ==
  { w1 :> Session(op1, FALSE, eur, {}, {1}, {}) @@ w2 :> Session(op1, FALSE, eur, OptLimits, {}, {2}),
    w1 :> Session(op1, FALSE, eur, OptLimits, {4}, {2}) @@ w2 :> Session(op2, TRUE, usd, OptLimits, {2}, {}) }
=============================================================================
