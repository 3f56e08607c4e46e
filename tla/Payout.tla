------------------------------- MODULE Payout -------------------------------
(***************************************************************************)
(* The arithmetic of a crash round: the crash point (crash.ts), the payout *)
(* of a cash-out (money.ts) and the limits the house puts on it            *)
(* (risk.service.ts). Money is in minor units, multipliers in hundredths.  *)
(***************************************************************************)
EXTENDS Integers

CONSTANTS
  MaxWinPerBet,        \* RISK_MAX_WIN_PER_BET
  MaxMultiplier,       \* RISK_MAX_MULTIPLIER
  MaxRoundExposure,    \* RISK_MAX_ROUND_EXPOSURE
  Entropy,             \* E: the number of hash values, 2^52 in the code
  MaxCents             \* cap of the crash point

ASSUME PayoutAssumption ==
  /\ MaxWinPerBet \in Nat /\ MaxMultiplier \in Nat /\ MaxRoundExposure \in Nat
  /\ Entropy \in Nat \ {0} /\ MaxCents \in Nat /\ MaxCents >= 100

Least(a, b) == IF a < b THEN a ELSE b

\* floorPayout: exact, rounded down.
FloorPayout(stake, cents) == (stake * cents) \div 100

\* Mutant: the operator's cap replaces the cap of the house.
CapPayoutOwn(payout, maxWin) == Least(payout, maxWin)

\* capPayout: the operator's cap, never above the cap of the house.
CapPayout(payout, maxWin) == Least(payout, Least(maxWin, MaxWinPerBet))

PotentialPayout(stake) == Least(stake * MaxMultiplier, MaxWinPerBet)

\* checkRoundExposure
ExposureOk(current, stake) == current + PotentialPayout(stake) <= MaxRoundExposure

\* Mutant: the hash is not shifted by one, and so every quotient grows.
CrashCentsUnshifted(h) ==
  LET cents == (97 * (Entropy + 1)) \div (IF h = 0 THEN 1 ELSE h)
  IN  IF cents < 100 THEN 100 ELSE Least(cents, MaxCents)

\* crashFromHmacHex
CrashCents(h) ==
  LET cents == (97 * (Entropy + 1)) \div (h + 1)
  IN  IF cents < 100 THEN 100 ELSE Least(cents, MaxCents)
=============================================================================
