------------------------ MODULE OperatorWalletProofs ------------------------
(***************************************************************************)
(* OutboxInv of OperatorWallet is inductive, for any number of attempts on *)
(* a slot, of callers, retries and faults, in each of the four modes. That *)
(* owed reversals are recorded and that one driver at most emits under a   *)
(* key follow from it.                                                     *)
(***************************************************************************)
EXTENDS OperatorWallet, FiniteSetTheorems, TLAPS

USE WalletAssumption

-----------------------------------------------------------------------------
(* Writes of one call, one bet, one row, field by field.                   *)

Becomes(p, pc, b, why, drain) ==
  /\ proc' \in [Procs -> CallType]
  /\ \A q \in Procs : q # p => proc'[q] = proc[q]
  /\ proc'[p].pc = pc /\ proc'[p].b = b /\ proc'[p].why = why /\ proc'[p].drain = drain

Ends(p) ==
  /\ proc' \in [Procs -> CallType]
  /\ \A q \in Procs : q # p => proc'[q] = proc[q]
  /\ proc'[p] = Idle

BetIs(b, s) ==
  /\ bet' \in [Bets -> BetStates]
  /\ \A a \in Bets : a # b => bet'[a] = bet[a]
  /\ bet'[b] = s

RowIs(k, status, lease, live) ==
  /\ row' \in [Keys -> RowType]
  /\ \A j \in Keys : j # k => row'[j] = row[j]
  /\ row'[k].status = status /\ row'[k].lease = lease /\ row'[k].live = live

\* The fields of the records the actions write.
LEMMA Records ==
  /\ \A status, lease, live :
       /\ Row(status, lease, live).status = status /\ Row(status, lease, live).lease = lease
       /\ Row(status, lease, live).live = live
  /\ \A pc, b, why, n, drain, seen :
       LET c == Call(pc, b, why, n, drain, seen)
       IN  c.pc = pc /\ c.b = b /\ c.why = why /\ c.n = n /\ c.drain = drain /\ c.seen = seen
  BY DEF Row, Call

\* Rows that the actions write are in the type.
LEMMA RowTypes ==
  /\ NoRow \in RowType
  /\ \A status \in {"none", "pending", "draining", "confirmed"}, lease \in Nat, live \in BOOLEAN :
       Row(status, lease, live) \in RowType
  BY DEF Row, RowType, NoRow

\* So are calls.
LEMMA CallTypes ==
  ASSUME NEW pc \in {"idle", "bet", "win", "claim", "insert", "acquire", "emit", "confirm", "failed", "next"},
         NEW b \in Bets \cup {NoBet}, NEW why \in Reasons \cup {"none"}, NEW n \in Nat,
         NEW drain \in BOOLEAN, NEW seen \in RowType
  PROVE  Call(pc, b, why, n, drain, seen) \in CallType
  BY DEF Call, CallType

\* The fields of a call that is idle and of a row that is not there.
LEMMA IdleFields ==
  /\ Idle \in CallType /\ Idle.pc = "idle" /\ Idle.b = NoBet /\ Idle.why = "none" /\ Idle.drain = FALSE
  /\ NoRow.status = "none" /\ NoRow.live = FALSE /\ NoRow.lease = 0
  BY RowTypes DEF Idle, Call, CallType, NoRow, Row

\* The fields of a call that is in the type.
LEMMA CallFields ==
  ASSUME TypeOK, NEW p \in Procs
  PROVE  /\ proc[p].b \in Bets \cup {NoBet} /\ proc[p].why \in Reasons \cup {"none"} /\ proc[p].n \in Nat
         /\ proc[p].drain \in BOOLEAN /\ proc[p].seen \in RowType
  BY DEF TypeOK, CallType

\* Start writes a new call, and no other one.
LEMMA StartBecomes ==
  ASSUME TypeOK, NEW p \in Procs, NEW pc \in {"bet", "win", "claim"}, NEW b \in Bets \cup {NoBet},
         NEW why \in Reasons \cup {"none"}, NEW n \in Nat, Start(p, pc, b, why, n)
  PROVE  Becomes(p, pc, b, why, FALSE)
<1> DEFINE c == Call(pc, b, why, n, FALSE, NoRow)
<1>1. c \in CallType
  BY CallTypes, RowTypes
<1>2. proc' = [proc EXCEPT ![p] = c] /\ proc \in [Procs -> CallType]
  BY DEF Start, TypeOK
<1>3. c.pc = pc /\ c.b = b /\ c.why = why /\ c.drain = FALSE
  BY DEF Call
<1> HIDE DEF c
<1>4. proc'[p] = c
  BY <1>2
<1>5. proc' \in [Procs -> CallType] /\ \A q \in Procs : q # p => proc'[q] = proc[q]
  BY <1>1, <1>2
<1> QED BY <1>3, <1>4, <1>5 DEF Becomes

\* Go moves a call on under its key.
LEMMA GoBecomes ==
  ASSUME TypeOK, NEW p \in Procs,
         NEW pc \in {"insert", "acquire", "emit", "confirm", "failed", "next"}, Go(p, pc)
  PROVE  Becomes(p, pc, proc[p].b, proc[p].why, proc[p].drain)
<1> DEFINE c == Call(pc, proc[p].b, proc[p].why, proc[p].n, proc[p].drain, NoRow)
<1>1. c \in CallType
  BY CallFields, CallTypes, RowTypes
<1>2. proc' = [proc EXCEPT ![p] = c] /\ proc \in [Procs -> CallType]
  BY DEF Go, TypeOK
<1>3. c.pc = pc /\ c.b = proc[p].b /\ c.why = proc[p].why /\ c.drain = proc[p].drain
  BY Records
<1> HIDE DEF c
<1>4. proc'[p] = c
  BY <1>2
<1>5. proc' \in [Procs -> CallType] /\ \A q \in Procs : q # p => proc'[q] = proc[q]
  BY <1>1, <1>2
<1> QED BY <1>3, <1>4, <1>5 DEF Becomes

\* Sees makes it take over the lease of a row as the row is now.
LEMMA SeesBecomes ==
  ASSUME TypeOK, NEW p \in Procs, NEW k \in Keys, NEW drain \in BOOLEAN, Sees(p, k, drain)
  PROVE  Becomes(p, "acquire", k[1], k[2], drain) /\ proc'[p].seen = row[k]
<1> DEFINE c == Call("acquire", k[1], k[2], 0, drain, row[k])
<1>0. k[1] \in Bets /\ k[2] \in Reasons /\ row[k] \in RowType
  BY DEF TypeOK, Keys
<1>1. c \in CallType
  BY <1>0, CallTypes
<1>2. proc' = [proc EXCEPT ![p] = c] /\ proc \in [Procs -> CallType]
  BY DEF Sees, TypeOK
<1>3. c.pc = "acquire" /\ c.b = k[1] /\ c.why = k[2] /\ c.drain = drain /\ c.seen = row[k]
  BY Records
<1> HIDE DEF c
<1>4. proc'[p] = c
  BY <1>2
<1>5. proc' \in [Procs -> CallType] /\ \A q \in Procs : q # p => proc'[q] = proc[q]
  BY <1>1, <1>2
<1> QED BY <1>3, <1>4, <1>5 DEF Becomes

\* End returns it.
LEMMA EndEnds ==
  ASSUME TypeOK, NEW p \in Procs, End(p)
  PROVE  Ends(p)
  BY IdleFields DEF End, Ends, TypeOK

\* SetBet writes one bet.
LEMMA SetBetIs ==
  ASSUME TypeOK, NEW b \in Bets, NEW s \in BetStates, SetBet(b, s)
  PROVE  BetIs(b, s)
  BY DEF SetBet, BetIs, TypeOK

\* An update of the table writes one row.
LEMMA RowWrite ==
  ASSUME TypeOK, NEW k \in Keys, NEW status \in {"pending", "draining", "confirmed"}, NEW lease \in Nat,
         NEW live \in BOOLEAN, row' = [row EXCEPT ![k] = Row(status, lease, live)]
  PROVE  RowIs(k, status, lease, live)
<1>1. Row(status, lease, live) \in RowType
  BY RowTypes
<1>2. row'[k] = Row(status, lease, live) /\ row' \in [Keys -> RowType] /\ \A j \in Keys : j # k => row'[j] = row[j]
  BY <1>1 DEF TypeOK
<1> QED BY <1>2, Records DEF RowIs

-----------------------------------------------------------------------------
(* What the actions do, in terms of those writes.                          *)

PlaceEffect(p, b) ==
  /\ proc[p].pc = "idle" /\ bet[b] = "new"
  /\ \A a \in Bets : bet[a] \in {"new", "rejected"} /\ ~Busy(a)
  /\ mode # "rebet" => \A k \in Keys : ~Owed(k)
  /\ BetIs(b, "placing") /\ Becomes(p, "bet", b, "none", FALSE)
  /\ UNCHANGED <<mode, charge, paid, wire, row>>

BetEndEffect(p) ==
  /\ proc[p].pc = "bet" /\ Ends(p)
  /\ \/ BetIs(proc[p].b, "active") /\ charge' # NoBet /\ charge' \in {charge, proc[p].b}
     \/ BetIs(proc[p].b, "rejected") /\ charge = NoBet /\ charge' = NoBet
  /\ UNCHANGED <<mode, paid, wire, row>>

BetRetryEffect(p) ==
  /\ proc[p].pc = "bet"
  /\ \/ Becomes(p, "bet", proc[p].b, "none", FALSE)
     \/ \E why \in DebitReasons : Becomes(p, "claim", proc[p].b, why, FALSE)
  /\ charge' \in {charge, proc[p].b} /\ (charge # NoBet => charge' = charge)
  /\ wire' = wire \/ (mode = "late" /\ wire' = wire \cup {proc[p].b})
  /\ UNCHANGED <<mode, paid, bet, row>>

RecoverEffect(p, b) ==
  /\ p = Sweeper /\ proc[p].pc = "idle" /\ bet[b] = "placing" /\ ~Busy(b)
  /\ Becomes(p, "claim", b, "ambiguous_debit", FALSE)
  /\ UNCHANGED <<mode, charge, paid, wire, bet, row>>

WinStartEffect(p, b) ==
  /\ proc[p].pc = "idle" /\ ~Busy(b)
  /\ (bet[b] = "active" /\ BetIs(b, "winning")) \/ (bet[b] = "pending" /\ UNCHANGED bet)
  /\ Becomes(p, "win", b, "none", FALSE)
  /\ UNCHANGED <<mode, charge, paid, wire, row>>

WinEffect(p) ==
  /\ proc[p].pc = "win"
  /\ paid' \in {paid, paid \cup {proc[p].b}}
  /\ \/ Ends(p) /\ BetIs(proc[p].b, "won") /\ paid' = paid \cup {proc[p].b}
     \/ Ends(p) /\ BetIs(proc[p].b, "pending")
     \/ Becomes(p, "win", proc[p].b, "none", FALSE) /\ UNCHANGED bet
  /\ UNCHANGED <<mode, charge, wire, row>>

BustEffect(b) ==
  /\ bet[b] = "active" /\ ~Busy(b) /\ BetIs(b, "busted")
  /\ UNCHANGED <<mode, charge, paid, wire, row, proc>>

VoidEffect(p, b) ==
  /\ proc[p].pc = "idle"
  /\ \/ /\ bet[b] = "busted" /\ ~Busy(b) /\ BetIs(b, "voiding")
        /\ Becomes(p, "claim", b, "void_refund", FALSE)
     \/ /\ bet[b] \in {"winning", "won"} /\ ~Busy(b) /\ BetIs(b, "clawing")
        /\ Becomes(p, "claim", b, "void_reclaim", FALSE)
     \/ bet[b] = "voiding" /\ UNCHANGED bet /\ Becomes(p, "claim", b, "void_refund", FALSE)
     \/ bet[b] = "clawing" /\ UNCHANGED bet /\ Becomes(p, "claim", b, "void_reclaim", FALSE)
  /\ UNCHANGED <<mode, charge, paid, wire, row>>

\* A call goes on under its key.
Moves(p, pc) == Becomes(p, pc, proc[p].b, proc[p].why, proc[p].drain)

ClaimEffect(p) ==
  LET k == KeyOf(p) IN
  /\ proc[p].pc = "claim" /\ k \in Keys
  /\ \/ row[k].status = "none" /\ Moves(p, "insert")
     \/ (row[k].status = "confirmed" \/ row[k].live) /\ Moves(p, "next")
     \/ Owed(k) /\ ~row[k].live /\ Moves(p, "acquire") /\ proc'[p].seen = row[k]
  /\ UNCHANGED <<mode, charge, paid, wire, bet, row>>

InsertEffect(p) ==
  LET k == KeyOf(p) IN
  /\ proc[p].pc = "insert" /\ k \in Keys
  /\ \/ row[k] = NoRow /\ RowIs(k, "draining", 1, TRUE) /\ Moves(p, "emit")
     \/ row[k] # NoRow /\ UNCHANGED row /\ Moves(p, "next")
  /\ UNCHANGED <<mode, charge, paid, wire, bet>>

AcquireEffect(p) ==
  LET k == KeyOf(p) IN
  /\ proc[p].pc = "acquire" /\ k \in Keys
  /\ \/ Pinned(row[k], proc[p].seen) /\ RowIs(k, "draining", row[k].lease + 1, TRUE) /\ Moves(p, "emit")
     \/ UNCHANGED row /\ Moves(p, "next")
  /\ UNCHANGED <<mode, charge, paid, wire, bet>>

ClaimErrsEffect(p) ==
  /\ mode = "store" /\ proc[p].pc \in {"claim", "insert", "acquire"} /\ KeyOf(p) \in Keys
  /\ (proc[p].drain /\ Ends(p)) \/ (~proc[p].drain /\ Moves(p, "emit"))
  /\ UNCHANGED <<mode, charge, paid, wire, bet, row>>

Undone(k) ==
  \/ k[2] = "void_reclaim" /\ paid' = paid \ {k[1]} /\ charge' = charge
  \/ k[2] # "void_reclaim" /\ charge' = NoBet /\ paid' = paid

EmitEffect(p) ==
  /\ proc[p].pc = "emit" /\ KeyOf(p) \in Keys
  /\ \/ Undone(KeyOf(p)) /\ Moves(p, "confirm")
     \/ (Undone(KeyOf(p)) \/ UNCHANGED <<charge, paid>>) /\ Moves(p, "failed")
  /\ UNCHANGED <<mode, wire, bet, row>>

\* The row of a key is closed or reopened, if there is one.
Marked(k, status) ==
  (row[k] = NoRow /\ UNCHANGED row) \/ (row[k] # NoRow /\ RowIs(k, status, row[k].lease, FALSE))

MarkEffect(p) ==
  LET k == KeyOf(p) IN
  /\ k \in Keys
  /\ \/ proc[p].pc = "confirm" /\ Marked(k, "confirmed") /\ Moves(p, "next")
     \/ proc[p].pc = "failed" /\ Marked(k, "pending") /\ (Moves(p, "next") \/ Ends(p))
  /\ UNCHANGED <<mode, charge, paid, wire, bet>>

MarkErrsEffect(p) ==
  /\ mode = "store" /\ proc[p].pc \in {"confirm", "failed"}
  /\ Moves(p, "next") \/ Ends(p)
  /\ UNCHANGED <<mode, charge, paid, wire, bet, row>>

ReturnEffect(p) ==
  LET b == proc[p].b IN
  /\ proc[p].pc = "next" /\ b \in Bets
  /\ \/ proc[p].drain /\ UNCHANGED bet /\ Ends(p)
     \/ /\ ~proc[p].drain /\ proc[p].why = "void_reclaim"
        /\ UNCHANGED bet /\ Becomes(p, "claim", b, "void_refund", FALSE)
     \/ ~proc[p].drain /\ proc[p].why = "void_refund" /\ BetIs(b, "voided") /\ Ends(p)
     \/ ~proc[p].drain /\ proc[p].why \in DebitReasons /\ BetIs(b, "rejected") /\ Ends(p)
  /\ UNCHANGED <<mode, charge, paid, wire, row>>

DrainEffect(k) ==
  /\ proc[Sweeper].pc = "idle" /\ Owed(k) /\ ~row[k].live
  /\ Becomes(Sweeper, "acquire", k[1], k[2], TRUE) /\ proc'[Sweeper].seen = row[k]
  /\ UNCHANGED <<mode, charge, paid, wire, bet, row>>

ExpireEffect(k) ==
  /\ row[k].status = "draining" /\ row[k].live
  /\ (\A p \in Procs : KeyOf(p) = k => ~Working(p)) \/ mode = "slow"
  /\ RowIs(k, "draining", row[k].lease, FALSE)
  /\ UNCHANGED <<mode, charge, paid, wire, bet, proc>>

DieEffect(p) == Ends(p) /\ UNCHANGED <<mode, charge, paid, wire, bet, row>>

ArrivesEffect(b) ==
  /\ b \in wire
  /\ charge' \in {charge, b} /\ (charge # NoBet => charge' = charge) /\ wire' = wire \ {b}
  /\ UNCHANGED <<mode, paid, bet, row, proc>>

Effect ==
  \/ \E p \in Procs, b \in Bets :
       PlaceEffect(p, b) \/ RecoverEffect(p, b) \/ WinStartEffect(p, b) \/ VoidEffect(p, b)
  \/ \E p \in Procs :
       \/ BetEndEffect(p) \/ BetRetryEffect(p) \/ WinEffect(p) \/ ClaimEffect(p) \/ InsertEffect(p)
       \/ AcquireEffect(p) \/ ClaimErrsEffect(p) \/ EmitEffect(p) \/ MarkEffect(p) \/ MarkErrsEffect(p)
       \/ ReturnEffect(p) \/ DieEffect(p)
  \/ \E b \in Bets : BustEffect(b) \/ ArrivesEffect(b)
  \/ \E k \in Keys : DrainEffect(k) \/ ExpireEffect(k)
  \/ UNCHANGED vars

\* Every step is one of these, and counts its faults.
LEMMA StepEffect ==
  ASSUME TypeOK, CallsFit, [Next]_vars
  PROVE  Effect /\ faults' \in 0 .. MaxFaults
<1> USE DEF NoFault, operatorVars
<1>0. Callers \subseteq Procs /\ Sweeper \in Procs
  BY DEF Procs
<1>a. ASSUME NEW p \in Procs, proc[p].pc # "idle" PROVE proc[p].b \in Bets
  BY <1>a DEF CallsFit, CallFits
<1>b. ASSUME NEW p \in Procs, proc[p].pc \notin {"idle", "bet", "win"} PROVE KeyOf(p) \in Keys
  BY <1>a, <1>b DEF CallsFit, CallFits, KeyOf, Keys
<1>c. \A p \in Procs, pc \in {"insert", "emit", "confirm", "failed", "next"} : Go(p, pc) => Moves(p, pc)
  BY GoBecomes DEF Moves
<1>d. faults' \in 0 .. MaxFaults
  <2>1. Fault \/ NoFault \/ UNCHANGED faults
    BY DEF Next, Step, Errs, Request, Sweep, Place, BetOk, BetInsufficient, BetTimesOut, BetErrs, Recover, Win,
           CashOut, ReconcilePayout, WinOk, WinErrs, Bust, VoidBet, ResumeVoid, Claim, Insert, Acquire,
           ClaimErrs, EmitOk, EmitErrs, Confirm, RecordEmitFailure, MarkErrs, Return, Drain, Expire, Die,
           Arrives, vars
  <2> QED BY <2>1 DEF Fault, TypeOK
<1>e. \A p \in Procs : proc[p] = Idle => proc[p].pc = "idle"
  BY IdleFields
<1>1. ASSUME NEW p \in Procs, NEW b \in Bets, Place(p, b)
      PROVE  PlaceEffect(p, b)
  <2>1. Becomes(p, "bet", b, "none", FALSE)
    BY <1>1, StartBecomes DEF Place
  <2>2. BetIs(b, "placing")
    BY <1>1, SetBetIs DEF Place, BetStates
  <2> QED BY <1>1, <1>e, <2>1, <2>2 DEF Place, SlotFree, PlaceEffect
<1>2. ASSUME NEW p \in Procs, BetOk(p) \/ BetInsufficient(p)
      PROVE  BetEndEffect(p)
  <2>1. Ends(p) /\ proc[p].pc = "bet" /\ proc[p].b \in Bets
    BY <1>2, <1>a, EndEnds DEF BetOk, BetInsufficient
  <2>2. /\ BetOk(p) => BetIs(proc[p].b, "active")
        /\ BetInsufficient(p) => BetIs(proc[p].b, "rejected")
    BY <2>1, SetBetIs DEF BetOk, BetInsufficient, BetStates
  <2> QED BY <1>2, <2>1, <2>2 DEF BetOk, BetInsufficient, BetEndEffect, Charged, Bets, NoBet
<1>3. ASSUME NEW p \in Procs, BetTimesOut(p) \/ BetErrs(p)
      PROVE  BetRetryEffect(p)
  <2>0. proc[p].pc = "bet" /\ proc[p].b \in Bets /\ proc[p].n + 1 \in Nat
    BY <1>3, <1>a, CallFields DEF BetTimesOut, BetErrs
  <2>1. \/ Start(p, "claim", proc[p].b, "ambiguous_debit", 0)
        \/ Start(p, "bet", proc[p].b, "none", proc[p].n + 1)
        \/ Start(p, "claim", proc[p].b, "transient_debit", 0)
    BY <1>3 DEF BetTimesOut, BetErrs
  <2>2. \/ Becomes(p, "bet", proc[p].b, "none", FALSE)
        \/ Becomes(p, "claim", proc[p].b, "ambiguous_debit", FALSE)
        \/ Becomes(p, "claim", proc[p].b, "transient_debit", FALSE)
    <3>1. CASE Start(p, "claim", proc[p].b, "ambiguous_debit", 0)
      BY <2>0, <3>1, StartBecomes DEF Reasons, DebitReasons
    <3>2. CASE Start(p, "bet", proc[p].b, "none", proc[p].n + 1)
      BY <2>0, <3>2, StartBecomes
    <3>3. CASE Start(p, "claim", proc[p].b, "transient_debit", 0)
      BY <2>0, <3>3, StartBecomes DEF Reasons, DebitReasons
    <3> QED BY <2>1, <3>1, <3>2, <3>3
  <2>3. /\ \/ charge' \in {charge, Charged(proc[p].b)} /\ wire' = wire
           \/ charge' = charge /\ mode = "late" /\ wire' = wire \cup {proc[p].b}
        /\ UNCHANGED <<mode, paid, bet, row>>
    BY <1>3 DEF BetTimesOut, BetErrs, Chargeable
  <2> QED BY <2>0, <2>2, <2>3 DEF BetRetryEffect, Charged, DebitReasons
<1>4. ASSUME NEW b \in Bets, Recover(Sweeper, b)
      PROVE  RecoverEffect(Sweeper, b)
  <2>1. Becomes(Sweeper, "claim", b, "ambiguous_debit", FALSE)
    BY <1>0, <1>4, StartBecomes DEF Recover, Reasons, DebitReasons
  <2> QED BY <1>0, <1>4, <1>e, <2>1 DEF Recover, RecoverEffect
<1>5. ASSUME NEW p \in Procs, NEW b \in Bets, CashOut(p, b) \/ ReconcilePayout(p, b)
      PROVE  WinStartEffect(p, b)
  <2>1. Becomes(p, "win", b, "none", FALSE)
    BY <1>5, StartBecomes DEF CashOut, ReconcilePayout, Win
  <2>2. CashOut(p, b) => BetIs(b, "winning")
    BY SetBetIs DEF CashOut, BetStates
  <2> QED BY <1>5, <1>e, <2>1, <2>2 DEF CashOut, ReconcilePayout, Win, WinStartEffect
<1>6. ASSUME NEW p \in Procs, WinOk(p) \/ WinErrs(p)
      PROVE  WinEffect(p)
  <2>0. proc[p].pc = "win" /\ proc[p].b \in Bets /\ proc[p].n + 1 \in Nat
    BY <1>6, <1>a, CallFields DEF WinOk, WinErrs
  <2>1. CASE WinOk(p)
    BY <2>0, <2>1, EndEnds, SetBetIs DEF WinOk, WinEffect, BetStates
  <2>2. CASE WinErrs(p) /\ proc[p].n < MaxRetries
    <3>1. Start(p, "win", proc[p].b, "none", proc[p].n + 1) /\ UNCHANGED bet
      BY <2>2 DEF WinErrs
    <3>2. Becomes(p, "win", proc[p].b, "none", FALSE)
      BY <2>0, <3>1, StartBecomes
    <3> QED BY <2>0, <2>2, <3>1, <3>2 DEF WinErrs, WinEffect
  <2>3. CASE WinErrs(p) /\ ~(proc[p].n < MaxRetries)
    BY <2>0, <2>3, EndEnds, SetBetIs DEF WinErrs, WinEffect, BetStates
  <2> QED BY <1>6, <2>1, <2>2, <2>3
<1>7. ASSUME NEW b \in Bets, Bust(b)
      PROVE  BustEffect(b)
  BY <1>7, SetBetIs DEF Bust, BustEffect, BetStates
<1>8. ASSUME NEW p \in Procs, NEW b \in Bets, VoidBet(p, b)
      PROVE  VoidEffect(p, b)
  <2>1. CASE bet[b] = "busted"
    <3>1. Becomes(p, "claim", b, "void_refund", FALSE)
      BY <1>8, <2>1, StartBecomes DEF VoidBet, StartLeg, Reasons
    <3>2. BetIs(b, "voiding")
      BY <1>8, <2>1, SetBetIs DEF VoidBet, BetStates
    <3> QED BY <1>8, <1>e, <2>1, <3>1, <3>2 DEF VoidBet, VoidEffect
  <2>2. CASE bet[b] # "busted"
    <3>1. Becomes(p, "claim", b, "void_reclaim", FALSE)
      BY <1>8, <2>2, StartBecomes DEF VoidBet, StartLeg, Reasons
    <3>2. BetIs(b, "clawing")
      BY <1>8, <2>2, SetBetIs DEF VoidBet, BetStates
    <3> QED BY <1>8, <1>e, <2>2, <3>1, <3>2 DEF VoidBet, VoidEffect
  <2> QED BY <2>1, <2>2
<1>9. ASSUME NEW p \in Procs, NEW b \in Bets, ResumeVoid(p, b)
      PROVE  VoidEffect(p, b)
  <2>1. \/ bet[b] = "voiding" /\ Start(p, "claim", b, "void_refund", 0)
        \/ bet[b] = "clawing" /\ Start(p, "claim", b, "void_reclaim", 0)
    BY <1>9 DEF ResumeVoid, StartLeg
  <2>2. \/ bet[b] = "voiding" /\ Becomes(p, "claim", b, "void_refund", FALSE)
        \/ bet[b] = "clawing" /\ Becomes(p, "claim", b, "void_reclaim", FALSE)
    BY <2>1, StartBecomes DEF Reasons
  <2> QED BY <1>9, <1>e, <2>2 DEF ResumeVoid, VoidEffect
<1>10. ASSUME NEW p \in Procs, Claim(p)
      PROVE  ClaimEffect(p)
  <2>1. KeyOf(p) \in Keys /\ KeyOf(p)[1] = proc[p].b /\ KeyOf(p)[2] = proc[p].why /\ proc[p].drain \in BOOLEAN
    BY <1>10, <1>b, CallFields DEF Claim, KeyOf
  <2>2. Sees(p, KeyOf(p), proc[p].drain) => Moves(p, "acquire") /\ proc'[p].seen = row[KeyOf(p)]
    BY <2>1, SeesBecomes DEF Moves
  <2> QED BY <1>10, <1>c, <2>1, <2>2 DEF Claim, ClaimEffect
<1>11. ASSUME NEW p \in Procs, Insert(p)
      PROVE  InsertEffect(p)
  <2>1. KeyOf(p) \in Keys
    BY <1>11, <1>b DEF Insert
  <2>2. CASE row[KeyOf(p)] = NoRow
    <3>1. RowIs(KeyOf(p), "draining", 1, TRUE)
      BY <1>11, <2>1, <2>2, RowWrite DEF Insert
    <3> QED BY <1>11, <1>c, <2>1, <2>2, <3>1 DEF Insert, InsertEffect
  <2>3. CASE row[KeyOf(p)] # NoRow
    BY <1>11, <1>c, <2>1, <2>3 DEF Insert, InsertEffect
  <2> QED BY <2>2, <2>3
<1>12. ASSUME NEW p \in Procs, Acquire(p)
      PROVE  AcquireEffect(p)
  <2>1. KeyOf(p) \in Keys
    BY <1>12, <1>b DEF Acquire
  <2>2. CASE Pinned(row[KeyOf(p)], proc[p].seen)
    <3>1. row[KeyOf(p)].lease + 1 \in Nat
      BY <2>1 DEF TypeOK, RowType
    <3>2. RowIs(KeyOf(p), "draining", row[KeyOf(p)].lease + 1, TRUE)
      BY <1>12, <2>1, <2>2, <3>1, RowWrite DEF Acquire
    <3> QED BY <1>12, <1>c, <2>1, <2>2, <3>2 DEF Acquire, AcquireEffect
  <2>3. CASE ~Pinned(row[KeyOf(p)], proc[p].seen)
    BY <1>12, <1>c, <2>1, <2>3 DEF Acquire, AcquireEffect
  <2> QED BY <2>2, <2>3
<1>13. ASSUME NEW p \in Procs, ClaimErrs(p)
      PROVE  ClaimErrsEffect(p)
  BY <1>13, <1>b, <1>c, EndEnds DEF ClaimErrs, ClaimErrsEffect
<1>14. ASSUME NEW p \in Procs, EmitOk(p) \/ EmitErrs(p)
      PROVE  EmitEffect(p)
  <2>1. RolledBack(KeyOf(p)) => Undone(KeyOf(p))
    BY DEF RolledBack, Undone
  <2> QED BY <1>14, <1>b, <1>c, <2>1 DEF EmitOk, EmitErrs, EmitEffect
<1>15. ASSUME NEW p \in Procs, NEW status \in {"confirmed", "pending"}, KeyOf(p) \in Keys, Mark(KeyOf(p), status)
      PROVE  Marked(KeyOf(p), status)
  <2>1. CASE row[KeyOf(p)] = NoRow
    BY <1>15, <2>1 DEF Mark, Marked, TypeOK
  <2>2. CASE row[KeyOf(p)] # NoRow
    <3>1. row[KeyOf(p)].lease \in Nat
      BY <1>15 DEF TypeOK, RowType
    <3>2. RowIs(KeyOf(p), status, row[KeyOf(p)].lease, FALSE)
      BY <1>15, <2>2, <3>1, RowWrite DEF Mark
    <3> QED BY <2>2, <3>2 DEF Marked
  <2> QED BY <2>1, <2>2
<1>16. ASSUME NEW p \in Procs, Propagate(p)
      PROVE  Moves(p, "next") \/ Ends(p)
  BY <1>16, <1>c, EndEnds DEF Propagate
<1>17. ASSUME NEW p \in Procs, Confirm(p) \/ RecordEmitFailure(p)
      PROVE  MarkEffect(p)
  <2>1. KeyOf(p) \in Keys
    BY <1>17, <1>b DEF Confirm, RecordEmitFailure
  <2> QED BY <1>17, <1>c, <1>15, <1>16, <2>1 DEF Confirm, RecordEmitFailure, MarkEffect
<1>18. ASSUME NEW p \in Procs, MarkErrs(p)
      PROVE  MarkErrsEffect(p)
  BY <1>18, <1>c, <1>16 DEF MarkErrs, MarkErrsEffect
<1>19. ASSUME NEW p \in Procs, Return(p)
      PROVE  ReturnEffect(p)
  <2>1. proc[p].b \in Bets /\ proc[p].pc = "next"
    BY <1>19, <1>a DEF Return
  <2>2. StartLeg(p, proc[p].b, "void_refund") => Becomes(p, "claim", proc[p].b, "void_refund", FALSE)
    BY <2>1, StartBecomes DEF StartLeg, Reasons
  <2>3. /\ SetBet(proc[p].b, "voided") => BetIs(proc[p].b, "voided")
        /\ SetBet(proc[p].b, "rejected") => BetIs(proc[p].b, "rejected")
        /\ End(p) => Ends(p)
    BY <2>1, SetBetIs, EndEnds DEF BetStates
  <2> QED BY <1>19, <2>1, <2>2, <2>3 DEF Return, ReturnEffect
<1>20. ASSUME NEW k \in Keys, Drain(Sweeper, k)
      PROVE  DrainEffect(k)
  <2>1. Becomes(Sweeper, "acquire", k[1], k[2], TRUE) /\ proc'[Sweeper].seen = row[k]
    BY <1>0, <1>20, SeesBecomes DEF Drain
  <2> QED BY <1>0, <1>20, <1>e, <2>1 DEF Drain, DrainEffect
<1>21. ASSUME NEW k \in Keys, Expire(k)
      PROVE  ExpireEffect(k)
  <2>1. row[k].lease \in Nat
    BY DEF TypeOK, RowType
  <2>2. RowIs(k, "draining", row[k].lease, FALSE)
    BY <1>21, <2>1, RowWrite DEF Expire
  <2> QED BY <1>21, <2>2 DEF Expire, ExpireEffect, Working
<1>22. ASSUME NEW p \in Procs, Die(p)
      PROVE  DieEffect(p)
  BY <1>22, EndEnds DEF Die, DieEffect
<1>23. ASSUME NEW b \in Bets, Arrives(b)
      PROVE  ArrivesEffect(b)
  BY <1>23 DEF Arrives, ArrivesEffect, Charged
<1>24. CASE UNCHANGED vars
  BY <1>24, <1>d DEF Effect
<1>25. CASE Next
  <2>1. CASE \E p \in Procs : Step(p)
    BY <1>2, <1>6, <1>10, <1>11, <1>12, <1>14, <1>17, <1>19, <2>1, <1>d DEF Step, Effect
  <2>2. CASE \E p \in Procs : Errs(p)
    BY <1>3, <1>6, <1>13, <1>14, <1>18, <1>22, <2>2, <1>d DEF Errs, Effect
  <2>3. CASE \E p \in Callers : Request(p)
    BY <1>0, <1>1, <1>5, <1>8, <1>9, <2>3, <1>d DEF Request, Effect
  <2>4. CASE Sweep
    BY <1>0, <1>4, <1>5, <1>9, <1>20, <2>4, <1>d DEF Sweep, Effect
  <2>5. CASE \E b \in Bets : Bust(b) \/ Arrives(b)
    BY <1>7, <1>23, <2>5, <1>d DEF Effect
  <2>6. CASE \E k \in Keys : Expire(k)
    BY <1>21, <2>6, <1>d DEF Effect
  <2> QED BY <1>25, <1>d, <2>1, <2>2, <2>3, <2>4, <2>5, <2>6 DEF Next
<1> QED BY <1>24, <1>25, <1>d

\* Types are kept.
LEMMA TypeNext ==
  ASSUME TypeOK, CallsFit, faults' \in 0 .. MaxFaults, Effect
  PROVE  TypeOK'
<1> USE DEF TypeOK, Becomes, Ends, BetIs, RowIs, Moves
<1>0. \A p \in Procs : proc[p].pc # "idle" => proc[p].b \in Bets
  BY DEF CallsFit, CallFits
<1>1. ASSUME NEW p \in Procs, NEW b \in Bets, PlaceEffect(p, b)
      PROVE  TypeOK'
  BY <1>1, <1>0 DEF PlaceEffect, Owed
<1>2. ASSUME NEW p \in Procs, BetEndEffect(p)
      PROVE  TypeOK'
  BY <1>2, <1>0 DEF BetEndEffect
<1>3. ASSUME NEW p \in Procs, BetRetryEffect(p)
      PROVE  TypeOK'
  BY <1>3, <1>0 DEF BetRetryEffect
<1>4. ASSUME NEW p \in Procs, NEW b \in Bets, RecoverEffect(p, b)
      PROVE  TypeOK'
  BY <1>4, <1>0 DEF RecoverEffect
<1>5. ASSUME NEW p \in Procs, NEW b \in Bets, WinStartEffect(p, b)
      PROVE  TypeOK'
  BY <1>5, <1>0 DEF WinStartEffect
<1>6. ASSUME NEW p \in Procs, WinEffect(p)
      PROVE  TypeOK'
  BY <1>6, <1>0 DEF WinEffect
<1>7. ASSUME NEW b \in Bets, BustEffect(b)
      PROVE  TypeOK'
  BY <1>7, <1>0 DEF BustEffect
<1>8. ASSUME NEW p \in Procs, NEW b \in Bets, VoidEffect(p, b)
      PROVE  TypeOK'
  BY <1>8, <1>0 DEF VoidEffect
<1>9. ASSUME NEW p \in Procs, ClaimEffect(p)
      PROVE  TypeOK'
  BY <1>9, <1>0 DEF ClaimEffect, Owed
<1>10. ASSUME NEW p \in Procs, InsertEffect(p)
      PROVE  TypeOK'
  BY <1>10, <1>0 DEF InsertEffect
<1>11. ASSUME NEW p \in Procs, AcquireEffect(p)
      PROVE  TypeOK'
  BY <1>11, <1>0 DEF AcquireEffect, Pinned
<1>12. ASSUME NEW p \in Procs, ClaimErrsEffect(p)
      PROVE  TypeOK'
  BY <1>12, <1>0 DEF ClaimErrsEffect
<1>13. ASSUME NEW p \in Procs, EmitEffect(p)
      PROVE  TypeOK'
  BY <1>13, <1>0 DEF EmitEffect, Undone
<1>14. ASSUME NEW p \in Procs, MarkEffect(p)
      PROVE  TypeOK'
  BY <1>14, <1>0 DEF MarkEffect, Marked
<1>15. ASSUME NEW p \in Procs, MarkErrsEffect(p)
      PROVE  TypeOK'
  BY <1>15, <1>0 DEF MarkErrsEffect
<1>16. ASSUME NEW p \in Procs, ReturnEffect(p)
      PROVE  TypeOK'
  BY <1>16, <1>0 DEF ReturnEffect
<1>17. ASSUME NEW p \in Procs, DieEffect(p)
      PROVE  TypeOK'
  BY <1>17, <1>0 DEF DieEffect
<1>18. ASSUME NEW b \in Bets, ArrivesEffect(b)
      PROVE  TypeOK'
  BY <1>18, <1>0 DEF ArrivesEffect
<1>19. ASSUME NEW k \in Keys, DrainEffect(k)
      PROVE  TypeOK'
  BY <1>19, <1>0 DEF DrainEffect, Owed
<1>20. ASSUME NEW k \in Keys, ExpireEffect(k)
      PROVE  TypeOK'
  BY <1>20, <1>0 DEF ExpireEffect, Working
<1>21. CASE UNCHANGED vars
  BY <1>21, <1>0 DEF vars
<1> QED BY <1>1, <1>2, <1>3, <1>4, <1>5, <1>6, <1>7, <1>8, <1>9, <1>10, <1>11, <1>12, <1>13, <1>14, <1>15,
       <1>16, <1>17, <1>18, <1>19, <1>20, <1>21 DEF Effect

\* Keys are pairs of a bet and a reason.
LEMMA KeyFacts ==
  /\ \A k \in Keys : k[1] \in Bets /\ k[2] \in Reasons /\ k = <<k[1], k[2]>>
  /\ \A b \in Bets, w \in Reasons : <<b, w>> \in Keys
  BY DEF Keys

\* Which states of a bet have which reversal.
LEMMA ReversibleFacts ==
  /\ \A w : Reversible(w) \cap {"new", "active", "busted", "winning", "won", "pending"} = {}
  /\ \A w \in DebitReasons : Reversible(w) = {"placing", "rejected"}
  /\ \A w \in Reasons \ DebitReasons : Reversible(w) \subseteq {"voiding", "clawing", "voided"}
                                       /\ "voided" \in Reversible(w)
  /\ Reversible("void_reclaim") = {"clawing", "voided"}
  /\ Reversible("void_refund") = {"voiding", "clawing", "voided"}
  BY DEF Reversible, Reasons, DebitReasons

\* A bet moves on, and its rows still fit it.
LEMMA BetKeepsRows ==
  ASSUME RowsFit, NEW b \in Bets, NEW s, BetIs(b, s), row' = row,
         \A w \in Reasons : row[<<b, w>>].status # "none" => s \in Reversible(w)
  PROVE  RowsFit'
<1> SUFFICES ASSUME NEW k \in Keys
             PROVE  /\ row[k].status # "none" => bet'[k[1]] \in Reversible(k[2])
                    /\ row[k].status = "none" => row[k] = NoRow
                    /\ row[k].live => row[k].status = "draining"
  BY DEF RowsFit, Reversible, DebitReasons, NoRow, Row
<1>1. CASE k[1] = b
  BY <1>1, KeyFacts DEF RowsFit, BetIs
<1>2. CASE k[1] # b
  BY <1>2, KeyFacts DEF RowsFit, BetIs
<1> QED BY <1>1, <1>2

\* A row is written for a bet that calls for it.
LEMMA WriteKeepsRows ==
  ASSUME RowsFit, NEW k \in Keys, NEW status, NEW lease, NEW live, RowIs(k, status, lease, live), bet' = bet,
         status # "none", live => status = "draining", bet[k[1]] \in Reversible(k[2])
  PROVE  RowsFit'
<1> SUFFICES ASSUME NEW j \in Keys
             PROVE  /\ row'[j].status # "none" => bet[j[1]] \in Reversible(j[2])
                    /\ row'[j].status = "none" => row'[j] = NoRow
                    /\ row'[j].live => row'[j].status = "draining"
  BY DEF RowsFit, Reversible, DebitReasons, NoRow, Row
<1>1. CASE j = k
  BY <1>1 DEF RowIs
<1>2. CASE j # k
  BY <1>2 DEF RowsFit, RowIs
<1> QED BY <1>1, <1>2

\* A row is a reversal that the state of its bet calls for.
LEMMA RowsNext ==
  ASSUME TypeOK, CallsFit, RowsFit, LeasesExclude, Effect
  PROVE  RowsFit'
<1>22. ASSUME UNCHANGED <<bet, row>> PROVE RowsFit'
  BY <1>22 DEF RowsFit, Reversible, DebitReasons, NoRow, Row
<1>1. ASSUME NEW p \in Procs, NEW b \in Bets, PlaceEffect(p, b)
      PROVE  RowsFit'
  <2>1. \A w \in Reasons : row[<<b, w>>].status = "none"
    BY <1>1, ReversibleFacts, KeyFacts DEF PlaceEffect, RowsFit, CallsFit, CallFits
  <2> QED BY <1>1, <2>1, BetKeepsRows DEF PlaceEffect
<1>2. ASSUME NEW p \in Procs, BetEndEffect(p)
      PROVE  RowsFit'
  <2>0. proc[p].b \in Bets
    BY <1>2 DEF BetEndEffect, CallsFit, CallFits
  <2>1. \A w \in Reasons : row[<<proc[p].b, w>>].status = "none"
    BY <1>2, ReversibleFacts, KeyFacts DEF BetEndEffect, RowsFit, CallsFit, CallFits
  <2> QED BY <1>2, <2>0, <2>1, BetKeepsRows DEF BetEndEffect
<1>3. ASSUME NEW p \in Procs, BetRetryEffect(p)
      PROVE  RowsFit'
  BY <1>3, <1>22 DEF BetRetryEffect
<1>4. ASSUME NEW p \in Procs, NEW b \in Bets, RecoverEffect(p, b)
      PROVE  RowsFit'
  BY <1>4, <1>22 DEF RecoverEffect
<1>5. ASSUME NEW p \in Procs, NEW b \in Bets, WinStartEffect(p, b)
      PROVE  RowsFit'
  <2>1. UNCHANGED <<bet, row>> \/ \A w \in Reasons : row[<<b, w>>].status = "none"
    BY <1>5, ReversibleFacts, KeyFacts DEF WinStartEffect, RowsFit
  <2> QED BY <1>5, <1>22, <2>1, BetKeepsRows DEF WinStartEffect
<1>6. ASSUME NEW p \in Procs, WinEffect(p)
      PROVE  RowsFit'
  <2>0. proc[p].b \in Bets
    BY <1>6 DEF WinEffect, CallsFit, CallFits
  <2>1. \A w \in Reasons : row[<<proc[p].b, w>>].status = "none"
    BY <1>6, ReversibleFacts, KeyFacts DEF WinEffect, RowsFit, CallsFit, CallFits
  <2> QED BY <1>6, <1>22, <2>0, <2>1, BetKeepsRows DEF WinEffect
<1>7. ASSUME NEW b \in Bets, BustEffect(b)
      PROVE  RowsFit'
  <2>1. UNCHANGED <<bet, row>> \/ \A w \in Reasons : row[<<b, w>>].status = "none"
    BY <1>7, ReversibleFacts, KeyFacts DEF BustEffect, RowsFit
  <2> QED BY <1>7, <1>22, <2>1, BetKeepsRows DEF BustEffect
<1>8. ASSUME NEW p \in Procs, NEW b \in Bets, VoidEffect(p, b)
      PROVE  RowsFit'
  <2>1. bet[b] \in {"busted", "winning", "won"} => \A w \in Reasons : row[<<b, w>>].status = "none"
    BY ReversibleFacts, KeyFacts DEF RowsFit
  <2>2. UNCHANGED <<bet, row>> \/ \A w \in Reasons : row[<<b, w>>].status = "none"
    BY <1>8, <2>1 DEF VoidEffect
  <2> QED BY <1>8, <1>22, <2>2, BetKeepsRows DEF VoidEffect
<1>9. ASSUME NEW p \in Procs, ClaimEffect(p)
      PROVE  RowsFit'
  BY <1>9, <1>22 DEF ClaimEffect
<1>10. ASSUME NEW p \in Procs, InsertEffect(p)
      PROVE  RowsFit'
  <2>1. bet[proc[p].b] \in Reversible(proc[p].why) /\ KeyOf(p)[1] = proc[p].b /\ KeyOf(p)[2] = proc[p].why
    BY <1>10, CallFields, ReversibleFacts DEF InsertEffect, CallsFit, CallFits, KeyOf
  <2> QED BY <1>10, <1>22, <2>1, WriteKeepsRows DEF InsertEffect
<1>11. ASSUME NEW p \in Procs, AcquireEffect(p)
      PROVE  RowsFit'
  <2>1. bet[KeyOf(p)[1]] \in Reversible(KeyOf(p)[2]) /\ row[KeyOf(p)].lease \in Nat
    BY <1>11 DEF AcquireEffect, LeasesExclude, RowsFit, TypeOK, RowType
  <2> QED BY <1>11, <1>22, <2>1, WriteKeepsRows DEF AcquireEffect
<1>12. ASSUME NEW p \in Procs, ClaimErrsEffect(p)
      PROVE  RowsFit'
  BY <1>12, <1>22 DEF ClaimErrsEffect
<1>13. ASSUME NEW p \in Procs, EmitEffect(p)
      PROVE  RowsFit'
  BY <1>13, <1>22 DEF EmitEffect
<1>14. ASSUME NEW p \in Procs, MarkEffect(p)
      PROVE  RowsFit'
  <2>1. row[KeyOf(p)] # NoRow => bet[KeyOf(p)[1]] \in Reversible(KeyOf(p)[2])
    BY <1>14 DEF MarkEffect, RowsFit
  <2> QED BY <1>14, <1>22, <2>1, WriteKeepsRows DEF MarkEffect, Marked
<1>15. ASSUME NEW p \in Procs, MarkErrsEffect(p)
      PROVE  RowsFit'
  BY <1>15, <1>22 DEF MarkErrsEffect
<1>16. ASSUME NEW p \in Procs, ReturnEffect(p)
      PROVE  RowsFit'
  <2>1. ASSUME NEW w \in Reasons, row[<<proc[p].b, w>>].status # "none"
        PROVE  bet[proc[p].b] \in Reversible(w)
    BY <1>16, <2>1, KeyFacts DEF ReturnEffect, RowsFit
  <2>0. /\ ~proc[p].drain /\ proc[p].why = "void_refund" => bet[proc[p].b] \in {"voiding", "clawing", "voided"}
        /\ ~proc[p].drain /\ proc[p].why \in DebitReasons => bet[proc[p].b] = "placing"
    BY ReversibleFacts DEF CallsFit, CallFits, Reasons, DebitReasons
  <2>2. ASSUME NEW w \in Reasons, ~proc[p].drain, bet[proc[p].b] \in Reversible(w)
        PROVE  /\ proc[p].why = "void_refund" => "voided" \in Reversible(w)
               /\ proc[p].why \in DebitReasons => "rejected" \in Reversible(w)
    BY <2>0, <2>2, ReversibleFacts
  <2> QED BY <1>16, <1>22, <2>1, <2>2, BetKeepsRows DEF ReturnEffect
<1>17. ASSUME NEW p \in Procs, DieEffect(p)
      PROVE  RowsFit'
  BY <1>17, <1>22 DEF DieEffect
<1>18. ASSUME NEW b \in Bets, ArrivesEffect(b)
      PROVE  RowsFit'
  BY <1>18, <1>22 DEF ArrivesEffect
<1>19. ASSUME NEW k \in Keys, DrainEffect(k)
      PROVE  RowsFit'
  BY <1>19, <1>22 DEF DrainEffect
<1>20. ASSUME NEW k \in Keys, ExpireEffect(k)
      PROVE  RowsFit'
  <2>1. bet[k[1]] \in Reversible(k[2])
    BY <1>20 DEF ExpireEffect, RowsFit
  <2> QED BY <1>20, <2>1, WriteKeepsRows DEF ExpireEffect
<1>21. CASE UNCHANGED vars
  BY <1>21, <1>22 DEF vars
<1> QED BY <1>1, <1>2, <1>3, <1>4, <1>5, <1>6, <1>7, <1>8, <1>9, <1>10, <1>11, <1>12, <1>13, <1>14, <1>15,
       <1>16, <1>17, <1>18, <1>19, <1>20, <1>21 DEF Effect

\* A call that nobody touches fits as long as its bet and its rows stay.
LEMMA OtherCall ==
  ASSUME TypeOK, NEW q \in Procs, CallFits(q), proc'[q] = proc[q],
         \A k \in Keys : row[k].status # "none" => row'[k].status # "none",
         proc[q].pc = "bet" => \A w \in Reasons : row'[<<proc[q].b, w>>].status = "none",
         ~proc[q].drain /\ proc[q].b # NoBet =>
            \/ bet'[proc[q].b] = bet[proc[q].b]
            \/ bet[proc[q].b] \in {"voiding", "clawing", "voided"} /\ bet'[proc[q].b] = "voided"
  PROVE  CallFits(q)'
<1> DEFINE c == proc[q]
<1>0. c.pc # "idle" => c.b \in Bets /\ c.b # NoBet
  BY DEF CallFits, Bets, NoBet
<1>1. c.pc = "idle" => c = Idle /\ ~c.drain /\ c.why = "none"
  BY IdleFields DEF CallFits
<1>2. c.drain => q = Sweeper /\ c.pc \notin {"bet", "win", "claim", "insert"} /\ row'[KeyOf(q)].status # "none"
  BY <1>0, <1>1, KeyFacts DEF CallFits, KeyOf
<1>3. c.pc = "bet" => bet'[c.b] = "placing" /\ ~c.drain
  BY <1>0 DEF CallFits
<1>4. c.pc = "win" => bet'[c.b] \in {"winning", "pending"} /\ ~c.drain
  BY <1>0 DEF CallFits
<1>5. c.why \in DebitReasons /\ ~c.drain => bet'[c.b] = "placing"
  BY <1>0, <1>1 DEF CallFits, DebitReasons, Reasons
<1>6. c.why \in Reasons \ DebitReasons /\ ~c.drain => bet'[c.b] \in Reversible(c.why)
  BY <1>0, <1>1, ReversibleFacts DEF CallFits, DebitReasons, Reasons
<1>7. KeyOf(q)' = KeyOf(q) /\ Idle' = Idle
  BY DEF KeyOf, Idle, Call, NoRow, Row
<1>8. c.pc \notin {"idle", "bet", "win"} => c.why \in Reasons
  BY DEF CallFits
<1> HIDE DEF c
<1>9. proc'[q] = c
  BY DEF c
<1>10. c.pc = "bet" => \A w \in Reasons : row'[<<c.b, w>>].status = "none"
  BY DEF c
<1> QED BY <1>0, <1>1, <1>2, <1>3, <1>4, <1>5, <1>6, <1>7, <1>8, <1>9, <1>10
   DEF CallFits, Reasons, DebitReasons, Reversible

\* The other calls, when one step works on bet b and writes no new row.
LEMMA OtherCalls ==
  ASSUME TypeOK, CallsFit, NEW p \in Procs, NEW b \in Bets,
         \A q \in Procs : q # p => proc'[q] = proc[q],
         row' = row, \A a \in Bets : a # b => bet'[a] = bet[a],
         \/ \A q \in Procs : q # p /\ ~proc[q].drain => proc[q].b # b
         \/ bet'[b] = bet[b]
         \/ bet[b] \in {"voiding", "clawing", "voided"} /\ bet'[b] = "voided"
  PROVE  \A q \in Procs : q # p => CallFits(q)'
<1> SUFFICES ASSUME NEW q \in Procs, q # p PROVE CallFits(q)'
  OBVIOUS
<1>1. CallFits(q) /\ proc[q].b \in Bets \cup {NoBet}
  BY CallFields DEF CallsFit
<1>2. proc[q].pc = "bet" => \A w \in Reasons : row'[<<proc[q].b, w>>].status = "none"
  BY <1>1 DEF CallFits
<1> QED BY <1>1, <1>2, OtherCall

\* The only call at work on a bet, unless the bet is being voided.
LEMMA LoneCall ==
  ASSUME OneCallPerBet, NEW p \in Procs, ~proc[p].drain, proc[p].b \in Bets,
         bet[proc[p].b] \notin {"voiding", "clawing", "voided"}
  PROVE  \A q \in Procs : q # p /\ ~proc[q].drain => proc[q].b # proc[p].b
  BY DEF OneCallPerBet, Bets, NoBet

\* A call does what the state of its bet calls for.
LEMMA CallsNext ==
  ASSUME TypeOK, CallsFit, RowsFit, OneCallPerBet, LeasesExclude, Effect
  PROVE  CallsFit'
<1>22. ASSUME UNCHANGED <<bet, row, proc>> PROVE CallsFit'
  BY <1>22 DEF CallsFit, CallFits, Idle, Call, NoRow, Row, KeyOf, Reversible, DebitReasons, Reasons
<1>e. Idle' = Idle /\ NoBet \notin Bets
  BY DEF Idle, Call, NoRow, Row, Bets, NoBet
<1>1. ASSUME NEW p \in Procs, NEW b \in Bets, PlaceEffect(p, b)
      PROVE  CallsFit'
  <2>1. \A q \in Procs : ~Busy(b) /\ q # p /\ ~proc[q].drain => proc[q].b # b
    BY DEF Busy
  <2>2. \A w \in Reasons : row[<<b, w>>].status = "none"
    BY <1>1, ReversibleFacts, KeyFacts DEF PlaceEffect, RowsFit
  <2>8. CallFits(p)'
    BY <1>1, <1>e, IdleFields, <2>2, KeyFacts DEF PlaceEffect, CallFits, KeyOf, Reversible, Reasons,
       DebitReasons, Becomes, Ends, BetIs, RowIs, Moves
  <2>9. \A q \in Procs : q # p => CallFits(q)'
    BY <1>1, <2>1, OtherCalls DEF PlaceEffect, Becomes, Ends, BetIs, Moves
  <2> QED BY <2>8, <2>9 DEF CallsFit
<1>2. ASSUME NEW p \in Procs, BetEndEffect(p)
      PROVE  CallsFit'
  <2>1. proc[p].b \in Bets /\ ~proc[p].drain /\ CallFits(p)
    BY <1>2 DEF BetEndEffect, CallsFit, CallFits
  <2>2. \A q \in Procs : q # p /\ ~proc[q].drain => proc[q].b # proc[p].b
    BY <1>2, <2>1, LoneCall DEF BetEndEffect, CallFits
  <2>8. CallFits(p)'
    BY <1>2, <1>e, IdleFields, <2>1 DEF BetEndEffect, CallFits, KeyOf, Reversible, Reasons, DebitReasons,
       Becomes, Ends, BetIs, RowIs, Moves
  <2>9. \A q \in Procs : q # p => CallFits(q)'
    BY <1>2, <2>1, <2>2, OtherCalls DEF BetEndEffect, Becomes, Ends, BetIs, Moves
  <2> QED BY <2>8, <2>9 DEF CallsFit
<1>3. ASSUME NEW p \in Procs, BetRetryEffect(p)
      PROVE  CallsFit'
  <2>1. proc[p].b \in Bets /\ CallFits(p)
    BY <1>3 DEF BetRetryEffect, CallsFit, CallFits
  <2>8. CallFits(p)'
    BY <1>3, <1>e, IdleFields, <2>1 DEF BetRetryEffect, CallFits, KeyOf, Reversible, Reasons, DebitReasons,
       Becomes, Ends, BetIs, RowIs, Moves
  <2>9. \A q \in Procs : q # p => CallFits(q)'
    BY <1>3, <2>1, OtherCalls DEF BetRetryEffect, Becomes, Ends, BetIs, Moves
  <2> QED BY <2>8, <2>9 DEF CallsFit
<1>4. ASSUME NEW p \in Procs, NEW b \in Bets, RecoverEffect(p, b)
      PROVE  CallsFit'
  <2>8. CallFits(p)'
    BY <1>4, <1>e, IdleFields DEF RecoverEffect, CallFits, KeyOf, Reversible, Reasons, DebitReasons, Becomes,
       Ends, BetIs, RowIs, Moves
  <2>9. \A q \in Procs : q # p => CallFits(q)'
    BY <1>4, OtherCalls DEF RecoverEffect, Becomes, Ends, BetIs, Moves
  <2> QED BY <2>8, <2>9 DEF CallsFit
<1>5. ASSUME NEW p \in Procs, NEW b \in Bets, WinStartEffect(p, b)
      PROVE  CallsFit'
  <2>1. \A q \in Procs : ~Busy(b) /\ q # p /\ ~proc[q].drain => proc[q].b # b
    BY DEF Busy
  <2>8. CallFits(p)'
    BY <1>5, <1>e, IdleFields DEF WinStartEffect, CallFits, KeyOf, Reversible, Reasons, DebitReasons, Becomes,
       Ends, BetIs, RowIs, Moves
  <2>9. \A q \in Procs : q # p => CallFits(q)'
    BY <1>5, <2>1, OtherCalls DEF WinStartEffect, Becomes, Ends, BetIs, Moves
  <2> QED BY <2>8, <2>9 DEF CallsFit
<1>6. ASSUME NEW p \in Procs, WinEffect(p)
      PROVE  CallsFit'
  <2>1. proc[p].b \in Bets /\ ~proc[p].drain /\ CallFits(p)
    BY <1>6 DEF WinEffect, CallsFit, CallFits
  <2>2. \A q \in Procs : q # p /\ ~proc[q].drain => proc[q].b # proc[p].b
    BY <1>6, <2>1, LoneCall DEF WinEffect, CallFits
  <2>8. CallFits(p)'
    BY <1>6, <1>e, IdleFields, <2>1 DEF WinEffect, CallFits, KeyOf, Reversible, Reasons, DebitReasons, Becomes,
       Ends, BetIs, RowIs, Moves
  <2>9. \A q \in Procs : q # p => CallFits(q)'
    BY <1>6, <2>1, <2>2, OtherCalls DEF WinEffect, Becomes, Ends, BetIs, Moves
  <2> QED BY <2>8, <2>9 DEF CallsFit
<1>7. ASSUME NEW b \in Bets, BustEffect(b)
      PROVE  CallsFit'
  <2>1. \A q \in Procs : ~proc[q].drain => proc[q].b # b
    BY <1>7 DEF BustEffect, Busy
  <2>2. ASSUME NEW q \in Procs PROVE CallFits(q)'
    <3>1. CallFits(q) /\ proc[q].b \in Bets \cup {NoBet}
      BY CallFields DEF CallsFit
    <3> QED BY <1>7, <2>1, <3>1, OtherCall DEF BustEffect, BetIs, CallFits
  <2> QED BY <2>2 DEF CallsFit
<1>8. ASSUME NEW p \in Procs, NEW b \in Bets, VoidEffect(p, b)
      PROVE  CallsFit'
  <2>1. \A q \in Procs : ~Busy(b) /\ q # p /\ ~proc[q].drain => proc[q].b # b
    BY DEF Busy
  <2>8. CallFits(p)'
    BY <1>8, <1>e, IdleFields DEF VoidEffect, CallFits, KeyOf, Reversible, Reasons, DebitReasons, Becomes,
       Ends, BetIs, RowIs, Moves
  <2>9. \A q \in Procs : q # p => CallFits(q)'
    BY <1>8, <2>1, OtherCalls DEF VoidEffect, Becomes, Ends, BetIs, Moves
  <2> QED BY <2>8, <2>9 DEF CallsFit
<1>9. ASSUME NEW p \in Procs, ClaimEffect(p)
      PROVE  CallsFit'
  <2>1. proc[p].b \in Bets /\ CallFits(p)
    BY <1>9 DEF ClaimEffect, CallsFit, CallFits
  <2>8. CallFits(p)'
    BY <1>9, <1>e, IdleFields, <2>1 DEF ClaimEffect, CallFits, KeyOf, Reversible, Reasons, DebitReasons,
       Becomes, Ends, BetIs, RowIs, Moves
  <2>9. \A q \in Procs : q # p => CallFits(q)'
    BY <1>9, <2>1, OtherCalls DEF ClaimEffect, Becomes, Ends, BetIs, Moves
  <2> QED BY <2>8, <2>9 DEF CallsFit
<1>10. ASSUME NEW p \in Procs, InsertEffect(p)
      PROVE  CallsFit'
  <2>1. proc[p].b \in Bets /\ CallFits(p)
    BY <1>10 DEF InsertEffect, CallsFit, CallFits
  <2>2. \A k \in Keys : row[k].status # "none" => row'[k].status # "none"
    BY <1>10 DEF InsertEffect, RowIs
  <2>3. ASSUME NEW q \in Procs, q # p, proc[q].pc = "bet"
        PROVE  \A w \in Reasons : row'[<<proc[q].b, w>>].status = "none"
    <3>1. proc[q].b \in Bets /\ \A w \in Reasons : row[<<proc[q].b, w>>].status = "none"
      BY <2>3 DEF CallsFit, CallFits
    <3>2. KeyOf(p) \in Keys /\ (row' = row \/ ~proc[p].drain)
      BY <1>10 DEF InsertEffect, CallsFit, CallFits
    <3>3. ASSUME NEW w \in Reasons PROVE row' = row \/ <<proc[q].b, w>> # KeyOf(p)
      <4>1. proc[q].b # proc[p].b \/ proc[p].drain
        BY <2>1, <2>3, <3>1, LoneCall DEF CallsFit, CallFits
      <4> QED BY <3>2, <4>1 DEF KeyOf
    <3> QED BY <1>10, <3>1, <3>3, KeyFacts DEF InsertEffect, RowIs
  <2>8. CallFits(p)'
    BY <1>10, <1>e, <2>1, <2>2, IdleFields DEF InsertEffect, CallFits, KeyOf, Reversible, Reasons,
       DebitReasons, Becomes, Ends, BetIs, RowIs, Moves
  <2>9. ASSUME NEW q \in Procs, q # p PROVE CallFits(q)'
    <3>1. proc'[q] = proc[q] /\ bet' = bet
      BY <1>10, <2>9 DEF InsertEffect, Becomes, Ends, Moves
    <3>2. CallFits(q)
      BY DEF CallsFit
    <3> QED BY <2>2, <2>3, <2>9, <3>1, <3>2, OtherCall
  <2> QED BY <2>8, <2>9 DEF CallsFit
<1>11. ASSUME NEW p \in Procs, AcquireEffect(p)
      PROVE  CallsFit'
  <2>1. proc[p].b \in Bets /\ CallFits(p)
    BY <1>11 DEF AcquireEffect, CallsFit, CallFits
  <2>2. \A k \in Keys : row[k].status # "none" => row'[k].status # "none"
    BY <1>11 DEF AcquireEffect, RowIs, Pinned
  <2>3. ASSUME NEW q \in Procs, q # p, proc[q].pc = "bet"
        PROVE  \A w \in Reasons : row'[<<proc[q].b, w>>].status = "none"
    <3>1. proc[q].b \in Bets /\ \A w \in Reasons : row[<<proc[q].b, w>>].status = "none"
      BY <2>3 DEF CallsFit, CallFits
    <3>2. KeyOf(p) \in Keys /\ (row' = row \/ row[KeyOf(p)].status # "none")
      BY <1>11 DEF AcquireEffect, LeasesExclude
    <3>3. ASSUME NEW w \in Reasons PROVE row' = row \/ <<proc[q].b, w>> # KeyOf(p)
      BY <3>1, <3>2
    <3> QED BY <1>11, <3>1, <3>3, KeyFacts DEF AcquireEffect, RowIs
  <2>8. CallFits(p)'
    BY <1>11, <1>e, <2>1, <2>2, IdleFields DEF AcquireEffect, CallFits, KeyOf, Reversible, Reasons,
       DebitReasons, Becomes, Ends, BetIs, RowIs, Moves, Pinned
  <2>9. ASSUME NEW q \in Procs, q # p PROVE CallFits(q)'
    <3>1. proc'[q] = proc[q] /\ bet' = bet
      BY <1>11, <2>9 DEF AcquireEffect, Becomes, Ends, Moves
    <3>2. CallFits(q)
      BY DEF CallsFit
    <3> QED BY <2>2, <2>3, <2>9, <3>1, <3>2, OtherCall
  <2> QED BY <2>8, <2>9 DEF CallsFit
<1>12. ASSUME NEW p \in Procs, ClaimErrsEffect(p)
      PROVE  CallsFit'
  <2>1. proc[p].b \in Bets /\ CallFits(p)
    BY <1>12 DEF ClaimErrsEffect, CallsFit, CallFits
  <2>8. CallFits(p)'
    BY <1>12, <1>e, IdleFields, <2>1 DEF ClaimErrsEffect, CallFits, KeyOf, Reversible, Reasons, DebitReasons,
       Becomes, Ends, BetIs, RowIs, Moves
  <2>9. \A q \in Procs : q # p => CallFits(q)'
    BY <1>12, <2>1, OtherCalls DEF ClaimErrsEffect, Becomes, Ends, BetIs, Moves
  <2> QED BY <2>8, <2>9 DEF CallsFit
<1>13. ASSUME NEW p \in Procs, EmitEffect(p)
      PROVE  CallsFit'
  <2>1. proc[p].b \in Bets /\ CallFits(p)
    BY <1>13 DEF EmitEffect, CallsFit, CallFits
  <2>8. CallFits(p)'
    BY <1>13, <1>e, IdleFields, <2>1 DEF EmitEffect, CallFits, KeyOf, Reversible, Reasons, DebitReasons,
       Becomes, Ends, BetIs, RowIs, Moves
  <2>9. \A q \in Procs : q # p => CallFits(q)'
    BY <1>13, <2>1, OtherCalls DEF EmitEffect, Becomes, Ends, BetIs, Moves
  <2> QED BY <2>8, <2>9 DEF CallsFit
<1>14. ASSUME NEW p \in Procs, MarkEffect(p)
      PROVE  CallsFit'
  <2>1. proc[p].b \in Bets /\ CallFits(p)
    BY <1>14 DEF MarkEffect, CallsFit, CallFits
  <2>2. \A k \in Keys : row[k].status # "none" => row'[k].status # "none"
    BY <1>14 DEF MarkEffect, RowIs, Marked
  <2>3. ASSUME NEW q \in Procs, q # p, proc[q].pc = "bet"
        PROVE  \A w \in Reasons : row'[<<proc[q].b, w>>].status = "none"
    <3>1. proc[q].b \in Bets /\ \A w \in Reasons : row[<<proc[q].b, w>>].status = "none"
      BY <2>3 DEF CallsFit, CallFits
    <3>2. KeyOf(p) \in Keys /\ (row' = row \/ row[KeyOf(p)] # NoRow)
      BY <1>14 DEF MarkEffect, Marked
    <3>3. ASSUME NEW w \in Reasons PROVE row' = row \/ <<proc[q].b, w>> # KeyOf(p)
      BY <3>1, <3>2, KeyFacts DEF RowsFit
    <3> QED BY <1>14, <3>1, <3>3, KeyFacts DEF MarkEffect, RowIs, Marked
  <2>8. CallFits(p)'
    BY <1>14, <1>e, <2>1, <2>2, IdleFields DEF MarkEffect, CallFits, KeyOf, Reversible, Reasons, DebitReasons,
       Becomes, Ends, BetIs, RowIs, Moves, Marked
  <2>9. ASSUME NEW q \in Procs, q # p PROVE CallFits(q)'
    <3>1. proc'[q] = proc[q] /\ bet' = bet
      BY <1>14, <2>9 DEF MarkEffect, Becomes, Ends, Moves
    <3>2. CallFits(q)
      BY DEF CallsFit
    <3> QED BY <2>2, <2>3, <2>9, <3>1, <3>2, OtherCall
  <2> QED BY <2>8, <2>9 DEF CallsFit
<1>15. ASSUME NEW p \in Procs, MarkErrsEffect(p)
      PROVE  CallsFit'
  <2>1. proc[p].b \in Bets /\ CallFits(p)
    BY <1>15 DEF MarkErrsEffect, CallsFit, CallFits
  <2>8. CallFits(p)'
    BY <1>15, <1>e, IdleFields, <2>1 DEF MarkErrsEffect, CallFits, KeyOf, Reversible, Reasons, DebitReasons,
       Becomes, Ends, BetIs, RowIs, Moves
  <2>9. \A q \in Procs : q # p => CallFits(q)'
    BY <1>15, <2>1, OtherCalls DEF MarkErrsEffect, Becomes, Ends, BetIs, Moves
  <2> QED BY <2>8, <2>9 DEF CallsFit
<1>16. ASSUME NEW p \in Procs, ReturnEffect(p)
      PROVE  CallsFit'
  <2>1. proc[p].b \in Bets /\ CallFits(p)
    BY <1>16 DEF ReturnEffect, CallsFit, CallFits
  <2>2. ~proc[p].drain /\ proc[p].why \in DebitReasons => \A q \in Procs : q # p /\ ~proc[q].drain => proc[q].b # proc[p].b
    BY <2>1, LoneCall DEF CallFits, Reasons
  <2>3. ~proc[p].drain /\ proc[p].why = "void_refund" => bet[proc[p].b] \in {"voiding", "clawing", "voided"}
    BY <2>1, ReversibleFacts DEF CallFits, Reasons, DebitReasons
  <2>8. CallFits(p)'
    BY <1>16, <1>e, IdleFields, <2>1 DEF ReturnEffect, CallFits, KeyOf, Reversible, Reasons, DebitReasons,
       Becomes, Ends, BetIs, RowIs, Moves
  <2>9. \A q \in Procs : q # p => CallFits(q)'
    BY <1>16, <2>1, <2>2, <2>3, OtherCalls DEF ReturnEffect, Becomes, Ends, BetIs, Moves
  <2> QED BY <2>8, <2>9 DEF CallsFit
<1>17. ASSUME NEW p \in Procs, DieEffect(p)
      PROVE  CallsFit'
  <2>1. ASSUME NEW q \in Procs PROVE CallFits(q)'
    <3>1. CASE q = p
      BY <1>17, <1>e, <3>1, IdleFields DEF DieEffect, Ends, CallFits, Reasons, DebitReasons
    <3>2. CASE q # p
      <4>1. CallFits(q) /\ proc'[q] = proc[q] /\ row' = row /\ bet' = bet
        BY <1>17, <3>2 DEF DieEffect, Ends, CallsFit
      <4> QED BY <4>1, OtherCall DEF CallFits
    <3> QED BY <3>1, <3>2
  <2> QED BY <2>1 DEF CallsFit
<1>18. ASSUME NEW b \in Bets, ArrivesEffect(b)
      PROVE  CallsFit'
  BY <1>18, <1>22 DEF ArrivesEffect
<1>19. ASSUME NEW k \in Keys, DrainEffect(k)
      PROVE  CallsFit'
  <2>0. Sweeper \in Procs
    BY DEF Procs
  <2>1. ASSUME NEW q \in Procs PROVE CallFits(q)'
    <3>1. CASE q = Sweeper
      BY <1>19, <2>0, <3>1, KeyFacts DEF DrainEffect, Becomes, CallFits, Owed, KeyOf
    <3>2. CASE q # Sweeper
      <4>1. CallFits(q) /\ proc'[q] = proc[q] /\ row' = row /\ bet' = bet
        BY <1>19, <3>2 DEF DrainEffect, Becomes, CallsFit
      <4> QED BY <4>1, OtherCall DEF CallFits
    <3> QED BY <3>1, <3>2
  <2> QED BY <2>1 DEF CallsFit
<1>20. ASSUME NEW k \in Keys, ExpireEffect(k)
      PROVE  CallsFit'
  <2>1. /\ \A j \in Keys : row[j].status # "none" <=> row'[j].status # "none"
        /\ UNCHANGED <<bet, proc>>
    BY <1>20 DEF ExpireEffect, RowIs
  <2>2. ASSUME NEW q \in Procs PROVE CallFits(q)'
    <3>1. CallFits(q) /\ proc[q].b \in Bets \cup {NoBet}
      BY CallFields DEF CallsFit
    <3>2. proc[q].pc = "bet" => \A w \in Reasons : row'[<<proc[q].b, w>>].status = "none"
      BY <2>1, <3>1, KeyFacts DEF CallFits
    <3> QED BY <2>1, <3>1, <3>2, OtherCall
  <2> QED BY <2>2 DEF CallsFit
<1>21. CASE UNCHANGED vars
  BY <1>21, <1>22 DEF vars
<1> QED BY <1>1, <1>2, <1>3, <1>4, <1>5, <1>6, <1>7, <1>8, <1>9, <1>10, <1>11, <1>12, <1>13, <1>14, <1>15,
       <1>16, <1>17, <1>18, <1>19, <1>20, <1>21 DEF Effect

\* Calls stay alone on their bets when one call changes, to a bet at rest if at all.
LEMMA AloneKept ==
  ASSUME OneCallPerBet, NEW p \in Procs, \A q \in Procs : q # p => proc'[q] = proc[q],
         \A q \in Procs : proc'[q].b # NoBet =>
           (bet[proc'[q].b] \in {"voiding", "clawing", "voided"} =>
              bet'[proc'[q].b] \in {"voiding", "clawing", "voided"}),
         \/ proc'[p].drain \/ proc'[p].b = NoBet
         \/ proc'[p].b = proc[p].b /\ ~proc[p].drain
         \/ \A q \in Procs : q # p /\ ~proc[q].drain => proc[q].b # proc'[p].b
         \/ bet[proc'[p].b] \in {"voiding", "clawing", "voided"}
  PROVE  OneCallPerBet'
  BY DEF OneCallPerBet

\* No second call starts on a bet, voids aside.
LEMMA AloneNext ==
  ASSUME TypeOK, TypeOK', CallsFit, OneCallPerBet, Effect
  PROVE  OneCallPerBet'
<1>t. \A q \in Procs : proc'[q].b # NoBet => proc'[q].b \in Bets
  BY DEF TypeOK, CallType
<1>c. \A p \in Procs : /\ proc[p].pc \in {"bet", "win"} => bet[proc[p].b] \in {"placing", "winning", "pending"} /\ ~proc[p].drain
                       /\ ~proc[p].drain /\ proc[p].why \in DebitReasons => bet[proc[p].b] = "placing"
  BY DEF CallsFit, CallFits, Reasons
<1>1. ASSUME NEW p \in Procs, NEW b \in Bets, PlaceEffect(p, b)
      PROVE  OneCallPerBet'
  <2>1. \A a \in Bets : bet[a] \in {"voiding", "clawing", "voided"} => bet'[a] \in {"voiding", "clawing", "voided"}
    BY <1>1, <1>c DEF PlaceEffect, BetIs
  <2>2. /\ \A q \in Procs : q # p => proc'[q] = proc[q]
        /\ \/ proc'[p].drain \/ proc'[p].b = NoBet
           \/ proc'[p].b = proc[p].b /\ ~proc[p].drain
           \/ \A q \in Procs : q # p /\ ~proc[q].drain => proc[q].b # proc'[p].b
           \/ bet[proc'[p].b] \in {"voiding", "clawing", "voided"}
    BY <1>1, IdleFields, <1>c DEF PlaceEffect, Busy, Becomes, Ends, Moves
  <2> QED BY <1>t, <2>1, <2>2, AloneKept
<1>2. ASSUME NEW p \in Procs, BetEndEffect(p)
      PROVE  OneCallPerBet'
  <2>1. \A a \in Bets : bet[a] \in {"voiding", "clawing", "voided"} => bet'[a] \in {"voiding", "clawing", "voided"}
    BY <1>2, <1>c DEF BetEndEffect, BetIs
  <2>2. /\ \A q \in Procs : q # p => proc'[q] = proc[q]
        /\ \/ proc'[p].drain \/ proc'[p].b = NoBet
           \/ proc'[p].b = proc[p].b /\ ~proc[p].drain
           \/ \A q \in Procs : q # p /\ ~proc[q].drain => proc[q].b # proc'[p].b
           \/ bet[proc'[p].b] \in {"voiding", "clawing", "voided"}
    BY <1>2, IdleFields, <1>c DEF BetEndEffect, Busy, Becomes, Ends, Moves
  <2> QED BY <1>t, <2>1, <2>2, AloneKept
<1>3. ASSUME NEW p \in Procs, BetRetryEffect(p)
      PROVE  OneCallPerBet'
  <2>1. \A a \in Bets : bet[a] \in {"voiding", "clawing", "voided"} => bet'[a] \in {"voiding", "clawing", "voided"}
    BY <1>3, <1>c DEF BetRetryEffect, BetIs
  <2>2. /\ \A q \in Procs : q # p => proc'[q] = proc[q]
        /\ \/ proc'[p].drain \/ proc'[p].b = NoBet
           \/ proc'[p].b = proc[p].b /\ ~proc[p].drain
           \/ \A q \in Procs : q # p /\ ~proc[q].drain => proc[q].b # proc'[p].b
           \/ bet[proc'[p].b] \in {"voiding", "clawing", "voided"}
    BY <1>3, IdleFields, <1>c DEF BetRetryEffect, Busy, Becomes, Ends, Moves
  <2> QED BY <1>t, <2>1, <2>2, AloneKept
<1>4. ASSUME NEW p \in Procs, NEW b \in Bets, RecoverEffect(p, b)
      PROVE  OneCallPerBet'
  <2>1. \A a \in Bets : bet[a] \in {"voiding", "clawing", "voided"} => bet'[a] \in {"voiding", "clawing", "voided"}
    BY <1>4, <1>c DEF RecoverEffect, BetIs
  <2>2. /\ \A q \in Procs : q # p => proc'[q] = proc[q]
        /\ \/ proc'[p].drain \/ proc'[p].b = NoBet
           \/ proc'[p].b = proc[p].b /\ ~proc[p].drain
           \/ \A q \in Procs : q # p /\ ~proc[q].drain => proc[q].b # proc'[p].b
           \/ bet[proc'[p].b] \in {"voiding", "clawing", "voided"}
    BY <1>4, IdleFields, <1>c DEF RecoverEffect, Busy, Becomes, Ends, Moves
  <2> QED BY <1>t, <2>1, <2>2, AloneKept
<1>5. ASSUME NEW p \in Procs, NEW b \in Bets, WinStartEffect(p, b)
      PROVE  OneCallPerBet'
  <2>1. \A a \in Bets : bet[a] \in {"voiding", "clawing", "voided"} => bet'[a] \in {"voiding", "clawing", "voided"}
    BY <1>5, <1>c DEF WinStartEffect, BetIs
  <2>2. /\ \A q \in Procs : q # p => proc'[q] = proc[q]
        /\ \/ proc'[p].drain \/ proc'[p].b = NoBet
           \/ proc'[p].b = proc[p].b /\ ~proc[p].drain
           \/ \A q \in Procs : q # p /\ ~proc[q].drain => proc[q].b # proc'[p].b
           \/ bet[proc'[p].b] \in {"voiding", "clawing", "voided"}
    BY <1>5, IdleFields, <1>c DEF WinStartEffect, Busy, Becomes, Ends, Moves
  <2> QED BY <1>t, <2>1, <2>2, AloneKept
<1>6. ASSUME NEW p \in Procs, WinEffect(p)
      PROVE  OneCallPerBet'
  <2>1. \A a \in Bets : bet[a] \in {"voiding", "clawing", "voided"} => bet'[a] \in {"voiding", "clawing", "voided"}
    BY <1>6, <1>c DEF WinEffect, BetIs
  <2>2. /\ \A q \in Procs : q # p => proc'[q] = proc[q]
        /\ \/ proc'[p].drain \/ proc'[p].b = NoBet
           \/ proc'[p].b = proc[p].b /\ ~proc[p].drain
           \/ \A q \in Procs : q # p /\ ~proc[q].drain => proc[q].b # proc'[p].b
           \/ bet[proc'[p].b] \in {"voiding", "clawing", "voided"}
    BY <1>6, IdleFields, <1>c DEF WinEffect, Busy, Becomes, Ends, Moves
  <2> QED BY <1>t, <2>1, <2>2, AloneKept
<1>7. ASSUME NEW b \in Bets, BustEffect(b)
      PROVE  OneCallPerBet'
  BY <1>7, CallFields DEF BustEffect, BetIs, OneCallPerBet
<1>8. ASSUME NEW p \in Procs, NEW b \in Bets, VoidEffect(p, b)
      PROVE  OneCallPerBet'
  <2>1. \A a \in Bets : bet[a] \in {"voiding", "clawing", "voided"} => bet'[a] \in {"voiding", "clawing", "voided"}
    BY <1>8, <1>c DEF VoidEffect, BetIs
  <2>2. /\ \A q \in Procs : q # p => proc'[q] = proc[q]
        /\ \/ proc'[p].drain \/ proc'[p].b = NoBet
           \/ proc'[p].b = proc[p].b /\ ~proc[p].drain
           \/ \A q \in Procs : q # p /\ ~proc[q].drain => proc[q].b # proc'[p].b
           \/ bet[proc'[p].b] \in {"voiding", "clawing", "voided"}
    BY <1>8, IdleFields, <1>c DEF VoidEffect, Busy, Becomes, Ends, Moves
  <2> QED BY <1>t, <2>1, <2>2, AloneKept
<1>9. ASSUME NEW p \in Procs, ClaimEffect(p)
      PROVE  OneCallPerBet'
  <2>1. \A a \in Bets : bet[a] \in {"voiding", "clawing", "voided"} => bet'[a] \in {"voiding", "clawing", "voided"}
    BY <1>9, <1>c DEF ClaimEffect, BetIs
  <2>2. /\ \A q \in Procs : q # p => proc'[q] = proc[q]
        /\ \/ proc'[p].drain \/ proc'[p].b = NoBet
           \/ proc'[p].b = proc[p].b /\ ~proc[p].drain
           \/ \A q \in Procs : q # p /\ ~proc[q].drain => proc[q].b # proc'[p].b
           \/ bet[proc'[p].b] \in {"voiding", "clawing", "voided"}
    BY <1>9, IdleFields, <1>c DEF ClaimEffect, Busy, Becomes, Ends, Moves
  <2> QED BY <1>t, <2>1, <2>2, AloneKept
<1>10. ASSUME NEW p \in Procs, InsertEffect(p)
      PROVE  OneCallPerBet'
  <2>1. \A a \in Bets : bet[a] \in {"voiding", "clawing", "voided"} => bet'[a] \in {"voiding", "clawing", "voided"}
    BY <1>10, <1>c DEF InsertEffect, BetIs
  <2>2. /\ \A q \in Procs : q # p => proc'[q] = proc[q]
        /\ \/ proc'[p].drain \/ proc'[p].b = NoBet
           \/ proc'[p].b = proc[p].b /\ ~proc[p].drain
           \/ \A q \in Procs : q # p /\ ~proc[q].drain => proc[q].b # proc'[p].b
           \/ bet[proc'[p].b] \in {"voiding", "clawing", "voided"}
    BY <1>10, IdleFields, <1>c DEF InsertEffect, Busy, Becomes, Ends, Moves
  <2> QED BY <1>t, <2>1, <2>2, AloneKept
<1>11. ASSUME NEW p \in Procs, AcquireEffect(p)
      PROVE  OneCallPerBet'
  <2>1. \A a \in Bets : bet[a] \in {"voiding", "clawing", "voided"} => bet'[a] \in {"voiding", "clawing", "voided"}
    BY <1>11, <1>c DEF AcquireEffect, BetIs
  <2>2. /\ \A q \in Procs : q # p => proc'[q] = proc[q]
        /\ \/ proc'[p].drain \/ proc'[p].b = NoBet
           \/ proc'[p].b = proc[p].b /\ ~proc[p].drain
           \/ \A q \in Procs : q # p /\ ~proc[q].drain => proc[q].b # proc'[p].b
           \/ bet[proc'[p].b] \in {"voiding", "clawing", "voided"}
    BY <1>11, IdleFields, <1>c DEF AcquireEffect, Busy, Becomes, Ends, Moves
  <2> QED BY <1>t, <2>1, <2>2, AloneKept
<1>12. ASSUME NEW p \in Procs, ClaimErrsEffect(p)
      PROVE  OneCallPerBet'
  <2>1. \A a \in Bets : bet[a] \in {"voiding", "clawing", "voided"} => bet'[a] \in {"voiding", "clawing", "voided"}
    BY <1>12, <1>c DEF ClaimErrsEffect, BetIs
  <2>2. /\ \A q \in Procs : q # p => proc'[q] = proc[q]
        /\ \/ proc'[p].drain \/ proc'[p].b = NoBet
           \/ proc'[p].b = proc[p].b /\ ~proc[p].drain
           \/ \A q \in Procs : q # p /\ ~proc[q].drain => proc[q].b # proc'[p].b
           \/ bet[proc'[p].b] \in {"voiding", "clawing", "voided"}
    BY <1>12, IdleFields, <1>c DEF ClaimErrsEffect, Busy, Becomes, Ends, Moves
  <2> QED BY <1>t, <2>1, <2>2, AloneKept
<1>13. ASSUME NEW p \in Procs, EmitEffect(p)
      PROVE  OneCallPerBet'
  <2>1. \A a \in Bets : bet[a] \in {"voiding", "clawing", "voided"} => bet'[a] \in {"voiding", "clawing", "voided"}
    BY <1>13, <1>c DEF EmitEffect, BetIs
  <2>2. /\ \A q \in Procs : q # p => proc'[q] = proc[q]
        /\ \/ proc'[p].drain \/ proc'[p].b = NoBet
           \/ proc'[p].b = proc[p].b /\ ~proc[p].drain
           \/ \A q \in Procs : q # p /\ ~proc[q].drain => proc[q].b # proc'[p].b
           \/ bet[proc'[p].b] \in {"voiding", "clawing", "voided"}
    BY <1>13, IdleFields, <1>c DEF EmitEffect, Busy, Becomes, Ends, Moves
  <2> QED BY <1>t, <2>1, <2>2, AloneKept
<1>14. ASSUME NEW p \in Procs, MarkEffect(p)
      PROVE  OneCallPerBet'
  <2>1. \A a \in Bets : bet[a] \in {"voiding", "clawing", "voided"} => bet'[a] \in {"voiding", "clawing", "voided"}
    BY <1>14, <1>c DEF MarkEffect, BetIs
  <2>2. /\ \A q \in Procs : q # p => proc'[q] = proc[q]
        /\ \/ proc'[p].drain \/ proc'[p].b = NoBet
           \/ proc'[p].b = proc[p].b /\ ~proc[p].drain
           \/ \A q \in Procs : q # p /\ ~proc[q].drain => proc[q].b # proc'[p].b
           \/ bet[proc'[p].b] \in {"voiding", "clawing", "voided"}
    BY <1>14, IdleFields, <1>c DEF MarkEffect, Busy, Becomes, Ends, Moves
  <2> QED BY <1>t, <2>1, <2>2, AloneKept
<1>15. ASSUME NEW p \in Procs, MarkErrsEffect(p)
      PROVE  OneCallPerBet'
  <2>1. \A a \in Bets : bet[a] \in {"voiding", "clawing", "voided"} => bet'[a] \in {"voiding", "clawing", "voided"}
    BY <1>15, <1>c DEF MarkErrsEffect, BetIs
  <2>2. /\ \A q \in Procs : q # p => proc'[q] = proc[q]
        /\ \/ proc'[p].drain \/ proc'[p].b = NoBet
           \/ proc'[p].b = proc[p].b /\ ~proc[p].drain
           \/ \A q \in Procs : q # p /\ ~proc[q].drain => proc[q].b # proc'[p].b
           \/ bet[proc'[p].b] \in {"voiding", "clawing", "voided"}
    BY <1>15, IdleFields, <1>c DEF MarkErrsEffect, Busy, Becomes, Ends, Moves
  <2> QED BY <1>t, <2>1, <2>2, AloneKept
<1>16. ASSUME NEW p \in Procs, ReturnEffect(p)
      PROVE  OneCallPerBet'
  <2>1. \A a \in Bets : bet[a] \in {"voiding", "clawing", "voided"} => bet'[a] \in {"voiding", "clawing", "voided"}
    BY <1>16, <1>c DEF ReturnEffect, BetIs
  <2>2. /\ \A q \in Procs : q # p => proc'[q] = proc[q]
        /\ \/ proc'[p].drain \/ proc'[p].b = NoBet
           \/ proc'[p].b = proc[p].b /\ ~proc[p].drain
           \/ \A q \in Procs : q # p /\ ~proc[q].drain => proc[q].b # proc'[p].b
           \/ bet[proc'[p].b] \in {"voiding", "clawing", "voided"}
    BY <1>16, IdleFields, <1>c DEF ReturnEffect, Busy, Becomes, Ends, Moves
  <2> QED BY <1>t, <2>1, <2>2, AloneKept
<1>17. ASSUME NEW p \in Procs, DieEffect(p)
      PROVE  OneCallPerBet'
  <2>1. \A a \in Bets : bet[a] \in {"voiding", "clawing", "voided"} => bet'[a] \in {"voiding", "clawing", "voided"}
    BY <1>17, <1>c DEF DieEffect, BetIs
  <2>2. /\ \A q \in Procs : q # p => proc'[q] = proc[q]
        /\ \/ proc'[p].drain \/ proc'[p].b = NoBet
           \/ proc'[p].b = proc[p].b /\ ~proc[p].drain
           \/ \A q \in Procs : q # p /\ ~proc[q].drain => proc[q].b # proc'[p].b
           \/ bet[proc'[p].b] \in {"voiding", "clawing", "voided"}
    BY <1>17, IdleFields, <1>c DEF DieEffect, Busy, Becomes, Ends, Moves
  <2> QED BY <1>t, <2>1, <2>2, AloneKept
<1>18. ASSUME NEW b \in Bets, ArrivesEffect(b)
      PROVE  OneCallPerBet'
  BY <1>18 DEF ArrivesEffect, OneCallPerBet
<1>19. ASSUME NEW k \in Keys, DrainEffect(k)
      PROVE  OneCallPerBet'
  <2>0. Sweeper \in Procs
    BY DEF Procs
  <2> QED BY <1>19, <2>0, AloneKept DEF DrainEffect, Becomes
<1>20. ASSUME NEW k \in Keys, ExpireEffect(k)
      PROVE  OneCallPerBet'
  BY <1>20 DEF ExpireEffect, OneCallPerBet
<1>21. CASE UNCHANGED vars
  BY <1>21 DEF vars, OneCallPerBet
<1> QED BY <1>1, <1>2, <1>3, <1>4, <1>5, <1>6, <1>7, <1>8, <1>9, <1>10, <1>11, <1>12, <1>13, <1>14, <1>15,
       <1>16, <1>17, <1>18, <1>19, <1>20, <1>21 DEF Effect

\* No second bet takes the slot.
LEMMA SlotNext ==
  ASSUME TypeOK, CallsFit, OneBetPerSlot, Effect
  PROVE  OneBetPerSlot'
<1>c. \A p \in Procs : /\ proc[p].pc \in {"bet", "win"} => bet[proc[p].b] \in {"placing", "winning", "pending"}
                       /\ ~proc[p].drain /\ proc[p].why \in Reasons => bet[proc[p].b] \in {"placing", "voiding", "clawing", "voided"}
  BY ReversibleFacts DEF CallsFit, CallFits, Reasons, DebitReasons
<1>1. ASSUME NEW p \in Procs, NEW b \in Bets, PlaceEffect(p, b)
      PROVE  OneBetPerSlot'
  BY <1>1 DEF PlaceEffect, BetIs, OneBetPerSlot
<1>2. ASSUME NEW p \in Procs, BetEndEffect(p)
      PROVE  OneBetPerSlot'
  <2>1. \A a \in Bets : bet'[a] \notin {"new", "rejected"} => bet[a] \notin {"new", "rejected"}
    BY <1>2, <1>c DEF BetEndEffect, BetIs
  <2> QED BY <2>1 DEF OneBetPerSlot
<1>3. ASSUME NEW p \in Procs, BetRetryEffect(p)
      PROVE  OneBetPerSlot'
  <2>1. \A a \in Bets : bet'[a] \notin {"new", "rejected"} => bet[a] \notin {"new", "rejected"}
    BY <1>3, <1>c DEF BetRetryEffect, BetIs
  <2> QED BY <2>1 DEF OneBetPerSlot
<1>4. ASSUME NEW p \in Procs, NEW b \in Bets, RecoverEffect(p, b)
      PROVE  OneBetPerSlot'
  <2>1. \A a \in Bets : bet'[a] \notin {"new", "rejected"} => bet[a] \notin {"new", "rejected"}
    BY <1>4, <1>c DEF RecoverEffect, BetIs
  <2> QED BY <2>1 DEF OneBetPerSlot
<1>5. ASSUME NEW p \in Procs, NEW b \in Bets, WinStartEffect(p, b)
      PROVE  OneBetPerSlot'
  <2>1. \A a \in Bets : bet'[a] \notin {"new", "rejected"} => bet[a] \notin {"new", "rejected"}
    BY <1>5, <1>c DEF WinStartEffect, BetIs
  <2> QED BY <2>1 DEF OneBetPerSlot
<1>6. ASSUME NEW p \in Procs, WinEffect(p)
      PROVE  OneBetPerSlot'
  <2>1. \A a \in Bets : bet'[a] \notin {"new", "rejected"} => bet[a] \notin {"new", "rejected"}
    BY <1>6, <1>c DEF WinEffect, BetIs
  <2> QED BY <2>1 DEF OneBetPerSlot
<1>7. ASSUME NEW b \in Bets, BustEffect(b)
      PROVE  OneBetPerSlot'
  <2>1. \A a \in Bets : bet'[a] \notin {"new", "rejected"} => bet[a] \notin {"new", "rejected"}
    BY <1>7, <1>c DEF BustEffect, BetIs
  <2> QED BY <2>1 DEF OneBetPerSlot
<1>8. ASSUME NEW p \in Procs, NEW b \in Bets, VoidEffect(p, b)
      PROVE  OneBetPerSlot'
  <2>1. \A a \in Bets : bet'[a] \notin {"new", "rejected"} => bet[a] \notin {"new", "rejected"}
    BY <1>8, <1>c DEF VoidEffect, BetIs
  <2> QED BY <2>1 DEF OneBetPerSlot
<1>9. ASSUME NEW p \in Procs, ClaimEffect(p)
      PROVE  OneBetPerSlot'
  <2>1. \A a \in Bets : bet'[a] \notin {"new", "rejected"} => bet[a] \notin {"new", "rejected"}
    BY <1>9, <1>c DEF ClaimEffect, BetIs
  <2> QED BY <2>1 DEF OneBetPerSlot
<1>10. ASSUME NEW p \in Procs, InsertEffect(p)
      PROVE  OneBetPerSlot'
  <2>1. \A a \in Bets : bet'[a] \notin {"new", "rejected"} => bet[a] \notin {"new", "rejected"}
    BY <1>10, <1>c DEF InsertEffect, BetIs
  <2> QED BY <2>1 DEF OneBetPerSlot
<1>11. ASSUME NEW p \in Procs, AcquireEffect(p)
      PROVE  OneBetPerSlot'
  <2>1. \A a \in Bets : bet'[a] \notin {"new", "rejected"} => bet[a] \notin {"new", "rejected"}
    BY <1>11, <1>c DEF AcquireEffect, BetIs
  <2> QED BY <2>1 DEF OneBetPerSlot
<1>12. ASSUME NEW p \in Procs, ClaimErrsEffect(p)
      PROVE  OneBetPerSlot'
  <2>1. \A a \in Bets : bet'[a] \notin {"new", "rejected"} => bet[a] \notin {"new", "rejected"}
    BY <1>12, <1>c DEF ClaimErrsEffect, BetIs
  <2> QED BY <2>1 DEF OneBetPerSlot
<1>13. ASSUME NEW p \in Procs, EmitEffect(p)
      PROVE  OneBetPerSlot'
  <2>1. \A a \in Bets : bet'[a] \notin {"new", "rejected"} => bet[a] \notin {"new", "rejected"}
    BY <1>13, <1>c DEF EmitEffect, BetIs
  <2> QED BY <2>1 DEF OneBetPerSlot
<1>14. ASSUME NEW p \in Procs, MarkEffect(p)
      PROVE  OneBetPerSlot'
  <2>1. \A a \in Bets : bet'[a] \notin {"new", "rejected"} => bet[a] \notin {"new", "rejected"}
    BY <1>14, <1>c DEF MarkEffect, BetIs
  <2> QED BY <2>1 DEF OneBetPerSlot
<1>15. ASSUME NEW p \in Procs, MarkErrsEffect(p)
      PROVE  OneBetPerSlot'
  <2>1. \A a \in Bets : bet'[a] \notin {"new", "rejected"} => bet[a] \notin {"new", "rejected"}
    BY <1>15, <1>c DEF MarkErrsEffect, BetIs
  <2> QED BY <2>1 DEF OneBetPerSlot
<1>16. ASSUME NEW p \in Procs, ReturnEffect(p)
      PROVE  OneBetPerSlot'
  <2>1. \A a \in Bets : bet'[a] \notin {"new", "rejected"} => bet[a] \notin {"new", "rejected"}
    BY <1>16, <1>c DEF ReturnEffect, BetIs, Reasons
  <2> QED BY <2>1 DEF OneBetPerSlot
<1>17. ASSUME NEW p \in Procs, DieEffect(p)
      PROVE  OneBetPerSlot'
  <2>1. \A a \in Bets : bet'[a] \notin {"new", "rejected"} => bet[a] \notin {"new", "rejected"}
    BY <1>17, <1>c DEF DieEffect, BetIs
  <2> QED BY <2>1 DEF OneBetPerSlot
<1>18. ASSUME NEW b \in Bets, ArrivesEffect(b)
      PROVE  OneBetPerSlot'
  <2>1. \A a \in Bets : bet'[a] \notin {"new", "rejected"} => bet[a] \notin {"new", "rejected"}
    BY <1>18, <1>c DEF ArrivesEffect, BetIs
  <2> QED BY <2>1 DEF OneBetPerSlot
<1>19. ASSUME NEW k \in Keys, DrainEffect(k)
      PROVE  OneBetPerSlot'
  <2>1. \A a \in Bets : bet'[a] \notin {"new", "rejected"} => bet[a] \notin {"new", "rejected"}
    BY <1>19, <1>c DEF DrainEffect, BetIs
  <2> QED BY <2>1 DEF OneBetPerSlot
<1>20. ASSUME NEW k \in Keys, ExpireEffect(k)
      PROVE  OneBetPerSlot'
  <2>1. \A a \in Bets : bet'[a] \notin {"new", "rejected"} => bet[a] \notin {"new", "rejected"}
    BY <1>20, <1>c DEF ExpireEffect, BetIs
  <2> QED BY <2>1 DEF OneBetPerSlot
<1>21. CASE UNCHANGED vars
  BY <1>21 DEF vars, OneBetPerSlot
<1> QED BY <1>1, <1>2, <1>3, <1>4, <1>5, <1>6, <1>7, <1>8, <1>9, <1>10, <1>11, <1>12, <1>13, <1>14, <1>15,
       <1>16, <1>17, <1>18, <1>19, <1>20, <1>21 DEF Effect

\* What the operator has undone stays undone, unless it is asked for it again.
LEMMA AppliedKept ==
  ASSUME NEW k \in Keys, Applied(k),
         charge' \in {charge, NoBet} \/ charge' # k[1],
         paid' \subseteq paid \/ k[2] # "void_reclaim" \/ \E x : x # k[1] /\ paid' \subseteq paid \cup {x}
  PROVE  Applied(k)'
  BY KeyFacts DEF Applied, Bets, NoBet

\* The keys of rows, and of calls that are about to confirm.
Settling(k) == row[k].status = "confirmed" \/ \E q \in Procs : proc[q].pc = "confirm" /\ KeyOf(q) = k

\* Nobody debits or pays a bet that is being reversed.
LEMMA NoLateMove ==
  ASSUME TypeOK, RowsFit, CallsFit, OneCallPerBet, NEW p \in Procs, NEW k \in Keys, Settling(k), k[1] = proc[p].b
  PROVE  proc[p].pc # "bet" /\ (k[2] = "void_reclaim" => proc[p].pc # "win")
<1>1. CASE row[k].status = "confirmed"
  <2>1. proc[p].pc = "bet" => row[k].status = "none"
    BY KeyFacts DEF CallsFit, CallFits
  <2>2. proc[p].pc = "win" => bet[k[1]] \in {"winning", "pending"}
    BY DEF CallsFit, CallFits
  <2> QED BY <1>1, <2>1, <2>2, ReversibleFacts DEF RowsFit
<1>2. ASSUME NEW q \in Procs, proc[q].pc = "confirm", KeyOf(q) = k
      PROVE  proc[p].pc # "bet" /\ (k[2] = "void_reclaim" => proc[p].pc # "win")
  <2>0. k[1] = proc[q].b /\ k[2] = proc[q].why /\ proc[q].b = proc[p].b /\ proc[q].b \in Bets
    BY <1>2, KeyFacts DEF KeyOf
  <2>1. CASE proc[q].drain
    <3>1. row[k].status # "none" /\ k = <<proc[p].b, proc[q].why>> /\ proc[q].why \in Reasons
      BY <1>2, <2>0, <2>1, KeyFacts DEF CallsFit, CallFits
    <3>2. proc[p].pc = "bet" => row[k].status = "none"
      BY <3>1 DEF CallsFit, CallFits
    <3>3. proc[p].pc = "win" => bet[k[1]] \in {"winning", "pending"}
      BY DEF CallsFit, CallFits
    <3> QED BY <3>1, <3>2, <3>3, ReversibleFacts DEF RowsFit
  <2>2. CASE ~proc[q].drain
    <3>1. bet[proc[q].b] \in {"placing", "voiding", "clawing", "voided"} /\ proc[q].pc = "confirm"
      BY <1>2, <2>2, ReversibleFacts DEF CallsFit, CallFits, Reasons, DebitReasons
    <3>2. proc[p].pc = "bet" => bet[proc[p].b] = "placing" /\ ~proc[p].drain
      BY DEF CallsFit, CallFits
    <3>3. proc[p].pc = "win" => bet[proc[p].b] \in {"winning", "pending"}
      BY DEF CallsFit, CallFits
    <3>4. proc[p].pc # "bet"
      BY <2>0, <2>2, <3>1, <3>2, LoneCall
    <3> QED BY <2>0, <3>1, <3>3, <3>4
  <2> QED BY <2>1, <2>2
<1> QED BY <1>1, <1>2 DEF Settling

\* What is confirmed was undone and stays undone.
LEMMA ConfirmedNext ==
  ASSUME TypeOK, RowsFit, CallsFit, CallsFit', OneCallPerBet, ConfirmedIsApplied, Effect
  PROVE  ConfirmedIsApplied'
<1>m. mode' = mode
  BY DEF Effect, PlaceEffect, RecoverEffect, WinStartEffect, VoidEffect, BetEndEffect, BetRetryEffect, WinEffect,
         ClaimEffect, InsertEffect, AcquireEffect, ClaimErrsEffect, EmitEffect, MarkEffect, MarkErrsEffect,
         ReturnEffect, DieEffect, BustEffect, ArrivesEffect, DrainEffect, ExpireEffect, vars
<1> SUFFICES ASSUME mode # "late" PROVE ConfirmedIsApplied'
  BY <1>m DEF ConfirmedIsApplied
<1>w. \A p \in Procs : proc[p].pc \notin {"idle", "bet", "win"} => KeyOf(p) \in Keys
  BY KeyFacts DEF CallsFit, CallFits, KeyOf
<1>v. \A p \in Procs : proc'[p].pc \notin {"idle", "bet", "win"} => KeyOf(p)' \in Keys
  BY KeyFacts DEF CallsFit, CallFits, KeyOf
<1>a. mode # "late" /\ wire = {} /\ \A k \in Keys : Settling(k) => Applied(k)
  BY <1>w DEF ConfirmedIsApplied, Settling
<1>b. ASSUME wire' = wire, \A k \in Keys : Settling(k)' => Applied(k)' PROVE ConfirmedIsApplied'
  BY <1>a, <1>b, <1>v DEF ConfirmedIsApplied, Settling
<1>1. ASSUME NEW p \in Procs, NEW b \in Bets, PlaceEffect(p, b)
      PROVE  ConfirmedIsApplied'
  <2>1. \A k \in Keys : Settling(k)' => Settling(k)
    BY <1>1, IdleFields, <1>w DEF PlaceEffect, Settling, KeyOf, Becomes, Ends, RowIs, Moves
  <2>2. ASSUME NEW k \in Keys, Settling(k) PROVE Applied(k)'
    BY <1>1, <1>a, <2>2, AppliedKept DEF PlaceEffect
  <2>3. wire' = wire
    BY <1>1, <1>a DEF PlaceEffect
  <2> QED BY <1>b, <2>1, <2>2, <2>3
<1>2. ASSUME NEW p \in Procs, BetEndEffect(p)
      PROVE  ConfirmedIsApplied'
  <2>1. \A k \in Keys : Settling(k)' => Settling(k)
    BY <1>2, IdleFields, <1>w DEF BetEndEffect, Settling, KeyOf, Becomes, Ends, RowIs, Moves
  <2>2. ASSUME NEW k \in Keys, Settling(k) PROVE Applied(k)'
    <3>1. k[1] # proc[p].b \/ (k[2] # "void_reclaim" /\ proc[p].pc = "win")
      BY <1>2, <2>2, NoLateMove DEF BetEndEffect
    <3> QED BY <1>2, <1>a, <2>2, <3>1, AppliedKept DEF BetEndEffect
  <2>3. wire' = wire
    BY <1>2, <1>a DEF BetEndEffect
  <2> QED BY <1>b, <2>1, <2>2, <2>3
<1>3. ASSUME NEW p \in Procs, BetRetryEffect(p)
      PROVE  ConfirmedIsApplied'
  <2>1. \A k \in Keys : Settling(k)' => Settling(k)
    BY <1>3, IdleFields, <1>w DEF BetRetryEffect, Settling, KeyOf, Becomes, Ends, RowIs, Moves
  <2>2. ASSUME NEW k \in Keys, Settling(k) PROVE Applied(k)'
    <3>1. k[1] # proc[p].b \/ (k[2] # "void_reclaim" /\ proc[p].pc = "win")
      BY <1>3, <2>2, NoLateMove DEF BetRetryEffect
    <3> QED BY <1>3, <1>a, <2>2, <3>1, AppliedKept DEF BetRetryEffect
  <2>3. wire' = wire
    BY <1>3, <1>a DEF BetRetryEffect
  <2> QED BY <1>b, <2>1, <2>2, <2>3
<1>4. ASSUME NEW p \in Procs, NEW b \in Bets, RecoverEffect(p, b)
      PROVE  ConfirmedIsApplied'
  <2>1. \A k \in Keys : Settling(k)' => Settling(k)
    BY <1>4, IdleFields, <1>w DEF RecoverEffect, Settling, KeyOf, Becomes, Ends, RowIs, Moves
  <2>2. ASSUME NEW k \in Keys, Settling(k) PROVE Applied(k)'
    BY <1>4, <1>a, <2>2, AppliedKept DEF RecoverEffect
  <2>3. wire' = wire
    BY <1>4, <1>a DEF RecoverEffect
  <2> QED BY <1>b, <2>1, <2>2, <2>3
<1>5. ASSUME NEW p \in Procs, NEW b \in Bets, WinStartEffect(p, b)
      PROVE  ConfirmedIsApplied'
  <2>1. \A k \in Keys : Settling(k)' => Settling(k)
    BY <1>5, IdleFields, <1>w DEF WinStartEffect, Settling, KeyOf, Becomes, Ends, RowIs, Moves
  <2>2. ASSUME NEW k \in Keys, Settling(k) PROVE Applied(k)'
    BY <1>5, <1>a, <2>2, AppliedKept DEF WinStartEffect
  <2>3. wire' = wire
    BY <1>5, <1>a DEF WinStartEffect
  <2> QED BY <1>b, <2>1, <2>2, <2>3
<1>6. ASSUME NEW p \in Procs, WinEffect(p)
      PROVE  ConfirmedIsApplied'
  <2>1. \A k \in Keys : Settling(k)' => Settling(k)
    BY <1>6, IdleFields, <1>w DEF WinEffect, Settling, KeyOf, Becomes, Ends, RowIs, Moves
  <2>2. ASSUME NEW k \in Keys, Settling(k) PROVE Applied(k)'
    <3>1. k[1] # proc[p].b \/ (k[2] # "void_reclaim" /\ proc[p].pc = "win")
      BY <1>6, <2>2, NoLateMove DEF WinEffect
    <3> QED BY <1>6, <1>a, <2>2, <3>1, AppliedKept DEF WinEffect
  <2>3. wire' = wire
    BY <1>6, <1>a DEF WinEffect
  <2> QED BY <1>b, <2>1, <2>2, <2>3
<1>7. ASSUME NEW b \in Bets, BustEffect(b)
      PROVE  ConfirmedIsApplied'
  <2>1. \A k \in Keys : Settling(k)' => Settling(k)
    BY <1>7, IdleFields, <1>w DEF BustEffect, Settling, KeyOf, Becomes, Ends, RowIs, Moves
  <2>2. ASSUME NEW k \in Keys, Settling(k) PROVE Applied(k)'
    BY <1>7, <1>a, <2>2, AppliedKept DEF BustEffect
  <2>3. wire' = wire
    BY <1>7, <1>a DEF BustEffect
  <2> QED BY <1>b, <2>1, <2>2, <2>3
<1>8. ASSUME NEW p \in Procs, NEW b \in Bets, VoidEffect(p, b)
      PROVE  ConfirmedIsApplied'
  <2>1. \A k \in Keys : Settling(k)' => Settling(k)
    BY <1>8, IdleFields, <1>w DEF VoidEffect, Settling, KeyOf, Becomes, Ends, RowIs, Moves
  <2>2. ASSUME NEW k \in Keys, Settling(k) PROVE Applied(k)'
    BY <1>8, <1>a, <2>2, AppliedKept DEF VoidEffect
  <2>3. wire' = wire
    BY <1>8, <1>a DEF VoidEffect
  <2> QED BY <1>b, <2>1, <2>2, <2>3
<1>9. ASSUME NEW p \in Procs, ClaimEffect(p)
      PROVE  ConfirmedIsApplied'
  <2>1. \A k \in Keys : Settling(k)' => Settling(k)
    BY <1>9, IdleFields, <1>w DEF ClaimEffect, Settling, KeyOf, Becomes, Ends, RowIs, Moves
  <2>2. ASSUME NEW k \in Keys, Settling(k) PROVE Applied(k)'
    BY <1>9, <1>a, <2>2, AppliedKept DEF ClaimEffect
  <2>3. wire' = wire
    BY <1>9, <1>a DEF ClaimEffect
  <2> QED BY <1>b, <2>1, <2>2, <2>3
<1>10. ASSUME NEW p \in Procs, InsertEffect(p)
      PROVE  ConfirmedIsApplied'
  <2>1. \A k \in Keys : Settling(k)' => Settling(k)
    BY <1>10, IdleFields, <1>w DEF InsertEffect, Settling, KeyOf, Becomes, Ends, RowIs, Moves
  <2>2. ASSUME NEW k \in Keys, Settling(k) PROVE Applied(k)'
    BY <1>10, <1>a, <2>2, AppliedKept DEF InsertEffect
  <2>3. wire' = wire
    BY <1>10, <1>a DEF InsertEffect
  <2> QED BY <1>b, <2>1, <2>2, <2>3
<1>11. ASSUME NEW p \in Procs, AcquireEffect(p)
      PROVE  ConfirmedIsApplied'
  <2>1. \A k \in Keys : Settling(k)' => Settling(k)
    BY <1>11, IdleFields, <1>w DEF AcquireEffect, Settling, KeyOf, Becomes, Ends, RowIs, Moves
  <2>2. ASSUME NEW k \in Keys, Settling(k) PROVE Applied(k)'
    BY <1>11, <1>a, <2>2, AppliedKept DEF AcquireEffect
  <2>3. wire' = wire
    BY <1>11, <1>a DEF AcquireEffect
  <2> QED BY <1>b, <2>1, <2>2, <2>3
<1>12. ASSUME NEW p \in Procs, ClaimErrsEffect(p)
      PROVE  ConfirmedIsApplied'
  <2>1. \A k \in Keys : Settling(k)' => Settling(k)
    BY <1>12, IdleFields, <1>w DEF ClaimErrsEffect, Settling, KeyOf, Becomes, Ends, RowIs, Moves
  <2>2. ASSUME NEW k \in Keys, Settling(k) PROVE Applied(k)'
    BY <1>12, <1>a, <2>2, AppliedKept DEF ClaimErrsEffect
  <2>3. wire' = wire
    BY <1>12, <1>a DEF ClaimErrsEffect
  <2> QED BY <1>b, <2>1, <2>2, <2>3
<1>13. ASSUME NEW p \in Procs, EmitEffect(p)
      PROVE  ConfirmedIsApplied'
  <2>0. KeyOf(p)' = KeyOf(p) /\ KeyOf(p) \in Keys /\ \A q \in Procs : q # p => KeyOf(q)' = KeyOf(q)
    BY <1>13 DEF EmitEffect, KeyOf, Becomes, Moves
  <2>1. \A k \in Keys : Settling(k)' => Settling(k) \/ (k = KeyOf(p) /\ proc'[p].pc = "confirm")
    BY <1>13, <2>0 DEF EmitEffect, Settling, Becomes, Moves
  <2>2. charge' \in {charge, NoBet} /\ paid' \subseteq paid
    BY <1>13 DEF EmitEffect, Undone
  <2>3. ASSUME NEW k \in Keys, Settling(k) PROVE Applied(k)'
    BY <1>a, <2>2, <2>3, AppliedKept
  <2>4. ASSUME proc'[p].pc = "confirm" PROVE Applied(KeyOf(p))'
    <3>1. Undone(KeyOf(p))
      BY <1>13, <2>4 DEF EmitEffect, Becomes, Moves
    <3> QED BY <2>0, <3>1, KeyFacts DEF Undone, Applied, Bets, NoBet
  <2>5. wire' = wire
    BY <1>13 DEF EmitEffect
  <2>6. \A k \in Keys : Settling(k)' => Applied(k)'
    BY <2>0, <2>1, <2>3, <2>4
  <2> QED BY <1>b, <2>5, <2>6
<1>14. ASSUME NEW p \in Procs, MarkEffect(p)
      PROVE  ConfirmedIsApplied'
  <2>0. KeyOf(p) \in Keys /\ \A q \in Procs : q # p => proc'[q] = proc[q]
    BY <1>14 DEF MarkEffect, Becomes, Ends, Moves
  <2>4. \A k \in Keys : row'[k].status = "confirmed" => row[k].status = "confirmed" \/ (k = KeyOf(p) /\ proc[p].pc = "confirm")
    BY <1>14 DEF MarkEffect, Marked, RowIs
  <2>5. proc'[p].pc # "confirm"
    BY <1>14, IdleFields DEF MarkEffect, Becomes, Ends, Moves
  <2>1. \A k \in Keys : Settling(k)' => Settling(k)
    BY <2>0, <2>4, <2>5 DEF Settling, KeyOf
  <2>2. ASSUME NEW k \in Keys, Settling(k) PROVE Applied(k)'
    BY <1>14, <1>a, <2>2, AppliedKept DEF MarkEffect
  <2>3. wire' = wire
    BY <1>14, <1>a DEF MarkEffect
  <2> QED BY <1>b, <2>1, <2>2, <2>3
<1>15. ASSUME NEW p \in Procs, MarkErrsEffect(p)
      PROVE  ConfirmedIsApplied'
  <2>1. \A k \in Keys : Settling(k)' => Settling(k)
    BY <1>15, IdleFields, <1>w DEF MarkErrsEffect, Settling, KeyOf, Becomes, Ends, RowIs, Moves
  <2>2. ASSUME NEW k \in Keys, Settling(k) PROVE Applied(k)'
    BY <1>15, <1>a, <2>2, AppliedKept DEF MarkErrsEffect
  <2>3. wire' = wire
    BY <1>15, <1>a DEF MarkErrsEffect
  <2> QED BY <1>b, <2>1, <2>2, <2>3
<1>16. ASSUME NEW p \in Procs, ReturnEffect(p)
      PROVE  ConfirmedIsApplied'
  <2>1. \A k \in Keys : Settling(k)' => Settling(k)
    BY <1>16, IdleFields, <1>w DEF ReturnEffect, Settling, KeyOf, Becomes, Ends, RowIs, Moves
  <2>2. ASSUME NEW k \in Keys, Settling(k) PROVE Applied(k)'
    BY <1>16, <1>a, <2>2, AppliedKept DEF ReturnEffect
  <2>3. wire' = wire
    BY <1>16, <1>a DEF ReturnEffect
  <2> QED BY <1>b, <2>1, <2>2, <2>3
<1>17. ASSUME NEW p \in Procs, DieEffect(p)
      PROVE  ConfirmedIsApplied'
  <2>1. \A k \in Keys : Settling(k)' => Settling(k)
    BY <1>17, IdleFields, <1>w DEF DieEffect, Settling, KeyOf, Becomes, Ends, RowIs, Moves
  <2>2. ASSUME NEW k \in Keys, Settling(k) PROVE Applied(k)'
    BY <1>17, <1>a, <2>2, AppliedKept DEF DieEffect
  <2>3. wire' = wire
    BY <1>17, <1>a DEF DieEffect
  <2> QED BY <1>b, <2>1, <2>2, <2>3
<1>18. ASSUME NEW b \in Bets, ArrivesEffect(b)
      PROVE  ConfirmedIsApplied'
  BY <1>18, <1>a DEF ArrivesEffect
<1>19. ASSUME NEW k \in Keys, DrainEffect(k)
      PROVE  ConfirmedIsApplied'
  <2>1. \A j \in Keys : Settling(j)' => Settling(j)
    BY <1>19, IdleFields, <1>w DEF DrainEffect, Settling, KeyOf, Becomes, Ends, RowIs, Moves
  <2>2. ASSUME NEW j \in Keys, Settling(j) PROVE Applied(j)'
    BY <1>19, <1>a, <2>2, AppliedKept DEF DrainEffect
  <2>3. wire' = wire
    BY <1>19, <1>a DEF DrainEffect
  <2> QED BY <1>b, <2>1, <2>2, <2>3
<1>20. ASSUME NEW k \in Keys, ExpireEffect(k)
      PROVE  ConfirmedIsApplied'
  <2>1. \A j \in Keys : Settling(j)' => Settling(j)
    BY <1>20, IdleFields, <1>w DEF ExpireEffect, Settling, KeyOf, Becomes, Ends, RowIs, Moves
  <2>2. ASSUME NEW j \in Keys, Settling(j) PROVE Applied(j)'
    BY <1>20, <1>a, <2>2, AppliedKept DEF ExpireEffect
  <2>3. wire' = wire
    BY <1>20, <1>a DEF ExpireEffect
  <2> QED BY <1>b, <2>1, <2>2, <2>3
<1>21. CASE UNCHANGED vars
  <2>1. UNCHANGED <<wire, charge, paid, row, proc>>
    BY <1>21 DEF vars
  <2> QED BY <1>a, <1>b, <2>1 DEF Settling, Applied, KeyOf
<1> QED BY <1>1, <1>2, <1>3, <1>4, <1>5, <1>6, <1>7, <1>8, <1>9, <1>10, <1>11, <1>12, <1>13, <1>14, <1>15,
       <1>16, <1>17, <1>18, <1>19, <1>20, <1>21 DEF Effect

\* A call under a key reverses a bet that is being reversed.
LEMMA CallReverses ==
  ASSUME TypeOK, RowsFit, CallsFit, NEW p \in Procs, proc[p].pc \notin {"idle", "bet", "win"}
  PROVE  /\ KeyOf(p) \in Keys /\ proc[p].b \in Bets /\ proc[p].why \in Reasons
         /\ bet[proc[p].b] \in Reversible(proc[p].why)
<1>1. KeyOf(p) \in Keys /\ KeyOf(p)[1] = proc[p].b /\ KeyOf(p)[2] = proc[p].why
  BY KeyFacts DEF CallsFit, CallFits, KeyOf
<1>2. CASE proc[p].drain
  BY <1>1, <1>2, KeyFacts DEF RowsFit, CallsFit, CallFits
<1>3. CASE ~proc[p].drain
  BY <1>1, <1>3, KeyFacts, ReversibleFacts DEF CallsFit, CallFits
<1> QED BY <1>1, <1>2, <1>3, KeyFacts

\* A payout that stands is taken back only by a void.
LEMMA WonNext ==
  ASSUME TypeOK, RowsFit, CallsFit, WonIsPaid, Effect
  PROVE  WonIsPaid'
<1>c. \A p \in Procs : proc[p].pc # "idle" => proc[p].b \in Bets
  BY DEF CallsFit, CallFits
<1>1. ASSUME NEW p \in Procs, NEW b \in Bets, PlaceEffect(p, b)
      PROVE  WonIsPaid'
  BY <1>1, <1>c DEF PlaceEffect, BetIs, WonIsPaid
<1>2. ASSUME NEW p \in Procs, BetEndEffect(p)
      PROVE  WonIsPaid'
  BY <1>2, <1>c DEF BetEndEffect, BetIs, WonIsPaid
<1>3. ASSUME NEW p \in Procs, BetRetryEffect(p)
      PROVE  WonIsPaid'
  BY <1>3, <1>c DEF BetRetryEffect, BetIs, WonIsPaid
<1>4. ASSUME NEW p \in Procs, NEW b \in Bets, RecoverEffect(p, b)
      PROVE  WonIsPaid'
  BY <1>4, <1>c DEF RecoverEffect, BetIs, WonIsPaid
<1>5. ASSUME NEW p \in Procs, NEW b \in Bets, WinStartEffect(p, b)
      PROVE  WonIsPaid'
  BY <1>5, <1>c DEF WinStartEffect, BetIs, WonIsPaid
<1>6. ASSUME NEW p \in Procs, WinEffect(p)
      PROVE  WonIsPaid'
  BY <1>6, <1>c DEF WinEffect, BetIs, WonIsPaid
<1>7. ASSUME NEW b \in Bets, BustEffect(b)
      PROVE  WonIsPaid'
  BY <1>7, <1>c DEF BustEffect, BetIs, WonIsPaid
<1>8. ASSUME NEW p \in Procs, NEW b \in Bets, VoidEffect(p, b)
      PROVE  WonIsPaid'
  BY <1>8, <1>c DEF VoidEffect, BetIs, WonIsPaid
<1>9. ASSUME NEW p \in Procs, ClaimEffect(p)
      PROVE  WonIsPaid'
  BY <1>9, <1>c DEF ClaimEffect, BetIs, WonIsPaid
<1>10. ASSUME NEW p \in Procs, InsertEffect(p)
      PROVE  WonIsPaid'
  BY <1>10, <1>c DEF InsertEffect, BetIs, WonIsPaid
<1>11. ASSUME NEW p \in Procs, AcquireEffect(p)
      PROVE  WonIsPaid'
  BY <1>11, <1>c DEF AcquireEffect, BetIs, WonIsPaid
<1>12. ASSUME NEW p \in Procs, ClaimErrsEffect(p)
      PROVE  WonIsPaid'
  BY <1>12, <1>c DEF ClaimErrsEffect, BetIs, WonIsPaid
<1>13. ASSUME NEW p \in Procs, EmitEffect(p)
      PROVE  WonIsPaid'
  <2>1. proc[p].why = "void_reclaim" => bet[proc[p].b] \in {"clawing", "voided"}
    BY <1>13, ReversibleFacts, CallReverses DEF EmitEffect
  <2> QED BY <1>13, <2>1 DEF EmitEffect, Undone, KeyOf, WonIsPaid
<1>14. ASSUME NEW p \in Procs, MarkEffect(p)
      PROVE  WonIsPaid'
  BY <1>14, <1>c DEF MarkEffect, BetIs, WonIsPaid
<1>15. ASSUME NEW p \in Procs, MarkErrsEffect(p)
      PROVE  WonIsPaid'
  BY <1>15, <1>c DEF MarkErrsEffect, BetIs, WonIsPaid
<1>16. ASSUME NEW p \in Procs, ReturnEffect(p)
      PROVE  WonIsPaid'
  BY <1>16, <1>c DEF ReturnEffect, BetIs, WonIsPaid
<1>17. ASSUME NEW p \in Procs, DieEffect(p)
      PROVE  WonIsPaid'
  BY <1>17, <1>c DEF DieEffect, BetIs, WonIsPaid
<1>18. ASSUME NEW b \in Bets, ArrivesEffect(b)
      PROVE  WonIsPaid'
  BY <1>18, <1>c DEF ArrivesEffect, BetIs, WonIsPaid
<1>19. ASSUME NEW k \in Keys, DrainEffect(k)
      PROVE  WonIsPaid'
  BY <1>19, <1>c DEF DrainEffect, BetIs, WonIsPaid
<1>20. ASSUME NEW k \in Keys, ExpireEffect(k)
      PROVE  WonIsPaid'
  BY <1>20, <1>c DEF ExpireEffect, BetIs, WonIsPaid
<1>21. CASE UNCHANGED vars
  BY <1>21 DEF vars, WonIsPaid
<1> QED BY <1>1, <1>2, <1>3, <1>4, <1>5, <1>6, <1>7, <1>8, <1>9, <1>10, <1>11, <1>12, <1>13, <1>14, <1>15,
       <1>16, <1>17, <1>18, <1>19, <1>20, <1>21 DEF Effect

\* The mode is fixed.
LEMMA ModeKept ==
  ASSUME Effect
  PROVE  mode' = mode
  BY DEF Effect, PlaceEffect, RecoverEffect, WinStartEffect, VoidEffect, BetEndEffect, BetRetryEffect, WinEffect,
         ClaimEffect, InsertEffect, AcquireEffect, ClaimErrsEffect, EmitEffect, MarkEffect, MarkErrsEffect,
         ReturnEffect, DieEffect, BustEffect, ArrivesEffect, DrainEffect, ExpireEffect, vars

\* No reversal undoes the charge of a bet in play.
LEMMA LiveNext ==
  ASSUME TypeOK, RowsFit, CallsFit, SlotIsQuiet, LiveBetIsCharged, Effect
  PROVE  LiveBetIsCharged'
<1>m. mode' = mode
  BY ModeKept
<1> DEFINE Live == {"active", "busted", "winning", "won", "pending"}
<1> SUFFICES ASSUME mode \notin {"rebet", "slow"}
             PROVE  \A b \in Bets : bet'[b] \in Live => charge' # NoBet
  BY <1>m DEF LiveBetIsCharged
<1>l. \A b \in Bets : bet[b] \in Live => charge # NoBet
  BY DEF LiveBetIsCharged
<1>c. \A p \in Procs : /\ proc[p].pc # "idle" => proc[p].b \in Bets
                       /\ proc[p].pc = "win" => bet[proc[p].b] \in {"winning", "pending"}
  BY DEF CallsFit, CallFits
<1>1. ASSUME NEW p \in Procs, NEW b \in Bets, PlaceEffect(p, b)
      PROVE  \A a \in Bets : bet'[a] \in Live => charge' # NoBet
  BY <1>1, <1>l DEF PlaceEffect, BetIs
<1>2. ASSUME NEW p \in Procs, BetEndEffect(p)
      PROVE  \A a \in Bets : bet'[a] \in Live => charge' # NoBet
  BY <1>2, <1>c, <1>l DEF BetEndEffect, BetIs, NoBet, Bets
<1>3. ASSUME NEW p \in Procs, BetRetryEffect(p)
      PROVE  \A a \in Bets : bet'[a] \in Live => charge' # NoBet
  BY <1>3, <1>c, <1>l DEF BetRetryEffect, BetIs, NoBet, Bets
<1>4. ASSUME NEW p \in Procs, NEW b \in Bets, RecoverEffect(p, b)
      PROVE  \A a \in Bets : bet'[a] \in Live => charge' # NoBet
  BY <1>4, <1>c, <1>l DEF RecoverEffect, BetIs, NoBet, Bets
<1>5. ASSUME NEW p \in Procs, NEW b \in Bets, WinStartEffect(p, b)
      PROVE  \A a \in Bets : bet'[a] \in Live => charge' # NoBet
  BY <1>5, <1>c, <1>l DEF WinStartEffect, BetIs, NoBet, Bets
<1>6. ASSUME NEW p \in Procs, WinEffect(p)
      PROVE  \A a \in Bets : bet'[a] \in Live => charge' # NoBet
  BY <1>6, <1>c, <1>l DEF WinEffect, BetIs, NoBet, Bets
<1>7. ASSUME NEW b \in Bets, BustEffect(b)
      PROVE  \A a \in Bets : bet'[a] \in Live => charge' # NoBet
  BY <1>7, <1>c, <1>l DEF BustEffect, BetIs, NoBet, Bets
<1>8. ASSUME NEW p \in Procs, NEW b \in Bets, VoidEffect(p, b)
      PROVE  \A a \in Bets : bet'[a] \in Live => charge' # NoBet
  BY <1>8, <1>c, <1>l DEF VoidEffect, BetIs, NoBet, Bets
<1>9. ASSUME NEW p \in Procs, ClaimEffect(p)
      PROVE  \A a \in Bets : bet'[a] \in Live => charge' # NoBet
  BY <1>9, <1>c, <1>l DEF ClaimEffect, BetIs, NoBet, Bets
<1>10. ASSUME NEW p \in Procs, InsertEffect(p)
      PROVE  \A a \in Bets : bet'[a] \in Live => charge' # NoBet
  BY <1>10, <1>c, <1>l DEF InsertEffect, BetIs, NoBet, Bets
<1>11. ASSUME NEW p \in Procs, AcquireEffect(p)
      PROVE  \A a \in Bets : bet'[a] \in Live => charge' # NoBet
  BY <1>11, <1>c, <1>l DEF AcquireEffect, BetIs, NoBet, Bets
<1>12. ASSUME NEW p \in Procs, ClaimErrsEffect(p)
      PROVE  \A a \in Bets : bet'[a] \in Live => charge' # NoBet
  BY <1>12, <1>c, <1>l DEF ClaimErrsEffect, BetIs, NoBet, Bets
<1>13. ASSUME NEW p \in Procs, EmitEffect(p)
      PROVE  \A a \in Bets : bet'[a] \in Live => charge' # NoBet
  <2>1. /\ KeyOf(p) \in Keys /\ proc[p].b \in Bets /\ bet[proc[p].b] \in Reversible(proc[p].why)
        /\ KeyOf(p)[2] = proc[p].why
    BY <1>13, CallReverses DEF EmitEffect, KeyOf
  <2>2. bet[proc[p].b] \notin Live
    BY <2>1, ReversibleFacts
  <2>3. ASSUME NEW b \in Bets, bet[b] \in Live PROVE FALSE
    BY <1>13, <2>1, <2>2, <2>3 DEF EmitEffect, SlotIsQuiet, Working
  <2> QED BY <1>13, <2>3 DEF EmitEffect
<1>14. ASSUME NEW p \in Procs, MarkEffect(p)
      PROVE  \A a \in Bets : bet'[a] \in Live => charge' # NoBet
  BY <1>14, <1>c, <1>l DEF MarkEffect, BetIs, NoBet, Bets
<1>15. ASSUME NEW p \in Procs, MarkErrsEffect(p)
      PROVE  \A a \in Bets : bet'[a] \in Live => charge' # NoBet
  BY <1>15, <1>c, <1>l DEF MarkErrsEffect, BetIs, NoBet, Bets
<1>16. ASSUME NEW p \in Procs, ReturnEffect(p)
      PROVE  \A a \in Bets : bet'[a] \in Live => charge' # NoBet
  BY <1>16, <1>c, <1>l DEF ReturnEffect, BetIs, NoBet, Bets
<1>17. ASSUME NEW p \in Procs, DieEffect(p)
      PROVE  \A a \in Bets : bet'[a] \in Live => charge' # NoBet
  BY <1>17, <1>c, <1>l DEF DieEffect, BetIs, NoBet, Bets
<1>18. ASSUME NEW b \in Bets, ArrivesEffect(b)
      PROVE  \A a \in Bets : bet'[a] \in Live => charge' # NoBet
  BY <1>18, <1>c, <1>l DEF ArrivesEffect, BetIs, NoBet, Bets
<1>19. ASSUME NEW k \in Keys, DrainEffect(k)
      PROVE  \A a \in Bets : bet'[a] \in Live => charge' # NoBet
  BY <1>19, <1>c, <1>l DEF DrainEffect, BetIs, NoBet, Bets
<1>20. ASSUME NEW k \in Keys, ExpireEffect(k)
      PROVE  \A a \in Bets : bet'[a] \in Live => charge' # NoBet
  BY <1>20, <1>c, <1>l DEF ExpireEffect, BetIs, NoBet, Bets
<1>21. CASE UNCHANGED vars
  BY <1>21, <1>l DEF vars
<1> QED BY <1>1, <1>2, <1>3, <1>4, <1>5, <1>6, <1>7, <1>8, <1>9, <1>10, <1>11, <1>12, <1>13, <1>14, <1>15,
       <1>16, <1>17, <1>18, <1>19, <1>20, <1>21 DEF Effect

\* A call past its claim, and a rejected bet whose charge stands, keep their row.
LEMMA RowsKeptNext ==
  ASSUME TypeOK, RowsFit, CallsFit, LeasesExclude, ConfirmedIsApplied, RowsAreKept, Effect
  PROVE  RowsAreKept'
<1>m. mode' = mode
  BY ModeKept
<1> SUFFICES ASSUME mode # "store" PROVE RowsAreKept'
  BY <1>m DEF RowsAreKept
<1>s. mode # "store"
  OBVIOUS
<1> DEFINE Rowed(p) == proc[p].pc \in {"emit", "confirm", "failed", "next"} => row[KeyOf(p)].status # "none"
           HasRow(b) == \E w \in Reasons : row[<<b, w>>].status # "none"
<1>r. \A p \in Procs : Rowed(p)
  BY DEF RowsAreKept
<1>b. mode # "late" => wire = {} /\ \A b \in Bets : bet[b] = "rejected" /\ charge = b => HasRow(b)
  BY DEF RowsAreKept, ConfirmedIsApplied
<1>z. NoBet \notin Bets
  BY DEF Bets, NoBet
<1>k. \A p \in Procs : proc[p].pc \notin {"idle", "bet", "win"} => KeyOf(p) \in Keys
  BY CallReverses
<1>c. \A p \in Procs : /\ proc[p].pc # "idle" => proc[p].b \in Bets
                       /\ proc[p].pc = "bet" => bet[proc[p].b] = "placing"
  BY DEF CallsFit, CallFits
<1>y. /\ \A k \in Keys : row[k].live => row[k].status # "none"
      /\ \A k \in Keys : row[k] # NoRow => row[k].status # "none"
      /\ \A p \in Procs : proc[p].pc = "acquire" => row[KeyOf(p)].status # "none"
  BY DEF RowsFit, LeasesExclude
<1> HIDE DEF Rowed, HasRow
<1>o. ASSUME NEW p \in Procs, Rowed(p)', \A q \in Procs : q # p => proc'[q] = proc[q],
             \A k \in Keys : row[k].status # "none" => row'[k].status # "none",
             mode # "late" => \A a \in Bets : bet'[a] = "rejected" /\ charge' = a => HasRow(a)'
      PROVE  RowsAreKept'
  BY <1>o, <1>m, <1>k, <1>r DEF RowsAreKept, Rowed, HasRow, KeyOf
<1>1. ASSUME NEW p \in Procs, NEW b \in Bets, PlaceEffect(p, b)
      PROVE  RowsAreKept'
  <2>1. Rowed(p)'
    BY <1>1, <1>r, <1>k, <1>s, <1>y, IdleFields DEF PlaceEffect, Rowed, Becomes, Ends, RowIs, Moves, KeyOf, Marked
  <2>2. \A q \in Procs : q # p => proc'[q] = proc[q]
    BY <1>1 DEF PlaceEffect, Becomes, Ends, Moves
  <2>3. \A k \in Keys : row[k].status # "none" => row'[k].status # "none"
    BY <1>1 DEF PlaceEffect, RowIs
  <2>4. mode # "late" => \A a \in Bets : bet'[a] = "rejected" /\ charge' = a => HasRow(a)'
    BY <1>1, <1>b, <1>c, <1>z, <2>3, KeyFacts DEF PlaceEffect, BetIs, Undone, HasRow
  <2> QED BY <1>o, <2>1, <2>2, <2>3, <2>4
<1>2. ASSUME NEW p \in Procs, BetEndEffect(p)
      PROVE  RowsAreKept'
  <2>1. Rowed(p)'
    BY <1>2, <1>r, <1>k, <1>s, <1>y, IdleFields DEF BetEndEffect, Rowed, Becomes, Ends, RowIs, Moves, KeyOf, Marked
  <2>2. \A q \in Procs : q # p => proc'[q] = proc[q]
    BY <1>2 DEF BetEndEffect, Becomes, Ends, Moves
  <2>3. \A k \in Keys : row[k].status # "none" => row'[k].status # "none"
    BY <1>2 DEF BetEndEffect, RowIs
  <2>4. mode # "late" => \A a \in Bets : bet'[a] = "rejected" /\ charge' = a => HasRow(a)'
    <3>1. CASE BetIs(proc[p].b, "active") /\ charge' \in {charge, proc[p].b}
      BY <1>2, <1>b, <1>c, <2>3, <3>1 DEF BetEndEffect, BetIs, HasRow
    <3>2. CASE charge' = NoBet
      BY <1>z, <3>2
    <3> QED BY <1>2, <3>1, <3>2 DEF BetEndEffect
  <2> QED BY <1>o, <2>1, <2>2, <2>3, <2>4
<1>3. ASSUME NEW p \in Procs, BetRetryEffect(p)
      PROVE  RowsAreKept'
  <2>1. Rowed(p)'
    BY <1>3, <1>r, <1>k, <1>s, <1>y, IdleFields DEF BetRetryEffect, Rowed, Becomes, Ends, RowIs, Moves, KeyOf, Marked
  <2>2. \A q \in Procs : q # p => proc'[q] = proc[q]
    BY <1>3 DEF BetRetryEffect, Becomes, Ends, Moves
  <2>3. \A k \in Keys : row[k].status # "none" => row'[k].status # "none"
    BY <1>3 DEF BetRetryEffect, RowIs
  <2>4. mode # "late" => \A a \in Bets : bet'[a] = "rejected" /\ charge' = a => HasRow(a)'
    BY <1>3, <1>b, <1>c, <1>z, <2>3, KeyFacts DEF BetRetryEffect, BetIs, Undone, HasRow
  <2> QED BY <1>o, <2>1, <2>2, <2>3, <2>4
<1>4. ASSUME NEW p \in Procs, NEW b \in Bets, RecoverEffect(p, b)
      PROVE  RowsAreKept'
  <2>1. Rowed(p)'
    BY <1>4, <1>r, <1>k, <1>s, <1>y, IdleFields DEF RecoverEffect, Rowed, Becomes, Ends, RowIs, Moves, KeyOf, Marked
  <2>2. \A q \in Procs : q # p => proc'[q] = proc[q]
    BY <1>4 DEF RecoverEffect, Becomes, Ends, Moves
  <2>3. \A k \in Keys : row[k].status # "none" => row'[k].status # "none"
    BY <1>4 DEF RecoverEffect, RowIs
  <2>4. mode # "late" => \A a \in Bets : bet'[a] = "rejected" /\ charge' = a => HasRow(a)'
    BY <1>4, <1>b, <1>c, <1>z, <2>3, KeyFacts DEF RecoverEffect, BetIs, Undone, HasRow
  <2> QED BY <1>o, <2>1, <2>2, <2>3, <2>4
<1>5. ASSUME NEW p \in Procs, NEW b \in Bets, WinStartEffect(p, b)
      PROVE  RowsAreKept'
  <2>1. Rowed(p)'
    BY <1>5, <1>r, <1>k, <1>s, <1>y, IdleFields DEF WinStartEffect, Rowed, Becomes, Ends, RowIs, Moves, KeyOf, Marked
  <2>2. \A q \in Procs : q # p => proc'[q] = proc[q]
    BY <1>5 DEF WinStartEffect, Becomes, Ends, Moves
  <2>3. \A k \in Keys : row[k].status # "none" => row'[k].status # "none"
    BY <1>5 DEF WinStartEffect, RowIs
  <2>4. mode # "late" => \A a \in Bets : bet'[a] = "rejected" /\ charge' = a => HasRow(a)'
    BY <1>5, <1>b, <1>c, <1>z, <2>3, KeyFacts DEF WinStartEffect, BetIs, Undone, HasRow
  <2> QED BY <1>o, <2>1, <2>2, <2>3, <2>4
<1>6. ASSUME NEW p \in Procs, WinEffect(p)
      PROVE  RowsAreKept'
  <2>1. Rowed(p)'
    BY <1>6, <1>r, <1>k, <1>s, <1>y, IdleFields DEF WinEffect, Rowed, Becomes, Ends, RowIs, Moves, KeyOf, Marked
  <2>2. \A q \in Procs : q # p => proc'[q] = proc[q]
    BY <1>6 DEF WinEffect, Becomes, Ends, Moves
  <2>3. \A k \in Keys : row[k].status # "none" => row'[k].status # "none"
    BY <1>6 DEF WinEffect, RowIs
  <2>4. mode # "late" => \A a \in Bets : bet'[a] = "rejected" /\ charge' = a => HasRow(a)'
    BY <1>6, <1>b, <1>c, <1>z, <2>3, KeyFacts DEF WinEffect, BetIs, Undone, HasRow
  <2> QED BY <1>o, <2>1, <2>2, <2>3, <2>4
<1>7. ASSUME NEW b \in Bets, BustEffect(b)
      PROVE  RowsAreKept'
  BY <1>7, <1>b, <1>m, <1>r DEF BustEffect, BetIs, RowsAreKept, KeyOf, HasRow, Rowed
<1>8. ASSUME NEW p \in Procs, NEW b \in Bets, VoidEffect(p, b)
      PROVE  RowsAreKept'
  <2>1. Rowed(p)'
    BY <1>8, <1>r, <1>k, <1>s, <1>y, IdleFields DEF VoidEffect, Rowed, Becomes, Ends, RowIs, Moves, KeyOf, Marked
  <2>2. \A q \in Procs : q # p => proc'[q] = proc[q]
    BY <1>8 DEF VoidEffect, Becomes, Ends, Moves
  <2>3. \A k \in Keys : row[k].status # "none" => row'[k].status # "none"
    BY <1>8 DEF VoidEffect, RowIs
  <2>4. mode # "late" => \A a \in Bets : bet'[a] = "rejected" /\ charge' = a => HasRow(a)'
    BY <1>8, <1>b, <1>c, <1>z, <2>3, KeyFacts DEF VoidEffect, BetIs, Undone, HasRow
  <2> QED BY <1>o, <2>1, <2>2, <2>3, <2>4
<1>9. ASSUME NEW p \in Procs, ClaimEffect(p)
      PROVE  RowsAreKept'
  <2>1. Rowed(p)'
    BY <1>9, <1>r, <1>k, <1>s, <1>y, IdleFields DEF ClaimEffect, Rowed, Becomes, Ends, RowIs, Moves, KeyOf,
       Marked, Owed
  <2>2. \A q \in Procs : q # p => proc'[q] = proc[q]
    BY <1>9 DEF ClaimEffect, Becomes, Ends, Moves
  <2>3. \A k \in Keys : row[k].status # "none" => row'[k].status # "none"
    BY <1>9 DEF ClaimEffect, RowIs
  <2>4. mode # "late" => \A a \in Bets : bet'[a] = "rejected" /\ charge' = a => HasRow(a)'
    BY <1>9, <1>b, <1>c, <1>z, <2>3, KeyFacts DEF ClaimEffect, BetIs, Undone, HasRow
  <2> QED BY <1>o, <2>1, <2>2, <2>3, <2>4
<1>10. ASSUME NEW p \in Procs, InsertEffect(p)
      PROVE  RowsAreKept'
  <2>1. Rowed(p)'
    BY <1>10, <1>r, <1>k, <1>s, <1>y, IdleFields DEF InsertEffect, Rowed, Becomes, Ends, RowIs, Moves, KeyOf, Marked
  <2>2. \A q \in Procs : q # p => proc'[q] = proc[q]
    BY <1>10 DEF InsertEffect, Becomes, Ends, Moves
  <2>3. \A k \in Keys : row[k].status # "none" => row'[k].status # "none"
    BY <1>10 DEF InsertEffect, RowIs
  <2>4. mode # "late" => \A a \in Bets : bet'[a] = "rejected" /\ charge' = a => HasRow(a)'
    BY <1>10, <1>b, <1>c, <1>z, <2>3, KeyFacts DEF InsertEffect, BetIs, Undone, HasRow
  <2> QED BY <1>o, <2>1, <2>2, <2>3, <2>4
<1>11. ASSUME NEW p \in Procs, AcquireEffect(p)
      PROVE  RowsAreKept'
  <2>1. Rowed(p)'
    BY <1>11, <1>r, <1>k, <1>s, <1>y, IdleFields DEF AcquireEffect, Rowed, Becomes, Ends, RowIs, Moves, KeyOf, Marked
  <2>2. \A q \in Procs : q # p => proc'[q] = proc[q]
    BY <1>11 DEF AcquireEffect, Becomes, Ends, Moves
  <2>3. \A k \in Keys : row[k].status # "none" => row'[k].status # "none"
    BY <1>11 DEF AcquireEffect, RowIs
  <2>4. mode # "late" => \A a \in Bets : bet'[a] = "rejected" /\ charge' = a => HasRow(a)'
    BY <1>11, <1>b, <1>c, <1>z, <2>3, KeyFacts DEF AcquireEffect, BetIs, Undone, HasRow
  <2> QED BY <1>o, <2>1, <2>2, <2>3, <2>4
<1>12. ASSUME NEW p \in Procs, ClaimErrsEffect(p)
      PROVE  RowsAreKept'
  <2>1. Rowed(p)'
    BY <1>12, <1>r, <1>k, <1>s, <1>y, IdleFields DEF ClaimErrsEffect, Rowed, Becomes, Ends, RowIs, Moves,
       KeyOf, Marked
  <2>2. \A q \in Procs : q # p => proc'[q] = proc[q]
    BY <1>12 DEF ClaimErrsEffect, Becomes, Ends, Moves
  <2>3. \A k \in Keys : row[k].status # "none" => row'[k].status # "none"
    BY <1>12 DEF ClaimErrsEffect, RowIs
  <2>4. mode # "late" => \A a \in Bets : bet'[a] = "rejected" /\ charge' = a => HasRow(a)'
    BY <1>12, <1>b, <1>c, <1>z, <2>3, KeyFacts DEF ClaimErrsEffect, BetIs, Undone, HasRow
  <2> QED BY <1>o, <2>1, <2>2, <2>3, <2>4
<1>13. ASSUME NEW p \in Procs, EmitEffect(p)
      PROVE  RowsAreKept'
  <2>1. Rowed(p)'
    BY <1>13, <1>r, <1>k, <1>s, <1>y, IdleFields DEF EmitEffect, Rowed, Becomes, Ends, RowIs, Moves, KeyOf, Marked
  <2>2. \A q \in Procs : q # p => proc'[q] = proc[q]
    BY <1>13 DEF EmitEffect, Becomes, Ends, Moves
  <2>3. \A k \in Keys : row[k].status # "none" => row'[k].status # "none"
    BY <1>13 DEF EmitEffect, RowIs
  <2>4. mode # "late" => \A a \in Bets : bet'[a] = "rejected" /\ charge' = a => HasRow(a)'
    BY <1>13, <1>b, <1>c, <1>z, <2>3, KeyFacts DEF EmitEffect, BetIs, Undone, HasRow
  <2> QED BY <1>o, <2>1, <2>2, <2>3, <2>4
<1>14. ASSUME NEW p \in Procs, MarkEffect(p)
      PROVE  RowsAreKept'
  <2>1. Rowed(p)'
    BY <1>14, <1>r, <1>k, <1>s, <1>y, IdleFields DEF MarkEffect, Rowed, Becomes, Ends, RowIs, Moves, KeyOf, Marked
  <2>2. \A q \in Procs : q # p => proc'[q] = proc[q]
    BY <1>14 DEF MarkEffect, Becomes, Ends, Moves
  <2>3. \A k \in Keys : row[k].status # "none" => row'[k].status # "none"
    BY <1>14 DEF MarkEffect, RowIs, Marked
  <2>4. mode # "late" => \A a \in Bets : bet'[a] = "rejected" /\ charge' = a => HasRow(a)'
    BY <1>14, <1>b, <1>c, <1>z, <2>3, KeyFacts DEF MarkEffect, BetIs, Undone, HasRow
  <2> QED BY <1>o, <2>1, <2>2, <2>3, <2>4
<1>15. ASSUME NEW p \in Procs, MarkErrsEffect(p)
      PROVE  RowsAreKept'
  <2>1. Rowed(p)'
    BY <1>15, <1>r, <1>k, <1>s, <1>y, IdleFields DEF MarkErrsEffect, Rowed, Becomes, Ends, RowIs, Moves, KeyOf, Marked
  <2>2. \A q \in Procs : q # p => proc'[q] = proc[q]
    BY <1>15 DEF MarkErrsEffect, Becomes, Ends, Moves
  <2>3. \A k \in Keys : row[k].status # "none" => row'[k].status # "none"
    BY <1>15 DEF MarkErrsEffect, RowIs
  <2>4. mode # "late" => \A a \in Bets : bet'[a] = "rejected" /\ charge' = a => HasRow(a)'
    BY <1>15, <1>b, <1>c, <1>z, <2>3, KeyFacts DEF MarkErrsEffect, BetIs, Undone, HasRow
  <2> QED BY <1>o, <2>1, <2>2, <2>3, <2>4
<1>16. ASSUME NEW p \in Procs, ReturnEffect(p)
      PROVE  RowsAreKept'
  <2>1. Rowed(p)'
    BY <1>16, <1>r, <1>k, <1>s, <1>y, IdleFields DEF ReturnEffect, Rowed, Becomes, Ends, RowIs, Moves, KeyOf, Marked
  <2>2. \A q \in Procs : q # p => proc'[q] = proc[q]
    BY <1>16 DEF ReturnEffect, Becomes, Ends, Moves
  <2>3. \A k \in Keys : row[k].status # "none" => row'[k].status # "none"
    BY <1>16 DEF ReturnEffect, RowIs
  <2>4. mode # "late" => \A a \in Bets : bet'[a] = "rejected" /\ charge' = a => HasRow(a)'
    <3>1. HasRow(proc[p].b)
      BY <1>16, <1>k, <1>r, KeyFacts DEF ReturnEffect, Rowed, HasRow, KeyOf
    <3>2. \A a \in Bets : a # proc[p].b => bet'[a] = bet[a]
      BY <1>16 DEF ReturnEffect, BetIs
    <3>3. UNCHANGED <<charge, row>>
      BY <1>16 DEF ReturnEffect
    <3>4. \A a \in Bets : HasRow(a) => HasRow(a)'
      BY <3>3 DEF HasRow
    <3> QED BY <1>b, <3>1, <3>2, <3>3, <3>4
  <2> QED BY <1>o, <2>1, <2>2, <2>3, <2>4
<1>17. ASSUME NEW p \in Procs, DieEffect(p)
      PROVE  RowsAreKept'
  <2>1. Rowed(p)'
    BY <1>17, <1>r, <1>k, <1>s, <1>y, IdleFields DEF DieEffect, Rowed, Becomes, Ends, RowIs, Moves, KeyOf, Marked
  <2>2. \A q \in Procs : q # p => proc'[q] = proc[q]
    BY <1>17 DEF DieEffect, Becomes, Ends, Moves
  <2>3. \A k \in Keys : row[k].status # "none" => row'[k].status # "none"
    BY <1>17 DEF DieEffect, RowIs
  <2>4. mode # "late" => \A a \in Bets : bet'[a] = "rejected" /\ charge' = a => HasRow(a)'
    BY <1>17, <1>b, <1>c, <1>z, <2>3, KeyFacts DEF DieEffect, BetIs, Undone, HasRow
  <2> QED BY <1>o, <2>1, <2>2, <2>3, <2>4
<1>18. ASSUME NEW b \in Bets, ArrivesEffect(b)
      PROVE  RowsAreKept'
  BY <1>18, <1>b, <1>m, <1>r DEF ArrivesEffect, RowsAreKept, KeyOf, HasRow, Rowed
<1>19. ASSUME NEW k \in Keys, DrainEffect(k)
      PROVE  RowsAreKept'
  <2>1. \A q \in Procs : q # Sweeper => proc'[q] = proc[q]
    BY <1>19 DEF DrainEffect, Becomes
  <2>2. proc'[Sweeper].pc = "acquire" /\ UNCHANGED <<row, bet, charge>>
    BY <1>19 DEF DrainEffect, Becomes
  <2> QED BY <1>b, <1>m, <1>r, <2>1, <2>2 DEF RowsAreKept, HasRow, Rowed, KeyOf
<1>20. ASSUME NEW k \in Keys, ExpireEffect(k)
      PROVE  RowsAreKept'
  <2>1. \A j \in Keys : row[j].status # "none" => row'[j].status # "none"
    BY <1>20 DEF ExpireEffect, RowIs
  <2>2. UNCHANGED <<bet, charge, proc>>
    BY <1>20 DEF ExpireEffect
  <2> QED BY <1>b, <1>m, <1>k, <1>r, <2>1, <2>2, KeyFacts DEF RowsAreKept, HasRow, Rowed, KeyOf
<1>21. CASE UNCHANGED vars
  BY <1>21, <1>b, <1>m, <1>r DEF vars, RowsAreKept, HasRow, Rowed, KeyOf
<1> QED BY <1>1, <1>2, <1>3, <1>4, <1>5, <1>6, <1>7, <1>8, <1>9, <1>10, <1>11, <1>12, <1>13, <1>14, <1>15,
       <1>16, <1>17, <1>18, <1>19, <1>20, <1>21 DEF Effect

\* A lease number only grows, and grows when the lease is taken.
RowGrows(k) ==
  row[k].status # "none" =>
    /\ row'[k].status # "none" /\ row'[k].lease >= row[k].lease
    /\ row'[k].live => row[k].live \/ row'[k].lease > row[k].lease

\* No step takes a lease number back.
LEMMA RowsGrow ==
  ASSUME TypeOK, RowsFit, Effect
  PROVE  \A k \in Keys : RowGrows(k)
<1> SUFFICES ASSUME NEW j \in Keys PROVE RowGrows(j)
  OBVIOUS
<1>t. row[j].lease \in Nat
  BY DEF TypeOK, RowType
<1>1. CASE row' = row
  BY <1>1, <1>t DEF RowGrows
<1>2. ASSUME NEW p \in Procs, InsertEffect(p) PROVE RowGrows(j)
  BY <1>1, <1>2, <1>t, IdleFields DEF InsertEffect, RowIs, RowGrows
<1>3. ASSUME NEW p \in Procs, AcquireEffect(p) PROVE RowGrows(j)
  BY <1>1, <1>3, <1>t DEF AcquireEffect, RowIs, RowGrows
<1>4. ASSUME NEW p \in Procs, MarkEffect(p) PROVE RowGrows(j)
  BY <1>1, <1>4, <1>t DEF MarkEffect, Marked, RowIs, RowGrows
<1>5. ASSUME NEW k \in Keys, ExpireEffect(k) PROVE RowGrows(j)
  BY <1>5, <1>t DEF ExpireEffect, RowIs, RowGrows
<1> QED BY <1>1, <1>2, <1>3, <1>4, <1>5
       DEF Effect, PlaceEffect, RecoverEffect, WinStartEffect, VoidEffect, BetEndEffect, BetRetryEffect, WinEffect,
           ClaimEffect, ClaimErrsEffect, EmitEffect, MarkErrsEffect, ReturnEffect, DieEffect, BustEffect,
           ArrivesEffect, DrainEffect, vars

\* What a driver has read of a row whose lease it will try to take.
SeenFits(p) ==
  proc[p].pc = "acquire" =>
    /\ row[KeyOf(p)].status # "none" /\ proc[p].seen.status \in {"pending", "draining"}
    /\ proc[p].seen.lease <= row[KeyOf(p)].lease
    /\ row[KeyOf(p)].live => proc[p].seen.lease < row[KeyOf(p)].lease

\* A driver that does not move has read an older lease than any taken since.
LEMMA SeenKept ==
  ASSUME TypeOK, TypeOK', RowsFit, CallsFit, Effect, NEW q \in Procs, SeenFits(q), proc'[q] = proc[q]
  PROVE  SeenFits(q)'
<1> SUFFICES ASSUME proc[q].pc = "acquire" PROVE SeenFits(q)'
  BY DEF SeenFits
<1>1. KeyOf(q) \in Keys /\ KeyOf(q)' = KeyOf(q)
  BY CallReverses DEF KeyOf
<1>2. RowGrows(KeyOf(q))
  BY <1>1, RowsGrow
<1>3. row[KeyOf(q)].lease \in Nat /\ row'[KeyOf(q)].lease \in Nat /\ proc[q].seen.lease \in Nat
  BY <1>1, CallFields DEF TypeOK, RowType
<1> QED BY <1>1, <1>2, <1>3 DEF SeenFits, RowGrows

\* One driver per key, when one call and the rows nobody else works on change.
LEMMA SoleKept ==
  ASSUME NEW p \in Procs, \A q \in Procs : q # p => proc'[q] = proc[q],
         \A q \in Procs : Working(q) => Leased(KeyOf(q)),
         \A q, r \in Procs : Working(q) /\ Working(r) /\ KeyOf(q) = KeyOf(r) => q = r,
         \A q \in Procs : q # p /\ Working(q) => row'[KeyOf(q)] = row[KeyOf(q)],
         Working(p)' => Leased(KeyOf(p))',
         Working(p)' => \A q \in Procs : q # p /\ Working(q) => KeyOf(q) # KeyOf(p)'
  PROVE  /\ \A q \in Procs : Working(q)' => Leased(KeyOf(q))'
         /\ \A q, r \in Procs : Working(q)' /\ Working(r)' /\ KeyOf(q)' = KeyOf(r)' => q = r
<1>1. \A q \in Procs : q # p => KeyOf(q)' = KeyOf(q) /\ Working(q)' = Working(q)
  BY DEF KeyOf, Working
<1>2. \A q \in Procs : Working(q)' => Leased(KeyOf(q))'
  BY <1>1 DEF Leased
<1>3. ASSUME NEW q \in Procs, NEW r \in Procs, Working(q)', Working(r)', KeyOf(q)' = KeyOf(r)'
      PROVE  q = r
  BY <1>1, <1>3
<1> QED BY <1>2, <1>3

\* The driver at work on a key holds its lease, alone.
LEMMA LeasesNext ==
  ASSUME TypeOK, TypeOK', RowsFit, CallsFit, LeasesExclude, Effect
  PROVE  LeasesExclude'
<1>m. mode' = mode
  BY ModeKept
<1> DEFINE Plain == mode \notin {"slow", "store"}
           Sole == /\ \A q \in Procs : Working(q) => Leased(KeyOf(q))
                   /\ \A q, r \in Procs : Working(q) /\ Working(r) /\ KeyOf(q) = KeyOf(r) => q = r
<1>g. (\A p \in Procs : SeenFits(p)) /\ (Plain => Sole)
  BY DEF LeasesExclude, SeenFits
<1>o. ASSUME NEW p \in Procs, SeenFits(p)', \A q \in Procs : q # p => proc'[q] = proc[q], Plain => Sole'
      PROVE  LeasesExclude'
  <2>1. \A q \in Procs : SeenFits(q)'
    BY <1>g, <1>o, SeenKept
  <2> QED BY <1>m, <1>o, <2>1 DEF LeasesExclude, SeenFits
<1>k. \A p \in Procs : proc[p].pc \notin {"idle", "bet", "win"} => KeyOf(p) \in Keys
  BY CallReverses
<1>n. \A k \in Keys : row[k].lease \in Nat
  BY DEF TypeOK, RowType
<1>1. ASSUME NEW p \in Procs, NEW b \in Bets, PlaceEffect(p, b)
      PROVE  LeasesExclude'
  <2>1. SeenFits(p)'
    BY <1>1, <1>k, <1>n, IdleFields DEF PlaceEffect, SeenFits, Becomes, Ends, Moves, KeyOf
  <2>2. \A q \in Procs : q # p => proc'[q] = proc[q]
    BY <1>1 DEF PlaceEffect, Becomes, Ends, Moves
  <2>3. ASSUME Plain PROVE Sole'
    <3>1. row' = row /\ ~Working(p)'
      BY <1>1, IdleFields DEF PlaceEffect, Becomes, Ends, Moves, Working
    <3> QED BY <1>g, <2>2, <2>3, <3>1, SoleKept
  <2> QED BY <1>o, <2>1, <2>2, <2>3
<1>2. ASSUME NEW p \in Procs, BetEndEffect(p)
      PROVE  LeasesExclude'
  <2>1. SeenFits(p)'
    BY <1>2, <1>k, <1>n, IdleFields DEF BetEndEffect, SeenFits, Becomes, Ends, Moves, KeyOf
  <2>2. \A q \in Procs : q # p => proc'[q] = proc[q]
    BY <1>2 DEF BetEndEffect, Becomes, Ends, Moves
  <2>3. ASSUME Plain PROVE Sole'
    <3>1. row' = row /\ ~Working(p)'
      BY <1>2, IdleFields DEF BetEndEffect, Becomes, Ends, Moves, Working
    <3> QED BY <1>g, <2>2, <2>3, <3>1, SoleKept
  <2> QED BY <1>o, <2>1, <2>2, <2>3
<1>3. ASSUME NEW p \in Procs, BetRetryEffect(p)
      PROVE  LeasesExclude'
  <2>1. SeenFits(p)'
    BY <1>3, <1>k, <1>n, IdleFields DEF BetRetryEffect, SeenFits, Becomes, Ends, Moves, KeyOf
  <2>2. \A q \in Procs : q # p => proc'[q] = proc[q]
    BY <1>3 DEF BetRetryEffect, Becomes, Ends, Moves
  <2>3. ASSUME Plain PROVE Sole'
    <3>1. row' = row /\ ~Working(p)'
      BY <1>3, IdleFields DEF BetRetryEffect, Becomes, Ends, Moves, Working
    <3> QED BY <1>g, <2>2, <2>3, <3>1, SoleKept
  <2> QED BY <1>o, <2>1, <2>2, <2>3
<1>4. ASSUME NEW p \in Procs, NEW b \in Bets, RecoverEffect(p, b)
      PROVE  LeasesExclude'
  <2>1. SeenFits(p)'
    BY <1>4, <1>k, <1>n, IdleFields DEF RecoverEffect, SeenFits, Becomes, Ends, Moves, KeyOf
  <2>2. \A q \in Procs : q # p => proc'[q] = proc[q]
    BY <1>4 DEF RecoverEffect, Becomes, Ends, Moves
  <2>3. ASSUME Plain PROVE Sole'
    <3>1. row' = row /\ ~Working(p)'
      BY <1>4, IdleFields DEF RecoverEffect, Becomes, Ends, Moves, Working
    <3> QED BY <1>g, <2>2, <2>3, <3>1, SoleKept
  <2> QED BY <1>o, <2>1, <2>2, <2>3
<1>5. ASSUME NEW p \in Procs, NEW b \in Bets, WinStartEffect(p, b)
      PROVE  LeasesExclude'
  <2>1. SeenFits(p)'
    BY <1>5, <1>k, <1>n, IdleFields DEF WinStartEffect, SeenFits, Becomes, Ends, Moves, KeyOf
  <2>2. \A q \in Procs : q # p => proc'[q] = proc[q]
    BY <1>5 DEF WinStartEffect, Becomes, Ends, Moves
  <2>3. ASSUME Plain PROVE Sole'
    <3>1. row' = row /\ ~Working(p)'
      BY <1>5, IdleFields DEF WinStartEffect, Becomes, Ends, Moves, Working
    <3> QED BY <1>g, <2>2, <2>3, <3>1, SoleKept
  <2> QED BY <1>o, <2>1, <2>2, <2>3
<1>6. ASSUME NEW p \in Procs, WinEffect(p)
      PROVE  LeasesExclude'
  <2>1. SeenFits(p)'
    BY <1>6, <1>k, <1>n, IdleFields DEF WinEffect, SeenFits, Becomes, Ends, Moves, KeyOf
  <2>2. \A q \in Procs : q # p => proc'[q] = proc[q]
    BY <1>6 DEF WinEffect, Becomes, Ends, Moves
  <2>3. ASSUME Plain PROVE Sole'
    <3>1. row' = row /\ ~Working(p)'
      BY <1>6, IdleFields DEF WinEffect, Becomes, Ends, Moves, Working
    <3> QED BY <1>g, <2>2, <2>3, <3>1, SoleKept
  <2> QED BY <1>o, <2>1, <2>2, <2>3
<1>7. ASSUME NEW b \in Bets, BustEffect(b)
      PROVE  LeasesExclude'
  <2>1. UNCHANGED <<row, proc, mode>>
    BY <1>7 DEF BustEffect
  <2> QED BY <2>1 DEF LeasesExclude, Working, Leased, KeyOf
<1>8. ASSUME NEW p \in Procs, NEW b \in Bets, VoidEffect(p, b)
      PROVE  LeasesExclude'
  <2>1. SeenFits(p)'
    BY <1>8, <1>k, <1>n, IdleFields DEF VoidEffect, SeenFits, Becomes, Ends, Moves, KeyOf
  <2>2. \A q \in Procs : q # p => proc'[q] = proc[q]
    BY <1>8 DEF VoidEffect, Becomes, Ends, Moves
  <2>3. ASSUME Plain PROVE Sole'
    <3>1. row' = row /\ ~Working(p)'
      BY <1>8, IdleFields DEF VoidEffect, Becomes, Ends, Moves, Working
    <3> QED BY <1>g, <2>2, <2>3, <3>1, SoleKept
  <2> QED BY <1>o, <2>1, <2>2, <2>3
<1>9. ASSUME NEW p \in Procs, ClaimEffect(p)
      PROVE  LeasesExclude'
  <2>1. SeenFits(p)'
    BY <1>9, <1>k, <1>n, IdleFields DEF ClaimEffect, SeenFits, Becomes, Ends, Moves, KeyOf, Owed
  <2>2. \A q \in Procs : q # p => proc'[q] = proc[q]
    BY <1>9 DEF ClaimEffect, Becomes, Ends, Moves
  <2>3. ASSUME Plain PROVE Sole'
    <3>1. row' = row /\ ~Working(p)'
      BY <1>9, IdleFields DEF ClaimEffect, Becomes, Ends, Moves, Working
    <3> QED BY <1>g, <2>2, <2>3, <3>1, SoleKept
  <2> QED BY <1>o, <2>1, <2>2, <2>3
<1>10. ASSUME NEW p \in Procs, InsertEffect(p)
      PROVE  LeasesExclude'
  <2>1. SeenFits(p)'
    BY <1>10, <1>k, <1>n, IdleFields DEF InsertEffect, SeenFits, Becomes, Ends, Moves, KeyOf
  <2>2. \A q \in Procs : q # p => proc'[q] = proc[q]
    BY <1>10 DEF InsertEffect, Becomes, Ends, Moves
  <2>3. ASSUME Plain PROVE Sole'
    <3>0. KeyOf(p)' = KeyOf(p) /\ KeyOf(p) \in Keys /\ \A q \in Procs : Working(q) => KeyOf(q) \in Keys
      BY <1>10, <1>k DEF InsertEffect, Becomes, Moves, KeyOf, Working
    <3>1. CASE row[KeyOf(p)] = NoRow
      <4>1. \A q \in Procs : Working(q) => KeyOf(q) # KeyOf(p)
        BY <1>g, <2>3, <3>1, IdleFields DEF Leased
      <4>2. Leased(KeyOf(p))' /\ \A q \in Procs : Working(q) => row'[KeyOf(q)] = row[KeyOf(q)]
        BY <1>10, <3>0, <3>1, <4>1 DEF InsertEffect, RowIs, Leased
      <4> QED BY <1>g, <2>2, <2>3, <3>0, <4>1, <4>2, SoleKept
    <3>2. CASE row[KeyOf(p)] # NoRow
      <4>1. row' = row /\ ~Working(p)'
        BY <1>10, <3>2 DEF InsertEffect, Becomes, Moves, Working
      <4> QED BY <1>g, <2>2, <2>3, <4>1, SoleKept
    <3> QED BY <3>1, <3>2
  <2> QED BY <1>o, <2>1, <2>2, <2>3
<1>11. ASSUME NEW p \in Procs, AcquireEffect(p)
      PROVE  LeasesExclude'
  <2>1. SeenFits(p)'
    BY <1>11, <1>k, <1>n, IdleFields DEF AcquireEffect, SeenFits, Becomes, Ends, Moves, KeyOf
  <2>2. \A q \in Procs : q # p => proc'[q] = proc[q]
    BY <1>11 DEF AcquireEffect, Becomes, Ends, Moves
  <2>3. ASSUME Plain PROVE Sole'
    <3>0. KeyOf(p)' = KeyOf(p) /\ KeyOf(p) \in Keys /\ \A q \in Procs : Working(q) => KeyOf(q) \in Keys
      BY <1>11, <1>k DEF AcquireEffect, Becomes, Moves, KeyOf, Working
    <3>1. CASE Pinned(row[KeyOf(p)], proc[p].seen) /\ Leased(KeyOf(p))' /\ \A j \in Keys : j # KeyOf(p) => row'[j] = row[j]
      <4>1. ~Leased(KeyOf(p))
        <5>1. row[KeyOf(p)].lease \in Nat /\ proc[p].seen.lease \in Nat
          BY <3>0, CallFields DEF TypeOK, RowType
        <5>2. SeenFits(p) /\ proc[p].pc = "acquire"
          BY <1>11, <1>g DEF AcquireEffect
        <5> QED BY <3>1, <5>1, <5>2 DEF SeenFits, Pinned, Leased
      <4>2. \A q \in Procs : Working(q) => KeyOf(q) # KeyOf(p)
        BY <1>g, <2>3, <4>1
      <4>3. \A q \in Procs : Working(q) => row'[KeyOf(q)] = row[KeyOf(q)]
        BY <3>0, <3>1, <4>2
      <4> QED BY <1>g, <2>2, <2>3, <3>0, <3>1, <4>2, <4>3, SoleKept
    <3>2. CASE row' = row /\ ~Working(p)'
      BY <1>g, <2>2, <2>3, <3>2, SoleKept
    <3>3. CASE Pinned(row[KeyOf(p)], proc[p].seen) /\ RowIs(KeyOf(p), "draining", row[KeyOf(p)].lease + 1, TRUE)
      <4>1. Leased(KeyOf(p))'
        BY <3>0, <3>3 DEF RowIs, Leased
      <4> QED BY <3>1, <3>3, <4>1 DEF RowIs
    <3>4. CASE UNCHANGED row /\ Moves(p, "next")
      BY <3>2, <3>4 DEF Becomes, Moves, Working
    <3> QED BY <1>11, <3>3, <3>4 DEF AcquireEffect
  <2> QED BY <1>o, <2>1, <2>2, <2>3
<1>12. ASSUME NEW p \in Procs, ClaimErrsEffect(p)
      PROVE  LeasesExclude'
  <2>1. SeenFits(p)'
    BY <1>12, <1>k, <1>n, IdleFields DEF ClaimErrsEffect, SeenFits, Becomes, Ends, Moves, KeyOf
  <2>2. \A q \in Procs : q # p => proc'[q] = proc[q]
    BY <1>12 DEF ClaimErrsEffect, Becomes, Ends, Moves
  <2>3. ASSUME Plain PROVE Sole'
    BY <1>12, <2>3 DEF ClaimErrsEffect
  <2> QED BY <1>o, <2>1, <2>2, <2>3
<1>13. ASSUME NEW p \in Procs, EmitEffect(p)
      PROVE  LeasesExclude'
  <2>1. SeenFits(p)'
    BY <1>13, <1>k, <1>n, IdleFields DEF EmitEffect, SeenFits, Becomes, Ends, Moves, KeyOf
  <2>2. \A q \in Procs : q # p => proc'[q] = proc[q]
    BY <1>13 DEF EmitEffect, Becomes, Ends, Moves
  <2>3. ASSUME Plain PROVE Sole'
    <3>0. KeyOf(p)' = KeyOf(p) /\ Working(p) /\ row' = row
      BY <1>13 DEF EmitEffect, Becomes, Moves, KeyOf, Working
    <3>1. Leased(KeyOf(p))'
      BY <1>g, <2>3, <3>0 DEF Leased
    <3> QED BY <1>g, <2>2, <2>3, <3>0, <3>1, SoleKept
  <2> QED BY <1>o, <2>1, <2>2, <2>3
<1>14. ASSUME NEW p \in Procs, MarkEffect(p)
      PROVE  LeasesExclude'
  <2>1. SeenFits(p)'
    BY <1>14, <1>k, <1>n, IdleFields DEF MarkEffect, SeenFits, Becomes, Ends, Moves, KeyOf
  <2>2. \A q \in Procs : q # p => proc'[q] = proc[q]
    BY <1>14 DEF MarkEffect, Becomes, Ends, Moves
  <2>3. ASSUME Plain PROVE Sole'
    <3>0. KeyOf(p) \in Keys /\ ~Working(p)' /\ Working(p) /\ \A q \in Procs : Working(q) => KeyOf(q) \in Keys
      BY <1>14, <1>k, IdleFields DEF MarkEffect, Becomes, Ends, Moves, Working
    <3>1. \A q \in Procs : q # p /\ Working(q) => KeyOf(q) # KeyOf(p)
      BY <1>g, <2>3, <3>0
    <3>2. \A q \in Procs : q # p /\ Working(q) => row'[KeyOf(q)] = row[KeyOf(q)]
      BY <1>14, <3>0, <3>1 DEF MarkEffect, Marked, RowIs
    <3> QED BY <1>g, <2>2, <2>3, <3>0, <3>2, SoleKept
  <2> QED BY <1>o, <2>1, <2>2, <2>3
<1>15. ASSUME NEW p \in Procs, MarkErrsEffect(p)
      PROVE  LeasesExclude'
  <2>1. SeenFits(p)'
    BY <1>15, <1>k, <1>n, IdleFields DEF MarkErrsEffect, SeenFits, Becomes, Ends, Moves, KeyOf
  <2>2. \A q \in Procs : q # p => proc'[q] = proc[q]
    BY <1>15 DEF MarkErrsEffect, Becomes, Ends, Moves
  <2>3. ASSUME Plain PROVE Sole'
    BY <1>15, <2>3 DEF MarkErrsEffect
  <2> QED BY <1>o, <2>1, <2>2, <2>3
<1>16. ASSUME NEW p \in Procs, ReturnEffect(p)
      PROVE  LeasesExclude'
  <2>1. SeenFits(p)'
    BY <1>16, <1>k, <1>n, IdleFields DEF ReturnEffect, SeenFits, Becomes, Ends, Moves, KeyOf
  <2>2. \A q \in Procs : q # p => proc'[q] = proc[q]
    BY <1>16 DEF ReturnEffect, Becomes, Ends, Moves
  <2>3. ASSUME Plain PROVE Sole'
    <3>1. row' = row /\ ~Working(p)'
      BY <1>16, IdleFields DEF ReturnEffect, Becomes, Ends, Moves, Working
    <3> QED BY <1>g, <2>2, <2>3, <3>1, SoleKept
  <2> QED BY <1>o, <2>1, <2>2, <2>3
<1>17. ASSUME NEW p \in Procs, DieEffect(p)
      PROVE  LeasesExclude'
  <2>1. SeenFits(p)'
    BY <1>17, <1>k, <1>n, IdleFields DEF DieEffect, SeenFits, Becomes, Ends, Moves, KeyOf
  <2>2. \A q \in Procs : q # p => proc'[q] = proc[q]
    BY <1>17 DEF DieEffect, Becomes, Ends, Moves
  <2>3. ASSUME Plain PROVE Sole'
    <3>1. row' = row /\ ~Working(p)'
      BY <1>17, IdleFields DEF DieEffect, Becomes, Ends, Moves, Working
    <3> QED BY <1>g, <2>2, <2>3, <3>1, SoleKept
  <2> QED BY <1>o, <2>1, <2>2, <2>3
<1>18. ASSUME NEW b \in Bets, ArrivesEffect(b)
      PROVE  LeasesExclude'
  <2>1. UNCHANGED <<row, proc, mode>>
    BY <1>18 DEF ArrivesEffect
  <2> QED BY <2>1 DEF LeasesExclude, Working, Leased, KeyOf
<1>19. ASSUME NEW k \in Keys, DrainEffect(k)
      PROVE  LeasesExclude'
  <2>0. Sweeper \in Procs
    BY DEF Procs
  <2>1. SeenFits(Sweeper)'
    BY <1>19, <1>n, KeyFacts DEF DrainEffect, SeenFits, Becomes, KeyOf, Owed
  <2>2. \A q \in Procs : q # Sweeper => proc'[q] = proc[q]
    BY <1>19 DEF DrainEffect, Becomes
  <2>3. ASSUME Plain PROVE Sole'
    <3>1. row' = row /\ ~Working(Sweeper)'
      BY <1>19 DEF DrainEffect, Becomes, Working
    <3> QED BY <1>g, <2>0, <2>2, <2>3, <3>1, SoleKept
  <2> QED BY <1>o, <2>0, <2>1, <2>2, <2>3
<1>20. ASSUME NEW k \in Keys, ExpireEffect(k)
      PROVE  LeasesExclude'
  <2>0. Sweeper \in Procs /\ proc' = proc
    BY <1>20 DEF Procs, ExpireEffect
  <2>1. SeenFits(Sweeper)'
    BY <1>g, <2>0, SeenKept
  <2>3. ASSUME Plain PROVE Sole'
    <3>1. \A q \in Procs : Working(q) => row'[KeyOf(q)] = row[KeyOf(q)] /\ KeyOf(q)' = KeyOf(q) /\ KeyOf(q) # k
      BY <1>20, <1>k, <2>0, <2>3 DEF ExpireEffect, RowIs, KeyOf, Working
    <3>2. \A q \in Procs : Working(q)' = Working(q)
      BY <2>0 DEF Working
    <3>3. \A q \in Procs : Working(q)' => Leased(KeyOf(q))'
      BY <1>g, <2>3, <3>1, <3>2 DEF Leased
    <3> QED BY <1>g, <2>3, <3>1, <3>2, <3>3
  <2> QED BY <1>o, <2>0, <2>1, <2>3
<1>21. CASE UNCHANGED vars
  BY <1>21 DEF vars, LeasesExclude, Working, Leased, KeyOf
<1> QED BY <1>1, <1>2, <1>3, <1>4, <1>5, <1>6, <1>7, <1>8, <1>9, <1>10, <1>11, <1>12, <1>13, <1>14, <1>15,
       <1>16, <1>17, <1>18, <1>19, <1>20, <1>21 DEF Effect

\* A step keeps the table, or is one of those that write a row.
RowStep ==
  \/ row' = row
  \/ \E p \in Procs : InsertEffect(p) \/ AcquireEffect(p) \/ MarkEffect(p)
  \/ \E k \in Keys : ExpireEffect(k)

\* Rows are written by the call that works under their key, and by the clock.
LEMMA RowWriters ==
  ASSUME Effect
  PROVE  RowStep
  BY DEF Effect, RowStep, PlaceEffect, RecoverEffect, WinStartEffect, VoidEffect, BetEndEffect,
         BetRetryEffect, WinEffect, ClaimEffect, ClaimErrsEffect, EmitEffect, MarkErrsEffect, ReturnEffect,
         DieEffect, BustEffect, ArrivesEffect, DrainEffect, vars

\* A row stays as it is while the only call under its key does not move, unless it can expire.
LEMMA RowStays ==
  ASSUME Effect, mode # "slow", NEW q \in Procs, proc'[q] = proc[q], NEW j \in Keys,
         \A p \in Procs : p # q /\ KeyOf(p) = j => proc[p].pc \notin {"insert", "acquire", "confirm", "failed"},
         row[j].status = "none" \/ (KeyOf(q) = j /\ Working(q))
  PROVE  row'[j] = row[j]
<1>1. ASSUME NEW p \in Procs, InsertEffect(p) PROVE row'[j] = row[j]
  <2>1. p # q
    BY <1>1 DEF InsertEffect, Moves, Becomes
  <2> QED BY <1>1, <2>1 DEF InsertEffect, RowIs
<1>2. ASSUME NEW p \in Procs, AcquireEffect(p) PROVE row'[j] = row[j]
  <2>1. p # q
    BY <1>2 DEF AcquireEffect, Moves, Becomes
  <2> QED BY <1>2, <2>1 DEF AcquireEffect, RowIs
<1>3. ASSUME NEW p \in Procs, MarkEffect(p) PROVE row'[j] = row[j]
  <2>1. p # q
    BY <1>3, IdleFields DEF MarkEffect, Moves, Becomes, Ends
  <2> QED BY <1>3, <2>1 DEF MarkEffect, Marked, RowIs
<1>4. ASSUME NEW k \in Keys, ExpireEffect(k) PROVE row'[j] = row[j]
  <2>1. k # j
    BY <1>4 DEF ExpireEffect
  <2> QED BY <1>4, <2>1 DEF ExpireEffect, RowIs
<1> QED BY <1>1, <1>2, <1>3, <1>4, RowWriters DEF RowStep

\* The sweep takes a row to drain from the table; a drain it has keeps its key.
LEMMA DrainStarts ==
  ASSUME CallsFit, Effect, proc'[Sweeper].drain
  PROVE  \/ proc[Sweeper].drain /\ proc'[Sweeper].b = proc[Sweeper].b
         \/ \E k \in Keys : Owed(k) /\ ~row[k].live /\ proc'[Sweeper].b = k[1]
<1>0. Sweeper \in Procs
  BY DEF Procs
<1>a. ASSUME NEW p \in Procs, NEW pc, NEW b, NEW why, Becomes(p, pc, b, why, FALSE)
      PROVE  proc'[Sweeper] = proc[Sweeper]
  BY <1>0, <1>a DEF Becomes
<1>b. ASSUME NEW p \in Procs, Ends(p)
      PROVE  proc'[Sweeper] = proc[Sweeper]
  BY <1>0, <1>b, IdleFields DEF Ends
<1>c. ASSUME NEW p \in Procs, NEW pc, Moves(p, pc)
      PROVE  proc[Sweeper].drain /\ proc'[Sweeper].b = proc[Sweeper].b
  BY <1>0, <1>c DEF Moves, Becomes
<1>1. ASSUME NEW p \in Procs, NEW b \in Bets, PlaceEffect(p, b) \/ RecoverEffect(p, b) \/ WinStartEffect(p, b)
      PROVE  proc'[Sweeper] = proc[Sweeper]
  BY <1>1, <1>a DEF PlaceEffect, RecoverEffect, WinStartEffect
<1>2. ASSUME NEW p \in Procs, NEW b \in Bets, VoidEffect(p, b)
      PROVE  proc'[Sweeper] = proc[Sweeper]
  BY <1>2, <1>a DEF VoidEffect
<1>3. ASSUME NEW p \in Procs, BetEndEffect(p) \/ BetRetryEffect(p) \/ WinEffect(p) \/ ReturnEffect(p) \/ DieEffect(p)
      PROVE  proc'[Sweeper] = proc[Sweeper]
  BY <1>3, <1>a, <1>b DEF BetEndEffect, BetRetryEffect, WinEffect, ReturnEffect, DieEffect
<1>4. ASSUME NEW p \in Procs, \/ ClaimEffect(p) \/ InsertEffect(p) \/ AcquireEffect(p) \/ ClaimErrsEffect(p)
                              \/ EmitEffect(p) \/ MarkEffect(p) \/ MarkErrsEffect(p)
      PROVE  proc[Sweeper].drain /\ proc'[Sweeper].b = proc[Sweeper].b
  BY <1>4, <1>b, <1>c
     DEF ClaimEffect, InsertEffect, AcquireEffect, ClaimErrsEffect, EmitEffect, MarkEffect, MarkErrsEffect
<1>5. ASSUME NEW k \in Keys, DrainEffect(k)
      PROVE  Owed(k) /\ ~row[k].live /\ proc'[Sweeper].b = k[1]
  BY <1>5 DEF DrainEffect, Becomes
<1>6. (\E b \in Bets : BustEffect(b) \/ ArrivesEffect(b)) \/ (\E k \in Keys : ExpireEffect(k)) \/ UNCHANGED vars
      => proc'[Sweeper] = proc[Sweeper]
  BY DEF BustEffect, ArrivesEffect, ExpireEffect, vars
<1> QED BY <1>1, <1>2, <1>3, <1>4, <1>5, <1>6 DEF Effect

\* The call that compensates its debit: what it is alone with.
LEMMA Compensating ==
  ASSUME TypeOK, CallsFit, OneCallPerBet, NEW q \in Callers,
         proc[q].why \in DebitReasons, CompensatesAlone(q)
  PROVE  /\ q \in Procs /\ q # Sweeper /\ proc[q].b \in Bets /\ ~proc[q].drain /\ proc[q].why \in Reasons
         /\ \A p \in Procs : p # q => proc[p].b # proc[q].b
<1>1. q \in Procs /\ q # Sweeper
  BY DEF Procs
<1>2. CallFits(q) /\ ~proc[q].drain
  BY <1>1, CallFields DEF CallsFit, CallFits
<1>3. proc[q].pc # "idle" /\ proc[q].b \in Bets /\ proc[q].why \in Reasons
  BY <1>2, IdleFields DEF CallFits, Reasons, DebitReasons
<1>4. bet[proc[q].b] = "placing"
  BY <1>2, <1>3 DEF CallFits
<1>5. \A p \in Procs : p # q /\ ~proc[p].drain => proc[p].b # proc[q].b
  BY <1>1, <1>2, <1>3, <1>4, LoneCall
<1>6. \A p \in Procs : proc[p].drain => p = Sweeper
  BY DEF CallsFit, CallFits
<1> QED BY <1>1, <1>2, <1>3, <1>5, <1>6 DEF CompensatesAlone

\* It stays alone when somebody else moves.
LEMMA StaysAlone ==
  ASSUME TypeOK, CallsFit, OneCallPerBet, Effect, mode # "slow", NEW q \in Callers,
         proc[q].why \in DebitReasons, CompensatesAlone(q), proc'[q] = proc[q]
  PROVE  CompensatesAlone(q)'
<1>1. /\ q \in Procs /\ q # Sweeper /\ proc[q].b \in Bets /\ ~proc[q].drain /\ proc[q].why \in Reasons
      /\ \A p \in Procs : p # q => proc[p].b # proc[q].b
  BY Compensating
<1>2. ASSUME NEW w \in Reasons PROVE row'[<<proc[q].b, w>>] = row[<<proc[q].b, w>>]
  <2>1. <<proc[q].b, w>> \in Keys
    BY <1>1 DEF Keys
  <2>2. \A p \in Procs : p # q => KeyOf(p) # <<proc[q].b, w>>
    BY <1>1 DEF KeyOf
  <2>3. row[<<proc[q].b, w>>].status = "none" \/ (KeyOf(q) = <<proc[q].b, w>> /\ Working(q))
    BY DEF CompensatesAlone, KeyOf
  <2> QED BY <1>1, <2>1, <2>2, <2>3, RowStays
<1>3. proc'[Sweeper].drain => proc'[Sweeper].b # proc[q].b
  <2> SUFFICES ASSUME proc'[Sweeper].drain PROVE proc'[Sweeper].b # proc[q].b
    OBVIOUS
  <2>1. ASSUME NEW k \in Keys, Owed(k), ~row[k].live PROVE k[1] # proc[q].b
    BY <2>1, KeyFacts DEF CompensatesAlone, Leased, Owed, KeyOf
  <2> QED BY <1>1, <2>1, DrainStarts DEF CompensatesAlone
<1>4. proc'[q].pc # "acquire" /\ KeyOf(q)' = KeyOf(q) /\ Working(q)' = Working(q) /\ KeyOf(q) = <<proc[q].b, proc[q].why>>
  BY DEF CompensatesAlone, KeyOf, Working
<1>5. Leased(KeyOf(q)) => Leased(KeyOf(q))'
  BY <1>1, <1>2, <1>4 DEF Leased
<1> QED BY <1>1, <1>2, <1>3, <1>4, <1>5 DEF CompensatesAlone

\* The steps of a call that leave it compensating a debit.
LEMMA CompensationSteps ==
  ASSUME CallsFit, Effect, NEW q \in Callers, proc'[q] # proc[q], proc'[q].why \in DebitReasons, proc'[q].pc # "next"
  PROVE  \/ BetRetryEffect(q) /\ proc'[q].pc = "claim" /\ proc'[q].b = proc[q].b
         \/ /\ ClaimEffect(q) \/ InsertEffect(q) \/ AcquireEffect(q) \/ ClaimErrsEffect(q) \/ EmitEffect(q)
            /\ KeyOf(q)' = KeyOf(q) /\ proc[q].b = proc'[q].b /\ proc[q].why = proc'[q].why
<1>0. q \in Procs /\ q # Sweeper /\ "none" \notin DebitReasons /\ "void_refund" \notin DebitReasons
      /\ "void_reclaim" \notin DebitReasons
  BY DEF Procs, DebitReasons
<1>a. ASSUME NEW p \in Procs, NEW pc, NEW b, NEW why, NEW drain, Becomes(p, pc, b, why, drain)
      PROVE  p = q /\ proc'[q].pc = pc /\ proc'[q].b = b /\ proc'[q].why = why
  BY <1>0, <1>a DEF Becomes
<1>b. ASSUME NEW p \in Procs, Ends(p)
      PROVE  FALSE
  BY <1>0, <1>b, IdleFields DEF Ends
<1>c. ASSUME NEW p \in Procs, NEW pc, Moves(p, pc)
      PROVE  /\ p = q /\ KeyOf(q)' = KeyOf(q) /\ proc[q].b = proc'[q].b /\ proc[q].why = proc'[q].why
             /\ proc'[q].pc = pc
  BY <1>0, <1>a, <1>c DEF Moves, KeyOf
<1>1. ASSUME NEW p \in Procs, NEW b \in Bets,
             PlaceEffect(p, b) \/ RecoverEffect(p, b) \/ WinStartEffect(p, b) \/ VoidEffect(p, b)
      PROVE  FALSE
  BY <1>0, <1>1, <1>a DEF PlaceEffect, RecoverEffect, WinStartEffect, VoidEffect
<1>2. ASSUME NEW p \in Procs, BetEndEffect(p) \/ WinEffect(p) \/ ReturnEffect(p) \/ DieEffect(p)
      PROVE  FALSE
  BY <1>0, <1>2, <1>a, <1>b DEF BetEndEffect, WinEffect, ReturnEffect, DieEffect
<1>3. ASSUME NEW p \in Procs, MarkEffect(p) \/ MarkErrsEffect(p)
      PROVE  FALSE
  BY <1>0, <1>3, <1>b, <1>c DEF MarkEffect, MarkErrsEffect
<1>4. ASSUME NEW p \in Procs, BetRetryEffect(p)
      PROVE  p = q /\ proc'[q].pc = "claim" /\ proc'[q].b = proc[q].b
  BY <1>0, <1>4, <1>a DEF BetRetryEffect
<1>5. ASSUME NEW p \in Procs,
             ClaimEffect(p) \/ InsertEffect(p) \/ AcquireEffect(p) \/ ClaimErrsEffect(p) \/ EmitEffect(p)
      PROVE  p = q /\ KeyOf(q)' = KeyOf(q) /\ proc[q].b = proc'[q].b /\ proc[q].why = proc'[q].why
  BY <1>5, <1>b, <1>c DEF ClaimEffect, InsertEffect, AcquireEffect, ClaimErrsEffect, EmitEffect
<1>6. ASSUME NEW k \in Keys, DrainEffect(k)
      PROVE  FALSE
  <2>1. Becomes(Sweeper, "acquire", k[1], k[2], TRUE) /\ Sweeper \in Procs
    BY <1>6 DEF DrainEffect, Procs
  <2> QED BY <1>0, <2>1 DEF Becomes
<1>7. (\E b \in Bets : BustEffect(b) \/ ArrivesEffect(b)) \/ (\E k \in Keys : ExpireEffect(k)) \/ UNCHANGED vars
      => FALSE
  BY DEF BustEffect, ArrivesEffect, ExpireEffect, vars
<1> QED BY <1>1, <1>2, <1>3, <1>4, <1>5, <1>6, <1>7 DEF Effect

\* And its own steps: it finds no row, writes one and works under that one's lease.
LEMMA MovesAlone ==
  ASSUME TypeOK, CallsFit, RowsFit, OneCallPerBet, Effect, NEW q \in Callers,
         proc[q].why \in DebitReasons /\ proc[q].pc # "next" => CompensatesAlone(q),
         proc'[q] # proc[q], proc'[q].why \in DebitReasons, proc'[q].pc # "next"
  PROVE  CompensatesAlone(q)'
<1>0. q \in Procs /\ q # Sweeper /\ Sweeper \in Procs
  BY DEF Procs
<1>1. ASSUME \A p \in Procs : p # q => proc'[p] = proc[p], proc'[q].b = proc[q].b,
             \A w \in Reasons : row[<<proc[q].b, w>>].status = "none"
      PROVE  proc'[Sweeper].drain => proc'[Sweeper].b # proc'[q].b
  <2>1. proc'[Sweeper] = proc[Sweeper]
    BY <1>0, <1>1
  <2>2. proc[Sweeper].drain => proc[Sweeper].pc # "idle"
    BY <1>0, IdleFields DEF CallsFit, CallFits
  <2>3. proc[Sweeper].drain => proc[Sweeper].why \in Reasons /\ row[KeyOf(Sweeper)].status # "none"
    BY <1>0, <2>2 DEF CallsFit, CallFits
  <2> QED BY <1>1, <2>1, <2>3 DEF KeyOf
<1>2. CASE BetRetryEffect(q) /\ proc'[q].pc = "claim" /\ proc'[q].b = proc[q].b
  <2>1. row' = row /\ \A p \in Procs : p # q => proc'[p] = proc[p]
    BY <1>2 DEF BetRetryEffect, Becomes
  <2>2. \A w \in Reasons : row[<<proc[q].b, w>>].status = "none"
    BY <1>0, <1>2 DEF BetRetryEffect, CallsFit, CallFits
  <2> QED BY <1>1, <1>2, <2>1, <2>2 DEF CompensatesAlone
<1>3. ASSUME ClaimEffect(q) \/ InsertEffect(q) \/ AcquireEffect(q) \/ ClaimErrsEffect(q) \/ EmitEffect(q),
             KeyOf(q)' = KeyOf(q), proc[q].b = proc'[q].b, proc[q].why = proc'[q].why
      PROVE  CompensatesAlone(q)'
  <2>1. CompensatesAlone(q) /\ proc[q].why \in Reasons /\ KeyOf(q) \in Keys /\ proc[q].pc # "acquire"
    BY <1>3 DEF ClaimEffect, InsertEffect, AcquireEffect, ClaimErrsEffect, EmitEffect, CompensatesAlone,
                Reasons, DebitReasons
  <2>2. ~Working(q) => \A w \in Reasons : row[<<proc[q].b, w>>].status = "none"
    BY <2>1 DEF CompensatesAlone
  <2>3. \A p \in Procs : p # q => proc'[p] = proc[p]
    BY <1>3 DEF ClaimEffect, InsertEffect, AcquireEffect, ClaimErrsEffect, EmitEffect, Moves, Becomes, Ends
  <2>4. KeyOf(q) = <<proc[q].b, proc[q].why>> /\ proc[q].b \in Bets
    BY <2>1 DEF KeyOf, Keys
  <2>5. CASE ClaimEffect(q) \/ ClaimErrsEffect(q)
    <3>1. \A w \in Reasons : row[<<proc[q].b, w>>].status = "none"
      BY <2>1, <2>2, <2>5 DEF ClaimEffect, ClaimErrsEffect, Working
    <3>2. row[KeyOf(q)].status = "none" /\ ~row[KeyOf(q)].live
      BY <2>1, <2>4, <3>1 DEF RowsFit
    <3>3. row' = row /\ proc'[q].pc # "acquire"
      BY <2>5, <3>2, IdleFields DEF ClaimEffect, ClaimErrsEffect, Moves, Becomes, Ends, Owed
    <3> QED BY <1>1, <1>3, <2>3, <3>1, <3>3 DEF CompensatesAlone
  <2>6. CASE InsertEffect(q)
    <3>1. \A w \in Reasons : row[<<proc[q].b, w>>].status = "none"
      BY <2>1, <2>2, <2>6 DEF InsertEffect, Working
    <3>2. row[KeyOf(q)] = NoRow
      BY <2>1, <2>4, <3>1 DEF RowsFit
    <3>3. RowIs(KeyOf(q), "draining", 1, TRUE) /\ proc'[q].pc = "emit"
      BY <2>6, <3>2 DEF InsertEffect, Moves, Becomes
    <3>4. \A w \in Reasons : w # proc[q].why => row'[<<proc[q].b, w>>].status = "none"
      <4> SUFFICES ASSUME NEW w \in Reasons, w # proc[q].why PROVE row'[<<proc[q].b, w>>].status = "none"
        OBVIOUS
      <4>1. <<proc[q].b, w>> \in Keys /\ <<proc[q].b, w>> # KeyOf(q)
        BY <2>4, KeyFacts
      <4> QED BY <3>1, <3>3, <4>1 DEF RowIs
    <3>5. Leased(KeyOf(q))' /\ Working(q)'
      BY <1>3, <3>3 DEF RowIs, Leased, Working
    <3> QED BY <1>1, <1>3, <2>3, <3>1, <3>3, <3>4, <3>5 DEF CompensatesAlone
  <2>7. CASE EmitEffect(q)
    <3>1. row' = row /\ Working(q) /\ Working(q)' /\ proc'[q].pc # "acquire"
      BY <2>7 DEF EmitEffect, Moves, Becomes, Working
    <3>2. Leased(KeyOf(q)) => Leased(KeyOf(q))'
      BY <1>3, <3>1 DEF Leased
    <3>3. proc'[Sweeper] = proc[Sweeper]
      BY <1>0, <2>3
    <3> QED BY <1>3, <2>1, <3>1, <3>2, <3>3 DEF CompensatesAlone
  <2> QED BY <1>3, <2>1, <2>5, <2>6, <2>7 DEF AcquireEffect
<1> QED BY <1>2, <1>3, CompensationSteps

\* The drain of a debit holds its lease.
DrainsDebit == proc[Sweeper].drain /\ proc[Sweeper].why \in DebitReasons /\ Working(Sweeper)

\* A row that is drained keeps its lease: its key has no other driver.
LEMMA DrainLeased ==
  ASSUME TypeOK, CallsFit, RowsFit, OneCallPerBet, DebitsExclude, Effect, mode # "slow", DrainsDebit'
  PROVE  Leased(KeyOf(Sweeper))'
<1>0. Sweeper \in Procs /\ Callers \subseteq Procs /\ Sweeper \notin Callers
  BY DEF Procs
<1>1. CASE proc'[Sweeper] = proc[Sweeper]
  <2>1. DrainsDebit /\ KeyOf(Sweeper)' = KeyOf(Sweeper) /\ Working(Sweeper)
    BY <1>1 DEF DrainsDebit, Working, KeyOf
  <2>2. Leased(KeyOf(Sweeper)) /\ KeyOf(Sweeper) \in Keys
    BY <1>0, <2>1, CallReverses DEF DebitsExclude, DrainsDebit, Working
  <2>3. ASSUME NEW p \in Procs, p # Sweeper, KeyOf(p) = KeyOf(Sweeper)
        PROVE  proc[p].pc \notin {"insert", "acquire", "confirm", "failed"}
    <3>1. p \in Callers /\ proc[p].b = proc[Sweeper].b /\ proc[p].why \in DebitReasons
      BY <2>1, <2>3 DEF Procs, KeyOf, DrainsDebit
    <3>2. proc[p].pc # "next" => CompensatesAlone(p)
      BY <3>1 DEF DebitsExclude
    <3> QED BY <2>1, <3>1, <3>2 DEF CompensatesAlone, DrainsDebit
  <2>4. row'[KeyOf(Sweeper)] = row[KeyOf(Sweeper)]
    BY <1>0, <1>1, <2>1, <2>2, <2>3, RowStays
  <2> QED BY <2>1, <2>2, <2>4 DEF Leased
<1>2. CASE proc'[Sweeper] # proc[Sweeper]
  <2>0. proc'[Sweeper].drain /\ proc'[Sweeper].pc \in {"emit", "confirm", "failed"} /\ proc'[Sweeper].why \in DebitReasons
    BY DEF DrainsDebit, Working
  <2>a. ASSUME NEW p \in Procs, NEW pc, NEW b, NEW why, Becomes(p, pc, b, why, FALSE)
        PROVE  FALSE
    BY <1>0, <1>2, <2>0, <2>a DEF Becomes
  <2>b. ASSUME NEW p \in Procs, Ends(p)
        PROVE  FALSE
    BY <1>0, <1>2, <2>0, <2>b, IdleFields DEF Ends
  <2>c. ASSUME NEW p \in Procs, NEW pc, Moves(p, pc)
        PROVE  p = Sweeper /\ KeyOf(p)' = KeyOf(p) /\ proc'[Sweeper].pc = pc /\ proc[p].drain /\ proc[p].why \in DebitReasons
    BY <1>0, <1>2, <2>0, <2>c DEF Moves, Becomes, KeyOf
  <2>1. ASSUME NEW p \in Procs, NEW b \in Bets,
               PlaceEffect(p, b) \/ RecoverEffect(p, b) \/ WinStartEffect(p, b) \/ VoidEffect(p, b)
        PROVE  FALSE
    BY <2>1, <2>a DEF PlaceEffect, RecoverEffect, WinStartEffect, VoidEffect
  <2>2. ASSUME NEW p \in Procs, BetEndEffect(p) \/ BetRetryEffect(p) \/ WinEffect(p) \/ ReturnEffect(p) \/ DieEffect(p)
        PROVE  FALSE
    BY <2>2, <2>a, <2>b DEF BetEndEffect, BetRetryEffect, WinEffect, ReturnEffect, DieEffect
  <2>3. ASSUME NEW p \in Procs, ClaimEffect(p) \/ MarkEffect(p) \/ MarkErrsEffect(p)
        PROVE  FALSE
    BY <2>0, <2>3, <2>b, <2>c DEF ClaimEffect, MarkEffect, MarkErrsEffect
  <2>4. ASSUME NEW p \in Procs, InsertEffect(p) \/ ClaimErrsEffect(p)
        PROVE  FALSE
    <3>1. p = Sweeper /\ proc[p].drain
      BY <2>4, <2>b, <2>c DEF InsertEffect, ClaimErrsEffect
    <3> QED BY <2>4, <2>b, <3>1 DEF InsertEffect, ClaimErrsEffect, CallsFit, CallFits
  <2>5. ASSUME NEW p \in Procs, AcquireEffect(p)
        PROVE  Leased(KeyOf(Sweeper))'
    <3>1. p = Sweeper /\ KeyOf(p)' = KeyOf(p) /\ RowIs(KeyOf(p), "draining", row[KeyOf(p)].lease + 1, TRUE)
      <4>1. ~Moves(p, "next")
        BY <2>0, <2>5, <2>c
      <4>2. Moves(p, "emit") /\ RowIs(KeyOf(p), "draining", row[KeyOf(p)].lease + 1, TRUE)
        BY <2>5, <4>1 DEF AcquireEffect
      <4> QED BY <2>5, <2>c, <4>2
    <3> QED BY <3>1 DEF RowIs, Leased
  <2>6. ASSUME NEW p \in Procs, EmitEffect(p)
        PROVE  Leased(KeyOf(Sweeper))'
    <3>1. p = Sweeper /\ KeyOf(p)' = KeyOf(p) /\ row' = row /\ Working(p) /\ proc[p].drain /\ proc[p].why \in DebitReasons
      BY <2>6, <2>c DEF EmitEffect, Working
    <3> QED BY <3>1 DEF DebitsExclude, Leased
  <2>7. ASSUME NEW k \in Keys, DrainEffect(k)
        PROVE  FALSE
    BY <2>0, <2>7 DEF DrainEffect, Becomes
  <2>8. (\E b \in Bets : BustEffect(b) \/ ArrivesEffect(b)) \/ (\E k \in Keys : ExpireEffect(k)) \/ UNCHANGED vars
        => FALSE
    BY <1>2 DEF BustEffect, ArrivesEffect, ExpireEffect, vars
  <2> QED BY <2>1, <2>2, <2>3, <2>4, <2>5, <2>6, <2>7, <2>8 DEF Effect
<1> QED BY <1>1, <1>2

\* The call that placed a bet and the drain of its rollback never meet.
LEMMA DebitsNext ==
  ASSUME TypeOK, CallsFit, RowsFit, OneCallPerBet, DebitsExclude, Effect
  PROVE  DebitsExclude'
<1>m. mode' = mode
  BY ModeKept
<1> SUFFICES ASSUME mode # "slow"
             PROVE  /\ \A p \in Callers : proc'[p].why \in DebitReasons /\ proc'[p].pc # "next" => CompensatesAlone(p)'
                    /\ DrainsDebit' => Leased(KeyOf(Sweeper))'
  BY <1>m DEF DebitsExclude, DrainsDebit
<1>1. ASSUME NEW q \in Callers, proc'[q].why \in DebitReasons, proc'[q].pc # "next"
      PROVE  CompensatesAlone(q)'
  <2>1. proc[q].why \in DebitReasons /\ proc[q].pc # "next" => CompensatesAlone(q)
    BY DEF DebitsExclude
  <2>2. CASE proc'[q] = proc[q]
    <3>1. proc[q].why \in DebitReasons /\ CompensatesAlone(q)
      BY <1>1, <2>1, <2>2
    <3> QED BY <2>2, <3>1, StaysAlone
  <2>3. CASE proc'[q] # proc[q]
    BY <1>1, <2>1, <2>3, MovesAlone
  <2> QED BY <2>2, <2>3
<1> QED BY <1>1, DrainLeased

\* What it takes to owe, or to work on, a reversal of bet a.
Quiet(a) ==
  /\ \A w \in Reasons : ~Owed(<<a, w>>)
  /\ \A p \in Procs : Working(p) => proc[p].b # a

\* A bet that rests has no call of its own.
LEMMA AtRest ==
  ASSUME TypeOK, RowsFit, CallsFit, NEW a \in Bets, bet[a] \in {"new", "rejected"}
  PROVE  \A p \in Procs : proc[p].b = a => proc[p].drain /\ proc[p].why \in DebitReasons
<1> SUFFICES ASSUME NEW p \in Procs, proc[p].b = a PROVE proc[p].drain /\ proc[p].why \in DebitReasons
  OBVIOUS
<1>1. proc[p].pc \notin {"idle", "bet", "win"}
  BY IdleFields DEF CallsFit, CallFits, Bets, NoBet
<1>2. bet[a] \in Reversible(proc[p].why) /\ proc[p].why \in Reasons
  BY <1>1, CallReverses
<1>3. proc[p].why \in DebitReasons
  BY <1>2, ReversibleFacts
<1>4. proc[p].drain
  BY <1>1, <1>3, CallFields DEF CallsFit, CallFits, Reasons
<1> QED BY <1>3, <1>4

\* What is quiet at rest stays so: a drain needs a row that is owed.
LEMMA StaysQuiet ==
  ASSUME TypeOK, RowsFit, CallsFit, LeasesExclude, Effect, NEW a \in Bets, bet[a] \in {"new", "rejected"}, Quiet(a)
  PROVE  Quiet(a)'
<1>a. \A p \in Procs : proc[p].b = a => proc[p].drain /\ ~Working(p)
  BY AtRest DEF Quiet
<1>b. \A p \in Procs : proc[p].b = a => proc[p].pc \notin {"insert", "claim", "emit", "confirm", "failed"}
  BY <1>a DEF Working, CallsFit, CallFits
<1>c. ASSUME NEW p \in Procs, AcquireEffect(p), proc[p].b = a
      PROVE  ~Pinned(row[KeyOf(p)], proc[p].seen)
  <2>1. proc[p].seen.status \in {"pending", "draining"} /\ KeyOf(p) = <<a, proc[p].why>> /\ proc[p].why \in Reasons
    BY <1>c, CallReverses DEF AcquireEffect, LeasesExclude, KeyOf
  <2> QED BY <2>1 DEF Quiet, Owed, Pinned
<1>d. ASSUME NEW p \in Procs, KeyOf(p) \in Keys PROVE KeyOf(p) = <<proc[p].b, proc[p].why>>
  BY DEF KeyOf
<1>1. ASSUME NEW w \in Reasons PROVE row'[<<a, w>>] = row[<<a, w>>]
  <2> DEFINE j == <<a, w>>
  <2>0. j \in Keys
    BY KeyFacts
  <2>1. ASSUME NEW p \in Procs, InsertEffect(p) PROVE row'[j] = row[j]
    <3>1. KeyOf(p) # j
      BY <1>b, <2>1 DEF InsertEffect, KeyOf
    <3> QED BY <2>0, <2>1, <3>1 DEF InsertEffect, RowIs
  <2>2. ASSUME NEW p \in Procs, AcquireEffect(p) PROVE row'[j] = row[j]
    <3>1. KeyOf(p) = j => ~Pinned(row[KeyOf(p)], proc[p].seen)
      BY <1>c, <2>2 DEF KeyOf
    <3> QED BY <2>0, <2>2, <3>1 DEF AcquireEffect, RowIs
  <2>3. ASSUME NEW p \in Procs, MarkEffect(p) PROVE row'[j] = row[j]
    <3>1. KeyOf(p) # j
      BY <1>b, <2>3 DEF MarkEffect, KeyOf
    <3> QED BY <2>0, <2>3, <3>1 DEF MarkEffect, Marked, RowIs
  <2>4. ASSUME NEW k \in Keys, ExpireEffect(k) PROVE row'[j] = row[j]
    <3>1. k # j
      BY <2>4 DEF ExpireEffect, Quiet, Owed
    <3> QED BY <2>0, <2>4, <3>1 DEF ExpireEffect, RowIs
  <2> QED BY <2>1, <2>2, <2>3, <2>4, RowWriters DEF RowStep
<1>2. ASSUME NEW p \in Procs, Working(p)', proc'[p].b = a
      PROVE  FALSE
  <2>0. proc'[p].pc \in {"emit", "confirm", "failed"} /\ (proc'[p] = proc[p] => Working(p) /\ proc[p].b = a)
    BY <1>2 DEF Working
  <2>a. proc'[p] # proc[p]
    BY <1>a, <2>0
  <2>b. ASSUME NEW q \in Procs, NEW pc \in {"bet", "win", "claim"}, NEW b, NEW why, Becomes(q, pc, b, why, FALSE)
        PROVE  FALSE
    BY <2>0, <2>a, <2>b DEF Becomes
  <2>c. ASSUME NEW q \in Procs, Ends(q)
        PROVE  FALSE
    BY <2>0, <2>a, <2>c, IdleFields DEF Ends
  <2>d. ASSUME NEW q \in Procs, NEW pc, Moves(q, pc)
        PROVE  proc[q].b = a /\ pc \in {"emit", "confirm", "failed"}
    BY <1>2, <2>0, <2>a, <2>d DEF Moves, Becomes
  <2>1. ASSUME NEW q \in Procs, NEW b \in Bets,
               PlaceEffect(q, b) \/ RecoverEffect(q, b) \/ WinStartEffect(q, b) \/ VoidEffect(q, b)
        PROVE  FALSE
    BY <2>1, <2>b DEF PlaceEffect, RecoverEffect, WinStartEffect, VoidEffect
  <2>2. ASSUME NEW q \in Procs, BetEndEffect(q) \/ BetRetryEffect(q) \/ WinEffect(q) \/ ReturnEffect(q) \/ DieEffect(q)
        PROVE  FALSE
    BY <2>2, <2>b, <2>c DEF BetEndEffect, BetRetryEffect, WinEffect, ReturnEffect, DieEffect
  <2>3. ASSUME NEW q \in Procs, ClaimEffect(q) \/ MarkEffect(q) \/ MarkErrsEffect(q)
        PROVE  FALSE
    BY <2>3, <2>c, <2>d DEF ClaimEffect, MarkEffect, MarkErrsEffect
  <2>4. ASSUME NEW q \in Procs, InsertEffect(q) \/ EmitEffect(q)
        PROVE  FALSE
    <3>1. proc[q].b = a /\ proc[q].pc \in {"insert", "emit"}
      BY <2>4, <2>d DEF InsertEffect, EmitEffect
    <3> QED BY <1>b, <3>1
  <2>5. ASSUME NEW q \in Procs, ClaimErrsEffect(q)
        PROVE  FALSE
    <3>1. ~proc[q].drain /\ Moves(q, "emit")
      BY <2>5, <2>c DEF ClaimErrsEffect
    <3>2. proc[q].b = a
      BY <2>d, <3>1
    <3> QED BY <1>a, <3>1, <3>2
  <2>6. ASSUME NEW q \in Procs, AcquireEffect(q)
        PROVE  FALSE
    <3>1. ~Moves(q, "next")
      BY <2>d
    <3>2. Moves(q, "emit") /\ Pinned(row[KeyOf(q)], proc[q].seen)
      BY <2>6, <3>1 DEF AcquireEffect
    <3>3. proc[q].b = a
      BY <2>d, <3>2
    <3> QED BY <1>c, <2>6, <3>2, <3>3
  <2>7. ASSUME NEW k \in Keys, DrainEffect(k)
        PROVE  FALSE
    BY <2>0, <2>7, <2>a DEF DrainEffect, Becomes
  <2>8. (\E b \in Bets : BustEffect(b) \/ ArrivesEffect(b)) \/ (\E k \in Keys : ExpireEffect(k)) \/ UNCHANGED vars
        => FALSE
    BY <2>a DEF BustEffect, ArrivesEffect, ExpireEffect, vars
  <2> QED BY <2>1, <2>2, <2>3, <2>4, <2>5, <2>6, <2>7, <2>8 DEF Effect
<1> QED BY <1>1, <1>2 DEF Quiet, Owed

\* Only Place takes the slot.
LEMMA SlotTaken ==
  ASSUME TypeOK, CallsFit, Effect, NEW b \in Bets, bet[b] \in {"new", "rejected"}, bet'[b] \notin {"new", "rejected"}
  PROVE  \E p \in Procs : PlaceEffect(p, b)
<1>a. \A p \in Procs : proc[p].pc # "idle" => proc[p].b \in Bets
  BY DEF CallsFit, CallFits
<1>b. \A p \in Procs : proc[p].pc \in {"bet", "win"} => bet[proc[p].b] \notin {"new", "rejected"}
  BY DEF CallsFit, CallFits
<1>c. \A p \in Procs : ~proc[p].drain /\ proc[p].why = "void_refund" => bet[proc[p].b] \notin {"new", "rejected"}
  BY ReversibleFacts DEF CallsFit, CallFits, Reasons, DebitReasons
<1>1. ASSUME NEW p \in Procs, NEW a \in Bets, PlaceEffect(p, a)
      PROVE  a = b
  BY <1>1 DEF PlaceEffect, BetIs
<1>2. ASSUME NEW p \in Procs, NEW a \in Bets, RecoverEffect(p, a) \/ WinStartEffect(p, a) \/ VoidEffect(p, a)
      PROVE  FALSE
  BY <1>2 DEF RecoverEffect, WinStartEffect, VoidEffect, BetIs
<1>3. ASSUME NEW p \in Procs, BetEndEffect(p) \/ BetRetryEffect(p) \/ WinEffect(p)
      PROVE  FALSE
  BY <1>3, <1>a, <1>b DEF BetEndEffect, BetRetryEffect, WinEffect, BetIs
<1>4. ASSUME NEW p \in Procs, ReturnEffect(p)
      PROVE  FALSE
  BY <1>4, <1>c DEF ReturnEffect, BetIs
<1>5. bet' # bet
  OBVIOUS
<1> QED BY <1>1, <1>2, <1>3, <1>4, <1>5
       DEF Effect, ClaimEffect, InsertEffect, AcquireEffect, ClaimErrsEffect, EmitEffect, MarkEffect, MarkErrsEffect,
           DieEffect, BustEffect, BetIs, ArrivesEffect, DrainEffect, ExpireEffect, vars

\* While a bet takes the slot, nothing is owed on another one.
LEMMA QuietNext ==
  ASSUME TypeOK, RowsFit, CallsFit, LeasesExclude, OneBetPerSlot, DebitsExclude, SlotIsQuiet, Effect
  PROVE  SlotIsQuiet'
<1>m. mode' = mode
  BY ModeKept
<1> SUFFICES ASSUME mode \notin {"rebet", "slow"}, NEW a \in Bets, NEW b \in Bets, a # b,
                    bet'[b] \notin {"new", "rejected"}
             PROVE  Quiet(a)'
  BY <1>m DEF SlotIsQuiet, Quiet
<1>1. CASE bet[b] \notin {"new", "rejected"}
  <2>1. bet[a] \in {"new", "rejected"}
    BY <1>1 DEF OneBetPerSlot
  <2>2. Quiet(a)
    BY <1>1 DEF SlotIsQuiet, Quiet
  <2> QED BY <2>1, <2>2, StaysQuiet
<1>2. CASE bet[b] \in {"new", "rejected"}
  <2>1. PICK p \in Procs : PlaceEffect(p, b)
    BY <1>2, SlotTaken
  <2>2. bet[a] \in {"new", "rejected"} /\ \A k \in Keys : ~Owed(k)
    BY <2>1 DEF PlaceEffect
  <2>3. \A w \in Reasons : ~Owed(<<a, w>>)
    BY <2>2, KeyFacts
  <2>4. ASSUME NEW q \in Procs, Working(q), proc[q].b = a
        PROVE  FALSE
    <3>1. proc[q].drain /\ proc[q].why \in DebitReasons
      BY <2>2, <2>4, AtRest
    <3>2. q = Sweeper
      BY <3>1 DEF CallsFit, CallFits
    <3>3. Leased(KeyOf(q)) /\ KeyOf(q) \in Keys
      BY <2>4, <3>1, <3>2, CallReverses DEF DebitsExclude, Working
    <3> QED BY <2>2, <3>3 DEF Leased, Owed
  <2>5. Quiet(a)
    BY <2>3, <2>4 DEF Quiet
  <2> QED BY <2>2, <2>5, StaysQuiet
<1> QED BY <1>1, <1>2

-----------------------------------------------------------------------------
(* The invariant.                                                          *)

\* Nothing is under way before the first bet.
LEMMA OutboxInit ==
  ASSUME Init
  PROVE  OutboxInv
<1>0. \A p \in Procs : proc[p] = Idle
  BY DEF Init
<1>1. \A p \in Procs : proc[p].pc = "idle" /\ proc[p].b = NoBet /\ proc[p].why = "none" /\ ~proc[p].drain
  BY <1>0, IdleFields
<1>2. \A k \in Keys : row[k] = NoRow /\ row[k].status = "none" /\ ~row[k].live
  BY IdleFields DEF Init
<1>3. \A b \in Bets : bet[b] = "new"
  BY DEF Init
<1>4. Sweeper \in Procs /\ Callers \subseteq Procs
  BY DEF Procs
<1>5. TypeOK
  BY IdleFields, RowTypes DEF Init, TypeOK, BetStates
<1>6. ConfirmedIsApplied /\ WonIsPaid /\ LiveBetIsCharged
  BY <1>1, <1>2, <1>3 DEF ConfirmedIsApplied, WonIsPaid, LiveBetIsCharged, Init
<1>7. RowsFit /\ RowsAreKept
  BY <1>1, <1>2, <1>3 DEF RowsFit, RowsAreKept
<1>8. CallsFit
  BY <1>0, <1>1 DEF CallsFit, CallFits, Reasons, DebitReasons
<1>9. OneCallPerBet /\ OneBetPerSlot
  BY <1>1, <1>3 DEF OneCallPerBet, OneBetPerSlot
<1>10. LeasesExclude /\ DebitsExclude
  BY <1>1, <1>4 DEF LeasesExclude, DebitsExclude, Working, DebitReasons
<1>11. SlotIsQuiet
  BY <1>3 DEF SlotIsQuiet
<1> QED BY <1>5, <1>6, <1>7, <1>8, <1>9, <1>10, <1>11 DEF OutboxInv

\* Every step keeps the invariant, each part from those it needs.
LEMMA OutboxNext ==
  ASSUME OutboxInv, [Next]_vars
  PROVE  OutboxInv'
<1>1. /\ TypeOK /\ ConfirmedIsApplied /\ WonIsPaid /\ LiveBetIsCharged
      /\ RowsFit /\ CallsFit /\ OneCallPerBet /\ OneBetPerSlot /\ RowsAreKept
      /\ LeasesExclude /\ DebitsExclude /\ SlotIsQuiet
  BY DEF OutboxInv
<1>2. Effect /\ faults' \in 0 .. MaxFaults
  BY <1>1, StepEffect
<1>3. TypeOK'
  BY <1>1, <1>2, TypeNext
<1>4. RowsFit' /\ CallsFit'
  BY <1>1, <1>2, RowsNext, CallsNext
<1>5. OneCallPerBet' /\ OneBetPerSlot'
  BY <1>1, <1>2, <1>3, AloneNext, SlotNext
<1>6. ConfirmedIsApplied'
  BY <1>1, <1>2, <1>4, ConfirmedNext
<1>7. WonIsPaid' /\ LiveBetIsCharged'
  BY <1>1, <1>2, WonNext, LiveNext
<1>8. RowsAreKept'
  BY <1>1, <1>2, RowsKeptNext
<1>9. LeasesExclude' /\ DebitsExclude'
  BY <1>1, <1>2, <1>3, LeasesNext, DebitsNext
<1>10. SlotIsQuiet'
  BY <1>1, <1>2, QuietNext
<1> QED BY <1>3, <1>4, <1>5, <1>6, <1>7, <1>8, <1>9, <1>10 DEF OutboxInv

\* The invariant of the outbox and the operator's statement, for any number of attempts,
\* calls, retries and faults: a row is confirmed only when the operator has undone its
\* transaction, a payout we call paid stands, and whoever drives a row holds its lease alone.
THEOREM OutboxIsSafe == Spec => []OutboxInv
<1>1. Init => OutboxInv
  BY OutboxInit
<1>2. OutboxInv /\ [Next]_vars => OutboxInv'
  BY OutboxNext
<1> QED BY <1>1, <1>2, PTL DEF Spec

\* No rollback, however late or repeated, takes back the debit of a bet in play while the
\* slot is not bet again before the rollback is confirmed.
THEOREM BetInPlayIsCharged == Spec => []LiveBetIsCharged
<1>1. OutboxInv => LiveBetIsCharged
  BY DEF OutboxInv
<1> QED BY <1>1, OutboxIsSafe, PTL

\* A charge that a rejected bet left at the operator is a row that the drain will find.
THEOREM OwedReversalIsRecorded == Spec => []OwedIsRecorded
<1>1. ASSUME OutboxInv PROVE OwedIsRecorded
  <2> SUFFICES ASSUME mode \notin {"late", "store"}, NEW b \in Bets, bet[b] = "rejected", charge = b
               PROVE  \E why \in Reasons : Owed(<<b, why>>)
    BY DEF OwedIsRecorded
  <2>1. PICK why \in Reasons : row[<<b, why>>].status # "none"
    BY <1>1 DEF OutboxInv, RowsAreKept
  <2>2. <<b, why>> \in Keys /\ <<b, why>>[1] = b /\ <<b, why>>[2] = why
    BY DEF Keys
  <2>3. bet[b] \in Reversible(why)
    BY <1>1, <2>1, <2>2 DEF OutboxInv, RowsFit
  <2>4. why # "void_reclaim"
    BY <2>3, ReversibleFacts
  <2>5. row[<<b, why>>].status # "confirmed"
    BY <1>1, <2>2, <2>4 DEF OutboxInv, ConfirmedIsApplied, Applied
  <2>6. row[<<b, why>>].status \in {"none", "pending", "draining", "confirmed"}
    BY <1>1, <2>2 DEF OutboxInv, TypeOK, RowType
  <2> QED BY <2>1, <2>5, <2>6 DEF Owed
<1> QED BY <1>1, OutboxIsSafe, PTL

\* A live void and the drain never both send the same reversal.
THEOREM OneDriverEmits == Spec => []OneEmitter
<1>1. ASSUME OutboxInv PROVE OneEmitter
  <2> SUFFICES ASSUME mode \notin {"slow", "store"}, NEW k \in Keys
               PROVE  Cardinality({p \in Procs : proc[p].pc = "emit" /\ KeyOf(p) = k}) <= 1
    BY DEF OneEmitter
  <2> DEFINE E == {p \in Procs : proc[p].pc = "emit" /\ KeyOf(p) = k}
  <2>1. \A p, q \in E : p = q
    BY <1>1 DEF OutboxInv, LeasesExclude, Working
  <2>2. CASE E = {}
    BY <2>2, FS_EmptySet
  <2>3. CASE E # {}
    <3>1. PICK p \in E : TRUE
      BY <2>3
    <3>2. E = {p}
      BY <2>1, <3>1
    <3>3. Cardinality({p}) = 1
      BY FS_Singleton
    <3> QED BY <3>2, <3>3
  <2> QED BY <2>2, <2>3
<1> QED BY <1>1, OutboxIsSafe, PTL
=============================================================================
