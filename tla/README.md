# Vault Runner API: a TLA+ verification project

Vault Runner is a multiplayer crash game server (NestJS, PostgreSQL through
Prisma, Redis, Socket.IO). A leader node runs rounds (waiting, betting, running,
crashed, settling, completed); players bet on one of two panels, may cancel while
betting is open, and cash out before the crash point. Money is either on the
server's own ledger (internal and demo wallets) or at an operator reached over
HTTP. This directory models the server's protocols (money, leadership, the round
loop, seeds, sessions, limits, reports), checks them with TLC on small instances,
and proves their safety with TLAPS for instances of any size: the money path, the
leadership and the rounds it drives, the operator outbox, the sessions, the seed
epochs, the limits and the reports.

Paths below are relative to the repository's `src/`; `bets:382` is
`game/bets.service.ts` line 382 and `engine:614` is
`game/game-engine.service.ts` line 614.

## 1. Inventory

| Component | State | Operations | Interacts with | Hard behaviour | What makes it correct | Module |
|---|---|---|---|---|---|---|
| **Bets** `game/bets.service.ts` | `Bet` rows, leaderboard total | placeBet, cancelBet, cashOut, evaluateAutoCashouts, settleRound, voidBet, reconcileVoidingBets, reconcilePendingPayouts | wallet, engine (public state), gateway (callers) | every await is a window for another handler; claim before money; restarts between claim and credit | one row per slot, one credit per bet, books balance, transient rows drain | `Bets`, `Risk` |
| **Ledger** `wallet/ledger.service.ts` | `Wallet.balance`, `LedgerTransaction` rows | debit, credit, reverse (all `record`), resetTo | PostgreSQL row locks and unique index | absolute balance writes, one key on two wallets, retries | balanceAfter chain, one row per key, atomic promise | `Ledger` |
| **Round engine** `game/game-engine.service.ts` | `state` in memory, `Round` rows, one timer, deadman | start, resumeOrRecover, resumeRound, closeStaleExtra, closeAndRefundRound, recovery passes, enter* phases, safe, deadmanCheck | election (fence), fairness (seeds), bets (events), Redis mirror | calls that outlive their deadline, deposed leaders, failed fence reads | one round takes bets, reveal after the crash, rounds go on | `Engine`, `Bets` |
| **Gateway** `game/game.gateway.ts` | sockets, reality-check contexts, overlap flags | place_bet, cancel, cash_out, reality_check_ack, handleConnection, runRgSweep, sweeps | all of the above | messages during a connect, overlapping connects, revocation | one playing socket per user, a pause survives a reconnect | `Bets`, `Sessions` |
| **Leader election** `ha/` | leader flag, cached fence, advisory lock, fence row | tick, promote, beat, demote, stepDown, assertStillLeader, onModuleDestroy | engine start and stop | a dead session noticed late, overlapping polls, two believers | one node passes the fence; a leader emerges | `Election`, `Leadership` |
| **Public round cache** `game/public-round-cache.ts` | last published round | ingest, getPublicState | Redis pub/sub | a deposed leader publishes late | never ahead of the database | `Engine` |
| **Fairness** `fairness/` | epochs, seeds, salts | ensureActiveChain, createEpoch, maintain, allocateSeed, the block oracle, the crash formula | engine | maintain races allocateSeed, lying or silent endpoints, flip to real money | rounds only under genuine salts; seeds do not run out; the house edge | `Fairness`, `Payout` |
| **Risk and limits** `game/risk.service.ts`, `operator/bet-limits.ts`, `operator/rg-config.ts` | limits | checkBetAmount, checkRoundExposure, capPayout, session caps | reserve transaction of placeBet | read committed under an advisory lock; debit outside it | exposure and session caps hold | `Risk`, `Payout` |
| **Operator wallet** `wallet/seamless-operator-wallet.ts`, `http-operator-wallet.ts`, `wallet-rollback.service.ts` | rollback outbox with leases | debit, credit, reverse, rollbackOnce, claim, acquireLease, confirm, recordEmitFailure, drainPending | operator over HTTP | timeouts after success, retries, expired leases, crashes | an owed rollback is emitted until confirmed; the statement ends square | `OperatorWallet` |
| **Operator sessions** `operator/game-session.service.ts`, `launch-token.service.ts` | sessions, consumed tickets | verify, openFromToken, isLive, findNotLive, mark and ack of reality checks, revoke | ledger (demo reset), gateway | double submit, revoke during a bet | one game per ticket, one wallet per player, revoked is cut off | `Sessions` |
| **Privacy erasure** `privacy/data-erasure.service.ts` | tombstones | anonymizePlayer | sessions, bets | launches and bets that overlap it | fails closed on an obligation | `Sessions` |
| **Reporting** `operator/reporting.service.ts` | none | summary, daily, transactionStatus | bet rows | rows in transient statuses | reports agree with each other and with the money | `Reporting` |
| **HTTP surface, auth, audit, health, metrics, Redis, Prisma** | none of their own | adapters | | | not modelled: I/O and wiring | |

How they meet: the gateway turns messages and timers into calls of Bets; Bets
moves money through the wallet interface, which is the Ledger or the operator
wallet depending on the wallet's kind; the engine drives phases under a fence
that the election issues, draws seeds from Fairness, and tells Bets what happened
by events on the leader; sessions decide who may bet; risk is part of the
transaction that reserves a slot; reporting reads the rows.

The hazards this code is exposed to, each at its line and with the properties
that watch it, are listed in `PROJECT.json` under `hazards`.

## 2. Modules

| Module | Role |
|---|---|
| `Bets` | the handlers of one slot; properties and liveness |
| `BetOutcome` | abstract: a slot yields at most one bet, which is held, then won, lost or returned |
| `BetsInv`, `BetsProofs` | the inductive invariants (`IInv` for one leader, `NodesInv` under all faults) and the proofs |
| `Ledger` | the calls of record and resetTo; properties and liveness |
| `LedgerPromise` | abstract: a movement in one step, once per key |
| `LedgerInv`, `LedgerProofs` | as above, for the ledger |
| `Election`, `ElectionProofs` | polls, heartbeats, sessions, lock and fence of several nodes; its proofs |
| `Leadership` | abstract: every grant has a new fence and names one node. Election implements it; Engine runs on it |
| `Engine`, `EngineProofs` | the round loop of several nodes, the rounds table and the followers' view; composed with `Leadership`; its proofs |
| `OperatorWallet`, `OperatorWalletProofs` | attempts on one slot against an operator, with the outbox and its drain; its proofs |
| `Fairness`, `FairnessProofs` | epochs, salts, the oracle's quorum, allocation and upkeep; its proofs |
| `Sessions`, `SessionsProofs` | launch, sockets, reality checks, revocation and erasure of one player; its proofs |
| `Payout` | crash point, payout rounding and caps as operators |
| `Risk` | concurrent placeBet transactions against limits and caps (extends `Payout`) |
| `Reporting` | the operator's reports over the rows of `Risk` |
| `RiskProofs` | the proofs about `Payout`, `Risk` and `Reporting` |
| `MC*` | constants, symmetry and bounds for TLC |

In all modules an asynchronous function is a call in flight, and the code
between two awaits is one action; what a call read before an await is kept in
the call and may be stale when it is used. Faults draw on a budget (`MaxFaults`).
Where faults of several kinds together would exceed what TLC can explore, a
variable that Init chooses and nothing changes (`mode`, `focus`, `slow`) says
which kind a behaviour has; the run covers all of them.

In the modules that are proved about, records are built by a constructor of their
own (`Row`, `Session`, `Epoch`, `Call`, ...) and the invariant that a run names
(`LockInv`, `OutboxInv`, `IdentityInv`, `EpochInv`, `CapsInv`, `RoundInv`) is the
whole inductive invariant: what TLC checks on the small instance is word for word
what the theorem states for every instance (`RoundInv` where `Tame` holds).

### Bets

One slot is the triple (round, user, panel) of the unique index. Slots share
no bet row and no idempotency key, so one slot stands for all of them; several
attempts (`BetIds`) can follow each other because a released reservation is
deleted. `pc[p]` is the await a handler is at and `job[p]` the bet it works
on. `Boot` is the `start()` of a leader: stranded bets, reserving bets, resume or
close. Compare-and-swap updates are the operator `Claim`; updates by id alone
(`CashOutPark`, bets:471; `CloseCancel`, engine:265; `RecoverCancel`, engine:631)
write whatever the status is, as in the code.

| State | Code |
|---|---|
| `round` | `Round.status`; `refunded` is `completed` with `crashedAt` null, which is how engine:660 tells a refund-all close |
| `loop` | whether the engine's in-memory round is this one, a newer one is open, or none is |
| `ancient` | `phaseEndsAt` is past by more than `RESUME_MAX_STALENESS_MS` |
| `settleDue` | a settle event on its way to `onSettle` |
| `status`, `won` | `Bet.status` and `Bet.payout > 0` |
| `debitBy` | the ref of the ledger row under the slot's debit key |
| `posted` | the legs on the ledger, keyed `bet:{id}:{leg}` |
| `loot` | how often the leaderboard counted a win |
| `abandoned` | history: who claimed and stopped before the credit |

What can go wrong is a set of fault kinds, each run naming the ones it allows:
`crash`, `die`, `throw`, `lost_debit`, `orphan`, `failover`, `early_sweep`,
`void_race` (explained in the module). Without `failover` a node's view of the
round is the round and its passes do not overlap (flags `sweeping` and
`reconciling`); with it, a gate may lag and passes of two nodes overlap.
`early_sweep` drops the assumption that RESERVING_STALE_SEC outlasts a placeBet,
and `void_race` the one that operators void only finished cash-outs.

Amounts are abstracted to one unit: a leg posts the amount or payout column of
its own row, and these columns are written once, so which legs are on the
ledger decides the money of a bet. Limits are rejections before the row exists
and are the subject of `Risk`. `OperatorMode` says whether the gateway arms the
payout reconciler, which it does in operator mode only. With `TRUE` the bets are
those of demo wallets, which the router keeps on the internal ledger in operator
mode too. The theorems hold for both values.

`Reconciles` states, for one bet, identities 1a and 1b of
`scripts/reconcile-check.ts`: a refund counts only where the bet has a debit, and
the reclaim of a void is a negative payout. `BooksBalance` says when they must hold:
once nobody works on the bet and no sweep owes it anything.

### Ledger

A call looks for its key outside a transaction, takes the row lock of its
wallet, looks again, reads the balance, writes it back with the movement, and
inserts the journal row. The insert waits for an uncommitted row with the same
key and fails with P2002 once that is committed; the catch then looks the row up.
A statement, a commit or its answer may fail at any point, and a retry is another
call with the same key. A reset that finds its target reached returns null and
leaves no row, so its key is free: a retry after the balance has moved does apply
(the comment at ledger.service.ts:78 calls it a no-op). Bets uses the promise of
this module: a leg is posted in one step, once per key.

### Election and Leadership

The lock is a Postgres session lock held by whichever client the lock object
opened; `sess`, `holder` and `depth` are Postgres's side, `client`, `closing` and
`poll` the node's. A connection breaks at its client first and is reaped by
Postgres later. A poll is connect, lock, bump, promote; it overlaps another only
when round trips are slow (`slow`). `grants` is the history of the fence row:
who each fence was issued to. `ReadFence` is the connection that
assertStillLeader may open on a node without a client. Leadership keeps only
`grants` and which fence each node believes in, and leaves open when a lock is
won, or noticed lost: that is all Engine relies on.

### Engine

`call[n][k]` are the transitions in flight on a node, which move through fence,
write, reveal, publish; `st` is `this.state`, read again after each await as the
code does; `timer` is the single timer. `safe()` races a call against a deadline
and leaves it running, so a call can go on as a zombie (mode `hanging`).
`public` is the last mirrored state, which is what a PublicRoundCache that missed
no message shows; a missed message only makes a view older. Settlement and
reveal are marks on the round; what they pay is in Bets.

Time is abstracted to one distinction. A resume arms its timer for what is left of
the phase, which may be nothing (engine:468, 476, 530, 547), and a flight with a crash
point of 1.00 crashes at once (engine:927): such a timer (`soon`) fires at any moment,
also while calls of other nodes are in flight. A timer of a whole phase fires once the
calls in flight have ended, except in mode `hanging`. `deposed` counts the leaders
that lost the lock without noticing, and the takeovers that a call or a timer of a
deposed leader outlived (`Outlived`); `Tame` says in which weather the rounds are safe
whatever the bounds: at most one of these in mode `steady` (takeovers, crashes, failed
fence reads), none in mode `throwing` (failing statements as well). Even one deposed
leader can put a round that has crashed back to `running`, since its write names the
round by id (`Reopened`, section 5). `crashedAt` stays, and `Status` is how far the
round is by it; the properties say what still holds then.

Two statements stand for several: `StartReads` closes all the stale extra rounds in one
step, and `Resume` mirrors, reveals and mirrors again in one. What other nodes do
between the awaits within either is not explored.

### OperatorWallet

All attempts on a slot share the debit key, which is the operator's
transactionId: `charge` is the attempt whose request stands there. The operator
is external: it dedups a transaction that stands, undoes it on rollback, and
accepts a rollback of something it never saw. `row` is the outbox by dedupe key,
with its status and lease; `live` is the lease not having run out. A call claims
a row, emits the rollback, and confirms it or records the failure; the sweep
drains rows that are owed and not leased, resumes voids and pending payouts, and
rolls back reservations whose call died.

### Fairness

Each statement of ensureActiveChain, createEpoch, allocateSeed and maintain is a
step, since none of them shares a transaction; `upkeep` is a maintain that runs
beside the call that started it. Hashes are abstracted to where they come from.
The oracle is `TopHash` over the votes of the endpoints, of which a minority
lies; `final` holds the epochs whose block is finalized, which honest endpoints
report. Among the callers one leads, any number is deposed. Init covers a fresh
database and what an earlier deployment left: the flip from play money to strict mode,
and a random epoch that was armed beside an active one and is retired on the first call.

### Sessions

One player in one currency: launch tickets, users, sessions, the sockets of one
node, and the reality checks, with messages handled while handleConnection still
waits. `born` and `raced` are history variables that the properties need: whether
a check pending when a socket began to connect is unacknowledged, and whether a
launch or a bet overlapped an erasure. Behaviours have a focus: `identity`
(launch, revocation, erasure, bets) or `play` (sockets, checks, revocation).

### Payout, Risk and Reporting

`Payout` has the integer arithmetic: floorPayout, capPayout, potentialPayout, the
exposure check and crashFromHmacHex. `Risk` runs placeBet with its lock: the read
of the round's bets, the exposure check, the accounting of the session, the insert;
debit and activation follow after the lock. Setups give the wallets operators,
currencies, limits and caps. What a session or a round has at stake is a sum over a
column of its rows (`Stake`, `Win`, `WorstCase`).

As in the code, a status is claimed in one step and the wallet pays in a later one:
cancelBet (bets:382, 388), cashOut (bets:447, 461), voidBet with its two reversals
(bets:571-609), recoverReservingBets and the payout reconciler. A row therefore says
which entries the wallet has for it (`charged`, `refunded`, `paid`, `clawed`), and
`claim` what became of the handler: none at work, one between claim and credit (`open`),
or one that died there or whose credit threw (`lost`: no sweep selects the row).
A payout whose credit throws is parked, whether or not the credit was applied. How
the handlers race for a row is the subject of Bets; here each row has one at a time.

`Reporting` computes summary, daily and transactionStatus over the rows of every
reachable state, that is at every await of these handlers, and compares them with the
entries of the wallet. What the reports promise is: the GGR never counts money that the
house does not hold (rows in `voiding` apart), and counts all of it once every row is at
rest; the days add up to the summary; a disposition never says `none` of a move that
happened, and of a row at rest it never says done of one that did not. Of a row that is
not at rest it can say done too early: section 5 has the three cases.

## 3. Runs

| Run | What it shows |
|---|---|
| `bets_single` | Two attempts, two handlers and the boot, two faults out of crash, die, throw, orphan. The inductive invariant (`IInv`), one credit per bet, balanced books, no orphaned debit, voided is final, and `BetOutcome` is implemented |
| `bets_nodes` | Under every fault kind, two at a time: a win is counted once (`LootOnce`). A busted bet has at most the refund of a restart posted, and no bet has both the refund of a cancel and a payout posted (`OutcomesExclude`) |
| `bets_drain` | Reserving, cancelling, voiding and payout_pending rows are resolved (`BacklogDrains`), and a bet active at the crash is settled (`CrashSettlesBets`) |
| `bets_unpaid_win` | Violation: a restart between claim and credit of a cash-out leaves `cashed_out` unpaid, in a status no sweep selects |
| `ledger` | Two calls in flight, two wallets, two keys: the invariant, the balance chain, the atomic promise, every call returns |
| `election` | `LockInv`: the newest fence belongs to the holder of the lock (unless round trips are slow, section 5), and the heartbeat watches the session with the lock. `OneCurrentLeader`: of all believers one passes the fence. `ImplementsLeadership`. `LeaderEmerges`: after the last fault some node leads for good, unless each has shut down or is deaf (section 5) |
| `engine` | `RoundInv`: a seed is public only once the crash is in the database (as status or, after a late write, as `crashedAt`), settlement comes after the reveal. `OneLiveRound`: two open rounds never both take bets. `CacheNeverAhead`: no view shows a phase the round has not reached. `RoundInv` carries the inductive invariant (`RoundsKept`) from which all three are proved where `Tame` holds. They count on one leader being deposed with something in flight; two break them (section 5). `RoundsContinue`: rounds go on unless a leader is parked |
| `engine_parked_leader` | Violation: one failed fence read stops the loop and the deadman and keeps the leader flag and the lock; the node leads for good and plays no round |
| `operator_wallet` | `OutboxInv`: a confirmed row is applied, a payout called paid stands. `LiveBetIsCharged`: no rollback undoes the debit of a bet in play. `OwedIsRecorded`: a charge left behind is a row of the outbox. `OneEmitter`. `EventuallySquare`: rejected bets get their stake back, voids end with nothing standing, pending payouts are paid |
| `fairness` | `EpochInv`: one active epoch unless a deposed leader interferes. `ServedSaltIsGenuine`: rounds only under a committed, genuine salt, in strict mode a block hash. `SaltNeverChanges`. `SeedsContinue`: no outage, crash or race ends the supply, unless a strict node is cold (section 5) |
| `sessions` | `IdentityInv`: one game per ticket, one wallet per player. `PlayingIsRegistered`, `PauseSurvivesReconnect`, `ErasedIsSettled`, `RevokedIsDropped` |
| `risk` | `CapsInv`: wager and loss caps of a session hold over concurrent bets whatever is cancelled, voided, parked or recovered meanwhile (unless bets of two rounds overlap, section 5), with what each transaction in flight relies on and which entries the wallet has for a row. `ExposureCapped`: what a round pays is within the cap. `HouseEdge`: the crash formula gives the share of 97/x. `ReportsReconcile`: totals, days and dispositions agree with each other and with the wallet at every await |

Properties that hold only in part of the faults say so in their first line
(`mode # "late" => ...`): the excluded case is one in which the code does not
promise it, or in which TLC shows a counterexample (section 5).

**Bounds.** Bets: two attempts are enough for a released slot and its successor to
meet; two handlers and the boot for every pair of racing handlers with a third
recovering; two faults for a failed credit followed by a restart. Ledger: two
calls meet on one wallet, or on one key over two wallets; the proofs cover more.
Election: two nodes, two polls each, two sessions per node, three fences: a win, a
takeover and a return; two faults (one if round trips are slow). Engine: two
nodes, two calls in flight per node, two rounds, three fences, one leader deposed
against its will, two faults (one in mode hanging), and timers that fire at once. OperatorWallet: two attempts,
one caller beside the sweep, two tries per move, two faults: a debit that fails
and a rollback that fails, or a crash after either. Fairness: a leader and a
deposed one, three endpoints of which one lies, epochs of one round, three epochs,
so that each round is a rollover. Sessions: two tickets, two launches, two sockets,
two wallets, two checks, one fault. Risk: two wallets on three seats, two
stakes, three bets, two rounds, one multiplier and one hash per round; two placeBet
calls in flight (`MaxCalls`: one reads and inserts while the other charges or dies) and
one row whose money is on its way or was left behind (`MaxMoves`: rows share no entry,
so two of them differ from one only in the sums, which the proofs cover); the
operator limits, session caps, currencies and play money of two setups; 64 hash
values stand for 2^52 in the crash formula. Symmetry is used for handlers (Bets)
and for the two panels of one player (Risk), in runs without liveness.

Deadlock is checked in `ledger`. Elsewhere it is not: the life of one slot ends,
and in the other modules the bounds on fences, rounds, epochs, bets and checks
stop every behaviour; the liveness properties say what must have happened by then.

**Fairness.** A step of a call is weakly fair: a statement or request returns or
fails. Timers fire: polls and heartbeats, the phase timer and the deadman, the
gateway's intervals (game.gateway.ts:179-219). In Bets the sweeps come back to
every row they select, hence strong fairness per row; in Ledger PostgreSQL queues
waiters for a row or an index entry, hence strong fairness for `LockRow` and
`Insert`. Election assumes that Postgres reaps dead sessions (TCP keepalive), Engine
that a vacant leadership is won (`LeaderEmerges`), OperatorWallet that leases run
out, Fairness that blocks are finalized and the engine keeps asking. Faults and
the requests of players and operators are never fair; faults are bounded, as
liveness needs.

Each property of a passing run has a mutant in `PROJECT.json`: a plausible bug in
one definition, under which the run finds the property violated.

## 4. Proofs

All proofs are for every value of the constants: any number of nodes, handlers,
bets, sockets, epochs, endpoints and faults. The assumptions on constants are the
named `ASSUME`s of the modules, which TLC evaluates on each run. No safety
property here is inductive by itself, since each depends on where the calls in
flight are; every proof therefore goes through an invariant that also says what
each call in flight may rely on, and has one step per action.

**Bets.** `TypeCorrect`: types, under all faults. Two invariants follow it:

* `NodesInvariance`: `Spec => []NodesInv`, with no assumption on the faults, so
  for handlers of several leaders that overlap in any order. `NodesInv` says that
  a row at a decided status has one decider (`DecidedPcs`, `ClaimOK`), what a
  handler on its way to a credit knows of its bet (`WonOK`), and that whoever is
  still to count a win is the only one (`CountOK`). It rests on the claims
  (compare-and-swap updates) alone. From it: `OutcomesExcludeEachOther` and
  `LootIsCountedOnce`.
* `Invariance`: `SingleLeader => (Spec => []IInv)`, where `SingleLeader` excludes
  `lost_debit`, `failover`, `early_sweep` and `void_race` (section 5 shows that
  each breaks a part of it). `IInv` adds which actor can be where (`PcOK`), that
  no player's handler is in flight during a boot or on a round closed with
  refunds and no attempt during a sweep (`QuietOK`), what a row says about the
  ledger (`RowOK`), that an owed credit has a carrier or was abandoned (`OwedOK`),
  what a handler's place says about its bet (`ActorOK`), and that one handler at
  most is on the way to the leaderboard (`LootOK`). `MoneySafety`, `PaidOnce`,
  `NoDebitIsOrphaned`, `VoidFinality` and `Refinement` follow from it.

**Ledger.** `Invariance`: `Spec => []IInv`. `IInv` adds that a transaction holds
its wallet's lock, and that what it staged is still right: the balance it read,
and a key nobody else has recorded or is about to. `LedgerSafety` and
`LedgerRefinement` follow. The only assumptions are that amounts are non-zero
integers, targets are naturals and `NoCaller` is no caller.

**Election.** `LockIsSafe`: `Spec => []LockInv`. `LeaderIsUnique`: of all nodes
that believe they lead at most one carries the newest fence. This needs that a
fence in a poll or in `myFence` was issued to its node (`FencesAreIssued`), since
two nodes then never share one; the rest of `LockInv` ties lock, sessions and
clients together. `ElectionRefinesLeadership`: each poll, heartbeat and step-down
is a step of `Leadership` or changes nothing in it, under the mapping that sends
a node to its fence while its leader flag is set. So what Engine assumes of
leadership is what the code delivers.

**OperatorWallet.** `OutboxIsSafe`: `Spec => []OutboxInv`, and from it
`BetInPlayIsCharged`, `OwedReversalIsRecorded` and `OneDriverEmits`. The
invariant says for which reasons a bet in a given state can have an outbox row
(`Reversible`, `RowsFit`), what a call has achieved at each await (`CallsFit`),
that one call works on a bet (`OneCallPerBet`), that leases and compensations
exclude each other (`LeasesExclude`, `CompensatesAlone`), and that a confirmed or
about to be confirmed row is applied (`ConfirmedIsApplied`). Each theorem keeps
the modes its property names; section 5 has a counterexample for the first.

**Sessions.** `IdentityIsSafe`: `Spec => []IdentityInv`, and from it
`OneGameSocket`, `PauseHolds` and `ErasureFailsClosed`. `SessionsFit`,
`LaunchesFit` and `SocksFit` say what a ticket, a launch and a connect in flight
may rely on; `PauseIsOwed` carries a pending check over the reload of a connect,
and `EraseFits` says what the counts of anonymizePlayer still guarantee when its
transaction begins.

**Fairness.** `EpochsAreSafe`: `Spec => []EpochInv`, and from it `RoundsAreFair`
and `SaltIsFinal`. The argument rests on `QuorumIsHonest`: for any set of
endpoints with a minority of liars, and whichever honest ones are silent,
`TopHash` never returns a forged hash, because that would take a majority of the
configured endpoints. Hence the salt of a row is the genuine one or unknown
(`RowsFit`), so is a salt in flight (`CallsFit`, `UpkeepsFit`), and a write by id
to a row that has moved on repeats what is there. At most one epoch is active
because the one leader that is not deposed looked past or serves the only one
(`CallsAlone`). `FairnessAssumption` says that liars are a minority, that
chain and epoch bounds are positive, and that one caller leads.

**Engine.** `EngineTypes`: types and the shape of calls, in every mode.
`RoundsAreSafe` (`RoundInv`), `OneRoundTakesBets` (`OneLiveRound`) and
`CacheIsNeverAhead` (`CacheNeverAhead`) hold as long as `Tame` does: with any number of
nodes, calls, rounds, fences, crashes and failed fence reads, with timers that fire at
once after a resume and for a crash at 1.00, and with at most one leader deposed
against its will in mode `steady` and none in mode `throwing`. A node
has one call in flight and arms its timer when that ends (`LoopsFit`), so of a deposed
leader only one call past its fence can still act. A call knows of its round what
only goes forward (`CallsFit`). The leader sees the phase that the database has or
that its predecessor's write just ended (`ViewsFit`; `Watched` says that a write or read
can still explain the difference). That write is on the only open round. Its successor
has still to read the round, or has read it in the phase the write ends and moved on
since only as far as its timers allow (`StaleWritesFit`): a 0 ms timer for the phase
the write enters, and after `running` the crash (`Pace`). So the late write either
repeats the phase the round is in, or puts a crashed round back to `running`, and
`crashedAt`, which no write clears, says that it is over. A create that lands late adds
a round nobody has bet on (`LiveFits`). `FencesFit` says that of all fences only the
newest may be unused. Three lemmas (`LeaderMoves`, `StaleMoves`, `LeaderGone`) reduce
each handler to the node it runs on.

**Risk, Reporting and Payout.** `CapsAlwaysHold`: `Spec => []CapsInv`, for any
wallets, limits, caps, rounds and number of transactions. No step but the insert
of a reservation adds to what a session or a round has committed; the insert
checks a sum that was read under the lock (`LockExcludes`, `ReadsAreSafe`) and can
since only have shrunk, and what is still in flight or owing is a part of it
(`CommittedWithinCaps`, `RoundWithinExposure`). `LegsFit` says which entries the wallet
has for a row by its status and claim. `BreakerHolds` (`ExposureCapped`)
follows, since nothing of a round is paid out while bets are taken and
`PayoutIsReserved`: the payout of a cash-out, rounded and capped, is at most what
the breaker reserved for the bet, as long as the multiplier is within
RISK_MAX_MULTIPLIER. `HouseEdgeHolds`: for every size of the hash space, exactly
the share of 97/x of the hashes, rounded down, reaches the multiplier x; a hash h
does when h + 1 is at most 97(E + 1) div x. `ReportsAlwaysReconcile`: at every await
totals, days and dispositions agree with each other and with the wallet in the sense
given in section 2. It needs two arguments: that a row contributes no more to the GGR
than the house holds of it, whoever is between its claim and its credit, which follows
from `LegsFit` (`GainIsHeld`), and that regrouping the rows does not change their sum
(`SumGroups`). What a sum over
rows does when a row joins, leaves or changes is proved by induction over the
subsets of a finite set, with the claim given as a set of subsets
(`SubsetInduction`), a form of induction that the provers can instantiate.

Only model-checked:

* everything temporal under fairness, which is out of the prover's reach:
  `BacklogDrains`, `CrashSettlesBets`, `CallsReturn`, `LeaderEmerges`,
  `RoundsContinue`, `EventuallySquare`, `SeedsContinue`, `RevokedIsDropped`;
* the safety of Engine where `Tame` does not hold, that is with a deposed leader in
  mode `throwing` (of mode `hanging` the properties claim types only). TLC shows
  it on the instance, and with two leaders deposed against their will `RoundInv`,
  `CacheNeverAhead` and `OneLiveRound` all fail (section 5). The fence is read before
  a write and the write names its round by id, so a write that was in flight when its
  leader was deposed lands on whatever its successors made of the round.

## 5. Known counterexamples

Two runs keep a violation, with the quoted comment in `PROJECT.json` under
`findings`. The following were found in the same way; the definitions are in the
modules, and the settings reproduce them from the run's configuration.

| Property | Setting | Trace |
|---|---|---|
| `Bets!NoOrphanedDebit` | BetsSingle, `Faults = {"failover"}` | recoverReservingBets of a new leader (engine:635) deletes the row of a placeBet in flight elsewhere; the debit that lands then has no bet. engine:592 argues "no placeBet is in flight before the engine starts" |
| `Bets!NoOrphanedDebit` | BetsSingle, `Faults = {"lost_debit"}` | a debit that committed and whose answer was lost: bets:317 deletes the row ("Debit FAILED → NO money moved", bets:315). `{"early_sweep"}` gives a third way |
| `Bets!OneCreditPerBet` | BetsSingle, `Faults = {"failover"}` | closeAndRefundRound (engine:265) updates by id; a cancel on another node refunds as well |
| `Bets!CancelIsRefunded` | BetsSingle, `Faults = {"throw"}` | the credit of cancelBet (bets:388) throws after the claim; nothing retries it |
| `Bets!VoidedIsFinal` | BetsSingle, `Faults = {"throw", "void_race"}` | the park of a failed credit (bets:471) overwrites a void |
| `Bets!NoBetOutlivesItsRound` | BetsDrain without faults | the flip to active (bets:337) after settlement: the bet stays active |
| `Bets!BacklogDrains` | BetsDrain, `OperatorMode = FALSE`, `Faults = {"throw"}` | off operator mode a parked payout is never retried (game.gateway.ts:183) |
| `Election!RetryReachesDatabase` | Election | a follower whose client broke keeps polling the dead client: only a demotion closes it (`Deaf`), while election.service.ts:134 says "retry next poll" |
| `Election!FenceFollowsLock` without `~slow` | Election, two slow faults | an old session's poll promotes late; the step-down that follows releases the lock a newer poll of the node has just won; another node locks and bumps, and the newer poll bumps last: the newest fence is not the lock holder's. `OneCurrentLeader` still holds, as the fence is compared and not the lock |
| `Engine!CrashIsFinal` | Engine | A is deposed while its write of `running` is in flight; B resumes the round in betting with nothing of the phase left (engine:476), runs, and crashes at 1.00 at once (engine:927). A's write lands: the status is `running` again on a round whose seed is public. The comment of stillLeader says "a stale leader can never touch money/round state". `crashedAt` stays, and no payment is at stake: cashOut reads the round and its crash point again (bets:411-428) |
| `Engine!RoundInv`, `CacheNeverAhead`, `OneLiveRound` | Engine, `MaxDeposed = 2` (the last with `MaxFence = 4` and four faults) | a timer left over: A is deposed during start() and its loop is stopped, but its late resumeRound arms a timer (engine:468; schedule, engine:796, only asks whether the loop runs when it fires). B plays the round and dies, A is elected again with the timer still pending, which start() does not clear, and the timer fires beside the new start(): two transitions of one node on one round. That the timer waits while B plays a phase is an artefact of untimed timers; the short forms are not |
| the same | Engine, `MaxDeposed = 2`, `MaxFence = 4`, four faults, without leftover timers (`timer[n] = "none"` in `LeaderAcquired`) | two late writes: A is deposed while its write of `betting` is in flight; B reads `waiting` before it lands, enters betting itself and is deposed with that second write in flight; C reads `betting`, runs, crashes and reveals; then B's write lands: the round takes bets and its seed is public. With writes of `settling` instead, a completed round is open again beside the next one |
| `Fairness!StallEnds` | Fairness, `Callers = {n1}`, `Deposed = {}`, `MaxFaults = 0` | a strict node on a fresh database: maintain pre-commits only beside an active epoch, so the first block epoch is never committed (`Cold`), while DEPLOY.md:634-637 expects the stall to end |
| `Risk!RoundNeverOwesMore` | Risk, `MaxRoundExposure = 5` | a transaction that waited until after betting closed reads active and reserving rows only: the bets already cashed out no longer count towards the exposure, while risk.service.ts:4 promises a cap on every round |
| `Risk!CapsHoldOverRounds` | Risk | a bet of the session that is still reserving in round 1 is not counted by a placeBet of round 2, which reads the rows of its own round under its own lock; both are charged and the cap is passed. bets:251 argues "All of a session's concurrent bets are on THIS round" |
| `Reporting!PaidIsCredited` | Risk | `cashed_out` is claimed before the credit (bets:447, 461): until it is posted, and for good when the handler dies in between, transactionStatus says `paid`, which reporting.service.ts:104 defines as "payout credited AND confirmed" |
| `Reporting!RefundIsCompleted` | Risk | the same for cancelBet (bets:382, 388): refund `applied` and debit `reversed` before the refund, or without it; reporting.service.ts:100 says "refund/reversal completed" |
| `Reporting!StakeWasDebited` | Risk | a reserving row whose process died before the debit is claimed as `cancelling` (engine:614) before it is looked up, and reported with debit `applied`; reporting.service.ts:92 says "the stake WAS debited" |
| `Sessions!NeverScrubsInFlight` | Sessions | a launch or a bet between the counts of anonymizePlayer and its transaction |
| `OperatorWallet!LiveBetIsCharged` without its first line | OperatorWallet | the slot is bet again on the debit key of a rollback that is still owed, and the late rollback undoes the new bet's debit; likewise an owner that outlives its lease |

Further facts the models rest on, and what their properties leave out:

* A bet cashed out manually is not clamped to RISK_MAX_MULTIPLIER, so the exposure cap
  is conditional on the crash point; the void of a won bet raises the session's net
  above its loss cap.
* `CapsInv` and `ExposureCapped` exempt what `straddled` and `late` mark: a wallet with
  bets of two rounds in flight at once, and a bet that took its slot after betting had
  closed. `CapsHoldOverRounds` and `RoundNeverOwesMore` above are the same without the
  exemption.
* A place_bet during the load of a connecting socket sees no pause, and a failed isLive
  lets a bet through. `ErasedIsSettled` exempts whatever overlaps the erasure
  (`raced`); `NeverScrubsInFlight` above is the same without the exemption.
* `PauseSurvivesReconnect` is about checks that the database has as pending. A check that
  has fired and whose write is still under way (game.gateway.ts:305-341: the accounting
  comes in between) is unknown to a socket that connects then, which plays without a
  pause.
* A connect whose client has gone still displaces a live socket.
* `SeedsContinue` exempts a strict node that has never had a block epoch (`Cold`);
  `StallEnds` above is the same without the exemption.
* `VoidedIsFinal` and the invariant of Bets hold a void off a cash-out that is in flight
  (`VoidStart`); voidBet (bets:571-589) has no such guard, and `void_race` takes it away.
* On shutdown the release of the lock and the close of its client are one step
  (`Destroy` of Election): what is between them is a client that holds nothing.
* `Reasons` of OperatorWallet leaves out the reversal with intent `restart_refund`
  (closeAndRefundRound, engine:255-263) and the credit of cancelBet at the operator. Both
  are followed in Bets, on the ledger; their calls to an operator are not modelled.

## 6. Not modelled

* Broadcasts, rate limiting, the session time limit and the multiplier tick of the
  gateway and the cache: views and refusals that change no modelled state.
* The Redis lease of the election: written, never read.
* The hash chain itself, HMACs and the verification endpoints: functions of the
  seed; the crash formula is modelled over abstract hash values.
* Token contents, signatures, configuration parsing, the wallet router (a
  stateless choice per wallet): data, not protocol.
* History queries, the pages and cursors of reporting, audit rows (append-only),
  retention (a timer that calls anonymizePlayer).
* HTTP controllers, auth, health, metrics, Redis and Prisma plumbing, and the
  load, drill and provisioning scripts: adapters and tools without protocol state.
