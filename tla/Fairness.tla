----------------------------- MODULE Fairness -----------------------------
(***************************************************************************)
(* The provably fair seed epochs: FairnessService (fairness.service.ts)    *)
(* over its salt providers (salt.provider.ts) and the block oracle         *)
(* (eth-block.ts). An epoch is a committed chain of seeds and a salt; with *)
(* the eth-block provider the salt is the hash of a block that does not    *)
(* exist at commit time.                                                   *)
(*                                                                         *)
(* allocateSeed and ensureChain run in the engine's transitions, maintain  *)
(* beside them, unawaited. No statement of the three shares a transaction  *)
(* with another: every statement is a step. A caller is a node; a deposed  *)
(* leader's call may still run beside its successor's.                     *)
(*                                                                         *)
(* Hashes are abstracted to where they come from: "hash" is the hash of    *)
(* the committed block, "forged" one that a lying endpoint reports.        *)
(***************************************************************************)
EXTENDS Naturals, Sequences, FiniteSets

CONSTANTS
  Callers,           \* nodes
  Deposed,           \* those that were replaced while a transition was in flight; the
                     \* other is the leader
  Rpcs, Liars,       \* the configured endpoints and the ones that may lie
  ChainLength,       \* rounds one epoch can serve: chainLength() - 1
  MaxEpochs,         \* bound on the epochs opened
  MaxFaults          \* bound on deposed leaders, outages, failed statements and crashes

\* The endpoints that may lie are a minority of the configured; one node leads.
ASSUME FairnessAssumption ==
  /\ IsFiniteSet(Rpcs) /\ Liars \subseteq Rpcs /\ 2 * Cardinality(Liars) < Cardinality(Rpcs)
  /\ Deposed \subseteq Callers /\ \A c, d \in Callers \ Deposed : c = d
  /\ ChainLength \in Nat \ {0} /\ MaxEpochs \in Nat \ {0, 1} /\ MaxFaults \in Nat

VARIABLES
  strict,    \* FAIRNESS_REQUIRE_BLOCK_SALT
  block,     \* the provider: eth-block, or random
  faults,
  epoch,     \* fairness_chains by epoch: [status, source, salt, seeds, used];
             \* seeds, used: rows, rounds
  final,     \* the epochs whose committed block is finalized
  started,   \* the callers whose start() has asked for an epoch
  call,      \* per caller: allocateSeed or ensureChain in flight
  upkeep     \* per caller: maintain in flight

vars == <<strict, block, faults, epoch, final, started, call, upkeep>>
config == <<strict, block>>
fixed == <<config, final, started>>

Ids == DOMAIN epoch
With(status) == {i \in Ids : epoch[i].status = status}
Salts == {"none", "random", "hash", "forged"}
Epoch(status, source, salt, seeds, used) ==
  [status |-> status, source |-> source, salt |-> salt, seeds |-> seeds, used |-> used]
EpochType == [status : {"pending", "armed", "active", "exhausted"},
              source : {"random", "eth-block"}, salt : Salts, seeds : {0, ChainLength}, used : Nat]

CallSteps == {"active", "retireActive", "armed", "retireArmed", "pending", "arm",
              "promote", "max", "create", "seeds", "seed", "exhaust", "round"}
Call(fn, pc, pass, e, salt) == [fn |-> fn, pc |-> pc, pass |-> pass, e |-> e, salt |-> salt]
CallType == [fn : {"none", "ensure", "allocate"}, pc : CallSteps \cup {"idle"},
             pass : Nat, e : Nat, salt : Salts]
NoCall == Call("none", "idle", 0, 0, "none")

UpkeepSteps == {"scan", "resolve", "arm", "active", "count", "max", "create", "seeds"}
Upkeep(pc, todo, e, salt) == [pc |-> pc, todo |-> todo, e |-> e, salt |-> salt]
UpkeepType == [pc : UpkeepSteps \cup {"idle"}, todo : SUBSET Nat, e : Nat, salt : Salts]
NoUpkeep == Upkeep("idle", {}, 0, "none")

TypeOK ==
  /\ strict \in BOOLEAN /\ block \in BOOLEAN /\ faults \in 0 .. MaxFaults
  /\ epoch \in Seq(EpochType) /\ Len(epoch) <= MaxEpochs
  /\ final \subseteq Ids /\ started \subseteq Callers
  /\ call \in [Callers -> CallType] /\ upkeep \in [Callers -> UpkeepType]

\* makeSaltProvider and assertFairnessBootConfig: a strict node that does not draw its
\* salt from blocks, or has fewer than three endpoints, does not start.
BootConfig == strict => block /\ Cardinality(Rpcs) >= 3

\* A fresh database, or what an earlier deployment left: a play-money epoch before
\* the flip to strict, perhaps with the next one armed already, or a block epoch.
Init ==
  /\ strict \in BOOLEAN /\ block \in BOOLEAN /\ BootConfig /\ faults = 0
  /\ epoch \in {<< >>, <<Epoch("active", "random", "random", ChainLength, 0)>>,
                <<Epoch("active", "random", "random", ChainLength, 0),
                  Epoch("armed", "random", "random", ChainLength, 0)>>,
                <<Epoch("active", "eth-block", "hash", ChainLength, 0)>>}
  /\ final = {e \in Ids : epoch[e].source = "eth-block"}
  /\ started = {} /\ call = [c \in Callers |-> NoCall] /\ upkeep = [c \in Callers |-> NoUpkeep]

Fault == faults < MaxFaults /\ faults' = faults + 1
NoFault == faults' = faults
\* A call goes on, at an epoch, or returns; maintain likewise.
At(c, pc, e) == call' = [call EXCEPT ![c] = Call(@.fn, pc, @.pass, e, @.salt)]
Go(c, pc) == At(c, pc, call[c].e)
End(c) == call' = [call EXCEPT ![c] = NoCall]
UpAt(c, pc, todo, e, salt) == upkeep' = [upkeep EXCEPT ![c] = Upkeep(pc, todo, e, salt)]
UpGo(c, pc) == UpAt(c, pc, upkeep[c].todo, upkeep[c].e, upkeep[c].salt)
UpEnd(c) == upkeep' = [upkeep EXCEPT ![c] = NoUpkeep]

\* The updates of an epoch, by id.
SetStatus(e, status) ==
  epoch' = [epoch EXCEPT ![e] = Epoch(status, @.source, @.salt, @.seeds, @.used)]
SetSalt(e, status, salt) ==
  epoch' = [epoch EXCEPT ![e] = Epoch(status, @.source, salt, @.seeds, @.used)]
SetSeeds(e, seeds, used) ==
  epoch' = [epoch EXCEPT ![e] = Epoch(@.status, @.source, @.salt, seeds, used)]

\* orderBy epoch, desc or asc, take the first.
Newest(e, S) == e \in S /\ \A f \in S : f <= e
Oldest(e, S) == e \in S /\ \A f \in S : e <= f

(* ------------------------------------------- finalizedBlockHash, resolve *)

\* What the endpoints can say of a block: an honest one its hash or nothing.
Votes(known) ==
  [Rpcs \ Liars -> IF known THEN {"hash", "none"} ELSE {"none"}]
LiarVotes == [Liars -> {"hash", "forged", "none"}]
Count(v, w, h) == Cardinality({r \in Rpcs \ Liars : v[r] = h}) + Cardinality({r \in Liars : w[r] = h})

\* Mutant: the most frequent answer, without a majority of the configured.
TopHashPlurality(nHash, nForged) ==
  IF nHash = nForged THEN "none" ELSE IF nHash > nForged THEN "hash" ELSE "forged"

\* The top hash, unless two tie for it or it lacks a majority of the configured.
TopHash(nHash, nForged) ==
  LET best == IF nHash > nForged THEN "hash" ELSE "forged"
      n == IF nHash > nForged THEN nHash ELSE nForged
      need == Cardinality(Rpcs) \div 2 + 1
  IN  IF n = 0 \/ nHash = nForged THEN "none" ELSE IF n >= need THEN best ELSE "none"

\* The outcomes of tryResolve for an epoch; an unreachable oracle is "none".
Resolved(e) ==
  IF epoch[e].salt # "none" THEN {epoch[e].salt}
  ELSE {TopHash(Count(v, w, "hash"), Count(v, w, "forged")) :
          v \in Votes(e \in final), w \in LiarVotes}
\* All honest endpoints answer.
Settled(e) == IF epoch[e].salt # "none" THEN epoch[e].salt
              ELSE IF e \in final THEN "hash" ELSE "none"

\* A salt comes back; not getting one the chain would yield is a fault.
Resolve(e, s) ==
  /\ s \in Resolved(e)
  /\ IF s = "none" /\ Settled(e) # "none" THEN Fault ELSE NoFault

(* ---------------------------------------------------- ensureActiveChain *)

\* start() calls ensureChain; then every enterWaiting calls maintain, without waiting
\* for it and one at a time, and allocateSeed.
Begin(c) ==
  /\ c \notin Deposed /\ call[c] = NoCall
  /\ \/ /\ c \notin started /\ UNCHANGED upkeep
        /\ call' = [call EXCEPT ![c] = Call("ensure", "active", 1, 0, "none")]
     \/ /\ c \in started
        /\ call' = [call EXCEPT ![c] = Call("allocate", "active", 1, 0, "none")]
        /\ \/ upkeep[c] = NoUpkeep /\ UpGo(c, "scan")
           \/ upkeep[c] # NoUpkeep /\ UNCHANGED upkeep
  /\ started' = started \cup {c}
  /\ NoFault /\ UNCHANGED <<config, final, epoch>>

\* What is left of a deposed leader: an allocateSeed or a maintain.
Straggle(c) ==
  /\ c \in Deposed \ started
  /\ \/ call' = [call EXCEPT ![c] = Call("allocate", "active", 1, 0, "none")]
        /\ UNCHANGED upkeep
     \/ UpGo(c, "scan") /\ UNCHANGED call
  /\ started' = started \cup {c}
  /\ Fault /\ UNCHANGED <<config, final, epoch>>

\* ensureActiveChain returns an epoch.
Serve(c, e) ==
  \/ call[c].fn = "ensure" /\ End(c)
  \/ call[c].fn = "allocate" /\ At(c, "seed", e)

\* Mutant: an epoch left by play money is served after the flip.
NotServableNever(e) == FALSE

NotServable(e) == strict /\ epoch[e].source # "eth-block"

\* Mutant: an active epoch counts only while it has seeds left.
FindActiveUnused(c) ==
  LET live == {e \in With("active") : epoch[e].used < epoch[e].seeds} IN
  /\ call[c].pc = "active"
  /\ \/ live = {} /\ Go(c, "armed")
     \/ \E e \in live :
          /\ Newest(e, live)
          /\ \/ NotServable(e) /\ At(c, "retireActive", e)
             \/ ~NotServable(e) /\ Serve(c, e)
  /\ NoFault /\ UNCHANGED <<fixed, epoch, upkeep>>

FindActive(c) ==
  /\ call[c].pc = "active"
  /\ \/ With("active") = {} /\ Go(c, "armed")
     \/ \E e \in With("active") :
          /\ Newest(e, With("active"))
          /\ \/ NotServable(e) /\ At(c, "retireActive", e)
             \/ ~NotServable(e) /\ Serve(c, e)
  /\ NoFault /\ UNCHANGED <<fixed, epoch, upkeep>>

FindArmed(c) ==
  /\ call[c].pc = "armed"
  /\ \/ With("armed") = {} /\ Go(c, "pending")
     \/ \E e \in With("armed") :
          /\ Oldest(e, With("armed"))
          /\ \/ NotServable(e) /\ At(c, "retireArmed", e)
             \/ ~NotServable(e) /\ At(c, "promote", e)
  /\ NoFault /\ UNCHANGED <<fixed, epoch, upkeep>>

\* retireChain, by id.
Retire(c) ==
  /\ \/ call[c].pc = "retireActive" /\ Go(c, "armed")
     \/ call[c].pc = "retireArmed" /\ Go(c, "pending")
  /\ SetStatus(call[c].e, "exhausted")
  /\ NoFault /\ UNCHANGED <<fixed, upkeep>>

\* The oldest pending epoch, and the oracle's answer for it.
FindPending(c) ==
  /\ call[c].pc = "pending"
  /\ \/ With("pending") = {} /\ Go(c, "max") /\ NoFault
     \/ \E e \in With("pending") : \E s \in Salts :
          /\ Oldest(e, With("pending")) /\ Resolve(e, s)
          /\ \/ s = "none" /\ Go(c, "max")
             \/ s # "none" /\ call' = [call EXCEPT ![c] = Call(@.fn, "arm", @.pass, e, s)]
  /\ UNCHANGED <<fixed, epoch, upkeep>>

Arm(c) ==
  LET e == call[c].e IN
  /\ call[c].pc = "arm"
  /\ SetSalt(e, epoch[e].status, call[c].salt)
  /\ Go(c, "promote")
  /\ NoFault /\ UNCHANGED <<fixed, upkeep>>

Promote(c) ==
  /\ call[c].pc = "promote"
  /\ SetStatus(call[c].e, "active")
  /\ Serve(c, call[c].e)
  /\ NoFault /\ UNCHANGED <<fixed, upkeep>>

(* ------------------------------------------------------------ createEpoch *)

\* The number is max + 1 of now and unique: of two creators one fails.
NextId == Len(epoch) + 1
Opens(e, r) == epoch' = Append(epoch, r) /\ e = NextId
Taken(e) == e # NextId
AddSeeds(e) == SetSeeds(e, ChainLength, epoch[e].used)

\* createEpoch(true). A block salt is never known at once: strict gives up and the
\* engine tries again later, else a random salt takes its place.
CommitNow(c) ==
  /\ call[c].pc = "max"
  /\ (strict /\ End(c)) \/ (~strict /\ At(c, "create", NextId))
  /\ NoFault /\ UNCHANGED <<fixed, epoch, upkeep>>
CreateNow(c) ==
  /\ call[c].pc = "create"
  /\ \/ Taken(call[c].e) /\ End(c) /\ UNCHANGED epoch
     \/ /\ NextId <= MaxEpochs
        /\ Opens(call[c].e, Epoch("active", "random", "random", 0, 0)) /\ Go(c, "seeds")
  /\ NoFault /\ UNCHANGED <<fixed, upkeep>>
SeedsNow(c) ==
  /\ call[c].pc = "seeds"
  /\ AddSeeds(call[c].e) /\ Serve(c, call[c].e)
  /\ NoFault /\ UNCHANGED <<fixed, upkeep>>

(* ----------------------------------------------- allocateSeed, the round *)

\* nextUnusedSeed; an epoch without one is closed and the next one asked for, once.
NextUnusedSeed(c) ==
  LET x == epoch[call[c].e] IN
  /\ call[c].pc = "seed"
  /\ \/ x.used < x.seeds /\ call' = [call EXCEPT ![c] = Call(@.fn, "round", x.used + 1, @.e, @.salt)]
     \/ x.used >= x.seeds /\ call[c].pass = 1 /\ Go(c, "exhaust")
     \/ x.used >= x.seeds /\ call[c].pass # 1 /\ End(c)
  /\ NoFault /\ UNCHANGED <<fixed, epoch, upkeep>>

Again(c) == call' = [call EXCEPT ![c] = Call(@.fn, "active", 2, @.e, @.salt)]

\* Mutant: the status is not written.
ExhaustUnwritten(c) ==
  /\ call[c].pc = "exhaust"
  /\ Again(c)
  /\ NoFault /\ UNCHANGED <<fixed, epoch, upkeep>>

Exhaust(c) ==
  /\ call[c].pc = "exhaust"
  /\ SetStatus(call[c].e, "exhausted")
  /\ Again(c)
  /\ NoFault /\ UNCHANGED <<fixed, upkeep>>

\* round.create with the seed's number (kept in pass); a seed has one round.
OpenRound(c) ==
  LET e == call[c].e
      x == epoch[e]
  IN
  /\ call[c].pc = "round"
  /\ SetSeeds(e, x.seeds, IF x.used < call[c].pass THEN call[c].pass ELSE x.used)
  /\ End(c)
  /\ NoFault /\ UNCHANGED <<fixed, upkeep>>

(* --------------------------------------------------------------- maintain *)

Scan(c) ==
  /\ upkeep[c].pc = "scan"
  /\ UpAt(c, "resolve", With("pending"), 0, "none")
  /\ NoFault /\ UNCHANGED <<fixed, epoch, call>>

\* The next pending epoch of those read, or on to the pre-commit.
UpkeepResolves(c) ==
  LET todo == upkeep[c].todo IN
  /\ upkeep[c].pc = "resolve"
  /\ \/ todo = {} /\ UpGo(c, "active") /\ NoFault
     \/ \E e \in todo : \E s \in Salts :
          /\ Oldest(e, todo) /\ Resolve(e, s)
          /\ \/ s = "none" /\ UpAt(c, "resolve", todo \ {e}, 0, "none")
             \/ s # "none" /\ UpAt(c, "arm", todo \ {e}, e, s)
  /\ UNCHANGED <<fixed, epoch, call>>

\* The update names the epoch by id, whatever became of it since the scan.
UpkeepArms(c) ==
  /\ upkeep[c].pc = "arm"
  /\ SetSalt(upkeep[c].e, "armed", upkeep[c].salt)
  /\ UpAt(c, "resolve", upkeep[c].todo, 0, "none")
  /\ NoFault /\ UNCHANGED <<fixed, call>>

UpkeepFindsActive(c) ==
  /\ upkeep[c].pc = "active"
  /\ \/ With("active") = {} /\ UpEnd(c)
     \/ With("active") # {} /\ UpGo(c, "count")
  /\ NoFault /\ UNCHANGED <<fixed, epoch, call>>

UpkeepCounts(c) ==
  LET waiting == With("pending") \cup With("armed") IN
  /\ upkeep[c].pc = "count"
  /\ \/ waiting = {} /\ UpGo(c, "max")
     \/ waiting # {} /\ UpEnd(c)
  /\ NoFault /\ UNCHANGED <<fixed, epoch, call>>

\* createEpoch(false): a commitment to a future block, left pending; a random salt
\* if that is the provider or the commit fails, unless strict.
UpkeepCommits(c) ==
  /\ upkeep[c].pc = "max"
  /\ \/ block /\ UpAt(c, "create", {}, NextId, "none") /\ NoFault
     \/ ~block /\ UpAt(c, "create", {}, NextId, "random") /\ NoFault
     \/ block /\ strict /\ UpEnd(c) /\ Fault
     \/ block /\ ~strict /\ UpAt(c, "create", {}, NextId, "random") /\ Fault
  /\ UNCHANGED <<fixed, epoch, call>>

UpkeepCreates(c) ==
  LET e == upkeep[c].e IN
  /\ upkeep[c].pc = "create"
  /\ \/ Taken(e) /\ UpEnd(c) /\ UNCHANGED epoch
     \/ /\ NextId <= MaxEpochs /\ UpGo(c, "seeds")
        /\ \/ upkeep[c].salt = "none" /\ Opens(e, Epoch("pending", "eth-block", "none", 0, 0))
           \/ upkeep[c].salt # "none" /\ Opens(e, Epoch("armed", "random", "random", 0, 0))
  /\ NoFault /\ UNCHANGED <<fixed, call>>

UpkeepSeeds(c) ==
  /\ upkeep[c].pc = "seeds"
  /\ AddSeeds(upkeep[c].e) /\ UpEnd(c)
  /\ NoFault /\ UNCHANGED <<fixed, call>>

(* ------------------------------------------------------------ environment *)

\* The committed block is finalized.
Finalize(e) ==
  /\ e \in Ids \ final /\ epoch[e].source = "eth-block"
  /\ final' = final \cup {e}
  /\ NoFault /\ UNCHANGED <<config, started, epoch, call, upkeep>>

\* A statement fails, in the call or in maintain, which log it and end.
Throws(c) ==
  /\ Fault
  /\ \/ call[c] # NoCall /\ End(c) /\ UNCHANGED upkeep
     \/ upkeep[c] # NoUpkeep /\ UpEnd(c) /\ UNCHANGED call
  /\ UNCHANGED <<fixed, epoch>>

\* The process dies.
Crash(c) ==
  /\ Fault
  /\ started' = started \ ({c} \ Deposed) /\ End(c) /\ UpEnd(c)
  /\ UNCHANGED <<config, final, epoch>>

(* --------------------------------------------------------- specification *)

CallStep(c) ==
  \/ FindActive(c) \/ FindArmed(c) \/ Retire(c) \/ FindPending(c)
  \/ Arm(c) \/ Promote(c) \/ CommitNow(c) \/ CreateNow(c) \/ SeedsNow(c)
  \/ NextUnusedSeed(c) \/ Exhaust(c) \/ OpenRound(c)
UpkeepStep(c) ==
  \/ Scan(c) \/ UpkeepResolves(c) \/ UpkeepArms(c) \/ UpkeepFindsActive(c)
  \/ UpkeepCounts(c) \/ UpkeepCommits(c) \/ UpkeepCreates(c) \/ UpkeepSeeds(c)

Next ==
  \/ \E c \in Callers : \/ Begin(c) \/ Straggle(c) \/ CallStep(c) \/ UpkeepStep(c)
                        \/ Throws(c) \/ Crash(c)
  \/ \E e \in Ids : Finalize(e)

Spec == Init /\ [][Next]_vars

\* The engine keeps asking for rounds, statements return, blocks are finalized.
Fairness ==
  /\ \A c \in Callers : WF_vars(CallStep(c)) /\ WF_vars(UpkeepStep(c))
  /\ \A c \in Callers \ Deposed : WF_vars(Begin(c))
  /\ WF_vars(\E e \in Ids : Finalize(e))
FairSpec == Spec /\ Fairness

(* ------------------------------------------------------------ properties *)

Served(e) == epoch[e].used > 0

\* Whatever races between nodes, maintain and the flip to real money: a round is
\* only opened under a salt that was committed to, genuine, and in strict mode
\* the hash of a block.
ServedSaltIsGenuine ==
  \A e \in Ids : Served(e) =>
    /\ epoch[e].salt = IF epoch[e].source = "eth-block" THEN "hash" ELSE "random"
    /\ strict => epoch[e].source = "eth-block"

\* ensureActiveChain serves THE active epoch. A deposed leader's call may open a
\* second one beside its successor; without one, calls, upkeep and crashes of a
\* node never leave two.
OneActiveEpoch ==
  \A e, f \in With("active") : e # f => started \cap Deposed # {}

\* What keeps it: a call that looked past the active epoch left none behind, and one
\* that serves or retires an epoch has the only active one.
Alone == started \cap Deposed = {}
ServesAlone(c) ==
  /\ call[c].pc \in {"armed", "retireArmed", "pending", "arm", "promote", "max", "create"} =>
       With("active") = {}
  /\ call[c].pc \in {"retireActive", "seeds", "seed", "exhaust", "round"} =>
       With("active") \subseteq {call[c].e}
CallsAlone ==
  /\ \A c \in Deposed \ started : call[c] = NoCall /\ upkeep[c] = NoUpkeep
  /\ Alone => \A c \in Callers \ Deposed : ServesAlone(c)

\* The salt of an epoch is the committed one or not known yet, which is so only of
\* a block epoch that does not serve.
Genuine(e) == IF epoch[e].source = "eth-block" THEN "hash" ELSE "random"
RowFits(e) ==
  /\ epoch[e].salt \in {"none", Genuine(e)} /\ epoch[e].used <= epoch[e].seeds
  /\ epoch[e].salt = "none" \/ epoch[e].status = "pending" => epoch[e].source = "eth-block"
  /\ epoch[e].status \in {"armed", "active"} \/ epoch[e].used > 0 => epoch[e].salt # "none"
  /\ epoch[e].used > 0 => ~NotServable(e)
RowsFit == \A e \in Ids : RowFits(e)

\* A salt in flight is the genuine one; the epoch of a call may serve, even if the row
\* has changed since it was read; a strict call creates none.
CallFits(c) ==
  /\ call[c].pc \notin {"idle", "active", "armed", "pending", "max", "create"} => call[c].e \in Ids
  /\ call[c].pc \in {"arm", "promote", "seeds", "seed", "exhaust", "round"} => ~NotServable(call[c].e)
  /\ call[c].pc = "arm" => call[c].salt = Genuine(call[c].e)
  /\ call[c].pc \in {"promote", "seeds", "seed", "exhaust", "round"} => epoch[call[c].e].salt # "none"
  /\ call[c].pc = "create" => ~strict
  /\ call[c].pc = "round" => call[c].pass <= epoch[call[c].e].seeds
CallsFit == \A c \in Callers : CallFits(c)
UpkeepFits(c) ==
  /\ upkeep[c].todo \subseteq Ids /\ \A e \in upkeep[c].todo : epoch[e].source = "eth-block"
  /\ upkeep[c].pc \in {"arm", "seeds"} => upkeep[c].e \in Ids
  /\ upkeep[c].pc = "arm" => upkeep[c].salt = Genuine(upkeep[c].e)
UpkeepsFit == \A c \in Callers : UpkeepFits(c)

\* The invariant of the epochs: types, the one that serves, and what calls and
\* maintain may still write to them.
EpochInv == TypeOK /\ OneActiveEpoch /\ CallsAlone /\ RowsFit /\ CallsFit /\ UpkeepsFit

\* Once a round was served, the salt it is verified with never changes, although
\* two nodes and maintain may each resolve and write it.
SaltNeverChanges ==
  [][\A e \in Ids : epoch[e].salt # "none" => epoch'[e].salt = epoch[e].salt]_vars

\* A strict node with no epoch to serve, none committed and no upkeep that could
\* commit one: maintain pre-commits only beside an active epoch.
Cold == strict /\ \A e \in Ids : epoch[e].status = "exhausted"

\* No outage, failed statement, crash or race ends the supply of seeds: epochs are
\* opened to the bound, unless the node is cold.
SeedsContinue == <>[](Len(epoch) = MaxEpochs \/ Cold)

\* DEPLOY.md, Cold real-money start: the strict engine stalls until the first
\* block epoch is finalized, and then plays.
StallEnds == strict ~> \E e \in Ids : Served(e)
===========================================================================
