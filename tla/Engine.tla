------------------------------ MODULE Engine ------------------------------
(***************************************************************************)
(* The round loop of GameEngineService (game-engine.service.ts) on several *)
(* nodes over what the election promises (Leadership), with the rounds in  *)
(* the database and the public state that followers mirror                 *)
(* (public-round-cache.ts).                                                *)
(*                                                                         *)
(* A transition is a call in flight that moves one await at a time: fence, *)
(* database write, seed reveal, publish. What it reads from this.state     *)
(* after an await is what this.state is by then. safe() races a call       *)
(* against a deadline and does not stop it: the call goes on as a zombie.  *)
(*                                                                         *)
(* mode, fixed for a behaviour, says how bad the weather is:               *)
(*   "steady"    leaders change, nodes crash, fence reads fail;            *)
(*   "throwing"  also, a database call of a transition may fail;           *)
(*   "hanging"   also, a call may outlive its deadline and later phases.   *)
(* Unless hanging, a timer of a whole phase fires after every call that is *)
(* in flight has ended (calls take milliseconds, phases seconds). A timer  *)
(* that a resume arms for what is left of a phase, and the crash of a      *)
(* flight, which is at once for a crash point of 1.00, fire at any time.   *)
(*                                                                         *)
(* Bets, and what settlement pays, are the subject of Bets.                *)
(***************************************************************************)
EXTENDS Naturals, Sequences, FiniteSets

CONSTANTS
  Nodes, NoFence, MaxFence,
  Slots,                   \* calls of one node that can be in flight together
  MaxRounds,               \* bound on the rounds played
  MaxFaults,               \* bound on the faults, per mode
  MaxDeposed               \* bound on what is counted in deposed

Modes == {"steady", "throwing", "hanging"}
ASSUME EngineAssumption ==
  /\ MaxRounds \in Nat /\ MaxFence \in Nat /\ NoFence \notin Nat
  /\ MaxFaults \in [Modes -> Nat] /\ MaxDeposed \in Nat

VARIABLES
  mode, faults,
  grants, token,    \* Leadership
  used,             \* per node: the last fence it was promoted with
  deposed,          \* leaders deposed against their will so far, and takeovers that
                    \* something of a deposed leader outlived
  round,            \* table rounds, by seed: [status, crashed, revealed, settled], where
                    \* crashed says that crashedAt is set
  public,           \* round:current and the last message on vaultrun:round, which
                    \* is the view of a PublicRoundCache that missed none
  running, timer,   \* per node: the loop is on, the transition its timer will run
  soon,             \* per node: the timer may be at 0 ms
  st,               \* per node: this.state as [r, phase]
  call              \* per node and slot: [fn, at, r, ph, safe]

leadVars == <<grants, token, used, deposed>>
loopVars == <<running, timer, soon, st>>
vars == <<mode, faults, leadVars, round, public, loopVars, call>>

Promise == INSTANCE Leadership
fence == Len(grants)
StillLeader(n) == Promise!StillLeader(n)
isLeader(n) == token[n] # NoFence

(* ---------------------------------------------------------------- phases *)

Phase == <<"waiting", "betting", "running", "crashed", "settling", "completed">>
Phases == {Phase[i] : i \in 1 .. 6}
OPEN_PHASES == Phases \ {"completed"}
PostOutcome == {"running", "crashed", "settling"}
Rank(p) == CHOOSE i \in 1 .. 6 : Phase[i] = p
NextPhase(p) == Phase[(Rank(p) % 6) + 1]

NoState == [r |-> 0, phase |-> "none"]
NoCall == [fn |-> "none", at |-> "none", r |-> 0, ph |-> "none", safe |-> FALSE]
Quiet == \A m \in Nodes, j \in Slots : call[m][j] = NoCall

States == {NoState} \cup [r : 1 .. MaxRounds, phase : Phases]
RoundType == [status : Phases, crashed : BOOLEAN, revealed : BOOLEAN, settled : BOOLEAN]
CallType == [fn : Phases \cup {"none", "start"},
             at : {"none", "read", "resume", "honor", "fence", "create", "write", "reveal", "publish"},
             r : 0 .. MaxRounds + 1, ph : Phases \cup {"none"}, safe : BOOLEAN]

TypeOK ==
  /\ mode \in Modes /\ faults \in 0 .. MaxFaults[mode]
  /\ grants \in Seq(Nodes) /\ fence <= MaxFence
  /\ token \in [Nodes -> 1 .. MaxFence \cup {NoFence}]
  /\ used \in [Nodes -> 0 .. MaxFence] /\ deposed \in 0 .. MaxDeposed
  /\ round \in Seq(RoundType) /\ Len(round) <= MaxRounds
  /\ public \in States
  /\ running \in [Nodes -> BOOLEAN]
  /\ timer \in [Nodes -> Phases \cup {"none"}] /\ soon \in [Nodes -> BOOLEAN]
  /\ st \in [Nodes -> States]
  /\ call \in [Nodes -> [Slots -> CallType]]

Init ==
  /\ mode \in Modes /\ faults = 0
  /\ Promise!Init /\ used = [n \in Nodes |-> 0] /\ deposed = 0
  /\ round = << >> /\ public = NoState
  /\ running = [n \in Nodes |-> FALSE] /\ timer = [n \in Nodes |-> "none"]
  /\ soon = [n \in Nodes |-> FALSE]
  /\ st = [n \in Nodes |-> NoState]
  /\ call = [n \in Nodes |-> [k \in Slots |-> NoCall]]

Fault == faults < MaxFaults[mode] /\ faults' = faults + 1
NoFault == faults' = faults

SetCall(n, k, c) == call' = [call EXCEPT ![n][k] = c]
EndCall(n, k) == SetCall(n, k, NoCall)
FreeSlot(n) ==
  {k \in Slots : call[n][k] = NoCall /\ \A j \in Slots : call[n][j] = NoCall => k <= j}
\* schedule: one timer; arming it replaces what it would have run. It may be at 0 ms
\* or lasts a phase (1.5 s for a retry).
Schedule(n, p, short) ==
  /\ timer' = [timer EXCEPT ![n] = p]
  /\ soon' = [soon EXCEPT ![n] = short]
\* stop: the loop is off, its timer and its deadman are cleared.
Stop(n) ==
  /\ running' = [running EXCEPT ![n] = FALSE]
  /\ Schedule(n, "none", FALSE)
Keep == UNCHANGED mode

\* mirror: getPublicState is this.state on a leader; a node that is no leader any
\* more publishes what its cache ingested.
Payload(n, s) == IF isLeader(n) THEN s ELSE public
\* ingest: a message without a round is ignored, any other replaces the whole view.
Ingest(p) == IF p = NoState THEN public ELSE p
\* The settle event: onSettle settles on a node that believes it leads.
Settle(n, r) == [round EXCEPT ![r].settled = @ \/ isLeader(n)]

(* ------------------------------------------------------------ leadership *)

\* A leader change that a call in flight or a timer of a deposed leader outlives.
Outlived(left) == deposed' = IF left /\ mode # "hanging" THEN deposed + 1 ELSE deposed
\* A follower wins the lock. It is a fault when the leader did not give it up.
Vacant == \A m \in Nodes : ~StillLeader(m) /\ ~(fence > 0 /\ grants[fence] = m /\ used[m] < fence)
Elect(n) ==
  /\ Vacant /\ ~isLeader(n) /\ Promise!Grant(n)
  /\ Outlived(~Quiet) /\ deposed' <= MaxDeposed
  /\ NoFault /\ Keep /\ UNCHANGED <<used, round, public, loopVars, call>>
Depose(n) ==
  /\ \E m \in Nodes \ {n} : StillLeader(m)
  /\ deposed < MaxDeposed /\ deposed' = deposed + 1
  /\ Fault /\ ~isLeader(n) /\ Promise!Grant(n)
  /\ Keep /\ UNCHANGED <<used, round, public, loopVars, call>>

\* leader-acquired: start(). Only a follower polls, and its loop is stopped. A
\* poll interval lies between a demotion and the next win of the same node.
LeaderAcquired(n) ==
  /\ mode = "hanging" \/ \A k \in Slots : call[n][k] = NoCall
  /\ Promise!Believe(n) /\ token'[n] > used[n]
  /\ used' = [used EXCEPT ![n] = token'[n]]
  /\ running' = [running EXCEPT ![n] = TRUE]
  /\ \E k \in FreeSlot(n) :
       SetCall(n, k, [NoCall EXCEPT !.fn = "start", !.at = "read"])
  /\ Outlived(timer[n] # "none") /\ deposed' <= MaxDeposed
  /\ NoFault /\ Keep /\ UNCHANGED <<round, public, timer, soon, st>>

\* leader-lost, after a heartbeat failed.
LeaderLost(n) ==
  /\ isLeader(n) /\ ~StillLeader(n)
  /\ Promise!Forget(n) /\ Stop(n)
  /\ NoFault /\ Keep /\ UNCHANGED <<used, deposed, round, public, st, call>>

\* Mutant: a loop without a timer counts as idle, not as stalled.
DeadmanTimed(n) ==
  /\ running[n] /\ isLeader(n) /\ timer[n] # "none"
  /\ \A k \in Slots : call[n][k] # NoCall
  /\ Promise!Forget(n) /\ Stop(n)
  /\ NoFault /\ Keep /\ UNCHANGED <<used, deposed, round, public, st, call>>

\* deadmanCheck: the loop is on and nothing of it is left that could complete a
\* round, or only a call that hangs outside safe(); the node steps down.
Deadman(n) ==
  /\ running[n] /\ isLeader(n) /\ timer[n] = "none"
  /\ \A k \in Slots : ~call[n][k].safe
  /\ Promise!Forget(n) /\ Stop(n)
  /\ IF \A k \in Slots : call[n][k] = NoCall THEN NoFault ELSE mode = "hanging" /\ Fault
  /\ Keep /\ UNCHANGED <<used, deposed, round, public, st, call>>

\* The process dies; a fresh one takes its place.
Crash(n) ==
  /\ Fault
  /\ Promise!Forget(n) /\ Stop(n)
  /\ used' = [used EXCEPT ![n] = fence]
  /\ st' = [st EXCEPT ![n] = NoState]
  /\ call' = [call EXCEPT ![n] = [k \in Slots |-> NoCall]]
  /\ Keep /\ UNCHANGED <<deposed, round, public>>

(* ------------------------------------------------------------- start() *)

OpenRounds == {i \in DOMAIN round : round[i].status \in OPEN_PHASES}

\* closeStaleExtra: an open round with an outcome is revealed and settled, one
\* without is refunded; both end completed.
CloseExtra(n, i) ==
  LET post == round[i].status \in PostOutcome IN
  [status |-> "completed",
   crashed |-> round[i].crashed \/ post,
   revealed |-> round[i].revealed \/ post,
   settled |-> round[i].settled \/ (post /\ isLeader(n))]

\* resumeOrRecover reads the open rounds, closes all but the newest and keeps
\* what it read of that one; without any, start() opens a round.
StartReads(n, k) ==
  LET newest == CHOOSE i \in OpenRounds : \A j \in OpenRounds : j <= i IN
  /\ call[n][k].fn = "start" /\ call[n][k].at = "read"
  /\ IF OpenRounds = {}
     THEN /\ SetCall(n, k, [NoCall EXCEPT !.fn = "waiting", !.at = "fence"])
          /\ UNCHANGED round
     ELSE /\ SetCall(n, k, [call[n][k] EXCEPT !.at = "resume", !.r = newest,
                                              !.ph = round[newest].status])
          /\ round' = [i \in DOMAIN round |->
                         IF i \in OpenRounds \ {newest} THEN CloseExtra(n, i) ELSE round[i]]
  /\ NoFault /\ Keep /\ UNCHANGED <<leadVars, public, loopVars>>

\* RESUME_MAX_STALENESS_MS passes only while no loop is at work on the round.
Abandoned(n, k) ==
  /\ \A m \in Nodes \ {n} : ~running[m]
  /\ \A m \in Nodes, j \in Slots : call[m][j] # NoCall => <<m, j>> = <<n, k>>

\* unresumableReason: a round without an outcome whose phase ended long ago is
\* closed and refunded (closeAndRefundRound), and a fresh round is opened.
ResumeAncient(n, k) ==
  LET c == call[n][k] IN
  /\ c.at = "resume" /\ c.ph \in {"waiting", "betting"}
  /\ mode = "hanging" \/ Abandoned(n, k)
  /\ round' = [round EXCEPT ![c.r].status = "completed"]
  /\ SetCall(n, k, [NoCall EXCEPT !.fn = "waiting", !.at = "fence"])
  /\ NoFault /\ Keep /\ UNCHANGED <<leadVars, public, loopVars>>

\* Mutant: the seed of a resumed flight is revealed before its crash is written.
ResumeReveals(n, k) ==
  LET c == call[n][k] IN
  /\ c.at = "resume"
  /\ st' = [st EXCEPT ![n] = [r |-> c.r, phase |-> c.ph]]
  /\ public' = Ingest(Payload(n, st'[n]))
  /\ \/ Schedule(n, NextPhase(c.ph), TRUE) /\ EndCall(n, k)
     \/ /\ c.ph = "running"
        /\ SetCall(n, k, [NoCall EXCEPT !.fn = "crashed", !.at = "honor"])
        /\ UNCHANGED <<timer, soon>>
  /\ round' = CASE c.ph \in {"running", "crashed"} -> [round EXCEPT ![c.r].revealed = TRUE]
                [] c.ph = "settling" -> Settle(n, c.r)
                [] OTHER -> round
  /\ NoFault /\ Keep /\ UNCHANGED <<leadVars, running>>

\* resumeRound: take the round over in the phase that was read.
Resume(n, k) ==
  LET c == call[n][k] IN
  /\ c.at = "resume"
  /\ st' = [st EXCEPT ![n] = [r |-> c.r, phase |-> c.ph]]
  /\ public' = Ingest(Payload(n, st'[n]))
  /\ \/ Schedule(n, NextPhase(c.ph), TRUE) /\ EndCall(n, k)
     \/ \* the crash time passed meanwhile: honour it now
        /\ c.ph = "running"
        /\ SetCall(n, k, [NoCall EXCEPT !.fn = "crashed", !.at = "honor"])
        /\ UNCHANGED <<timer, soon>>
  /\ round' = CASE c.ph = "crashed" -> [round EXCEPT ![c.r].revealed = TRUE]
                [] c.ph = "settling" -> Settle(n, c.r)
                [] OTHER -> round
  /\ NoFault /\ Keep /\ UNCHANGED <<leadVars, running>>

\* The due auto cash-outs are paid, behind a fence of their own, before the crash.
Honor(n, k) ==
  /\ call[n][k].at = "honor"
  /\ IF StillLeader(n)
     THEN SetCall(n, k, [call[n][k] EXCEPT !.at = "fence"]) /\ UNCHANGED <<running, timer, soon>>
     ELSE EndCall(n, k) /\ Stop(n)
  /\ NoFault /\ Keep /\ UNCHANGED <<leadVars, round, public, st>>

(* ------------------------------------------------------- the transitions *)

\* The phase timer fires and safe() starts the transition.
TimerFires(n) ==
  /\ running[n] /\ timer[n] # "none"
  /\ mode = "hanging" \/ soon[n] \/ Quiet
  /\ timer[n] = "waiting" => Len(round) < MaxRounds
  /\ \E k \in FreeSlot(n) :
       SetCall(n, k, [NoCall EXCEPT !.fn = timer[n], !.at = "fence", !.safe = TRUE])
  /\ Schedule(n, "none", FALSE)
  /\ NoFault /\ Keep /\ UNCHANGED <<leadVars, round, public, running, st>>

\* A timer that a late call armed on a stopped loop does nothing.
TimerFizzles(n) ==
  /\ ~running[n] /\ timer[n] # "none"
  /\ Schedule(n, "none", FALSE)
  /\ NoFault /\ Keep /\ UNCHANGED <<leadVars, round, public, running, st, call>>

\* Mutant: the leader flag alone, without the fence.
FencePassesByFlag(n, k) ==
  LET c == call[n][k] IN
  /\ c.at = "fence" /\ isLeader(n)
  /\ IF c.fn = "waiting"
     THEN SetCall(n, k, [c EXCEPT !.at = "create", !.r = Len(round) + 1]) /\ UNCHANGED st
     ELSE IF st[n] = NoState THEN EndCall(n, k) /\ UNCHANGED st
     ELSE /\ st' = [st EXCEPT ![n].phase = c.fn]
          /\ SetCall(n, k, [c EXCEPT !.at = "write", !.r = st[n].r])
  /\ NoFault /\ Keep /\ UNCHANGED <<leadVars, round, public, running, timer, soon>>

\* Mutant: the new phase is mirrored before it is written.
FencePassesMirrors(n, k) ==
  LET c == call[n][k] IN
  /\ c.at = "fence" /\ StillLeader(n)
  /\ IF c.fn = "waiting"
     THEN SetCall(n, k, [c EXCEPT !.at = "create", !.r = Len(round) + 1]) /\ UNCHANGED <<st, public>>
     ELSE IF st[n] = NoState THEN EndCall(n, k) /\ UNCHANGED <<st, public>>
     ELSE /\ st' = [st EXCEPT ![n].phase = c.fn]
          /\ public' = Ingest(Payload(n, st'[n]))
          /\ SetCall(n, k, [c EXCEPT !.at = "write", !.r = st[n].r])
  /\ NoFault /\ Keep /\ UNCHANGED <<leadVars, round, running, timer, soon>>

\* The fence holds: the phase is entered in memory and the write is sent, for the
\* round this.state names now; enterWaiting allocates the next unused seed.
FencePasses(n, k) ==
  LET c == call[n][k] IN
  /\ c.at = "fence" /\ StillLeader(n)
  /\ IF c.fn = "waiting"
     THEN SetCall(n, k, [c EXCEPT !.at = "create", !.r = Len(round) + 1]) /\ UNCHANGED st
     ELSE IF st[n] = NoState THEN EndCall(n, k) /\ UNCHANGED st
     ELSE /\ st' = [st EXCEPT ![n].phase = c.fn]
          /\ SetCall(n, k, [c EXCEPT !.at = "write", !.r = st[n].r])
  /\ NoFault /\ Keep /\ UNCHANGED <<leadVars, round, public, running, timer, soon>>

\* stillLeader fails: the loop is stopped.
FenceFails(n, k) ==
  /\ call[n][k].at = "fence" /\ ~StillLeader(n)
  /\ EndCall(n, k) /\ Stop(n)
  /\ NoFault /\ Keep /\ UNCHANGED <<leadVars, round, public, st>>

\* The fence read itself fails and counts as a lost leadership (fail-closed).
FenceErrs(n, k) ==
  /\ call[n][k].at = "fence" /\ StillLeader(n)
  /\ Fault
  /\ EndCall(n, k) /\ Stop(n)
  /\ Keep /\ UNCHANGED <<leadVars, round, public, st>>

\* No epoch can serve a seed yet: try again shortly.
NoSeed(n, k) ==
  /\ call[n][k].at = "create"
  /\ Fault
  /\ EndCall(n, k) /\ Schedule(n, "waiting", FALSE)
  /\ Keep /\ UNCHANGED <<leadVars, round, public, running, st>>

\* round.create: the seed is unique. A second round on it is taken for a sign
\* of another leader, and the loop is stopped.
Create(n, k) ==
  LET c == call[n][k] IN
  /\ c.at = "create"
  /\ IF c.r > Len(round)
     THEN /\ c.r <= MaxRounds
          /\ round' = Append(round, [status |-> "waiting", crashed |-> FALSE,
                                      revealed |-> FALSE, settled |-> FALSE])
          /\ st' = [st EXCEPT ![n] = [r |-> c.r, phase |-> "waiting"]]
          /\ SetCall(n, k, [c EXCEPT !.at = "publish"])
          /\ UNCHANGED <<running, timer, soon>>
     ELSE /\ EndCall(n, k) /\ Stop(n) /\ UNCHANGED <<round, st>>
  /\ NoFault /\ Keep /\ UNCHANGED <<leadVars, public>>

\* The status write lands, on the round it was sent for and whatever its status. The
\* one of enterCrashed stamps crashedAt, which no other clears.
Write(n, k) ==
  LET c == call[n][k] IN
  /\ c.at = "write"
  /\ round' = [round EXCEPT ![c.r].status = c.fn, ![c.r].crashed = @ \/ c.fn = "crashed"]
  /\ SetCall(n, k, [c EXCEPT !.at = IF c.fn = "crashed" THEN "reveal" ELSE "publish"])
  /\ NoFault /\ Keep /\ UNCHANGED <<leadVars, public, loopVars>>

\* enterCrashed makes the seed of its round public.
Reveal(n, k) ==
  LET c == call[n][k] IN
  /\ c.at = "reveal"
  /\ round' = [round EXCEPT ![c.r].revealed = TRUE]
  /\ SetCall(n, k, [c EXCEPT !.at = "publish"])
  /\ NoFault /\ Keep /\ UNCHANGED <<leadVars, public, loopVars>>

\* mirror, the events, and the next timer. enterSettling settles the round that
\* this.state names by now.
Publish(n, k) ==
  LET c == call[n][k] IN
  /\ c.at = "publish"
  /\ public' = Ingest(Payload(n, st[n]))
  /\ round' = IF c.fn = "settling" THEN Settle(n, st[n].r) ELSE round
  /\ EndCall(n, k) /\ Schedule(n, NextPhase(c.fn), c.fn = "running")
  /\ NoFault /\ Keep /\ UNCHANGED <<leadVars, running, st>>

\* A database call of a transition fails: safe() schedules a fresh round; an
\* error of start(), or of a call whose deadline passed, is only logged.
Throws(n, k) ==
  LET c == call[n][k] IN
  /\ mode # "steady" /\ c.at \in {"read", "resume", "create", "write", "reveal"}
  /\ Fault
  /\ EndCall(n, k)
  /\ IF c.safe THEN Schedule(n, "waiting", FALSE) ELSE UNCHANGED <<timer, soon>>
  /\ Keep /\ UNCHANGED <<leadVars, round, public, running, st>>

\* The deadline of safe() passes: a fresh round is scheduled, the call lives on.
Deadline(n, k) ==
  /\ mode = "hanging" /\ call[n][k].safe
  /\ Fault
  /\ SetCall(n, k, [call[n][k] EXCEPT !.safe = FALSE])
  /\ Schedule(n, "waiting", FALSE)
  /\ Keep /\ UNCHANGED <<leadVars, round, public, running, st>>

(* --------------------------------------------------------- specification *)

Step(n, k) ==
  \/ StartReads(n, k) \/ Resume(n, k) \/ Honor(n, k)
  \/ FencePasses(n, k) \/ FenceFails(n, k)
  \/ Create(n, k) \/ Write(n, k) \/ Reveal(n, k) \/ Publish(n, k)
Next ==
  \/ \E n \in Nodes : \/ Elect(n) \/ Depose(n) \/ LeaderAcquired(n) \/ LeaderLost(n)
                      \/ Deadman(n) \/ Crash(n) \/ TimerFires(n) \/ TimerFizzles(n)
  \/ \E n \in Nodes, k \in Slots :
       \/ Step(n, k) \/ ResumeAncient(n, k)
       \/ FenceErrs(n, k) \/ NoSeed(n, k) \/ Throws(n, k) \/ Deadline(n, k)

Spec == Init /\ [][Next]_vars

\* Timers fire, calls move on, a stale leader's heartbeat fails, and the election
\* finds a leader when there is none (LeaderEmerges of Election).
Fairness ==
  /\ WF_vars(\E n \in Nodes : Elect(n))
  /\ \A n \in Nodes :
       /\ WF_vars(LeaderAcquired(n)) /\ WF_vars(LeaderLost(n)) /\ WF_vars(Deadman(n))
       /\ WF_vars(TimerFires(n)) /\ WF_vars(TimerFizzles(n))
       /\ \A k \in Slots : WF_vars(Step(n, k))

FairSpec == Spec /\ Fairness

(* ------------------------------------------------ what keeps the rounds *)

\* Where the rounds are safe whatever the bounds: at most one leader deposed against
\* its will, and gone when its successor's leadership ends; and none where database
\* calls fail as well.
Tame == \/ mode = "steady" /\ deposed <= 1
        \/ mode = "throwing" /\ deposed = 0

\* How far a round is. A deposed leader's write of running can land on a round that has
\* crashed: it is running again, and crashedAt says that it is over.
Reopened(r) == round[r].status = "running" /\ round[r].crashed
Status(r) == IF Reopened(r) THEN "crashed" ELSE round[r].status
Over == {"crashed", "settling", "completed"}
Live == {i \in OpenRounds : Status(i) # "waiting"}
AtMostOne(S) == \A i, j \in S : i = j

Loose(n) == \A k \in Slots : call[n][k] = NoCall
Retired(n) == token[n] = NoFence /\ ~running[n] /\ Loose(n)
\* A deposed leader with something of its loop left.
Stale(n) == ~StillLeader(n) /\ ~Retired(n)

\* No phase was changed behind the leader's back: there was no second leader, or it is
\* about to read, resume or write.
Watched ==
  deposed = 0 \/ \E m \in Nodes, j \in Slots :
                   ~StillLeader(m) /\ call[m][j].at \in {"read", "resume", "write"}

\* A call holds what its next await needs.
Shaped(c) ==
  /\ c.at = "none" <=> c = NoCall
  /\ c.at = "read" => c.fn = "start"
  /\ c.at = "resume" => c.r \in 1 .. MaxRounds /\ c.ph \in Phases /\ c.fn = "start"
  /\ c.at \in {"honor", "fence", "create", "write", "reveal", "publish"} => c.fn \in Phases
CallsShaped == \A n \in Nodes, k \in Slots : Shaped(call[n][k])

\* Only the newest fence can be unused, and then its node does not lead yet.
Unclaimed == fence > 0 /\ used[grants[fence]] < fence
FencesFit ==
  /\ \A n \in Nodes : /\ used[n] <= fence
                      /\ isLeader(n) => token[n] <= used[n] /\ grants[token[n]] = n
  /\ \A f \in 1 .. fence - 1 : f <= used[grants[f]]
  /\ Unclaimed => ~isLeader(grants[fence])

\* A node has one call in flight, and its timer is armed when that ends; one deposed
\* leader at most is still at work, and until there is one nothing is left of a node that
\* does not lead.
LoopsFit ==
  /\ \A n \in Nodes : /\ AtMostOne({k \in Slots : call[n][k] # NoCall})
                      /\ StillLeader(n) /\ ~running[n] => Loose(n) /\ timer[n] = "none"
                      /\ running[n] /\ timer[n] # "none" => Loose(n)
                      /\ Stale(n) => deposed = 1
                      /\ deposed = 0 /\ (StillLeader(n) => ~Loose(n)) => timer[n] = "none"
  /\ AtMostOne({n \in Nodes : Stale(n)})

\* The phases that a leader can enter while a write of fn by its predecessor is in flight:
\* its timer for fn may be at 0 ms, and after it the one of a crash.
Pace(fn, p) == p = fn \/ (fn = "running" /\ p = "crashed")

\* What a call knows of its round, whoever leads by now: phases only go forward.
CallsFit ==
  \A n \in Nodes, k \in Slots : LET c == call[n][k] IN
    /\ c.at = "resume" =>
         /\ c.r \in DOMAIN round /\ Rank(c.ph) <= Rank(Status(c.r))
         /\ c.ph # "completed" /\ (c.ph = "settling" => round[c.r].revealed)
    /\ c.at = "honor" => c.fn = "crashed"
    /\ c.at = "create" => c.fn = "waiting" /\ c.r \in 1 .. Len(round) + 1
    /\ c.at \in {"write", "reveal", "publish"} =>
         c.r \in DOMAIN round /\ st[n] = [r |-> c.r, phase |-> c.fn]
    /\ c.at = "write" =>
         /\ Rank(Status(c.r)) <= Rank(c.fn) \/ Pace(c.fn, Status(c.r))
         /\ c.fn # "waiting" /\ (c.fn = "settling" => round[c.r].revealed)
    /\ c.at = "reveal" => c.fn = "crashed"
    /\ c.at \in {"reveal", "publish"} => Rank(c.fn) <= Rank(Status(c.r))
    /\ c.at = "publish" /\ c.fn \in {"crashed", "settling"} => round[c.r].revealed

\* What the leader takes for the phase of a round is the phase the round is in, or the
\* one before where a deposed leader's write landed meanwhile.
Seen(r, p) ==
  /\ r \in DOMAIN round
  /\ Status(r) = p \/ (~Watched /\ Status(r) = NextPhase(p))

\* The leader may go on to fn.
Due(n, fn) ==
  fn # "waiting" => /\ NextPhase(st[n].phase) = fn /\ Seen(st[n].r, st[n].phase)
                    /\ fn = "settling" => round[st[n].r].revealed

ViewsFit ==
  \A n \in Nodes : StillLeader(n) =>
    /\ Loose(n) /\ timer[n] # "none" => Due(n, timer[n])
    /\ \A k \in Slots : LET c == call[n][k] IN
         /\ c.at = "resume" => Seen(c.r, c.ph)
         /\ c.at \in {"honor", "fence"} => Due(n, c.fn)
         /\ c.at = "write" => \E p \in Phases : NextPhase(p) = c.fn /\ Seen(c.r, p)
         /\ c.at \in {"reveal", "publish"} => Seen(c.r, c.fn)

\* The leader is between two rounds.
Between(n) ==
  \/ Loose(n) /\ timer[n] = "waiting"
  \/ \E k \in Slots : \/ call[n][k].fn = "waiting" /\ call[n][k].at \in {"fence", "create"}
                      \/ call[n][k].fn = "completed" /\ call[n][k].at = "publish"

\* The round that takes bets is the one the leader is at.
LiveFits ==
  /\ AtMostOne(Live)
  /\ Watched => AtMostOne(OpenRounds)
  /\ \A n \in Nodes : StillLeader(n) =>
       /\ Between(n) => Live = {} /\ (Watched => OpenRounds = {})
       /\ Loose(n) /\ timer[n] \notin {"none", "waiting"} => Live \subseteq {st[n].r}
       /\ \A k \in Slots : LET c == call[n][k] IN
            /\ c.at = "resume" => Live \subseteq {c.r}
            /\ c.at \in {"honor", "write", "reveal", "publish"} => Live \subseteq {st[n].r}
            /\ c.at = "fence" /\ c.fn # "waiting" => Live \subseteq {st[n].r}

\* A deposed leader's write is on the only open round. Its successor has still to read
\* that, or has read it in the phase the write ends, and has since moved at its pace.
StaleWritesFit ==
  \A m \in Nodes, j \in Slots : LET c == call[m][j]
                                  ahead == NextPhase(Status(c.r)) = c.fn IN
    ~StillLeader(m) /\ c.at = "write" =>
      /\ OpenRounds \subseteq {c.r}
      /\ ahead \/ Pace(c.fn, Status(c.r))
      /\ Unclaimed => ahead
      /\ \A n \in Nodes : StillLeader(n) =>
           /\ Loose(n) /\ timer[n] # "none" =>
                st[n] = [r |-> c.r, phase |-> Status(c.r)] /\ (soon[n] => Pace(c.fn, timer[n]))
           /\ \A k \in Slots : LET d == call[n][k] IN
                /\ d.at = "read" => ahead
                /\ d.at = "resume" => ahead /\ d.r = c.r /\ d.ph = Status(c.r)
                /\ d.at \in {"honor", "fence", "write"} =>
                     Pace(c.fn, d.fn) /\ st[n].r = c.r /\ NextPhase(Status(c.r)) = d.fn
                /\ d.at \in {"reveal", "publish"} =>
                     Pace(c.fn, d.fn) /\ st[n].r = c.r /\ Status(c.r) = d.fn
                /\ d.at # "create"

\* What the rows say of each other.
RoundsFit ==
  /\ \A i \in DOMAIN round :
       /\ round[i].crashed => Status(i) \in Over
       /\ Status(i) = "crashed" => round[i].crashed
       /\ Status(i) = "settling" => round[i].revealed
       /\ Watched => ~Reopened(i)
  /\ public # NoState => public.r \in DOMAIN round

\* What keeps the rounds, as one.
RoundsKept ==
  /\ RoundsFit /\ FencesFit /\ LoopsFit /\ CallsFit /\ ViewsFit
  /\ mode = "steady" => LiveFits /\ StaleWritesFit

(* ------------------------------------------------------------ properties *)

\* Two rounds can be open at once: a deposed leader's create may land after its
\* successor looked. What keeps the money safe is that, across failovers, crashes
\* and failed fence reads, at most one open round has ever taken bets. This and the
\* two properties below count on few leaders being deposed with a write in flight,
\* since a write names its round by id (MaxDeposed).
OneLiveRound ==
  mode = "steady" => \A i, j \in OpenRounds :
    i # j => "waiting" \in {round[i].status, round[j].status}

\* The proof of a round is public only once the crash is in the database, as status or,
\* where a deposed leader's write came after it, as crashedAt.
RevealedIsOver ==
  mode # "hanging" => \A i \in DOMAIN round : round[i].revealed => Status(i) \in Over

\* Settlement busts the remaining bets of a round whose seed is already public,
\* whichever of several leaders drives it.
SettledIsRevealed ==
  mode # "hanging" => \A i \in DOMAIN round : round[i].settled => round[i].revealed

\* The invariant of the rounds table: types, reveal between crash and settlement, and
\* what every loop, call and view must be for these to last.
RoundInv ==
  /\ TypeOK /\ CallsShaped /\ RevealedIsOver /\ SettledIsRevealed
  /\ Tame => RoundsKept

\* A follower never shows, and never takes bets by, a phase the round has not reached:
\* the write comes before the publish, also while leaders change.
CacheNeverAhead ==
  mode # "hanging" /\ public # NoState =>
    Rank(public.phase) <= Rank(Status(public.r))

\* The comment of stillLeader, "a stale leader can never touch money/round state": no
\* round runs again after its crash.
CrashIsFinal == mode # "hanging" => \A i \in DOMAIN round : ~Reopened(i)

\* A leader under the newest fence whose loop was stopped: nothing starts it again.
Parked(n) == StillLeader(n) /\ ~running[n]

\* The loop survives failed calls, hung calls, crashes and failovers: rounds are
\* played to the bound, unless a leader is parked.
RoundsContinue == <>(Len(round) = MaxRounds \/ \E n \in Nodes : Parked(n))

\* deadmanCheck: a leader that completes no round steps down for a healthy one.
StalledLeaderStepsDown == \A n \in Nodes : Parked(n) ~> ~Parked(n)
===========================================================================
