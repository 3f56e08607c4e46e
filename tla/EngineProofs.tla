---------------------------- MODULE EngineProofs ----------------------------
(***************************************************************************)
(* Proofs about the round loop (Engine), for any number of nodes, slots,   *)
(* rounds, fences and faults.                                              *)
(*                                                                         *)
(* EngineTypes holds in every mode. The rest is about tame weather (Tame): *)
(* leaders come and go, processes die and fence reads fail, and at most    *)
(* one leader is deposed against its will; or database calls fail as well, *)
(* and none is deposed.                                                    *)
(*                                                                         *)
(* The argument. A node has one call in flight, its timer is armed when    *)
(* that ends, and one leader at most is deposed before the next (LoopsFit: *)
(* an election that a call of a deposed leader outlives leaves Tame), so   *)
(* one call past its fence is all that can still act behind the leader's   *)
(* back. How far a round is, is its status, or crashed where crashedAt is  *)
(* set and a late write made it running again (Status, Reopened): that     *)
(* only goes forward (CallsFit). The leader sees the phase the database    *)
(* has, or the one that its predecessor's write just ended (ViewsFit).     *)
(* While that write is in flight it is on the only open round; the         *)
(* successor is about to read the round in the phase the write ends, or    *)
(* has read it and goes no further than its timers at 0 ms take it: to the *)
(* phase of the write, and from running to crashed (Pace, StaleWritesFit). *)
(* A create that lands late adds a round nobody has bet on (LiveFits). For *)
(* every handler it is therefore enough to look at the node it runs on     *)
(* (LeaderMoves, StaleMoves, LeaderGone).                                  *)
(***************************************************************************)
EXTENDS Engine, FiniteSetTheorems, WellFoundedInduction, TLAPS

\* The phases in their order.
LEMMA PhaseTable ==
  /\ Phases = {"waiting", "betting", "running", "crashed", "settling", "completed"}
  /\ Rank("waiting") = 1 /\ Rank("betting") = 2 /\ Rank("running") = 3
  /\ Rank("crashed") = 4 /\ Rank("settling") = 5 /\ Rank("completed") = 6
  /\ NextPhase("waiting") = "betting" /\ NextPhase("betting") = "running"
  /\ NextPhase("running") = "crashed" /\ NextPhase("crashed") = "settling"
  /\ NextPhase("settling") = "completed" /\ NextPhase("completed") = "waiting"
<1>1. /\ Phase[1] = "waiting" /\ Phase[2] = "betting" /\ Phase[3] = "running"
      /\ Phase[4] = "crashed" /\ Phase[5] = "settling" /\ Phase[6] = "completed"
  BY DEF Phase
<1>2. \A i \in 1 .. 6 : i = 1 \/ i = 2 \/ i = 3 \/ i = 4 \/ i = 5 \/ i = 6
  OBVIOUS
<1>3. Phases = {"waiting", "betting", "running", "crashed", "settling", "completed"}
  BY <1>1, <1>2 DEF Phases
<1>4. ASSUME NEW k \in 1 .. 6 PROVE Rank(Phase[k]) = k
  <2>1. \A i \in 1 .. 6 : Phase[i] = Phase[k] => i = k
    BY <1>1, <1>2
  <2> QED BY <2>1 DEF Rank
<1>5. ASSUME NEW k \in 1 .. 6 PROVE NextPhase(Phase[k]) = Phase[(k % 6) + 1]
  BY <1>4 DEF NextPhase
<1>6. /\ Rank("waiting") = 1 /\ Rank("betting") = 2 /\ Rank("running") = 3
      /\ Rank("crashed") = 4 /\ Rank("settling") = 5 /\ Rank("completed") = 6
  BY <1>1, <1>4
<1>7. (1 % 6) + 1 = 2 /\ (2 % 6) + 1 = 3 /\ (3 % 6) + 1 = 4 /\ (4 % 6) + 1 = 5
      /\ (5 % 6) + 1 = 6 /\ (6 % 6) + 1 = 1
  OBVIOUS
<1>8. /\ NextPhase(Phase[1]) = Phase[2] /\ NextPhase(Phase[2]) = Phase[3]
      /\ NextPhase(Phase[3]) = Phase[4] /\ NextPhase(Phase[4]) = Phase[5]
      /\ NextPhase(Phase[5]) = Phase[6] /\ NextPhase(Phase[6]) = Phase[1]
  <2> HIDE DEF Phase
  <2> QED BY <1>5, <1>7
<1> QED BY <1>1, <1>3, <1>6, <1>8

(* --------------------------------------------------------------- typing *)

\* A table of the same length with rows of their type.
LEMMA TableType ==
  ASSUME round \in Seq(RoundType), NEW f, f = [i \in DOMAIN round |-> f[i]],
         \A i \in DOMAIN round : f[i] \in RoundType
  PROVE  f \in Seq(RoundType) /\ Len(f) = Len(round) /\ DOMAIN f = DOMAIN round
<1>1. Len(round) \in Nat /\ DOMAIN round = 1 .. Len(round)
  OBVIOUS
<1>2. f \in [1 .. Len(round) -> RoundType]
  BY <1>1
<1> QED BY <1>1, <1>2

\* A row is changed.
LEMMA RowChange ==
  ASSUME round \in Seq(RoundType), NEW r, NEW row, r \in DOMAIN round => row \in RoundType,
         NEW f, f = [round EXCEPT ![r] = row]
  PROVE  /\ f \in Seq(RoundType) /\ Len(f) = Len(round) /\ DOMAIN f = DOMAIN round
         /\ \A i \in DOMAIN round : f[i] = IF i = r THEN row ELSE round[i]
<1>1. \A i \in DOMAIN round : f[i] = IF i = r THEN row ELSE round[i]
  OBVIOUS
<1>2. f = [i \in DOMAIN round |-> f[i]]
  OBVIOUS
<1>3. \A i \in DOMAIN round : round[i] \in RoundType
  OBVIOUS
<1> QED BY <1>1, <1>2, <1>3, TableType

\* One call of one node moves.
LEMMA CallMove ==
  ASSUME TypeOK, NEW n \in Nodes, NEW k \in Slots, NEW c, SetCall(n, k, c)
  PROVE  /\ call'[n][k] = c
         /\ \A j \in Slots : j # k => call'[n][j] = call[n][j]
         /\ \A m \in Nodes : m # n => call'[m] = call[m]
         /\ c \in CallType => call' \in [Nodes -> [Slots -> CallType]]
  BY DEF TypeOK, SetCall

\* Where the other calls are shaped, it is enough to look at the one that moved.
LEMMA ShapedMove ==
  ASSUME TypeOK, CallsShaped, NEW n \in Nodes, NEW k \in Slots, NEW c, SetCall(n, k, c), Shaped(c)
  PROVE  CallsShaped'
<1>1. \A m \in Nodes, j \in Slots : call'[m][j] = call[m][j] \/ call'[m][j] = c
  BY CallMove
<1>2. \A m \in Nodes, j \in Slots : Shaped(call[m][j])
  BY DEF CallsShaped
<1>3. \A m \in Nodes, j \in Slots : Shaped(call'[m][j])
  BY <1>1, <1>2
<1> QED BY <1>3 DEF CallsShaped, Shaped, NoCall

\* An empty slot.
LEMMA NoCallShaped == NoCall \in CallType /\ Shaped(NoCall)
  BY EngineAssumption, PhaseTable DEF NoCall, CallType, Shaped

\* The parts of TypeOK, by who changes them.
LeadTypes ==
  /\ grants \in Seq(Nodes) /\ fence <= MaxFence
  /\ token \in [Nodes -> 1 .. MaxFence \cup {NoFence}]
  /\ used \in [Nodes -> 0 .. MaxFence] /\ deposed \in 0 .. MaxDeposed
FaultTypes == mode \in Modes /\ faults \in 0 .. MaxFaults[mode]
TableTypes == round \in Seq(RoundType) /\ Len(round) <= MaxRounds
LoopTypes ==
  /\ running \in [Nodes -> BOOLEAN]
  /\ timer \in [Nodes -> Phases \cup {"none"}] /\ soon \in [Nodes -> BOOLEAN]
  /\ st \in [Nodes -> States]
CallTypes == call \in [Nodes -> [Slots -> CallType]]

\* The parts are the whole.
LEMMA TypeParts ==
  TypeOK <=> LeadTypes /\ FaultTypes /\ TableTypes /\ public \in States /\ LoopTypes /\ CallTypes
  BY DEF TypeOK, LeadTypes, FaultTypes, TableTypes, LoopTypes, CallTypes

\* The same after a step.
LEMMA TypePartsNext ==
  TypeOK' <=> LeadTypes' /\ FaultTypes' /\ TableTypes' /\ public' \in States /\ LoopTypes' /\ CallTypes'
  BY DEF TypeOK, LeadTypes, FaultTypes, TableTypes, LoopTypes, CallTypes

\* Who leads is left alone.
LEMMA KeepLead == ASSUME TypeOK, UNCHANGED leadVars PROVE LeadTypes'
  BY DEF TypeOK, leadVars, LeadTypes, fence

\* A fault is counted within its bound.
LEMMA KeepFaults == ASSUME TypeOK, Keep, Fault \/ NoFault PROVE FaultTypes'
<1>1. mode \in Modes /\ MaxFaults[mode] \in Nat
  BY EngineAssumption DEF TypeOK
<1> QED BY <1>1 DEF TypeOK, Keep, Fault, NoFault, FaultTypes

\* The table is left alone.
LEMMA KeepTable == ASSUME TypeOK, UNCHANGED round PROVE TableTypes'
  BY DEF TypeOK, TableTypes

\* The loops are left alone.
LEMMA KeepLoops == ASSUME TypeOK, UNCHANGED loopVars PROVE LoopTypes'
  BY DEF TypeOK, LoopTypes, loopVars

\* The calls are left alone.
LEMMA KeepCalls == ASSUME TypeOK, CallsShaped, UNCHANGED call PROVE CallTypes' /\ CallsShaped'
  BY DEF TypeOK, CallTypes, CallsShaped, Shaped, NoCall

\* A timer is armed or cleared.
LEMMA ScheduleTypes ==
  ASSUME TypeOK, NEW n \in Nodes, NEW p \in Phases \cup {"none"}, NEW b \in BOOLEAN,
         Schedule(n, p, b), UNCHANGED st, running' \in [Nodes -> BOOLEAN]
  PROVE  LoopTypes'
  BY DEF TypeOK, LoopTypes, Schedule

\* A loop is stopped.
LEMMA StopTypes ==
  ASSUME TypeOK, NEW n \in Nodes, Stop(n), st' \in [Nodes -> States]
  PROVE  LoopTypes'
  BY DEF TypeOK, LoopTypes, Schedule, Stop

\* A call is replaced by one of its type.
LEMMA SetCallTypes ==
  ASSUME TypeOK, CallsShaped, NEW n \in Nodes, NEW k \in Slots, NEW c \in CallType, Shaped(c),
         SetCall(n, k, c)
  PROVE  CallTypes' /\ CallsShaped'
  BY CallMove, ShapedMove DEF CallTypes

\* A call ends.
LEMMA EndCallTypes ==
  ASSUME TypeOK, CallsShaped, NEW n \in Nodes, NEW k \in Slots, EndCall(n, k)
  PROVE  CallTypes' /\ CallsShaped'
  BY SetCallTypes, NoCallShaped DEF EndCall

\* A fence is issued within its bound.
LEMMA GrantTypes ==
  ASSUME TypeOK, NEW n \in Nodes, Promise!Grant(n), used' = used, deposed' \in 0 .. MaxDeposed
  PROVE  LeadTypes'
<1>1. grants' \in Seq(Nodes) /\ Len(grants') = Len(grants) + 1
  BY DEF TypeOK, Promise!Grant
<1>2. Len(grants) < MaxFence /\ Len(grants) \in Nat /\ token' = token
  BY DEF Promise!Grant, Promise!fence, TypeOK
<1> QED BY <1>1, <1>2, EngineAssumption DEF TypeOK, LeadTypes, fence

\* A node forgets its fence.
LEMMA ForgetTypes ==
  ASSUME TypeOK, NEW n \in Nodes, Promise!Forget(n), used' \in [Nodes -> 0 .. MaxFence], deposed' = deposed
  PROVE  LeadTypes'
  BY DEF TypeOK, LeadTypes, fence, Promise!Forget

\* Leadership, and the end of a process.
LEMMA LeadSteps ==
  ASSUME TypeOK, CallsShaped, NEW n \in Nodes,
         Elect(n) \/ Depose(n) \/ LeaderAcquired(n) \/ LeaderLost(n) \/ Deadman(n) \/ Crash(n)
  PROVE  TypeOK' /\ CallsShaped'
<1>0. deposed \in 0 .. MaxDeposed /\ deposed \in Nat /\ MaxDeposed \in Nat
  BY EngineAssumption DEF TypeOK
<1>1. CASE Elect(n)
  <2>1. deposed' \in 0 .. MaxDeposed
    BY <1>0, <1>1 DEF Elect, Outlived
  <2> QED BY <1>1, <2>1, GrantTypes, KeepFaults, KeepTable, KeepLoops, KeepCalls, TypePartsNext DEF Elect, TypeOK
<1>2. CASE Depose(n)
  BY <1>0, <1>2, GrantTypes, KeepFaults, KeepTable, KeepLoops, KeepCalls, TypePartsNext DEF Depose, TypeOK
<1>3. CASE LeaderAcquired(n)
  <2>1. PICK f \in 1 .. fence : token' = [token EXCEPT ![n] = f] /\ token'[n] = f
    BY <1>3 DEF LeaderAcquired, Promise!Believe, Promise!fence, fence, TypeOK
  <2>2. f \in 1 .. MaxFence
    BY <2>1, EngineAssumption DEF TypeOK, fence
  <2>3. LeadTypes'
    <3>1. deposed' \in 0 .. MaxDeposed
      BY <1>0, <1>3 DEF LeaderAcquired, Outlived
    <3> QED BY <1>3, <2>1, <2>2, <3>1 DEF LeaderAcquired, Promise!Believe, TypeOK, LeadTypes, fence
  <2>4. PICK k \in FreeSlot(n) : SetCall(n, k, [NoCall EXCEPT !.fn = "start", !.at = "read"])
    BY <1>3 DEF LeaderAcquired
  <2>5. [NoCall EXCEPT !.fn = "start", !.at = "read"] \in CallType
    BY NoCallShaped DEF CallType
  <2>6. Shaped([NoCall EXCEPT !.fn = "start", !.at = "read"])
    BY DEF Shaped, NoCall
  <2>7. CallTypes' /\ CallsShaped'
    BY <2>4, <2>5, <2>6, SetCallTypes DEF FreeSlot
  <2>8. LoopTypes'
    BY <1>3 DEF LeaderAcquired, TypeOK, LoopTypes
  <2> QED BY <1>3, <2>3, <2>7, <2>8, KeepFaults, KeepTable, TypePartsNext DEF LeaderAcquired, TypeOK
<1>4. CASE LeaderLost(n)
  BY <1>4, ForgetTypes, KeepFaults, KeepTable, StopTypes, KeepCalls, TypePartsNext DEF LeaderLost, TypeOK
<1>5. CASE Deadman(n)
  BY <1>5, ForgetTypes, KeepFaults, KeepTable, StopTypes, KeepCalls, TypePartsNext DEF Deadman, TypeOK
<1>6. CASE Crash(n)
  <2>1. fence \in 0 .. MaxFence
    BY EngineAssumption DEF TypeOK, fence
  <2>2. used' \in [Nodes -> 0 .. MaxFence] /\ st' \in [Nodes -> States]
    BY <1>6, <2>1 DEF Crash, TypeOK, States
  <2>3. CallTypes'
    BY <1>6, NoCallShaped DEF Crash, TypeOK, CallTypes
  <2>4. \A m \in Nodes, j \in Slots : call'[m][j] = call[m][j] \/ call'[m][j] = NoCall
    BY <1>6 DEF Crash, TypeOK
  <2>5. \A m \in Nodes, j \in Slots : Shaped(call'[m][j])
    BY <2>4, NoCallShaped DEF CallsShaped
  <2>6. CallsShaped'
    BY <2>5 DEF CallsShaped, Shaped, NoCall
  <2> QED BY <1>6, <2>2, <2>3, <2>6, ForgetTypes, KeepFaults, KeepTable, StopTypes, TypePartsNext DEF Crash, TypeOK
<1> QED BY <1>1, <1>2, <1>3, <1>4, <1>5, <1>6

\* The call of a slot, as the steps below use it.
LEMMA CallIs ==
  ASSUME TypeOK, CallsShaped, NEW n \in Nodes, NEW k \in Slots
  PROVE  call[n][k] \in CallType /\ Shaped(call[n][k])
  BY DEF TypeOK, CallsShaped

\* this.state names a round and a phase, or nothing yet.
LEMMA StateIs ==
  ASSUME TypeOK, NEW n \in Nodes
  PROVE  /\ st[n] \in States
         /\ st[n] # NoState => st[n].r \in 1 .. MaxRounds /\ st[n].phase \in Phases
  BY DEF TypeOK, States

\* The phases are closed under their order.
LEMMA PhaseClosed ==
  ASSUME NEW p \in Phases
  PROVE  NextPhase(p) \in Phases /\ Rank(p) \in 1 .. 6
  BY PhaseTable

\* resumeOrRecover finds a newest open round where there is an open one: the table is finite.
LEMMA NewestOpen ==
  ASSUME TypeOK, OpenRounds # {}
  PROVE  LET newest == CHOOSE i \in OpenRounds : \A j \in OpenRounds : j <= i
         IN  newest \in OpenRounds /\ \A j \in OpenRounds : j <= newest
<1> DEFINE Above(i) == {j \in OpenRounds : i < j}
           T == {Above(i) : i \in OpenRounds}
<1>1. Len(round) \in Nat /\ OpenRounds \subseteq 1 .. Len(round)
  BY DEF TypeOK, OpenRounds
<1>2. IsFiniteSet(OpenRounds)
  <2>1. IsFiniteSet(1 .. Len(round))
    BY <1>1, FS_Interval
  <2> QED BY <1>1, <2>1, FS_Subset
<1>3. IsWellFoundedOn(StrictSubsetOrdering(OpenRounds), SUBSET OpenRounds)
  BY <1>2, FS_StrictSubsetOrderingWellFounded, FS_FiniteSubsetsOfFinite
<1>4. T \subseteq SUBSET OpenRounds /\ T # {}
  OBVIOUS
<1> HIDE DEF T
<1>5. \E x \in T : \A y \in T : ~ (<<y, x>> \in StrictSubsetOrdering(OpenRounds))
  BY <1>3, <1>4, WFMin
<1> USE DEF T
<1>6. PICK i \in OpenRounds : \A j \in OpenRounds : ~ (<<Above(j), Above(i)>> \in StrictSubsetOrdering(OpenRounds))
  BY <1>5
<1> HIDE DEF T
<1>7. ASSUME NEW j \in OpenRounds, i < j PROVE FALSE
  <2>1. Above(j) \subseteq Above(i) /\ j \in Above(i) /\ j \notin Above(j)
    <3>1. i \in Nat /\ j \in Nat /\ \A a \in OpenRounds : a \in Nat
      BY <1>1
    <3>2. \A a \in OpenRounds : j < a => i < a
      BY <3>1, <1>7
    <3>3. ~ (j < j)
      BY <3>1
    <3> QED BY <3>2, <3>3, <1>7
  <2>2. Above(j) \subseteq OpenRounds /\ Above(i) \subseteq OpenRounds /\ Above(j) # Above(i)
    BY <2>1
  <2> HIDE DEF Above
  <2> QED BY <1>6, <2>1, <2>2 DEF StrictSubsetOrdering
<1>8. \A j \in OpenRounds : j <= i
  BY <1>1, <1>7
<1> QED BY <1>8

\* The fields of a call.
LEMMA FieldsOf ==
  ASSUME NEW c \in CallType
  PROVE  /\ c.fn \in Phases \cup {"none", "start"} /\ c.r \in 0 .. MaxRounds + 1
         /\ c.ph \in Phases \cup {"none"} /\ c.safe \in BOOLEAN
  BY DEF CallType

\* A call opens a round: from start(), a closed round or its timer.
LEMMA WaitingCall ==
  /\ [NoCall EXCEPT !.fn = "waiting", !.at = "fence"] \in CallType
  /\ Shaped([NoCall EXCEPT !.fn = "waiting", !.at = "fence"])
  /\ [NoCall EXCEPT !.fn = "crashed", !.at = "honor"] \in CallType
  /\ Shaped([NoCall EXCEPT !.fn = "crashed", !.at = "honor"])
<1>1. "waiting" \in Phases /\ "crashed" \in Phases
  BY PhaseTable
<1> QED BY <1>1, NoCallShaped DEF CallType, Shaped, NoCall

\* A call moves to its next await with the fields it has.
LEMMA CallGoes ==
  ASSUME NEW c \in CallType, Shaped(c), c.fn \in Phases, c.at # "none",
         NEW a \in {"fence", "create", "write", "reveal", "publish"}, NEW r \in 0 .. MaxRounds + 1
  PROVE  /\ [c EXCEPT !.at = a] \in CallType /\ Shaped([c EXCEPT !.at = a])
         /\ [c EXCEPT !.at = a, !.r = r] \in CallType /\ Shaped([c EXCEPT !.at = a, !.r = r])
<1>1. [c EXCEPT !.at = a] \in CallType /\ [c EXCEPT !.at = a, !.r = r] \in CallType
  BY DEF CallType
<1>2. [c EXCEPT !.at = a].at = a /\ [c EXCEPT !.at = a].fn = c.fn
  BY DEF CallType
<1>3. [c EXCEPT !.at = a, !.r = r].at = a /\ [c EXCEPT !.at = a, !.r = r].fn = c.fn
  BY DEF CallType
<1>4. NoCall.at = "none" /\ a # "none"
  BY DEF NoCall
<1> QED BY <1>1, <1>2, <1>3, <1>4 DEF Shaped

\* The fields of a row.
LEMMA RowsAre ==
  ASSUME TypeOK, NEW i \in DOMAIN round
  PROVE  /\ round[i] \in RoundType /\ i \in 1 .. Len(round) /\ i \in 1 .. MaxRounds /\ i \in Nat
         /\ round[i].status \in Phases /\ round[i].crashed \in BOOLEAN
         /\ round[i].revealed \in BOOLEAN /\ round[i].settled \in BOOLEAN
         /\ Len(round) \in Nat
<1>1. round[i] \in RoundType /\ i \in 1 .. Len(round) /\ Len(round) \in Nat /\ Len(round) <= MaxRounds
  BY DEF TypeOK
<1> QED BY <1>1, EngineAssumption DEF RoundType

\* The writes to a row: its status, its seed made public, its bets settled.
LEMMA RowWrites ==
  ASSUME TypeOK, NEW r, NEW p \in Phases, NEW b \in BOOLEAN
  PROVE  /\ [round EXCEPT ![r].status = p] \in Seq(RoundType)
         /\ Len([round EXCEPT ![r].status = p]) = Len(round)
         /\ [round EXCEPT ![r].status = p, ![r].crashed = @ \/ b] \in Seq(RoundType)
         /\ Len([round EXCEPT ![r].status = p, ![r].crashed = @ \/ b]) = Len(round)
         /\ [round EXCEPT ![r].revealed = TRUE] \in Seq(RoundType)
         /\ Len([round EXCEPT ![r].revealed = TRUE]) = Len(round)
         /\ [round EXCEPT ![r].settled = @ \/ b] \in Seq(RoundType)
         /\ Len([round EXCEPT ![r].settled = @ \/ b]) = Len(round)
<1>0. round \in Seq(RoundType)
  BY DEF TypeOK
<1> DEFINE w == [round[r] EXCEPT !.status = p, !.crashed = @ \/ b]
           x == [round[r] EXCEPT !.status = p]
           y == [round[r] EXCEPT !.revealed = TRUE]
           z == [round[r] EXCEPT !.settled = @ \/ b]
<1>1. ASSUME r \in DOMAIN round
      PROVE  w \in RoundType /\ x \in RoundType /\ y \in RoundType /\ z \in RoundType
  <2>1. round[r] \in RoundType
    BY <1>1, RowsAre
  <2>2. (round[r].settled \/ b) \in BOOLEAN /\ (round[r].crashed \/ b) \in BOOLEAN
    OBVIOUS
  <2> QED BY <2>1, <2>2 DEF RoundType
<1>2. [round EXCEPT ![r].status = p] = [round EXCEPT ![r] = x]
  OBVIOUS
<1>3. [round EXCEPT ![r].revealed = TRUE] = [round EXCEPT ![r] = y]
  OBVIOUS
<1>4. [round EXCEPT ![r].settled = @ \/ b] = [round EXCEPT ![r] = z]
  OBVIOUS
<1>5. [round EXCEPT ![r].status = p, ![r].crashed = @ \/ b] = [round EXCEPT ![r] = w]
  BY <1>0, <1>1 DEF RoundType
<1> HIDE DEF w, x, y, z
<1>6. /\ [round EXCEPT ![r] = w] \in Seq(RoundType) /\ Len([round EXCEPT ![r] = w]) = Len(round)
      /\ [round EXCEPT ![r] = x] \in Seq(RoundType) /\ Len([round EXCEPT ![r] = x]) = Len(round)
      /\ [round EXCEPT ![r] = y] \in Seq(RoundType) /\ Len([round EXCEPT ![r] = y]) = Len(round)
      /\ [round EXCEPT ![r] = z] \in Seq(RoundType) /\ Len([round EXCEPT ![r] = z]) = Len(round)
  BY <1>0, <1>1, RowChange
<1> QED BY <1>2, <1>3, <1>4, <1>5, <1>6

\* What a node mirrors is a state.
LEMMA MirrorTypes ==
  ASSUME TypeOK, NEW n \in Nodes, NEW s \in States
  PROVE  Ingest(Payload(n, s)) \in States
  BY DEF TypeOK, Ingest, Payload

\* The calls and timers of a node.
LEMMA CallSteps ==
  ASSUME TypeOK, CallsShaped, NEW n \in Nodes, NEW k \in Slots,
         \/ Honor(n, k) \/ FencePasses(n, k) \/ FenceFails(n, k) \/ FenceErrs(n, k) \/ NoSeed(n, k)
         \/ Throws(n, k) \/ Deadline(n, k)
  PROVE  TypeOK' /\ CallsShaped'
<1> DEFINE c == call[n][k]
<1>0. c \in CallType /\ Shaped(c) /\ "waiting" \in Phases
  BY CallIs, PhaseTable
<1>a. running \in [Nodes -> BOOLEAN] /\ public \in States
  BY DEF TypeOK
<1> HIDE DEF c
<1>1. CASE Honor(n, k)
  <2>1. c.at = "honor" /\ c.fn \in Phases
    BY <1>0, <1>1 DEF Honor, Shaped, c
  <2>2. CallTypes' /\ CallsShaped'
    <3>1. CASE EndCall(n, k)
      BY <3>1, EndCallTypes
    <3>2. CASE SetCall(n, k, [c EXCEPT !.at = "fence"])
      <4>1. [c EXCEPT !.at = "fence"] \in CallType /\ Shaped([c EXCEPT !.at = "fence"])
        <5>1. 0 \in 0 .. MaxRounds + 1 /\ c.at # "none"
          BY <2>1, EngineAssumption
        <5> QED BY <1>0, <2>1, <5>1, CallGoes
      <4> QED BY <3>2, <4>1, SetCallTypes
    <3> QED BY <1>1, <3>1, <3>2 DEF Honor, c
  <2>3. LoopTypes'
    BY <1>1, StopTypes, KeepLoops DEF Honor, loopVars, TypeOK
  <2> QED BY <1>a, <1>1, <2>2, <2>3, KeepLead, KeepFaults, KeepTable, TypePartsNext DEF Honor
<1>2. CASE FencePasses(n, k)
  <2>1. c.at = "fence" /\ c.fn \in Phases
    BY <1>0, <1>2 DEF FencePasses, Shaped, c
  <2>2. Len(round) + 1 \in 0 .. MaxRounds + 1
    BY EngineAssumption DEF TypeOK
  <2>3. CASE SetCall(n, k, [c EXCEPT !.at = "create", !.r = Len(round) + 1]) /\ UNCHANGED st
    <3>1. CallTypes' /\ CallsShaped'
      <4> DEFINE d == [c EXCEPT !.at = "create", !.r = Len(round) + 1]
      <4>1. d \in CallType /\ Shaped(d)
        BY <1>0, <2>1, <2>2, CallGoes
      <4> HIDE DEF d
      <4>2. SetCall(n, k, d)
        BY <2>3 DEF d
      <4> QED BY <4>1, <4>2, SetCallTypes
    <3> QED BY <1>a, <1>2, <2>3, <3>1, KeepLead, KeepFaults, KeepTable, KeepLoops, TypePartsNext DEF FencePasses, loopVars
  <2>4. CASE EndCall(n, k) /\ UNCHANGED st
    BY <1>a, <1>2, <2>4, EndCallTypes, KeepLead, KeepFaults, KeepTable, KeepLoops, TypePartsNext DEF FencePasses, loopVars
  <2>5. CASE /\ st[n] # NoState /\ st' = [st EXCEPT ![n].phase = c.fn]
             /\ SetCall(n, k, [c EXCEPT !.at = "write", !.r = st[n].r])
    <3>1. st[n] \in States /\ st[n].r \in 1 .. MaxRounds /\ st[n].r \in 0 .. MaxRounds + 1
      BY <2>5, StateIs, EngineAssumption
    <3>2. CallTypes' /\ CallsShaped'
      <4> DEFINE d == [c EXCEPT !.at = "write", !.r = st[n].r]
      <4>1. d \in CallType /\ Shaped(d)
        BY <1>0, <2>1, <3>1, CallGoes
      <4> HIDE DEF d
      <4>2. SetCall(n, k, d)
        BY <2>5 DEF d
      <4> QED BY <4>1, <4>2, SetCallTypes
    <3>3. [st[n] EXCEPT !.phase = c.fn] \in States
      BY <2>1, <2>5, <3>1 DEF States
    <3>4. st' \in [Nodes -> States]
      BY <2>5, <3>3 DEF TypeOK
    <3>5. LoopTypes'
      BY <1>2, <3>4 DEF TypeOK, LoopTypes, FencePasses
    <3> QED BY <1>a, <1>2, <3>2, <3>5, KeepLead, KeepFaults, KeepTable, TypePartsNext DEF FencePasses
  <2> QED BY <1>2, <2>3, <2>4, <2>5 DEF FencePasses, c
<1>3. CASE FenceFails(n, k)
  BY <1>a, <1>3, EndCallTypes, StopTypes, KeepLead, KeepFaults, KeepTable, TypePartsNext DEF FenceFails, TypeOK
<1>4. CASE FenceErrs(n, k)
  BY <1>a, <1>4, EndCallTypes, StopTypes, KeepLead, KeepFaults, KeepTable, TypePartsNext DEF FenceErrs, TypeOK
<1>5. CASE NoSeed(n, k)
  BY <1>0, <1>a, <1>5, EndCallTypes, ScheduleTypes, KeepLead, KeepFaults, KeepTable, TypePartsNext DEF NoSeed
<1>6. CASE Throws(n, k)
  BY <1>0, <1>a, <1>6, EndCallTypes, ScheduleTypes, KeepLoops, KeepLead, KeepFaults, KeepTable, TypePartsNext DEF Throws, loopVars
<1>7. CASE Deadline(n, k)
  <2>1. c.safe
    BY <1>7 DEF Deadline, c
  <2>2. c.at # "none"
    BY <1>0, <2>1 DEF Shaped, NoCall
  <2> DEFINE d == [c EXCEPT !.safe = FALSE]
  <2>3. d \in CallType
    BY <1>0 DEF CallType
  <2>4. d.at = c.at /\ d.fn = c.fn /\ d.r = c.r /\ d.ph = c.ph
    BY <1>0 DEF CallType
  <2>5. Shaped(d)
    BY <1>0, <2>2, <2>4 DEF Shaped, NoCall
  <2> HIDE DEF d
  <2>6. SetCall(n, k, d)
    BY <1>7 DEF Deadline, c, d
  <2> QED BY <1>0, <1>a, <1>7, <2>3, <2>5, <2>6, SetCallTypes, ScheduleTypes, KeepLead, KeepFaults, KeepTable, TypePartsNext DEF Deadline
<1> QED BY <1>1, <1>2, <1>3, <1>4, <1>5, <1>6, <1>7

\* The handlers that write the table or the public state.
LEMMA RowSteps ==
  ASSUME TypeOK, CallsShaped, NEW n \in Nodes, NEW k \in Slots,
         \/ StartReads(n, k) \/ ResumeAncient(n, k) \/ Resume(n, k)
         \/ Create(n, k) \/ Write(n, k) \/ Reveal(n, k) \/ Publish(n, k)
  PROVE  TypeOK' /\ CallsShaped'
<1> DEFINE c == call[n][k]
<1>0. c \in CallType /\ Shaped(c) /\ {"waiting", "completed", "crashed"} \subseteq Phases
  BY CallIs, PhaseTable
<1>a. running \in [Nodes -> BOOLEAN] /\ public \in States
  BY DEF TypeOK
<1>b. round \in Seq(RoundType) /\ Len(round) \in Nat /\ Len(round) <= MaxRounds
  BY DEF TypeOK
<1> HIDE DEF c
<1>1. CASE StartReads(n, k)
  <2>1. CASE OpenRounds = {}
    BY <1>a, <1>1, <2>1, WaitingCall, SetCallTypes, KeepLead, KeepFaults, KeepTable, KeepLoops, TypePartsNext DEF StartReads
  <2>2. CASE OpenRounds # {}
    <3> DEFINE newest == CHOOSE i \in OpenRounds : \A j \in OpenRounds : j <= i
    <3>1. newest \in DOMAIN round
      BY <2>2, NewestOpen DEF OpenRounds
    <3> HIDE DEF newest
    <3>2. newest \in 1 .. MaxRounds /\ newest \in 0 .. MaxRounds + 1 /\ round[newest].status \in Phases
      BY <3>1, RowsAre, EngineAssumption
    <3> DEFINE d == [c EXCEPT !.at = "resume", !.r = newest, !.ph = round[newest].status]
    <3>3. d \in CallType
      BY <1>0, <3>2 DEF CallType
    <3>4. d.at = "resume" /\ d.r = newest /\ d.ph = round[newest].status /\ d.fn = "start"
      BY <1>0, <1>1 DEF CallType, StartReads, c
    <3>5. Shaped(d)
      BY <3>2, <3>4 DEF Shaped, NoCall
    <3> HIDE DEF d
    <3>6. SetCall(n, k, d)
      BY <1>1, <2>2 DEF StartReads, d, c, newest
    <3>7. \A i \in DOMAIN round : CloseExtra(n, i) \in RoundType
      <4> TAKE i \in DOMAIN round
      <4>2. /\ (round[i].revealed \/ round[i].status \in PostOutcome) \in BOOLEAN
            /\ (round[i].crashed \/ round[i].status \in PostOutcome) \in BOOLEAN
        OBVIOUS
      <4>3. (round[i].settled \/ (round[i].status \in PostOutcome /\ isLeader(n))) \in BOOLEAN
        OBVIOUS
      <4> QED BY <1>0, <4>2, <4>3 DEF CloseExtra, RoundType
    <3>8. round' = [i \in DOMAIN round |-> IF i \in OpenRounds \ {newest} THEN CloseExtra(n, i) ELSE round[i]]
      BY <1>1, <2>2 DEF StartReads, newest
    <3>9. \A i \in DOMAIN round : round'[i] \in RoundType
      BY <3>7, <3>8, RowsAre
    <3>10. round' = [i \in DOMAIN round |-> round'[i]]
      BY <3>8
    <3>11. TableTypes'
      BY <1>b, <3>9, <3>10, TableType DEF TableTypes
    <3> QED BY <1>a, <1>1, <3>3, <3>5, <3>6, <3>11, SetCallTypes, KeepLead, KeepFaults, KeepLoops, TypePartsNext DEF StartReads
  <2> QED BY <2>1, <2>2
<1>2. CASE ResumeAncient(n, k)
  <2>1. TableTypes'
    BY <1>0, <1>b, <1>2, RowWrites DEF ResumeAncient, TableTypes
  <2> QED BY <1>a, <1>2, <2>1, WaitingCall, SetCallTypes, KeepLead, KeepFaults, KeepLoops, TypePartsNext DEF ResumeAncient
<1>3. CASE Resume(n, k)
  <2>1. c.at = "resume" /\ c.r \in 1 .. MaxRounds /\ c.ph \in Phases
    BY <1>0, <1>3 DEF Resume, Shaped, c
  <2>2. [r |-> c.r, phase |-> c.ph] \in States
    BY <2>1 DEF States
  <2>3. st' = [st EXCEPT ![n] = [r |-> c.r, phase |-> c.ph]]
    BY <1>3 DEF Resume, c
  <2>4. st' \in [Nodes -> States] /\ st'[n] \in States
    BY <2>2, <2>3 DEF TypeOK
  <2>5. public' \in States
    BY <1>3, <2>4, MirrorTypes DEF Resume
  <2>6. TableTypes'
    <3>1. isLeader(n) \in BOOLEAN
      BY DEF isLeader
    <3>2. \/ round' = round \/ round' = [round EXCEPT ![c.r].revealed = TRUE]
          \/ round' = [round EXCEPT ![c.r].settled = @ \/ isLeader(n)]
      BY <1>3 DEF Resume, Settle, c
    <3> QED BY <1>0, <1>b, <3>1, <3>2, RowWrites DEF TableTypes
  <2>7. LoopTypes' /\ CallTypes' /\ CallsShaped'
    <3>1. CASE Schedule(n, NextPhase(c.ph), TRUE) /\ EndCall(n, k)
      <4>1. LoopTypes'
        BY <1>3, <2>1, <2>4, <3>1, PhaseClosed DEF Resume, LoopTypes, TypeOK, Schedule
      <4> QED BY <3>1, <4>1, EndCallTypes
    <3>2. CASE SetCall(n, k, [NoCall EXCEPT !.fn = "crashed", !.at = "honor"]) /\ UNCHANGED <<timer, soon>>
      <4>1. LoopTypes'
        BY <1>3, <2>4, <3>2 DEF Resume, LoopTypes, TypeOK
      <4> QED BY <3>2, <4>1, SetCallTypes, WaitingCall
    <3> QED BY <1>3, <3>1, <3>2 DEF Resume, c
  <2> QED BY <1>3, <2>5, <2>6, <2>7, KeepLead, KeepFaults, TypePartsNext DEF Resume
<1>4. CASE Create(n, k)
  <2>1. c.at = "create" /\ c.fn \in Phases /\ c.r \in 0 .. MaxRounds + 1
    BY <1>0, <1>4, FieldsOf DEF Create, Shaped, c
  <2>2. CASE c.r > Len(round)
    <3>1. c.r \in 1 .. MaxRounds /\ Len(round) + 1 <= MaxRounds
      BY <1>b, <1>4, <2>1, <2>2, EngineAssumption DEF Create, c
    <3>2. [status |-> "waiting", crashed |-> FALSE, revealed |-> FALSE, settled |-> FALSE] \in RoundType
      BY <1>0 DEF RoundType
    <3>3. TableTypes'
      BY <1>b, <1>4, <2>2, <3>1, <3>2 DEF Create, c, TableTypes
    <3>4. [r |-> c.r, phase |-> "waiting"] \in States
      BY <1>0, <3>1 DEF States
    <3>5. LoopTypes'
      BY <1>4, <2>2, <3>4 DEF Create, c, LoopTypes, TypeOK
    <3> DEFINE d == [c EXCEPT !.at = "publish"]
    <3>6. d \in CallType /\ Shaped(d)
      <4>1. 0 \in 0 .. MaxRounds + 1 /\ c.at # "none"
        BY <2>1, EngineAssumption
      <4> QED BY <1>0, <2>1, <4>1, CallGoes
    <3> HIDE DEF d
    <3>7. SetCall(n, k, d)
      BY <1>4, <2>2 DEF Create, c, d
    <3> QED BY <1>a, <1>4, <3>3, <3>5, <3>6, <3>7, SetCallTypes, KeepLead, KeepFaults, TypePartsNext DEF Create
  <2>3. CASE ~ (c.r > Len(round))
    BY <1>a, <1>4, <2>3, EndCallTypes, StopTypes, KeepLead, KeepFaults, KeepTable, TypePartsNext DEF Create, TypeOK, c
  <2> QED BY <2>2, <2>3
<1>5. CASE Write(n, k)
  <2>1. c.at = "write" /\ c.fn \in Phases
    BY <1>0, <1>5 DEF Write, Shaped, c
  <2>2. TableTypes'
    <3>1. (c.fn = "crashed") \in BOOLEAN
      OBVIOUS
    <3> QED BY <1>b, <1>5, <2>1, <3>1, RowWrites DEF Write, TableTypes, c
  <2> DEFINE a == IF c.fn = "crashed" THEN "reveal" ELSE "publish"
             d == [c EXCEPT !.at = a]
  <2>3. d \in CallType /\ Shaped(d)
    <3>1. 0 \in 0 .. MaxRounds + 1 /\ c.at # "none" /\ a \in {"reveal", "publish"}
      BY <2>1, EngineAssumption
    <3> HIDE DEF a
    <3> QED BY <1>0, <2>1, <3>1, CallGoes
  <2>4. SetCall(n, k, d)
    BY <1>5 DEF Write, c
  <2> HIDE DEF d
  <2> QED BY <1>a, <1>5, <2>2, <2>3, <2>4, SetCallTypes, KeepLead, KeepFaults, KeepLoops, TypePartsNext DEF Write
<1>6. CASE Reveal(n, k)
  <2>1. c.at = "reveal" /\ c.fn \in Phases
    BY <1>0, <1>6 DEF Reveal, Shaped, c
  <2>2. TableTypes'
    BY <1>0, <1>b, <1>6, RowWrites DEF Reveal, TableTypes, c
  <2> DEFINE d == [c EXCEPT !.at = "publish"]
  <2>3. d \in CallType /\ Shaped(d)
    <3>1. 0 \in 0 .. MaxRounds + 1 /\ c.at # "none"
      BY <2>1, EngineAssumption
    <3> QED BY <1>0, <2>1, <3>1, CallGoes
  <2> HIDE DEF d
  <2>4. SetCall(n, k, d)
    BY <1>6 DEF Reveal, c, d
  <2> QED BY <1>a, <1>6, <2>2, <2>3, <2>4, SetCallTypes, KeepLead, KeepFaults, KeepLoops, TypePartsNext DEF Reveal
<1>7. CASE Publish(n, k)
  <2>1. c.at = "publish" /\ c.fn \in Phases
    BY <1>0, <1>7 DEF Publish, Shaped, c
  <2>2. TableTypes'
    <3>1. isLeader(n) \in BOOLEAN
      BY DEF isLeader
    <3>2. round' = round \/ round' = [round EXCEPT ![st[n].r].settled = @ \/ isLeader(n)]
      BY <1>7 DEF Publish, Settle
    <3> QED BY <1>0, <1>b, <3>1, <3>2, RowWrites DEF TableTypes
  <2>3. public' \in States
    BY <1>7, StateIs, MirrorTypes DEF Publish
  <2>4. LoopTypes'
    <3>1. (c.fn = "running") \in BOOLEAN
      OBVIOUS
    <3> QED BY <1>a, <1>7, <2>1, <3>1, PhaseClosed, ScheduleTypes DEF Publish, c
  <2> QED BY <1>7, <2>2, <2>3, <2>4, EndCallTypes, KeepLead, KeepFaults, TypePartsNext DEF Publish
<1> QED BY <1>1, <1>2, <1>3, <1>4, <1>5, <1>6, <1>7

\* The timers.
LEMMA TimerSteps ==
  ASSUME TypeOK, CallsShaped, NEW n \in Nodes, TimerFires(n) \/ TimerFizzles(n)
  PROVE  TypeOK' /\ CallsShaped'
<1>a. running \in [Nodes -> BOOLEAN] /\ public \in States /\ timer[n] \in Phases \cup {"none"}
  BY DEF TypeOK
<1>1. CASE TimerFires(n)
  <2>1. timer[n] \in Phases
    BY <1>a, <1>1 DEF TimerFires
  <2>2. PICK k \in FreeSlot(n) :
          SetCall(n, k, [NoCall EXCEPT !.fn = timer[n], !.at = "fence", !.safe = TRUE])
    BY <1>1 DEF TimerFires
  <2> DEFINE d == [NoCall EXCEPT !.fn = timer[n], !.at = "fence", !.safe = TRUE]
  <2>3. d \in CallType
    BY <2>1, NoCallShaped DEF CallType
  <2>4. Shaped(d)
    BY <2>1 DEF Shaped, NoCall
  <2> HIDE DEF d
  <2>5. k \in Slots /\ SetCall(n, k, d)
    BY <2>2 DEF FreeSlot, d
  <2> QED BY <1>a, <1>1, <2>3, <2>4, <2>5, SetCallTypes, ScheduleTypes, KeepLead, KeepFaults, KeepTable, TypePartsNext DEF TimerFires
<1>2. CASE TimerFizzles(n)
  BY <1>a, <1>2, ScheduleTypes, KeepCalls, KeepLead, KeepFaults, KeepTable, TypePartsNext DEF TimerFizzles
<1> QED BY <1>1, <1>2

\* The types hold at the start.
LEMMA InitTypes == Init => TypeOK /\ CallsShaped
<1> SUFFICES ASSUME Init PROVE TypeOK /\ CallsShaped
  OBVIOUS
<1>1. mode \in Modes /\ MaxFaults[mode] \in Nat
  BY EngineAssumption DEF Init
<1>2. LeadTypes
  BY EngineAssumption DEF Init, Promise!Init, LeadTypes, fence
<1>3. FaultTypes /\ LoopTypes /\ public \in States
  BY <1>1 DEF Init, FaultTypes, LoopTypes, States
<1>4. TableTypes
  BY EngineAssumption DEF Init, TableTypes
<1>5. CallTypes /\ CallsShaped
  BY NoCallShaped DEF Init, CallTypes, CallsShaped
<1> QED BY <1>2, <1>3, <1>4, <1>5, TypeParts

\* Every step keeps the types.
LEMMA NextTypes ==
  ASSUME TypeOK, CallsShaped, [Next]_vars
  PROVE  TypeOK' /\ CallsShaped'
<1>1. CASE UNCHANGED vars
  BY <1>1, KeepLead, KeepTable, KeepLoops, KeepCalls, TypePartsNext
     DEF vars, leadVars, loopVars, TypeOK, FaultTypes
<1>2. CASE Next
  BY <1>2, LeadSteps, TimerSteps, CallSteps, RowSteps DEF Next, Step
<1> QED BY <1>1, <1>2

\* Types, in every mode: also while calls outlive their deadline, no handler leaves
\* the values the table, the timer or this.state may have.
THEOREM EngineTypes == Spec => [](TypeOK /\ CallsShaped)
<1>1. Init => TypeOK /\ CallsShaped
  BY InitTypes
<1>2. TypeOK /\ CallsShaped /\ [Next]_vars => (TypeOK /\ CallsShaped)'
  BY NextTypes
<1> QED BY <1>1, <1>2, PTL DEF Spec

(* ------------------------------------------------- what the parts are about *)

\* The parts of the invariant with their state made explicit, so that they can be
\* compared between a state and the next.
Again(row) == row.status = "running" /\ row.crashed
Eff(row) == IF Again(row) THEN "crashed" ELSE row.status
Behind(c, rd) == Rank(Eff(rd[c.r])) <= Rank(c.fn) \/ Pace(c.fn, Eff(rd[c.r]))

Fit(c, s, rd) ==
  /\ c.at = "resume" =>
       /\ c.r \in DOMAIN rd /\ Rank(c.ph) <= Rank(Eff(rd[c.r]))
       /\ c.ph # "completed" /\ (c.ph = "settling" => rd[c.r].revealed)
  /\ c.at = "honor" => c.fn = "crashed"
  /\ c.at = "create" => c.fn = "waiting" /\ c.r \in 1 .. Len(rd) + 1
  /\ c.at \in {"write", "reveal", "publish"} =>
       c.r \in DOMAIN rd /\ s = [r |-> c.r, phase |-> c.fn]
  /\ c.at = "write" => Behind(c, rd) /\ c.fn # "waiting" /\ (c.fn = "settling" => rd[c.r].revealed)
  /\ c.at = "reveal" => c.fn = "crashed"
  /\ c.at \in {"reveal", "publish"} => Rank(c.fn) <= Rank(Eff(rd[c.r]))
  /\ c.at = "publish" /\ c.fn \in {"crashed", "settling"} => rd[c.r].revealed

SeenAt(r, p, rd, w) ==
  /\ r \in DOMAIN rd
  /\ Eff(rd[r]) = p \/ (~ w /\ Eff(rd[r]) = NextPhase(p))

DueAt(s, fn, rd, w) ==
  fn # "waiting" => /\ NextPhase(s.phase) = fn /\ SeenAt(s.r, s.phase, rd, w)
                    /\ fn = "settling" => rd[s.r].revealed

CallSeen(c, s, rd, w) ==
  /\ c.at = "resume" => SeenAt(c.r, c.ph, rd, w)
  /\ c.at \in {"honor", "fence"} => DueAt(s, c.fn, rd, w)
  /\ c.at = "write" => \E p \in Phases : NextPhase(p) = c.fn /\ SeenAt(c.r, p, rd, w)
  /\ c.at \in {"reveal", "publish"} => SeenAt(c.r, c.fn, rd, w)

RowOK(row, w) ==
  /\ row.revealed => Eff(row) \in Over
  /\ row.settled => row.revealed
  /\ row.crashed => Eff(row) \in Over
  /\ Eff(row) = "crashed" => row.crashed
  /\ Eff(row) = "settling" => row.revealed
  /\ w => ~ Again(row)

CacheOK(p, rd) ==
  p # NoState => p.r \in DOMAIN rd /\ Rank(p.phase) <= Rank(Eff(rd[p.r]))

\* How far a round is, now.
LEMMA EffNow == \A r : Status(r) = Eff(round[r]) /\ (Reopened(r) <=> Again(round[r]))
  BY DEF Status, Reopened, Eff, Again

\* How far a round is, after a step.
LEMMA EffNext == \A r : Status(r)' = Eff(round'[r]) /\ (Reopened(r)' <=> Again(round'[r]))
  BY DEF Status, Reopened, Eff, Again

\* A round that runs again is neither waiting nor completed.
LEMMA EffIs ==
  ASSUME NEW row
  PROVE  /\ \A p : p \notin {"running", "crashed"} => (Eff(row) = p <=> row.status = p)
         /\ row.status = Eff(row) \/ (Again(row) /\ row.status = "running" /\ Eff(row) = "crashed")
         /\ row.status \in Phases => Eff(row) \in Phases
         /\ row \in RoundType => Eff(row) \in Phases
         /\ ~ row.crashed => Eff(row) = row.status
<1>1. "crashed" \in Phases
  BY PhaseTable
<1>2. row \in RoundType => row.status \in Phases
  BY DEF RoundType
<1> QED BY <1>1, <1>2 DEF Eff, Again

\* What a call knows, now.
LEMMA FitNow == CallsFit <=> \A n \in Nodes, k \in Slots : Fit(call[n][k], st[n], round)
  BY EffNow DEF CallsFit, Fit, Behind

\* What a call knows, after a step.
LEMMA FitNext == CallsFit' <=> \A n \in Nodes, k \in Slots : Fit(call'[n][k], st'[n], round')
  BY EffNext DEF CallsFit, Fit, Behind

\* What the leader sees, now.
LEMMA ViewNow ==
  ViewsFit <=> \A n \in Nodes : StillLeader(n) =>
                 /\ Loose(n) /\ timer[n] # "none" => DueAt(st[n], timer[n], round, Watched)
                 /\ \A k \in Slots : CallSeen(call[n][k], st[n], round, Watched)
  BY EffNow DEF ViewsFit, Due, Seen, DueAt, SeenAt, CallSeen

\* What the leader sees, after a step.
LEMMA ViewNext ==
  ViewsFit' <=> \A n \in Nodes : StillLeader(n)' =>
                 /\ Loose(n)' /\ timer'[n] # "none" => DueAt(st'[n], timer'[n], round', Watched')
                 /\ \A k \in Slots : CallSeen(call'[n][k], st'[n], round', Watched')
  BY EffNext DEF ViewsFit, Due, Seen, DueAt, SeenAt, CallSeen

\* The rounds table and the followers' view.
Books == (\A i \in DOMAIN round : RowOK(round[i], Watched)) /\ CacheOK(public, round)

\* The table and the view, as the properties say it.
LEMMA BooksNow ==
  ASSUME mode # "hanging"
  PROVE  RevealedIsOver /\ SettledIsRevealed /\ CacheNeverAhead /\ RoundsFit <=> Books
  BY EffNow DEF RevealedIsOver, SettledIsRevealed, CacheNeverAhead, RoundsFit, Books, RowOK, CacheOK

(* ------------------------------------------------------------- who leads *)

\* Who leads, by number.
LEMMA LeadIs ==
  ASSUME TypeOK, NEW n \in Nodes
  PROVE  /\ fence \in Nat /\ token[n] \in Nat \cup {NoFence} /\ used[n] \in Nat
         /\ StillLeader(n) <=> fence > 0 /\ token[n] = fence
         /\ StillLeader(n) => isLeader(n)
  BY EngineAssumption DEF TypeOK, fence, StillLeader, Promise!StillLeader, Promise!fence, isLeader

\* The newest fence names one node.
LEMMA OneLeader ==
  ASSUME TypeOK, FencesFit, NEW n \in Nodes, NEW m \in Nodes, StillLeader(n), StillLeader(m)
  PROVE  n = m
  BY LeadIs DEF FencesFit

\* Where the newest fence is taken up, it is not unclaimed.
LEMMA LeaderClaimed ==
  ASSUME TypeOK, FencesFit, NEW n \in Nodes, StillLeader(n)
  PROVE  ~ Unclaimed
<1>1. fence \in Nat /\ fence > 0 /\ token[n] = fence /\ isLeader(n) /\ used[n] \in Nat
  BY LeadIs
<1>2. fence <= used[n] /\ grants[fence] = n
  BY <1>1 DEF FencesFit
<1> QED BY <1>1, <1>2 DEF Unclaimed

\* The leadership is left alone.
LEMMA SameLead ==
  ASSUME UNCHANGED leadVars
  PROVE  /\ \A m \in Nodes : (StillLeader(m)' <=> StillLeader(m)) /\ (isLeader(m)' <=> isLeader(m))
         /\ deposed' = deposed /\ token' = token
         /\ FencesFit => FencesFit'
         /\ Unclaimed' <=> Unclaimed
<1>1. grants' = grants /\ token' = token /\ used' = used /\ deposed' = deposed
  BY DEF leadVars
<1>2. fence' = fence
  BY <1>1 DEF fence
<1>3. \A m \in Nodes : (StillLeader(m)' <=> StillLeader(m)) /\ (isLeader(m)' <=> isLeader(m))
  BY <1>1 DEF StillLeader, Promise!StillLeader, Promise!fence, isLeader
<1>4. FencesFit => FencesFit'
  BY <1>1, <1>2 DEF FencesFit, Unclaimed, isLeader
<1>5. Unclaimed' <=> Unclaimed
  BY <1>1, <1>2 DEF Unclaimed
<1> QED BY <1>1, <1>3, <1>4, <1>5

\* The rounds are safe, and everybody is where that needs them to be.
Parts ==
  /\ Books /\ FencesFit /\ LoopsFit /\ CallsFit /\ ViewsFit
  /\ mode = "steady" => LiveFits /\ StaleWritesFit

Safe ==
  /\ TypeOK /\ CallsShaped /\ Tame /\ mode # "hanging"
  /\ Parts

\* A call in flight: it is the only one of its node, which leads, or is the one deposed leader
\* with something left.
LEMMA InFlight ==
  ASSUME Safe, NEW n \in Nodes, NEW k \in Slots, call[n][k].at # "none"
  PROVE  /\ call[n][k] # NoCall /\ ~ Loose(n)
         /\ \A j \in Slots : j # k => call[n][j] = NoCall
         /\ StillLeader(n) => running[n] /\ \A m \in Nodes : m # n => ~ StillLeader(m)
         /\ ~ StillLeader(n) => /\ deposed = 1 /\ mode = "steady"
                                /\ \A m \in Nodes : m # n => ~ Stale(m)
         /\ deposed = 0 => timer[n] = "none"
<1>1. call[n][k] # NoCall
  BY DEF NoCall
<1>2. ~ Loose(n)
  BY <1>1 DEF Loose
<1>3. \A j \in Slots : j # k => call[n][j] = NoCall
  BY <1>1 DEF Safe, Parts, LoopsFit, AtMostOne
<1>4. ASSUME StillLeader(n) PROVE running[n] /\ \A m \in Nodes : m # n => ~ StillLeader(m)
  BY <1>2, <1>4, OneLeader DEF Safe, Parts, LoopsFit
<1>5. ASSUME ~ StillLeader(n)
      PROVE  deposed = 1 /\ mode = "steady" /\ \A m \in Nodes : m # n => ~ Stale(m)
  <2>1. Stale(n)
    BY <1>2, <1>5 DEF Stale, Retired
  <2>2. deposed = 1
    BY <2>1 DEF Safe, Parts, LoopsFit
  <2>3. \A m \in Nodes : Stale(m) => m = n
    BY <2>1 DEF Safe, Parts, LoopsFit, AtMostOne
  <2> QED BY <2>2, <2>3 DEF Safe, Tame
<1>6. deposed = 0 => timer[n] = "none"
  BY <1>2 DEF Safe, Parts, LoopsFit
<1> QED BY <1>1, <1>2, <1>3, <1>4, <1>5, <1>6

\* The same call after its step.
LEMMA Moved ==
  ASSUME Safe, NEW n \in Nodes, NEW k \in Slots, call[n][k].at # "none",
         NEW d, SetCall(n, k, d), UNCHANGED leadVars
  PROVE  /\ call'[n][k] = d
         /\ \A j \in Slots : j # k => call'[n][j] = NoCall
         /\ \A m \in Nodes : m # n => call'[m] = call[m]
         /\ Loose(n)' <=> d = NoCall
         /\ \A m \in Nodes : m # n => (Loose(m)' <=> Loose(m))
<1>0. TypeOK
  BY DEF Safe, Parts
<1>1. call'[n][k] = d /\ \A m \in Nodes : m # n => call'[m] = call[m]
  BY <1>0, CallMove
<1>2. \A j \in Slots : j # k => call'[n][j] = NoCall
  BY <1>0, CallMove, InFlight
<1>3. Loose(n)' <=> d = NoCall
  BY <1>1, <1>2 DEF Loose, NoCall
<1>4. \A m \in Nodes : m # n => (Loose(m)' <=> Loose(m))
  BY <1>1 DEF Loose, NoCall
<1> QED BY <1>1, <1>2, <1>3, <1>4

\* A step of a call leaves the loops in order: what it does to the loop of its own node is
\* to stop it, or to arm its timer when it ends.
LEMMA MovedLoops ==
  ASSUME Safe, NEW n \in Nodes, NEW k \in Slots, call[n][k].at # "none",
         NEW d, SetCall(n, k, d), UNCHANGED leadVars,
         d # NoCall => timer' = timer,
         \A m \in Nodes : m # n => timer'[m] = timer[m] /\ running'[m] = running[m],
         running'[n] = running[n] \/ (running'[n] = FALSE /\ timer'[n] = "none" /\ d = NoCall),
         d.safe => call[n][k].safe
  PROVE  LoopsFit'
<1>0. LoopsFit
  BY DEF Safe, Parts
<1>1. \A m \in Nodes : StillLeader(m)' <=> StillLeader(m)
  BY SameLead
<1>2. deposed' = deposed /\ token' = token
  BY SameLead
<1>3. \A m \in Nodes : m # n => (Stale(m)' <=> Stale(m))
  BY <1>1, <1>2, Moved DEF Stale, Retired
<1>4. Stale(n)' => Stale(n)
  BY <1>1, InFlight DEF Stale, Retired
<1>5. ASSUME NEW m \in Nodes, m # n
      PROVE  /\ AtMostOne({j \in Slots : call[m][j] # NoCall})'
             /\ StillLeader(m)' /\ ~ running'[m] => Loose(m)' /\ timer'[m] = "none"
             /\ running'[m] /\ timer'[m] # "none" => Loose(m)'
             /\ Stale(m)' => deposed' = 1
             /\ deposed' = 0 /\ (StillLeader(m)' => ~ Loose(m)') => timer'[m] = "none"
  <2>1. call'[m] = call[m] /\ (Loose(m)' <=> Loose(m))
    BY <1>5, Moved
  <2>2. AtMostOne({j \in Slots : call[m][j] # NoCall})'
    BY <1>0, <2>1 DEF LoopsFit, AtMostOne, NoCall
  <2> QED BY <1>0, <1>1, <1>2, <1>3, <1>5, <2>1, <2>2 DEF LoopsFit
<1>6. AtMostOne({j \in Slots : call[n][j] # NoCall})'
  BY Moved DEF AtMostOne, NoCall
<1>7. StillLeader(n)' /\ ~ running'[n] => Loose(n)' /\ timer'[n] = "none"
  BY <1>1, InFlight, Moved
<1>8. Stale(n)' => deposed' = 1
  BY <1>0, <1>2, <1>4 DEF LoopsFit
<1>9. deposed' = 0 /\ (StillLeader(n)' => ~ Loose(n)') => timer'[n] = "none"
  <2> SUFFICES ASSUME deposed' = 0, StillLeader(n)' => ~ Loose(n)' PROVE timer'[n] = "none"
    OBVIOUS
  <2>1. StillLeader(n) /\ deposed = 0
    BY <1>2, InFlight
  <2>2. d # NoCall /\ timer[n] = "none"
    BY <1>1, <2>1, InFlight, Moved
  <2> QED BY <2>2
<1>10. AtMostOne({m \in Nodes : Stale(m)})'
  BY <1>0, <1>3, <1>4 DEF LoopsFit, AtMostOne
<1>11. running'[n] /\ timer'[n] # "none" => Loose(n)'
  <2>1. ~ (running[n] /\ timer[n] # "none")
    BY <1>0, InFlight DEF LoopsFit
  <2>2. Loose(n)' <=> d = NoCall
    BY Moved
  <2> QED BY <2>1, <2>2
<1> QED BY <1>5, <1>6, <1>7, <1>8, <1>9, <1>10, <1>11 DEF LoopsFit

(* ------------------------------------------------------ phases go forward *)

Forward ==
  /\ DOMAIN round \subseteq DOMAIN round'
  /\ \A i \in DOMAIN round : /\ Rank(Eff(round[i])) <= Rank(Eff(round'[i]))
                             /\ round[i].revealed => round'[i].revealed

\* The phases are ranked.
LEMMA RankNat == ASSUME NEW p \in Phases PROVE Rank(p) \in Nat
  BY PhaseTable

\* The status of a round has a rank.
LEMMA StatusRank ==
  ASSUME TypeOK, NEW i \in DOMAIN round
  PROVE  Rank(Eff(round[i])) \in Nat /\ Eff(round[i]) \in Phases
  BY RowsAre, EffIs, RankNat

\* So it has after a step.
LEMMA StatusRankNext ==
  ASSUME TypeOK', NEW i \in DOMAIN round'
  PROVE  /\ Rank(Eff(round'[i])) \in Nat /\ Eff(round'[i]) \in Phases
         /\ round'[i] \in RoundType /\ i \in 1 .. Len(round') /\ Len(round') \in Nat
<1>1. round'[i] \in RoundType /\ i \in 1 .. Len(round') /\ Len(round') \in Nat
  BY DEF TypeOK
<1> QED BY <1>1, EffIs, RankNat

\* No round is lost.
LEMMA LenGrows ==
  ASSUME TypeOK, TypeOK', Forward
  PROVE  Len(round) <= Len(round') /\ Len(round) \in Nat /\ Len(round') \in Nat
<1>1. /\ Len(round) \in Nat /\ Len(round') \in Nat
      /\ DOMAIN round = 1 .. Len(round) /\ DOMAIN round' = 1 .. Len(round')
  BY DEF TypeOK
<1>2. Len(round) = 0 \/ Len(round) \in DOMAIN round
  BY <1>1
<1> QED BY <1>1, <1>2 DEF Forward

\* What a call knows of its round survives, unless the round moves past its write.
LEMMA FitForward ==
  ASSUME TypeOK, TypeOK', Forward, NEW c \in CallType, Shaped(c), NEW s, Fit(c, s, round),
         c.at = "write" => Behind(c, round')
  PROVE  Fit(c, s, round')
<1>1. c.at \in {"resume", "write", "reveal", "publish"} =>
        /\ c.r \in DOMAIN round /\ c.r \in DOMAIN round'
        /\ Rank(Eff(round[c.r])) <= Rank(Eff(round'[c.r]))
        /\ round[c.r].revealed => round'[c.r].revealed
        /\ Rank(Eff(round[c.r])) \in Nat /\ Rank(Eff(round'[c.r])) \in Nat
  BY StatusRank, StatusRankNext DEF Fit, Forward
<1>2. c.at = "resume" => Rank(c.ph) \in Nat
  BY RankNat DEF Shaped
<1>3. c.at \in {"reveal", "publish"} => Rank(c.fn) \in Nat
  BY RankNat DEF Shaped
<1>4. c.at = "create" => c.fn = "waiting" /\ c.r \in 1 .. Len(round') + 1
  BY LenGrows DEF Fit
<1>5. c.at = "resume" => /\ Rank(c.ph) <= Rank(Eff(round'[c.r]))
                         /\ c.ph = "settling" => round'[c.r].revealed
  BY <1>1, <1>2 DEF Fit
<1>6. c.at \in {"reveal", "publish"} => Rank(c.fn) <= Rank(Eff(round'[c.r]))
  BY <1>1, <1>3 DEF Fit
<1> QED BY <1>1, <1>4, <1>5, <1>6 DEF Fit

\* An empty slot knows nothing.
LEMMA NoCallFits == ASSUME NEW s, NEW rd PROVE Fit(NoCall, s, rd)
  BY DEF Fit, NoCall

\* One call moves, and the others still know what they knew.
LEMMA MovedFits ==
  ASSUME Safe, TypeOK', NEW n \in Nodes, NEW k \in Slots, call[n][k].at # "none",
         NEW d, SetCall(n, k, d), UNCHANGED leadVars, Forward,
         \A m \in Nodes : m # n => st'[m] = st[m],
         Fit(d, st'[n], round'),
         \A m \in Nodes, j \in Slots : m # n /\ call[m][j].at = "write" =>
           Behind(call[m][j], round')
  PROVE  CallsFit'
<1> SUFFICES ASSUME NEW m \in Nodes, NEW j \in Slots PROVE Fit(call'[m][j], st'[m], round')
  BY FitNext
<1>1. CASE m = n
  BY <1>1, Moved, NoCallFits
<1>2. CASE m # n
  <2>1. call'[m][j] = call[m][j] /\ st'[m] = st[m]
    BY <1>2, Moved
  <2>2. call[m][j] \in CallType /\ Shaped(call[m][j]) /\ TypeOK
    BY CallIs DEF Safe, Parts
  <2>3. Fit(call[m][j], st[m], round)
    BY FitNow DEF Safe, Parts
  <2> HIDE DEF Fit
  <2> QED BY <1>2, <2>1, <2>2, <2>3, FitForward
<1> QED BY <1>1, <1>2

\* What was published stays behind the database.
LEMMA CacheForward ==
  ASSUME TypeOK, TypeOK', Forward, NEW p \in States, CacheOK(p, round)
  PROVE  CacheOK(p, round')
<1> SUFFICES ASSUME p # NoState PROVE p.r \in DOMAIN round' /\ Rank(p.phase) <= Rank(Eff(round'[p.r]))
  BY DEF CacheOK
<1>1. p.r \in DOMAIN round /\ Rank(p.phase) <= Rank(Eff(round[p.r])) /\ p.phase \in Phases
  BY DEF CacheOK, States
<1>2. p.r \in DOMAIN round' /\ Rank(Eff(round[p.r])) <= Rank(Eff(round'[p.r]))
  BY <1>1 DEF Forward
<1>3. Rank(p.phase) \in Nat /\ Rank(Eff(round[p.r])) \in Nat /\ Rank(Eff(round'[p.r])) \in Nat
  BY <1>1, <1>2, RankNat, StatusRank, StatusRankNext
<1> QED BY <1>1, <1>2, <1>3

\* What is published is no further than the database.
LEMMA CacheMirrors ==
  ASSUME TypeOK, TypeOK', Forward, CacheOK(public, round), NEW n \in Nodes, NEW s,
         CacheOK(s, round'), public' = public \/ public' = Ingest(Payload(n, s))
  PROVE  CacheOK(public', round')
<1>1. CacheOK(public, round')
  BY CacheForward DEF TypeOK
<1>2. public' = public \/ public' = s
  BY DEF Ingest, Payload
<1> QED BY <1>1, <1>2

\* The table does not change.
LEMMA SameTable ==
  ASSUME Safe, UNCHANGED round
  PROVE  Forward
<1>1. \A i \in DOMAIN round : Rank(Eff(round[i])) \in Nat
  BY StatusRank DEF Safe, Parts
<1> QED BY <1>1 DEF Forward

\* Nothing in the table or the view changes.
LEMMA SameBooks ==
  ASSUME Safe, UNCHANGED <<round, public>>, Watched' => Watched
  PROVE  Books'
<1>1. \A i \in DOMAIN round : RowOK(round[i], Watched')
  BY DEF Safe, Parts, Books, RowOK
<1>2. CacheOK(public, round)
  BY DEF Safe, Parts, Books
<1> QED BY <1>1, <1>2 DEF Books

(* ------------------------------------------- the leader and its predecessor *)

Open(rd) == {i \in DOMAIN rd : Eff(rd[i]) \in OPEN_PHASES}
LiveOf(rd) == {i \in Open(rd) : Eff(rd[i]) # "waiting"}

CallLive(c, s, rd, w) ==
  /\ \/ c.fn = "waiting" /\ c.at \in {"fence", "create"}
     \/ c.fn = "completed" /\ c.at = "publish"
     => LiveOf(rd) = {} /\ (w => Open(rd) = {})
  /\ c.at = "resume" => LiveOf(rd) \subseteq {c.r}
  /\ c.at \in {"honor", "write", "reveal", "publish"} => LiveOf(rd) \subseteq {s.r}
  /\ c.at = "fence" /\ c.fn # "waiting" => LiveOf(rd) \subseteq {s.r}

TimerLive(t, s, rd, w) ==
  /\ t = "waiting" => LiveOf(rd) = {} /\ (w => Open(rd) = {})
  /\ t \notin {"none", "waiting"} => LiveOf(rd) \subseteq {s.r}

Ahead(c, rd) == NextPhase(Eff(rd[c.r])) = c.fn

TimerMeets(c, t, s, b, rd) ==
  t # "none" => s = [r |-> c.r, phase |-> Eff(rd[c.r])] /\ (b => Pace(c.fn, t))

CallMeets(c, d, s, rd) ==
  /\ d.at = "read" => Ahead(c, rd)
  /\ d.at = "resume" => Ahead(c, rd) /\ d.r = c.r /\ d.ph = Eff(rd[c.r])
  /\ d.at \in {"honor", "fence", "write"} =>
       Pace(c.fn, d.fn) /\ s.r = c.r /\ NextPhase(Eff(rd[c.r])) = d.fn
  /\ d.at \in {"reveal", "publish"} => Pace(c.fn, d.fn) /\ s.r = c.r /\ Eff(rd[c.r]) = d.fn
  /\ d.at # "create"

StaleRow(c, rd) ==
  Open(rd) \subseteq {c.r} /\ (Ahead(c, rd) \/ Pace(c.fn, Eff(rd[c.r])))

\* The open rounds, now.
LEMMA OpenIs == OpenRounds = Open(round) /\ Live = LiveOf(round)
<1>1. \A i \in DOMAIN round : round[i].status \in OPEN_PHASES <=> Eff(round[i]) \in OPEN_PHASES
  BY PhaseTable DEF Eff, Again, OPEN_PHASES
<1>2. OpenRounds = Open(round)
  BY <1>1 DEF OpenRounds, Open
<1> QED BY <1>2, EffNow DEF Live, LiveOf

\* The open rounds, after a step.
LEMMA OpenIsNext == OpenRounds' = Open(round') /\ Live' = LiveOf(round')
<1>1. \A i \in DOMAIN round' : round'[i].status \in OPEN_PHASES <=> Eff(round'[i]) \in OPEN_PHASES
  BY PhaseTable DEF Eff, Again, OPEN_PHASES
<1>2. OpenRounds' = Open(round')
  BY <1>1 DEF OpenRounds, Open
<1> QED BY <1>2, EffNext DEF Live, LiveOf

\* Which round takes bets, now.
LEMMA LiveNow ==
  LiveFits <=>
    /\ AtMostOne(LiveOf(round)) /\ (Watched => AtMostOne(Open(round)))
    /\ \A n \in Nodes : StillLeader(n) =>
         /\ Loose(n) => TimerLive(timer[n], st[n], round, Watched)
         /\ \A k \in Slots : CallLive(call[n][k], st[n], round, Watched)
  BY OpenIs DEF LiveFits, Between, TimerLive, CallLive

\* Which round takes bets, after a step.
LEMMA LiveNext ==
  LiveFits' <=>
    /\ AtMostOne(LiveOf(round')) /\ (Watched' => AtMostOne(Open(round')))
    /\ \A n \in Nodes : StillLeader(n)' =>
         /\ Loose(n)' => TimerLive(timer'[n], st'[n], round', Watched')
         /\ \A k \in Slots : CallLive(call'[n][k], st'[n], round', Watched')
  BY OpenIsNext DEF LiveFits, Between, TimerLive, CallLive, AtMostOne

\* What a deposed leader's write meets, now.
LEMMA StaleNow ==
  StaleWritesFit <=>
    \A m \in Nodes, j \in Slots : ~ StillLeader(m) /\ call[m][j].at = "write" =>
      /\ StaleRow(call[m][j], round) /\ (Unclaimed => Ahead(call[m][j], round))
      /\ \A n \in Nodes : StillLeader(n) =>
           /\ Loose(n) => TimerMeets(call[m][j], timer[n], st[n], soon[n], round)
           /\ \A k \in Slots : CallMeets(call[m][j], call[n][k], st[n], round)
  BY OpenIs, EffNow DEF StaleWritesFit, StaleRow, Ahead, TimerMeets, CallMeets

\* What a deposed leader's write meets, after a step.
LEMMA StaleNext ==
  StaleWritesFit' <=>
    \A m \in Nodes, j \in Slots : ~ StillLeader(m)' /\ call'[m][j].at = "write" =>
      /\ StaleRow(call'[m][j], round') /\ (Unclaimed' => Ahead(call'[m][j], round'))
      /\ \A n \in Nodes : StillLeader(n)' =>
           /\ Loose(n)' => TimerMeets(call'[m][j], timer'[n], st'[n], soon'[n], round')
           /\ \A k \in Slots : CallMeets(call'[m][j], call'[n][k], st'[n], round')
  BY OpenIsNext, EffNext DEF StaleWritesFit, StaleRow, Ahead, TimerMeets, CallMeets

\* The phases stay as they are: a seed may be revealed, a round settled or created.
SamePhases ==
  /\ DOMAIN round \subseteq DOMAIN round'
  /\ \A i \in DOMAIN round : /\ Eff(round'[i]) = Eff(round[i]) /\ (Again(round'[i]) <=> Again(round[i]))
                             /\ round[i].revealed => round'[i].revealed

\* Phases that stay have not gone back.
LEMMA SameForward ==
  ASSUME TypeOK, SamePhases
  PROVE  Forward
<1>1. \A i \in DOMAIN round : Rank(Eff(round[i])) \in Nat
  BY StatusRank
<1> QED BY <1>1 DEF Forward, SamePhases

\* The open rounds stay.
LEMMA SameOpen ==
  ASSUME SamePhases, DOMAIN round' = DOMAIN round
  PROVE  Open(round') = Open(round) /\ LiveOf(round') = LiveOf(round)
  BY DEF Open, LiveOf, SamePhases

\* What was seen of a round is still to be seen.
LEMMA SeenStays ==
  ASSUME SamePhases, NEW r, NEW p, NEW w, SeenAt(r, p, round, w)
  PROVE  SeenAt(r, p, round', w) /\ (round[r].revealed => round'[r].revealed)
  BY DEF SeenAt, SamePhases

\* What was due is still due.
LEMMA DueStays ==
  ASSUME SamePhases, NEW s, NEW fn, NEW w, DueAt(s, fn, round, w)
  PROVE  DueAt(s, fn, round', w)
  BY SeenStays DEF DueAt

\* What a call saw is still to be seen.
LEMMA CallSeenStays ==
  ASSUME SamePhases, NEW c, NEW s, NEW w, CallSeen(c, s, round, w)
  PROVE  CallSeen(c, s, round', w)
  BY SeenStays, DueStays DEF CallSeen

\* A view is no worse where the rounds are watched no more.
LEMMA ViewsWeaken ==
  ASSUME NEW v, NEW w, v => w, NEW rd
  PROVE  /\ \A s, fn : DueAt(s, fn, rd, w) => DueAt(s, fn, rd, v)
         /\ \A c, s : CallSeen(c, s, rd, w) => CallSeen(c, s, rd, v)
         /\ \A t, s : TimerLive(t, s, rd, w) => TimerLive(t, s, rd, v)
         /\ \A c, s : CallLive(c, s, rd, w) => CallLive(c, s, rd, v)
         /\ \A row : RowOK(row, w) => RowOK(row, v)
<1>1. \A r, p : SeenAt(r, p, rd, w) => SeenAt(r, p, rd, v)
  BY DEF SeenAt
<1>2. \A s, fn : DueAt(s, fn, rd, w) => DueAt(s, fn, rd, v)
  BY <1>1 DEF DueAt
<1>3. \A c, s : CallSeen(c, s, rd, w) => CallSeen(c, s, rd, v)
  BY <1>1, <1>2 DEF CallSeen
<1> QED BY <1>2, <1>3 DEF TimerLive, CallLive, RowOK

\* A call of node n moves to d, and nothing of another node changes.
Moves(n, k, d) ==
  /\ call[n][k].at # "none" /\ SetCall(n, k, d) /\ UNCHANGED <<leadVars, mode>>
  /\ \A m \in Nodes : m # n => /\ timer'[m] = timer[m] /\ soon'[m] = soon[m]
                               /\ running'[m] = running[m] /\ st'[m] = st[m]

\* Nobody starts to watch the rounds without a new reader.
LEMMA WatchedMoves ==
  ASSUME Safe, NEW n \in Nodes, NEW k \in Slots, NEW d, Moves(n, k, d),
         \/ StillLeader(n)
         \/ d.at \in {"read", "resume", "write"} => call[n][k].at \in {"read", "resume", "write"}
  PROVE  Watched' => Watched
<1> SUFFICES ASSUME Watched' PROVE Watched
  OBVIOUS
<1>0. UNCHANGED leadVars /\ SetCall(n, k, d) /\ call[n][k].at # "none"
  BY DEF Moves
<1>1. (\A m \in Nodes : StillLeader(m)' <=> StillLeader(m)) /\ deposed' = deposed
  BY <1>0, SameLead
<1>2. CASE deposed' = 0
  BY <1>1, <1>2 DEF Watched
<1>3. CASE \E m \in Nodes, j \in Slots : ~ StillLeader(m)' /\ call'[m][j].at \in {"read", "resume", "write"}
  <2>1. PICK m \in Nodes, j \in Slots : ~ StillLeader(m) /\ call'[m][j].at \in {"read", "resume", "write"}
    BY <1>1, <1>3
  <2>2. CASE m # n
    BY <1>0, <2>1, <2>2, Moved DEF Watched
  <2>3. CASE m = n
    <3>1. j = k /\ d.at \in {"read", "resume", "write"}
      BY <1>0, <2>1, <2>3, Moved DEF NoCall
    <3> QED BY <2>1, <2>3, <3>1 DEF Watched
  <2> QED BY <2>2, <2>3
<1> QED BY <1>2, <1>3 DEF Watched

\* What a deposed leader does without changing a phase disturbs nobody.
LEMMA StaleQuiet ==
  ASSUME Safe, NEW n \in Nodes, NEW k \in Slots, NEW d, Moves(n, k, d), ~ StillLeader(n),
         SamePhases, DOMAIN round' = DOMAIN round, d.at # "write",
         d.at \in {"read", "resume"} => call[n][k].at \in {"read", "resume", "write"}
  PROVE  ViewsFit' /\ (mode' = "steady" => LiveFits' /\ StaleWritesFit')
<1>0. UNCHANGED leadVars /\ SetCall(n, k, d) /\ call[n][k].at # "none" /\ mode' = mode
  BY DEF Moves
<1>1. (\A m \in Nodes : StillLeader(m)' <=> StillLeader(m)) /\ deposed' = deposed
  BY <1>0, SameLead
<1>2. ASSUME NEW m \in Nodes, StillLeader(m)'
      PROVE  /\ m # n /\ StillLeader(m) /\ call'[m] = call[m] /\ (Loose(m)' <=> Loose(m))
             /\ timer'[m] = timer[m] /\ st'[m] = st[m]
  BY <1>0, <1>1, <1>2, Moved DEF Moves
<1>3. ViewsFit'
  <2> SUFFICES ASSUME NEW m \in Nodes, StillLeader(m)'
               PROVE  /\ Loose(m)' /\ timer'[m] # "none" => DueAt(st'[m], timer'[m], round', Watched')
                      /\ \A j \in Slots : CallSeen(call'[m][j], st'[m], round', Watched')
    BY ViewNext
  <2>1. /\ Loose(m) /\ timer[m] # "none" => DueAt(st[m], timer[m], round, Watched)
        /\ \A j \in Slots : CallSeen(call[m][j], st[m], round, Watched)
    BY <1>2, ViewNow DEF Safe, Parts
  <2>2. Watched' => Watched
    BY <1>0, WatchedMoves
  <2>3. /\ Loose(m) /\ timer[m] # "none" => DueAt(st[m], timer[m], round, Watched')
        /\ \A j \in Slots : CallSeen(call[m][j], st[m], round, Watched')
    BY <2>1, <2>2, ViewsWeaken
  <2> QED BY <1>1, <1>2, <2>3, DueStays, CallSeenStays
<1>4. ASSUME mode = "steady" PROVE LiveFits'
  <2>1. Watched' => Watched
    BY <1>0, WatchedMoves
  <2>2. Open(round') = Open(round) /\ LiveOf(round') = LiveOf(round)
    BY SameOpen
  <2>3. LiveFits
    BY <1>4 DEF Safe, Parts
  <2>4. AtMostOne(LiveOf(round')) /\ (Watched' => AtMostOne(Open(round')))
    BY <2>1, <2>2, <2>3, LiveNow
  <2>5. ASSUME NEW m \in Nodes, StillLeader(m)'
        PROVE  /\ Loose(m)' => TimerLive(timer'[m], st'[m], round', Watched')
               /\ \A j \in Slots : CallLive(call'[m][j], st'[m], round', Watched')
    <3>1. /\ Loose(m) => TimerLive(timer[m], st[m], round, Watched)
          /\ \A j \in Slots : CallLive(call[m][j], st[m], round, Watched)
      BY <1>2, <2>3, <2>5, LiveNow
    <3> QED BY <1>2, <2>1, <2>2, <2>5, <3>1 DEF TimerLive, CallLive
  <2> QED BY <2>4, <2>5, LiveNext
<1>5. ASSUME mode = "steady" PROVE StaleWritesFit'
  <2> SUFFICES ASSUME NEW m \in Nodes, NEW j \in Slots, ~ StillLeader(m)', call'[m][j].at = "write"
               PROVE  FALSE
    BY StaleNext
  <2>1. CASE m = n
    BY <1>0, <2>1, Moved DEF NoCall
  <2>2. CASE m # n
    <3>1. ~ StillLeader(m) /\ call[m][j].at = "write"
      BY <1>0, <1>1, <2>2, Moved
    <3>2. call[m][j] # NoCall
      BY <3>1 DEF NoCall
    <3>3. Stale(m)
      BY <3>1, <3>2 DEF Stale, Retired, Loose
    <3> QED BY <1>0, <2>2, <3>3, InFlight
  <2> QED BY <2>1, <2>2
<1> QED BY <1>0, <1>3, <1>4, <1>5

\* A step of the leader: it is enough to look at the leader, and at the write of the
\* leader before it that may be in flight.
LEMMA LeaderMoves ==
  ASSUME Safe, NEW n \in Nodes, NEW k \in Slots, NEW d, Moves(n, k, d), StillLeader(n),
         d = NoCall /\ timer'[n] # "none" => DueAt(st'[n], timer'[n], round', Watched),
         CallSeen(d, st'[n], round', Watched),
         mode = "steady" =>
           /\ AtMostOne(LiveOf(round')) /\ (Watched => AtMostOne(Open(round')))
           /\ d = NoCall => TimerLive(timer'[n], st'[n], round', Watched)
           /\ CallLive(d, st'[n], round', Watched),
         mode = "steady" =>
           \A m \in Nodes, j \in Slots : m # n /\ call[m][j].at = "write" =>
             /\ StaleRow(call[m][j], round')
             /\ d = NoCall => TimerMeets(call[m][j], timer'[n], st'[n], soon'[n], round')
             /\ CallMeets(call[m][j], d, st'[n], round')
  PROVE  ViewsFit' /\ (mode' = "steady" => LiveFits' /\ StaleWritesFit')
<1>0. UNCHANGED leadVars /\ SetCall(n, k, d) /\ call[n][k].at # "none" /\ mode' = mode
  BY DEF Moves
<1>1. (\A m \in Nodes : StillLeader(m)' <=> StillLeader(m)) /\ deposed' = deposed
  BY <1>0, SameLead
<1>2. \A m \in Nodes : StillLeader(m)' => m = n
  BY <1>0, <1>1, InFlight
<1>a. Watched' => Watched
  BY WatchedMoves
<1>b. ~ Unclaimed'
  BY <1>0, SameLead, LeaderClaimed DEF Safe, Parts
<1>3. \A s, rd, w : CallSeen(NoCall, s, rd, w)
  BY DEF CallSeen, NoCall
<1>4. \A s, rd, w : CallLive(NoCall, s, rd, w)
  BY DEF CallLive, NoCall
<1>5. \A c, s, rd : CallMeets(c, NoCall, s, rd)
  BY DEF CallMeets, NoCall
<1>6. ViewsFit'
  <2>1. Loose(n)' <=> d = NoCall
    BY <1>0, Moved
  <2>2. \A j \in Slots : call'[n][j] = NoCall \/ call'[n][j] = d
    BY <1>0, Moved
  <2>3. /\ d = NoCall /\ timer'[n] # "none" => DueAt(st'[n], timer'[n], round', Watched')
        /\ CallSeen(d, st'[n], round', Watched')
    BY <1>a, ViewsWeaken
  <2> QED BY <1>1, <1>2, <1>3, <2>1, <2>2, <2>3, ViewNext
<1>7. ASSUME mode = "steady" PROVE LiveFits'
  <2>1. Watched' => Watched
    BY WatchedMoves
  <2>2. Loose(n)' <=> d = NoCall
    BY <1>0, Moved
  <2>3. \A j \in Slots : call'[n][j] = NoCall \/ call'[n][j] = d
    BY <1>0, Moved
  <2>4. d = NoCall => TimerLive(timer'[n], st'[n], round', Watched')
    BY <1>7, <2>1 DEF TimerLive
  <2>5. CallLive(d, st'[n], round', Watched')
    BY <1>7, <2>1 DEF CallLive
  <2> QED BY <1>2, <1>4, <1>7, <2>1, <2>2, <2>3, <2>4, <2>5, LiveNext
<1>8. ASSUME mode = "steady" PROVE StaleWritesFit'
  <2> SUFFICES ASSUME NEW m \in Nodes, NEW j \in Slots, ~ StillLeader(m)', call'[m][j].at = "write"
               PROVE  /\ StaleRow(call'[m][j], round')
                      /\ Loose(n)' => TimerMeets(call'[m][j], timer'[n], st'[n], soon'[n], round')
                      /\ \A i \in Slots : CallMeets(call'[m][j], call'[n][i], st'[n], round')
    BY <1>2, <1>b, StaleNext
  <2>1. m # n /\ call'[m][j] = call[m][j]
    BY <1>0, <1>1, Moved
  <2>2. Loose(n)' <=> d = NoCall
    BY <1>0, Moved
  <2>3. \A i \in Slots : call'[n][i] = NoCall \/ call'[n][i] = d
    BY <1>0, Moved
  <2>4. /\ StaleRow(call[m][j], round')
        /\ d = NoCall => TimerMeets(call[m][j], timer'[n], st'[n], soon'[n], round')
        /\ CallMeets(call[m][j], d, st'[n], round')
    BY <1>8, <2>1
  <2> QED BY <1>5, <2>1, <2>2, <2>3, <2>4
<1> QED BY <1>0, <1>6, <1>7, <1>8

\* What the leader's call in flight knows.
LEMMA LeaderKnows ==
  ASSUME Safe, NEW n \in Nodes, NEW k \in Slots, call[n][k].at # "none", StillLeader(n)
  PROVE  /\ CallSeen(call[n][k], st[n], round, Watched)
         /\ mode = "steady" =>
              /\ AtMostOne(LiveOf(round)) /\ (Watched => AtMostOne(Open(round)))
              /\ CallLive(call[n][k], st[n], round, Watched)
              /\ \A m \in Nodes, j \in Slots : m # n /\ call[m][j].at = "write" =>
                   /\ StaleRow(call[m][j], round) /\ CallMeets(call[m][j], call[n][k], st[n], round)
                   /\ Watched /\ call[m][j].r \in DOMAIN round /\ call[m][j].fn \in Phases \ {"waiting"}
                   /\ Eff(round[call[m][j].r]) \in Phases
<1>1. CallSeen(call[n][k], st[n], round, Watched)
  BY ViewNow DEF Safe, Parts
<1>2. ASSUME mode = "steady"
      PROVE  /\ AtMostOne(LiveOf(round)) /\ (Watched => AtMostOne(Open(round)))
             /\ CallLive(call[n][k], st[n], round, Watched)
  BY <1>2, LiveNow DEF Safe, Parts
<1>3. ASSUME mode = "steady", NEW m \in Nodes, NEW j \in Slots, m # n, call[m][j].at = "write"
      PROVE  /\ StaleRow(call[m][j], round) /\ CallMeets(call[m][j], call[n][k], st[n], round)
             /\ Watched /\ call[m][j].r \in DOMAIN round /\ call[m][j].fn \in Phases \ {"waiting"}
             /\ Eff(round[call[m][j].r]) \in Phases
  <2>1. ~ StillLeader(m)
    BY <1>3, InFlight
  <2>2. Watched
    BY <1>3, <2>1 DEF Watched
  <2>3. StaleRow(call[m][j], round) /\ CallMeets(call[m][j], call[n][k], st[n], round)
    BY <1>3, <2>1, StaleNow DEF Safe, Parts
  <2>4. call[m][j].r \in DOMAIN round /\ call[m][j].fn # "waiting"
    BY <1>3, FitNow DEF Safe, Parts, Fit
  <2>5. call[m][j].fn \in Phases
    BY <1>3, CallIs DEF Safe, Shaped
  <2>6. Eff(round[call[m][j].r]) \in Phases
    BY <2>4, StatusRank DEF Safe
  <2> QED BY <2>2, <2>3, <2>4, <2>5, <2>6
<1> QED BY <1>1, <1>2, <1>3

\* No phase changes under a write in flight.
LEMMA WritesStay ==
  ASSUME Safe, SamePhases, NEW m \in Nodes, NEW j \in Slots, call[m][j].at = "write"
  PROVE  Behind(call[m][j], round')
<1>1. Fit(call[m][j], st[m], round)
  BY FitNow DEF Safe, Parts
<1> QED BY <1>1 DEF Fit, SamePhases, Behind

\* A step of the leader that changes no phase.
LEMMA LeaderQuiet ==
  ASSUME Safe, NEW n \in Nodes, NEW k \in Slots, NEW d, Moves(n, k, d), StillLeader(n),
         SamePhases, DOMAIN round' = DOMAIN round,
         d = NoCall /\ timer'[n] # "none" => DueAt(st'[n], timer'[n], round', Watched),
         CallSeen(d, st'[n], round', Watched),
         mode = "steady" =>
           /\ d = NoCall => TimerLive(timer'[n], st'[n], round, Watched)
           /\ CallLive(d, st'[n], round, Watched),
         mode = "steady" =>
           \A m \in Nodes, j \in Slots : m # n /\ call[m][j].at = "write" =>
             /\ d = NoCall => TimerMeets(call[m][j], timer'[n], st'[n], soon'[n], round)
             /\ CallMeets(call[m][j], d, st'[n], round)
  PROVE  ViewsFit' /\ (mode' = "steady" => LiveFits' /\ StaleWritesFit')
<1>0. call[n][k].at # "none"
  BY DEF Moves
<1>1. Open(round') = Open(round) /\ LiveOf(round') = LiveOf(round)
  BY SameOpen
<1>2. ASSUME mode = "steady"
      PROVE  /\ AtMostOne(LiveOf(round')) /\ (Watched => AtMostOne(Open(round')))
             /\ d = NoCall => TimerLive(timer'[n], st'[n], round', Watched)
             /\ CallLive(d, st'[n], round', Watched)
  <2>1. AtMostOne(LiveOf(round)) /\ (Watched => AtMostOne(Open(round)))
    BY <1>0, <1>2, LeaderKnows
  <2> QED BY <1>1, <1>2, <2>1 DEF TimerLive, CallLive
<1>3. ASSUME mode = "steady", NEW m \in Nodes, NEW j \in Slots, m # n, call[m][j].at = "write"
      PROVE  /\ StaleRow(call[m][j], round')
             /\ d = NoCall => TimerMeets(call[m][j], timer'[n], st'[n], soon'[n], round')
             /\ CallMeets(call[m][j], d, st'[n], round')
  <2>1. StaleRow(call[m][j], round) /\ call[m][j].r \in DOMAIN round
    BY <1>0, <1>3, LeaderKnows
  <2>2. Eff(round'[call[m][j].r]) = Eff(round[call[m][j].r])
    BY <2>1 DEF SamePhases
  <2>3. StaleRow(call[m][j], round')
    BY <1>1, <2>1, <2>2 DEF StaleRow, Ahead
  <2>4. /\ d = NoCall => TimerMeets(call[m][j], timer'[n], st'[n], soon'[n], round)
        /\ CallMeets(call[m][j], d, st'[n], round)
    BY <1>3
  <2> QED BY <2>2, <2>3, <2>4 DEF TimerMeets, CallMeets, Ahead
<1> HIDE DEF Moves
<1> QED BY <1>2, <1>3, LeaderMoves

\* What a call does to the loop of its node: it stops it, or arms its timer as it ends.
LoopMoves(n, k, d) ==
  /\ d # NoCall => timer' = timer
  /\ running'[n] = running[n] \/ (running'[n] = FALSE /\ timer'[n] = "none" /\ d = NoCall)
  /\ d.safe => call[n][k].safe

\* The parts of the invariant after the step of a call.
LEMMA MovedPartsAt ==
  ASSUME Safe, TypeOK', NEW n \in Nodes, NEW k \in Slots, NEW d, Moves(n, k, d), LoopMoves(n, k, d),
         Forward, \A i \in DOMAIN round' : RowOK(round'[i], Watched'), CacheOK(public', round'),
         Fit(d, st'[n], round'),
         \A m \in Nodes, j \in Slots : m # n /\ call[m][j].at = "write" =>
           Behind(call[m][j], round'),
         ViewsFit', mode' = "steady" => LiveFits' /\ StaleWritesFit'
  PROVE  Parts'
<1>1. /\ call[n][k].at # "none" /\ SetCall(n, k, d) /\ UNCHANGED leadVars
      /\ \A m \in Nodes : m # n => timer'[m] = timer[m] /\ running'[m] = running[m] /\ st'[m] = st[m]
  BY DEF Moves
<1>2. LoopsFit'
  BY <1>1, MovedLoops DEF LoopMoves
<1>3. CallsFit'
  <2> HIDE DEF Fit
  <2> QED BY <1>1, MovedFits
<1>4. FencesFit'
  BY <1>1, SameLead DEF Safe, Parts
<1>5. Books'
  BY DEF Books
<1> QED BY <1>2, <1>3, <1>4, <1>5 DEF Parts

\* The same for the steps after which nobody watches the rounds who did not before.
LEMMA MovedParts ==
  ASSUME Safe, TypeOK', NEW n \in Nodes, NEW k \in Slots, NEW d, Moves(n, k, d), LoopMoves(n, k, d),
         \/ StillLeader(n)
         \/ d.at \in {"read", "resume", "write"} => call[n][k].at \in {"read", "resume", "write"},
         Forward, \A i \in DOMAIN round' : RowOK(round'[i], Watched), CacheOK(public', round'),
         Fit(d, st'[n], round'),
         \A m \in Nodes, j \in Slots : m # n /\ call[m][j].at = "write" =>
           Behind(call[m][j], round'),
         ViewsFit', mode' = "steady" => LiveFits' /\ StaleWritesFit'
  PROVE  Parts'
<1>1. Watched' => Watched
  BY WatchedMoves
<1>2. \A i \in DOMAIN round' : RowOK(round'[i], Watched')
  BY <1>1, ViewsWeaken
<1> HIDE DEF Moves, LoopMoves, Fit
<1> QED BY <1>2, MovedPartsAt

\* A write ahead of its round is on an open one.
LEMMA AheadOpen ==
  ASSUME NEW rd, NEW c, c.r \in DOMAIN rd, Eff(rd[c.r]) \in Phases, c.fn # "waiting", Ahead(c, rd)
  PROVE  c.r \in Open(rd)
  BY PhaseTable DEF Ahead, Open, OPEN_PHASES

\* The rows of the table where nothing in it changes.
LEMMA SameRows ==
  ASSUME Safe, UNCHANGED round
  PROVE  /\ SamePhases /\ Forward /\ DOMAIN round' = DOMAIN round
         /\ \A i \in DOMAIN round' : RowOK(round'[i], Watched)
         /\ public' = public => CacheOK(public', round')
  BY SameTable DEF Safe, Parts, Books, SamePhases

\* A call ends and stops the loop: a fence that does not hold, or a seed already used.
LEMMA Stops ==
  ASSUME Safe, TypeOK', NEW n \in Nodes, NEW k \in Slots, call[n][k].at # "none",
         EndCall(n, k), Stop(n), UNCHANGED <<leadVars, mode, round, public, st>>
  PROVE  Parts'
<1>0. /\ running \in [Nodes -> BOOLEAN] /\ timer \in [Nodes -> Phases \cup {"none"}]
      /\ soon \in [Nodes -> BOOLEAN]
  BY DEF Safe, TypeOK
<1>1. /\ running'[n] = FALSE /\ timer'[n] = "none"
      /\ \A m \in Nodes : m # n => timer'[m] = timer[m] /\ soon'[m] = soon[m] /\ running'[m] = running[m]
  BY <1>0 DEF Stop, Schedule
<1>2. Moves(n, k, NoCall)
  BY <1>1 DEF Moves, EndCall
<1>3. LoopMoves(n, k, NoCall) /\ NoCall.at \notin {"read", "resume", "write"}
  BY <1>1 DEF LoopMoves, NoCall
<1>4. /\ SamePhases /\ Forward /\ DOMAIN round' = DOMAIN round
      /\ (\A i \in DOMAIN round' : RowOK(round'[i], Watched)) /\ CacheOK(public', round')
  BY SameRows
<1>5. ViewsFit' /\ (mode' = "steady" => LiveFits' /\ StaleWritesFit')
  <2>1. CASE ~ StillLeader(n)
    <3> QED BY <1>2, <1>3, <1>4, <2>1, StaleQuiet
  <2>2. CASE StillLeader(n)
    <3>1. CallSeen(NoCall, st'[n], round', Watched) /\ CallLive(NoCall, st'[n], round, Watched)
      BY DEF CallSeen, CallLive, NoCall
    <3>2. TimerLive("none", st'[n], round, Watched)
      BY DEF TimerLive
    <3>3. \A c, b : TimerMeets(c, "none", st'[n], b, round) /\ CallMeets(c, NoCall, st'[n], round)
      BY DEF TimerMeets, CallMeets, NoCall
    <3> QED BY <1>1, <1>2, <1>4, <2>2, <3>1, <3>2, <3>3, LeaderQuiet
  <2> QED BY <2>1, <2>2
<1>6. \A m \in Nodes, j \in Slots : call[m][j].at = "write" =>
        Behind(call[m][j], round')
  BY <1>4, WritesStay
<1> QED BY <1>2, <1>3, <1>4, <1>5, <1>6, NoCallFits, MovedParts

\* The fields of a call that moved.
LEMMA CallAt ==
  ASSUME NEW c \in CallType, NEW a, NEW r
  PROVE  /\ [c EXCEPT !.at = a].at = a /\ [c EXCEPT !.at = a].fn = c.fn /\ [c EXCEPT !.at = a].r = c.r
         /\ [c EXCEPT !.at = a].ph = c.ph /\ [c EXCEPT !.at = a].safe = c.safe
         /\ [c EXCEPT !.at = a, !.r = r].at = a /\ [c EXCEPT !.at = a, !.r = r].fn = c.fn
         /\ [c EXCEPT !.at = a, !.r = r].r = r /\ [c EXCEPT !.at = a, !.r = r].ph = c.ph
         /\ [c EXCEPT !.at = a, !.r = r].safe = c.safe
  BY DEF CallType

\* The timers and loops stay as they are.
LEMMA SameLoop ==
  ASSUME NEW n \in Nodes, NEW k \in Slots, NEW d, call[n][k].at # "none", SetCall(n, k, d),
         UNCHANGED <<leadVars, mode, running, timer, soon>>, \A m \in Nodes : m # n => st'[m] = st[m],
         d.safe => call[n][k].safe
  PROVE  Moves(n, k, d) /\ LoopMoves(n, k, d)
  BY DEF Moves, LoopMoves

\* The due auto cash-outs are paid, and the crash is next.
LEMMA HonorSafe ==
  ASSUME Safe, TypeOK', NEW n \in Nodes, NEW k \in Slots, Honor(n, k)
  PROVE  Parts'
<1> DEFINE c == call[n][k]
           d == [c EXCEPT !.at = "fence"]
<1>0. c.at = "honor" /\ c \in CallType
  BY CallIs DEF Honor, Safe
<1>a. UNCHANGED <<leadVars, mode, round, public, st>>
  BY DEF Honor, Keep
<1>1. CASE ~ StillLeader(n)
  <2>1. EndCall(n, k) /\ Stop(n) /\ c.at # "none"
    BY <1>0, <1>1 DEF Honor
  <2> QED BY <1>a, <2>1, Stops
<1>2. CASE StillLeader(n)
  <2>0. /\ SamePhases /\ Forward /\ DOMAIN round' = DOMAIN round
        /\ (\A i \in DOMAIN round' : RowOK(round'[i], Watched)) /\ CacheOK(public', round')
    BY <1>a, SameRows
  <2>1. SetCall(n, k, d) /\ UNCHANGED <<running, timer, soon>>
    BY <1>2 DEF Honor
  <2>2. d.at = "fence" /\ d.fn = c.fn /\ d.safe = c.safe
    BY <1>0, CallAt
  <2> HIDE DEF d
  <2>3. Moves(n, k, d) /\ LoopMoves(n, k, d) /\ d # NoCall
    <3>1. d # NoCall
      BY <2>2 DEF NoCall
    <3> QED BY <1>0, <1>2, <1>a, <2>1, <2>2, <3>1, SameLoop
  <2>4. c.fn = "crashed"
    BY <1>0, FitNow DEF Safe, Parts, Fit
  <2>5. Fit(d, st'[n], round')
    BY <2>2, <2>4 DEF Fit
  <2>6. CallSeen(c, st[n], round, Watched)
    BY <1>0, <1>2, LeaderKnows
  <2>7. CallSeen(d, st'[n], round', Watched)
    BY <1>0, <1>a, <2>2, <2>6 DEF CallSeen
  <2>8. mode = "steady" => CallLive(d, st'[n], round, Watched)
    <3>1. mode = "steady" => CallLive(c, st[n], round, Watched)
      BY <1>0, <1>2, LeaderKnows
    <3> QED BY <1>0, <1>a, <2>2, <2>4, <3>1 DEF CallLive
  <2>9. ASSUME mode = "steady", NEW m \in Nodes, NEW j \in Slots, m # n, call[m][j].at = "write"
        PROVE  CallMeets(call[m][j], d, st'[n], round)
    <3>1. CallMeets(call[m][j], c, st[n], round)
      BY <1>0, <1>2, <2>9, LeaderKnows
    <3> QED BY <1>0, <1>a, <2>2, <3>1 DEF CallMeets
  <2>10. ViewsFit' /\ (mode' = "steady" => LiveFits' /\ StaleWritesFit')
    BY <1>2, <2>0, <2>3, <2>7, <2>8, <2>9, LeaderQuiet
  <2> QED BY <1>2, <2>0, <2>3, <2>5, <2>10, WritesStay, MovedParts
<1> QED BY <1>1, <1>2

\* The phase before.
LEMMA PhaseBefore ==
  ASSUME NEW p \in Phases, NEW fn, fn # "waiting", NextPhase(p) = fn
  PROVE  /\ fn \in Phases /\ p # "completed" /\ Rank(fn) = Rank(p) + 1
         /\ Rank(p) \in Nat /\ Rank(p) <= Rank(fn) /\ Rank(fn) <= Rank(fn)
  BY PhaseTable

\* The leader passes its fence on its way to a new round or to the next phase.
LEMMA FencePassesSafe ==
  ASSUME Safe, TypeOK', NEW n \in Nodes, NEW k \in Slots, FencePasses(n, k)
  PROVE  Parts'
<1> DEFINE c == call[n][k]
<1>0. c.at = "fence" /\ c \in CallType /\ StillLeader(n) /\ Shaped(c)
  BY CallIs DEF FencePasses, Safe
<1>a. UNCHANGED <<leadVars, mode, round, public, running, timer, soon>>
  BY DEF FencePasses, Keep
<1>b. /\ SamePhases /\ Forward /\ DOMAIN round' = DOMAIN round
      /\ (\A i \in DOMAIN round' : RowOK(round'[i], Watched)) /\ CacheOK(public', round')
  BY <1>a, SameRows
<1>c. CallSeen(c, st[n], round, Watched)
  BY <1>0, LeaderKnows
<1>d. mode = "steady" => CallLive(c, st[n], round, Watched)
  BY <1>0, LeaderKnows
<1>e. ASSUME mode = "steady", NEW m \in Nodes, NEW j \in Slots, m # n, call[m][j].at = "write"
      PROVE  /\ CallMeets(call[m][j], c, st[n], round) /\ c.fn # "waiting"
  <2>1. CallMeets(call[m][j], c, st[n], round) /\ call[m][j].fn # "waiting"
    BY <1>0, <1>e, LeaderKnows
  <2> QED BY <1>0, <2>1 DEF CallMeets, Pace
<1>1. CASE c.fn = "waiting"
  <2> DEFINE d == [c EXCEPT !.at = "create", !.r = Len(round) + 1]
  <2>1. SetCall(n, k, d) /\ UNCHANGED st
    BY <1>1 DEF FencePasses
  <2>2. d.at = "create" /\ d.fn = c.fn /\ d.safe = c.safe /\ d.r = Len(round) + 1
    BY <1>0, CallAt
  <2> HIDE DEF d
  <2>3. Moves(n, k, d) /\ LoopMoves(n, k, d) /\ d # NoCall
    <3>1. d # NoCall
      BY <2>2 DEF NoCall
    <3> QED BY <1>0, <1>a, <2>1, <2>2, <3>1, SameLoop
  <2>5. Fit(d, st'[n], round')
    <3>1. Len(round) \in Nat
      BY DEF Safe, TypeOK
    <3> QED BY <1>1, <1>a, <2>2, <3>1 DEF Fit
  <2>7. CallSeen(d, st'[n], round', Watched)
    BY <2>2 DEF CallSeen
  <2>8. mode = "steady" => CallLive(d, st'[n], round, Watched)
    BY <1>0, <1>1, <1>d, <2>2 DEF CallLive
  <2>9. mode = "steady" => \A m \in Nodes, j \in Slots : ~ (m # n /\ call[m][j].at = "write")
    BY <1>1, <1>e
  <2>10. ViewsFit' /\ (mode' = "steady" => LiveFits' /\ StaleWritesFit')
    BY <1>0, <1>b, <2>3, <2>7, <2>8, <2>9, LeaderQuiet
  <2> QED BY <1>0, <1>b, <2>3, <2>5, <2>10, WritesStay, MovedParts
<1>2. CASE c.fn # "waiting"
  <2>0. /\ NextPhase(st[n].phase) = c.fn /\ SeenAt(st[n].r, st[n].phase, round, Watched)
        /\ c.fn = "settling" => round[st[n].r].revealed
    BY <1>0, <1>2, <1>c DEF CallSeen, DueAt
  <2>1. st[n] # NoState
    <3>1. st[n].r \in 1 .. Len(round)
      BY <2>0 DEF SeenAt, Safe, TypeOK
    <3> QED BY <3>1 DEF NoState
  <2>2. st[n] \in [r : 1 .. MaxRounds, phase : Phases]
    BY <2>1 DEF Safe, TypeOK, States
  <2> DEFINE d == [c EXCEPT !.at = "write", !.r = st[n].r]
  <2>3. SetCall(n, k, d) /\ st' = [st EXCEPT ![n].phase = c.fn]
    BY <1>2, <2>1 DEF FencePasses
  <2>4. d.at = "write" /\ d.fn = c.fn /\ d.safe = c.safe /\ d.r = st[n].r
    BY <1>0, CallAt
  <2> HIDE DEF d
  <2>5. st'[n] = [r |-> d.r, phase |-> d.fn] /\ st'[n].r = st[n].r /\ \A m \in Nodes : m # n => st'[m] = st[m]
    BY <2>2, <2>3, <2>4 DEF Safe, TypeOK
  <2>6. Moves(n, k, d) /\ LoopMoves(n, k, d) /\ d # NoCall
    <3>1. d # NoCall
      BY <2>4 DEF NoCall
    <3> QED BY <1>0, <1>a, <2>3, <2>4, <2>5, <3>1, SameLoop
  <2>7. Fit(d, st'[n], round')
    <3>2. /\ st[n].r \in DOMAIN round
          /\ Eff(round[st[n].r]) = st[n].phase \/ Eff(round[st[n].r]) = c.fn
      BY <2>0 DEF SeenAt
    <3>3. Rank(Eff(round[st[n].r])) <= Rank(c.fn)
      BY <1>2, <2>0, <2>2, <3>2, PhaseBefore
    <3> QED BY <1>2, <1>a, <2>0, <2>4, <2>5, <3>2, <3>3 DEF Fit, Behind
  <2>8. CallSeen(d, st'[n], round', Watched)
    <3>1. st[n].phase \in Phases
      BY <2>2
    <3> QED BY <1>a, <2>0, <2>4, <3>1 DEF CallSeen
  <2>9. mode = "steady" => CallLive(d, st'[n], round, Watched)
    BY <1>0, <1>2, <1>d, <2>4, <2>5 DEF CallLive
  <2>10. ASSUME mode = "steady", NEW m \in Nodes, NEW j \in Slots, m # n, call[m][j].at = "write"
         PROVE  CallMeets(call[m][j], d, st'[n], round)
    BY <1>0, <1>e, <2>4, <2>5, <2>10 DEF CallMeets
  <2>11. ViewsFit' /\ (mode' = "steady" => LiveFits' /\ StaleWritesFit')
    BY <1>0, <1>b, <2>6, <2>8, <2>9, <2>10, LeaderQuiet
  <2> QED BY <1>0, <1>b, <2>6, <2>7, <2>11, WritesStay, MovedParts
<1> QED BY <1>1, <1>2

\* No seed yet, or a database call that fails: the call ends and leaves a fresh round, or
\* nothing, to the timer.
LEMMA GivesUp ==
  ASSUME Safe, TypeOK', NEW n \in Nodes, NEW k \in Slots, NoSeed(n, k) \/ Throws(n, k)
  PROVE  Parts'
<1> DEFINE c == call[n][k]
<1>0. c.at # "none" /\ c \in CallType
  BY CallIs DEF NoSeed, Throws, Safe
<1>a. EndCall(n, k) /\ UNCHANGED <<leadVars, mode, round, public, running, st>>
  BY DEF NoSeed, Throws, Keep
<1>b. /\ SamePhases /\ Forward /\ DOMAIN round' = DOMAIN round
      /\ (\A i \in DOMAIN round' : RowOK(round'[i], Watched)) /\ CacheOK(public', round')
  BY <1>a, SameRows
<1>c. UNCHANGED <<timer, soon>> \/ Schedule(n, "waiting", FALSE)
  BY DEF NoSeed, Throws
<1>d. \A m \in Nodes : m # n => timer'[m] = timer[m] /\ soon'[m] = soon[m]
  BY <1>c DEF Safe, TypeOK, Schedule
<1>e. /\ Moves(n, k, NoCall) /\ LoopMoves(n, k, NoCall)
      /\ NoCall.at \notin {"read", "resume", "write"}
  BY <1>0, <1>a, <1>d DEF Moves, LoopMoves, EndCall, NoCall
<1>1. ViewsFit' /\ (mode' = "steady" => LiveFits' /\ StaleWritesFit')
  <2>1. CASE ~ StillLeader(n)
    <3> QED BY <1>b, <1>e, <2>1, StaleQuiet
  <2>2. CASE StillLeader(n)
    <3>1. CallSeen(NoCall, st'[n], round', Watched) /\ CallLive(NoCall, st'[n], round, Watched)
      BY DEF CallSeen, CallLive, NoCall
    <3>2. \A e : CallMeets(e, NoCall, st'[n], round)
      BY DEF CallMeets, NoCall
    <3>3. timer'[n] = "waiting" \/ timer'[n] = "none"
      <4>1. CASE Schedule(n, "waiting", FALSE)
        BY <4>1 DEF Safe, TypeOK, Schedule
      <4>2. CASE ~ Schedule(n, "waiting", FALSE)
        <5>1. mode # "steady" /\ timer' = timer
          BY <4>2 DEF NoSeed, Throws
        <5>2. deposed = 0
          BY <5>1 DEF Safe, Tame
        <5> QED BY <1>0, <5>1, <5>2, InFlight
      <4> QED BY <4>1, <4>2
    <3>4. timer'[n] # "none" => DueAt(st'[n], timer'[n], round', Watched)
      BY <3>3 DEF DueAt
    <3>5. mode = "steady" => c.at = "create" /\ c.fn = "waiting"
      <4>1. mode = "steady" => c.at = "create"
        BY DEF NoSeed, Throws
      <4> QED BY <4>1, FitNow DEF Safe, Parts, Fit
    <3>6. mode = "steady" => TimerLive(timer'[n], st'[n], round, Watched)
      <4>1. mode = "steady" => CallLive(c, st[n], round, Watched)
        BY <1>0, <2>2, LeaderKnows
      <4> QED BY <3>3, <3>5, <4>1 DEF TimerLive, CallLive
    <3>7. mode = "steady" => \A m \in Nodes, j \in Slots : ~ (m # n /\ call[m][j].at = "write")
      BY <1>0, <2>2, <3>5, LeaderKnows DEF CallMeets
    <3> QED BY <1>b, <1>e, <2>2, <3>1, <3>2, <3>4, <3>6, <3>7, LeaderQuiet
  <2> QED BY <2>1, <2>2
<1> QED BY <1>1, <1>b, <1>e, NoCallFits, WritesStay, MovedParts

\* The rows forward: each is as it was, or goes on to a state in order.
LEMMA BooksForward ==
  ASSUME Safe, TypeOK', Forward, public' = public
  PROVE  CacheOK(public', round')
  BY CacheForward DEF Safe, Parts, Books, TypeOK

\* A round that is closed as an extra.
LEMMA Closed ==
  ASSUME NEW n, NEW i \in DOMAIN round, RowOK(round[i], Watched)
  PROVE  /\ Eff(CloseExtra(n, i)) = "completed" /\ RowOK(CloseExtra(n, i), Watched)
         /\ round[i].revealed => CloseExtra(n, i).revealed
<1> DEFINE post == round[i].status \in PostOutcome
           x == CloseExtra(n, i)
<1>1. /\ x.status = "completed" /\ x.revealed = (round[i].revealed \/ post)
      /\ x.settled = (round[i].settled \/ (post /\ isLeader(n)))
  BY DEF CloseExtra
<1> HIDE DEF x, post
<1>2. round[i].settled => round[i].revealed
  BY DEF RowOK
<1>3. x.settled => x.revealed
  BY <1>1, <1>2, Zenon
<1>4. round[i].revealed => x.revealed
  BY <1>1, Zenon
<1>5. Eff(x) = "completed" /\ ~ Again(x)
  BY <1>1 DEF Eff, Again
<1>6. RowOK(x, Watched)
  BY <1>3, <1>5 DEF RowOK, Over
<1> QED BY <1>4, <1>5, <1>6 DEF x

\* The open rounds are read; all but the newest are closed.
LEMMA StartReadsSafe ==
  ASSUME Safe, TypeOK', NEW n \in Nodes, NEW k \in Slots, StartReads(n, k)
  PROVE  Parts'
<1> DEFINE c == call[n][k]
<1>0. c.at = "read" /\ c.fn = "start" /\ c \in CallType /\ c.at # "none"
  BY CallIs DEF StartReads, Safe
<1>a. UNCHANGED <<leadVars, mode, public, running, timer, soon, st>>
  BY DEF StartReads, Keep, loopVars
<1>b. OpenRounds = Open(round)
  BY OpenIs
<1>1. CASE OpenRounds = {}
  <2> DEFINE d == [NoCall EXCEPT !.fn = "waiting", !.at = "fence"]
  <2>1. SetCall(n, k, d) /\ UNCHANGED round
    BY <1>1 DEF StartReads
  <2>2. d.at = "fence" /\ d.fn = "waiting" /\ ~ d.safe /\ d # NoCall
    BY DEF NoCall
  <2> HIDE DEF d
  <2>3. Moves(n, k, d) /\ LoopMoves(n, k, d)
    BY <1>0, <1>a, <2>1, <2>2, SameLoop
  <2>4. /\ SamePhases /\ Forward /\ DOMAIN round' = DOMAIN round
        /\ (\A i \in DOMAIN round' : RowOK(round'[i], Watched)) /\ CacheOK(public', round')
    BY <1>a, <2>1, SameRows
  <2>5. Fit(d, st'[n], round')
    BY <2>2 DEF Fit
  <2>6. ViewsFit' /\ (mode' = "steady" => LiveFits' /\ StaleWritesFit')
    <3>1. CASE ~ StillLeader(n)
      BY <2>2, <2>3, <2>4, <3>1, StaleQuiet
    <3>2. CASE StillLeader(n)
      <4>1. CallSeen(d, st'[n], round', Watched)
        BY <2>2 DEF CallSeen, DueAt
      <4>2. CallLive(d, st'[n], round, Watched)
        BY <1>1, <1>b, <2>2 DEF CallLive, LiveOf
      <4>3. mode = "steady" => \A m \in Nodes, j \in Slots : ~ (m # n /\ call[m][j].at = "write")
        BY <1>0, <1>1, <1>b, <3>2, LeaderKnows, AheadOpen DEF CallMeets
      <4> QED BY <2>2, <2>3, <2>4, <3>2, <4>1, <4>2, <4>3, LeaderQuiet
    <3> QED BY <3>1, <3>2
  <2> QED BY <2>2, <2>3, <2>4, <2>5, <2>6, WritesStay, MovedParts
<1>2. CASE OpenRounds # {}
  <2> DEFINE newest == CHOOSE i \in OpenRounds : \A j \in OpenRounds : j <= i
  <2>1. newest \in Open(round) /\ newest \in DOMAIN round
    BY <1>2, <1>b, NewestOpen DEF Open, Safe
  <2> HIDE DEF newest
  <2> DEFINE d == [c EXCEPT !.at = "resume", !.r = newest, !.ph = round[newest].status]
  <2>2. /\ d.at = "resume" /\ d.r = newest /\ d.ph = round[newest].status /\ d.fn = "start"
        /\ d.safe = c.safe
    BY <1>0 DEF CallType
  <2>3. /\ SetCall(n, k, d)
        /\ round' = [i \in DOMAIN round |->
                       IF i \in OpenRounds \ {newest} THEN CloseExtra(n, i) ELSE round[i]]
    BY <1>2 DEF StartReads, newest
  <2> HIDE DEF d
  <2>4. Moves(n, k, d) /\ LoopMoves(n, k, d) /\ d # NoCall
    <3>1. d # NoCall
      BY <2>2 DEF NoCall
    <3> QED BY <1>0, <1>a, <2>2, <2>3, <3>1, SameLoop
  <2>5. DOMAIN round' = DOMAIN round /\ round'[newest] = round[newest]
    BY <2>1, <2>3
  <2>6. ASSUME NEW i \in DOMAIN round
        PROVE  /\ i \notin Open(round) \/ i = newest => round'[i] = round[i]
               /\ i \in Open(round) /\ i # newest => round'[i] = CloseExtra(n, i)
    BY <1>b, <2>3
  <2>7. \A i \in DOMAIN round : RowOK(round[i], Watched)
    BY DEF Safe, Parts, Books
  <2>8. \A i \in DOMAIN round' : RowOK(round'[i], Watched)
    BY <2>5, <2>6, <2>7, Closed DEF Open
  <2>9. Forward
    <3>1. ASSUME NEW i \in DOMAIN round
          PROVE  /\ Rank(Eff(round[i])) <= Rank(Eff(round'[i]))
                 /\ round[i].revealed => round'[i].revealed
      <4>1. Eff(round[i]) \in Phases
        BY StatusRank DEF Safe
      <4>2. Rank(Eff(round[i])) \in Nat /\ Rank(Eff(round[i])) <= Rank("completed")
        BY <4>1, PhaseTable
      <4> QED BY <2>6, <2>7, <4>2, Closed DEF Open
    <3> QED BY <2>5, <3>1 DEF Forward
  <2>10. CacheOK(public', round')
    BY <1>a, <2>9, BooksForward
  <2>11. /\ Eff(round[newest]) # "completed" /\ Eff(round[newest]) \in Phases
         /\ \/ d.ph = Eff(round[newest])
            \/ ~ Watched /\ d.ph = "running" /\ Eff(round[newest]) = "crashed"
    <3>1. Eff(round[newest]) # "completed" /\ Eff(round[newest]) \in Phases
      BY <2>1, StatusRank DEF Open, OPEN_PHASES, Safe
    <3>2. Watched => ~ Again(round[newest])
      BY <2>1, <2>7 DEF RowOK
    <3> QED BY <2>2, <3>1, <3>2, EffIs
  <2>12. Fit(d, st'[n], round')
    <3>1. Rank(d.ph) <= Rank(Eff(round[newest])) /\ d.ph # "completed"
      BY <2>11, PhaseTable
    <3>2. d.ph = "settling" => round[newest].revealed
      BY <2>1, <2>7, <2>11 DEF RowOK
    <3> QED BY <2>1, <2>2, <2>5, <3>1, <3>2 DEF Fit
  <2>13. CASE ~ StillLeader(n)
    <3>1. mode = "steady"
      BY <1>0, <2>13, InFlight
    <3>2. Watched
      BY <1>0, <2>13 DEF Watched
    <3>3. AtMostOne(Open(round))
      BY <3>1, <3>2, LiveNow DEF Safe, Parts
    <3>4. \A i \in DOMAIN round : round'[i] = round[i]
      BY <2>1, <2>6, <3>3 DEF AtMostOne
    <3>5. SamePhases
      BY <2>5, <3>4 DEF SamePhases
    <3>6. ViewsFit' /\ (mode' = "steady" => LiveFits' /\ StaleWritesFit')
      <4>1. d.at # "write" /\ c.at \in {"read", "resume", "write"}
        BY <1>0, <2>2
      <4> QED BY <2>4, <2>5, <2>13, <3>5, <4>1, StaleQuiet
    <3> QED BY <1>0, <2>4, <2>8, <2>9, <2>10, <2>12, <3>5, <3>6, WritesStay, MovedParts
  <2>14. CASE StillLeader(n)
    <3>1. Open(round') = {newest}
      <4>1. \A i \in DOMAIN round : i # newest => i \notin Open(round')
        BY <2>6, <2>7, Closed DEF Open, OPEN_PHASES
      <4>2. newest \in Open(round')
        BY <2>1, <2>5 DEF Open
      <4>3. Open(round') \subseteq DOMAIN round
        BY <2>5 DEF Open
      <4> QED BY <4>1, <4>2, <4>3
    <3>2. ASSUME NEW m \in Nodes, NEW j \in Slots, m # n, call[m][j].at = "write"
          PROVE  /\ mode = "steady" /\ StaleRow(call[m][j], round) /\ call[m][j].r = newest
                 /\ Watched /\ Ahead(call[m][j], round)
      <4>1. mode = "steady"
        BY <1>0, <2>14, <3>2, InFlight
      <4>2. StaleRow(call[m][j], round) /\ Watched /\ CallMeets(call[m][j], c, st[n], round)
        BY <1>0, <2>14, <3>2, <4>1, LeaderKnows
      <4> QED BY <1>0, <2>1, <4>1, <4>2 DEF StaleRow, CallMeets
    <3>3. \A m \in Nodes, j \in Slots : m # n /\ call[m][j].at = "write" =>
            Behind(call[m][j], round')
      BY <2>5, <3>2, FitNow DEF Safe, Parts, Fit, Behind
    <3>4. CallSeen(d, st'[n], round', Watched)
      BY <2>1, <2>2, <2>5, <2>11, PhaseTable DEF CallSeen, SeenAt
    <3>5. AtMostOne(LiveOf(round')) /\ AtMostOne(Open(round')) /\ CallLive(d, st'[n], round', Watched)
      BY <2>2, <3>1 DEF AtMostOne, LiveOf, CallLive
    <3>6. ASSUME NEW m \in Nodes, NEW j \in Slots, m # n, call[m][j].at = "write"
          PROVE  StaleRow(call[m][j], round') /\ CallMeets(call[m][j], d, st'[n], round')
      BY <2>2, <2>5, <2>11, <3>1, <3>2, <3>6 DEF StaleRow, CallMeets, Ahead
    <3>7. ViewsFit' /\ (mode' = "steady" => LiveFits' /\ StaleWritesFit')
      BY <2>4, <2>14, <3>4, <3>5, <3>6, LeaderMoves
    <3> QED BY <2>4, <2>8, <2>9, <2>10, <2>12, <2>14, <3>3, <3>7, MovedParts
  <2> QED BY <2>13, <2>14
<1> QED BY <1>1, <1>2

\* A row of the table is changed in place.
RowMoves(r, row) ==
  /\ r \in DOMAIN round /\ DOMAIN round' = DOMAIN round
  /\ round'[r] = row /\ \A i \in DOMAIN round : i # r => round'[i] = round[i]

\* The writes of the handlers change one row.
LEMMA Edits ==
  ASSUME TypeOK, NEW r \in DOMAIN round, NEW x
  PROVE  /\ round' = [round EXCEPT ![r].status = x] => RowMoves(r, [round[r] EXCEPT !.status = x])
         /\ round' = [round EXCEPT ![r].revealed = TRUE] => RowMoves(r, [round[r] EXCEPT !.revealed = TRUE])
         /\ round' = [round EXCEPT ![r].settled = @ \/ x] => RowMoves(r, [round[r] EXCEPT !.settled = @ \/ x])
         /\ \A y : round' = [round EXCEPT ![r].status = y, ![r].crashed = @ \/ x] =>
              RowMoves(r, [round[r] EXCEPT !.status = y, !.crashed = @ \/ x])
<1>1. round \in Seq(RoundType) /\ round[r] \in RoundType
  BY RowsAre DEF TypeOK
<1> QED BY <1>1 DEF RowMoves, RoundType

\* The fields of that row.
LEMMA RowOf ==
  ASSUME TypeOK, NEW r \in DOMAIN round, NEW x
  PROVE  /\ [round[r] EXCEPT !.status = x].status = x
         /\ [round[r] EXCEPT !.status = x].revealed = round[r].revealed
         /\ [round[r] EXCEPT !.status = x].settled = round[r].settled
         /\ [round[r] EXCEPT !.status = x].crashed = round[r].crashed
         /\ [round[r] EXCEPT !.revealed = TRUE].status = round[r].status
         /\ [round[r] EXCEPT !.revealed = TRUE].revealed = TRUE
         /\ [round[r] EXCEPT !.revealed = TRUE].settled = round[r].settled
         /\ [round[r] EXCEPT !.revealed = TRUE].crashed = round[r].crashed
         /\ [round[r] EXCEPT !.settled = @ \/ x].status = round[r].status
         /\ [round[r] EXCEPT !.settled = @ \/ x].revealed = round[r].revealed
         /\ [round[r] EXCEPT !.settled = @ \/ x].settled = (round[r].settled \/ x)
         /\ [round[r] EXCEPT !.settled = @ \/ x].crashed = round[r].crashed
         /\ \A y : LET row == [round[r] EXCEPT !.status = y, !.crashed = @ \/ x] IN
              /\ row.status = y /\ row.crashed = (round[r].crashed \/ x)
              /\ row.revealed = round[r].revealed /\ row.settled = round[r].settled
  BY RowsAre DEF RoundType

\* How far a row is depends on its status and its crash only.
LEMMA SameEff ==
  ASSUME NEW a, NEW b, a.status = b.status, a.crashed = b.crashed
  PROVE  Eff(a) = Eff(b) /\ (Again(a) <=> Again(b))
  BY DEF Eff, Again

\* A seed is revealed, or the bets are settled, in a phase where that is in order.
LEMMA SeedOrSettle ==
  ASSUME Safe, NEW r \in DOMAIN round, NEW x,
         \/ round' = round
         \/ /\ round' = [round EXCEPT ![r].revealed = TRUE]
            /\ Eff(round[r]) \in {"crashed", "settling", "completed"}
         \/ round' = [round EXCEPT ![r].settled = @ \/ x] /\ round[r].revealed
  PROVE  /\ SamePhases /\ DOMAIN round' = DOMAIN round /\ Forward
         /\ \A i \in DOMAIN round' : RowOK(round'[i], Watched)
<1>0. \A i \in DOMAIN round : RowOK(round[i], Watched)
  BY DEF Safe, Parts, Books
<1>1. TypeOK
  BY DEF Safe
<1>2. SamePhases /\ DOMAIN round' = DOMAIN round /\ \A i \in DOMAIN round' : RowOK(round'[i], Watched)
  <2>1. CASE round' = round
    BY <1>0, <2>1 DEF SamePhases
  <2>2. CASE /\ round' = [round EXCEPT ![r].revealed = TRUE]
             /\ Eff(round[r]) \in {"crashed", "settling", "completed"}
    <3>1. RowMoves(r, [round[r] EXCEPT !.revealed = TRUE])
      BY <1>1, <2>2, Edits
    <3>2. /\ round'[r].status = round[r].status /\ round'[r].crashed = round[r].crashed
          /\ round'[r].revealed /\ round'[r].settled = round[r].settled
      BY <1>1, <3>1, RowOf DEF RowMoves
    <3>3. Eff(round'[r]) = Eff(round[r]) /\ (Again(round'[r]) <=> Again(round[r]))
      BY <3>2, SameEff
    <3>4. RowOK(round'[r], Watched)
      BY <1>0, <2>2, <3>2, <3>3 DEF RowOK, Over
    <3> QED BY <1>0, <3>1, <3>2, <3>3, <3>4 DEF RowMoves, SamePhases
  <2>3. CASE round' = [round EXCEPT ![r].settled = @ \/ x] /\ round[r].revealed
    <3>1. RowMoves(r, [round[r] EXCEPT !.settled = @ \/ x])
      BY <1>1, <2>3, Edits
    <3>2. /\ round'[r].status = round[r].status /\ round'[r].crashed = round[r].crashed
          /\ round'[r].revealed = round[r].revealed
      BY <1>1, <3>1, RowOf DEF RowMoves
    <3>3. Eff(round'[r]) = Eff(round[r]) /\ (Again(round'[r]) <=> Again(round[r]))
      BY <3>2, SameEff
    <3>4. RowOK(round'[r], Watched)
      BY <1>0, <2>3, <3>2, <3>3 DEF RowOK
    <3> QED BY <1>0, <3>1, <3>2, <3>3, <3>4 DEF RowMoves, SamePhases
  <2> QED BY <2>1, <2>2, <2>3
<1> QED BY <1>1, <1>2, SameForward

\* The phase before the next one.
LEMMA PhaseAfter ==
  ASSUME NEW p \in Phases
  PROVE  /\ NextPhase(p) \in Phases /\ (NextPhase(p) = "waiting" <=> p = "completed")
         /\ NextPhase(p) = "settling" <=> p = "crashed"
         /\ NextPhase(p) = "crashed" <=> p = "running"
         /\ NextPhase(p) # "none"
  BY PhaseTable

\* The phases from the crash on.
LEMMA LatePhases ==
  ASSUME NEW p \in Phases, Rank("crashed") <= Rank(p)
  PROVE  p \in {"crashed", "settling", "completed"}
  BY PhaseTable

\* A round is taken over in the phase that was read.
LEMMA ResumeSafe ==
  ASSUME Safe, TypeOK', NEW n \in Nodes, NEW k \in Slots, Resume(n, k)
  PROVE  Parts'
<1> DEFINE c == call[n][k]
           s == [r |-> c.r, phase |-> c.ph]
<1>0. c.at = "resume" /\ c \in CallType /\ c.at # "none" /\ c.ph \in Phases
  BY CallIs DEF Resume, Safe, Shaped
<1>a. UNCHANGED <<leadVars, mode, running>>
  BY DEF Resume, Keep
<1>b. st' = [st EXCEPT ![n] = s] /\ public' = Ingest(Payload(n, st'[n]))
  BY DEF Resume
<1>c. st'[n] = s /\ (\A m \in Nodes : m # n => st'[m] = st[m]) /\ s.r = c.r /\ s.phase = c.ph
  BY <1>b DEF Safe, TypeOK
<1>d. /\ c.r \in DOMAIN round /\ Rank(c.ph) <= Rank(Eff(round[c.r]))
      /\ c.ph # "completed" /\ (c.ph = "settling" => round[c.r].revealed)
  BY <1>0, FitNow DEF Safe, Parts, Fit
<1> HIDE DEF s
<1>e. Eff(round[c.r]) \in Phases
  BY <1>d, StatusRank DEF Safe
<1>1. /\ SamePhases /\ DOMAIN round' = DOMAIN round /\ Forward
      /\ \A i \in DOMAIN round' : RowOK(round'[i], Watched)
  <2>1. CASE c.ph = "crashed"
    <3>1. round' = [round EXCEPT ![c.r].revealed = TRUE]
      BY <2>1 DEF Resume
    <3>2. Eff(round[c.r]) \in {"crashed", "settling", "completed"}
      BY <1>d, <1>e, <2>1, LatePhases
    <3> QED BY <1>d, <3>1, <3>2, SeedOrSettle
  <2>2. CASE c.ph = "settling"
    <3>1. round' = [round EXCEPT ![c.r].settled = @ \/ isLeader(n)]
      BY <2>2 DEF Resume, Settle
    <3> QED BY <1>d, <2>2, <3>1, SeedOrSettle
  <2>3. CASE c.ph # "crashed" /\ c.ph # "settling"
    <3>1. round' = round
      BY <2>3 DEF Resume
    <3> QED BY <1>d, <3>1, SeedOrSettle
  <2> QED BY <2>1, <2>2, <2>3
<1>2. c.ph = "crashed" => round'[c.r].revealed
  <2> SUFFICES ASSUME c.ph = "crashed" PROVE round'[c.r].revealed
    OBVIOUS
  <2>1. round' = [round EXCEPT ![c.r].revealed = TRUE]
    BY DEF Resume
  <2>2. RowMoves(c.r, [round[c.r] EXCEPT !.revealed = TRUE])
    BY <1>d, <2>1, Edits DEF Safe
  <2> QED BY <1>d, <2>2, RowOf DEF RowMoves, Safe
<1>3. CacheOK(public', round')
  <2>1. CacheOK(s, round')
    BY <1>1, <1>c, <1>d DEF CacheOK, SamePhases
  <2>2. CacheOK(public, round) /\ TypeOK
    BY DEF Safe, Parts, Books
  <2> QED BY <1>1, <1>b, <1>c, <2>1, <2>2, CacheMirrors
<1>4. ASSUME StillLeader(n)
      PROVE  /\ SeenAt(c.r, c.ph, round', Watched)
             /\ mode = "steady" => LiveOf(round) \subseteq {c.r}
             /\ \A m \in Nodes, j \in Slots : mode = "steady" /\ m # n /\ call[m][j].at = "write" =>
                  /\ c.r = call[m][j].r /\ c.ph = Eff(round[c.r])
                  /\ NextPhase(c.ph) = call[m][j].fn
  <2>1. SeenAt(c.r, c.ph, round, Watched)
    BY <1>0, <1>4, LeaderKnows DEF CallSeen
  <2>2. mode = "steady" => LiveOf(round) \subseteq {c.r}
    BY <1>0, <1>4, LeaderKnows DEF CallLive
  <2>3. ASSUME mode = "steady", NEW m \in Nodes, NEW j \in Slots, m # n, call[m][j].at = "write"
        PROVE  c.r = call[m][j].r /\ c.ph = Eff(round[c.r]) /\ NextPhase(c.ph) = call[m][j].fn
    BY <1>0, <1>4, <2>3, LeaderKnows DEF CallMeets, Ahead
  <2> QED BY <1>1, <2>1, <2>2, <2>3, SeenStays
<1>5. CASE Schedule(n, NextPhase(c.ph), TRUE) /\ EndCall(n, k)
  <2>1. /\ timer'[n] = NextPhase(c.ph)
        /\ \A m \in Nodes : m # n => timer'[m] = timer[m] /\ soon'[m] = soon[m]
    BY <1>5 DEF Schedule, Safe, TypeOK
  <2>2. /\ Moves(n, k, NoCall) /\ LoopMoves(n, k, NoCall)
        /\ NoCall.at \notin {"read", "resume", "write"}
    BY <1>0, <1>5, <1>a, <1>c, <2>1 DEF Moves, LoopMoves, EndCall, NoCall
  <2>3. ViewsFit' /\ (mode' = "steady" => LiveFits' /\ StaleWritesFit')
    <3>1. CASE ~ StillLeader(n)
      BY <1>1, <2>2, <3>1, StaleQuiet
    <3>2. CASE StillLeader(n)
      <4>1. CallSeen(NoCall, st'[n], round', Watched) /\ CallLive(NoCall, st'[n], round, Watched)
        BY DEF CallSeen, CallLive, NoCall
      <4>2. \A e : CallMeets(e, NoCall, st'[n], round)
        BY DEF CallMeets, NoCall
      <4>3. DueAt(st'[n], timer'[n], round', Watched)
        BY <1>0, <1>2, <1>4, <1>c, <2>1, <3>2, PhaseAfter DEF DueAt
      <4>4. mode = "steady" => TimerLive(timer'[n], st'[n], round, Watched)
        BY <1>0, <1>4, <1>c, <1>d, <2>1, <3>2, PhaseAfter DEF TimerLive
      <4>5. \A m \in Nodes, j \in Slots : mode = "steady" /\ m # n /\ call[m][j].at = "write" =>
              TimerMeets(call[m][j], timer'[n], st'[n], soon'[n], round)
        BY <1>4, <1>c, <2>1, <3>2 DEF TimerMeets, Pace, s
      <4> QED BY <1>1, <2>2, <3>2, <4>1, <4>2, <4>3, <4>4, <4>5, LeaderQuiet
    <3> QED BY <3>1, <3>2
  <2> QED BY <1>1, <1>3, <2>2, <2>3, NoCallFits, WritesStay, MovedParts
<1>6. CASE /\ c.ph = "running" /\ UNCHANGED <<timer, soon>>
           /\ SetCall(n, k, [NoCall EXCEPT !.fn = "crashed", !.at = "honor"])
  <2> DEFINE d == [NoCall EXCEPT !.fn = "crashed", !.at = "honor"]
  <2>1. d.at = "honor" /\ d.fn = "crashed" /\ ~ d.safe /\ d # NoCall
    BY DEF NoCall
  <2>2. SetCall(n, k, d)
    BY <1>6
  <2> HIDE DEF d
  <2>3. Moves(n, k, d) /\ LoopMoves(n, k, d)
    BY <1>0, <1>6, <1>a, <1>c, <2>1, <2>2, SameLoop
  <2>4. ViewsFit' /\ (mode' = "steady" => LiveFits' /\ StaleWritesFit')
    <3>1. CASE ~ StillLeader(n)
      BY <1>1, <2>1, <2>3, <3>1, StaleQuiet
    <3>2. CASE StillLeader(n)
      <4>1. CallSeen(d, st'[n], round', Watched)
        BY <1>4, <1>6, <1>c, <2>1, <3>2, PhaseTable DEF CallSeen, DueAt
      <4>2. mode = "steady" => CallLive(d, st'[n], round, Watched)
        BY <1>4, <1>c, <2>1, <3>2 DEF CallLive
      <4>3. ASSUME mode = "steady", NEW m \in Nodes, NEW j \in Slots, m # n, call[m][j].at = "write"
            PROVE  CallMeets(call[m][j], d, st'[n], round)
        <5>1. c.r = call[m][j].r /\ c.ph = Eff(round[c.r]) /\ NextPhase(c.ph) = call[m][j].fn
          BY <1>4, <3>2, <4>3
        <5>2. call[m][j].fn = "crashed"
          BY <1>6, <5>1, PhaseTable
        <5> QED BY <1>c, <2>1, <5>1, <5>2 DEF CallMeets, Pace
      <4> QED BY <1>1, <2>1, <2>3, <3>2, <4>1, <4>2, <4>3, LeaderQuiet
    <3> QED BY <3>1, <3>2
  <2>5. Fit(d, st'[n], round')
    BY <2>1 DEF Fit
  <2> QED BY <1>1, <1>3, <2>1, <2>3, <2>4, <2>5, WritesStay, MovedParts
<1> QED BY <1>5, <1>6 DEF Resume

\* The seed of a crashed round is revealed.
LEMMA RevealSafe ==
  ASSUME Safe, TypeOK', NEW n \in Nodes, NEW k \in Slots, Reveal(n, k)
  PROVE  Parts'
<1> DEFINE c == call[n][k]
           d == [c EXCEPT !.at = "publish"]
<1>0. c.at = "reveal" /\ c \in CallType /\ c.at # "none"
  BY CallIs DEF Reveal, Safe
<1>a. UNCHANGED <<leadVars, mode, public, running, timer, soon, st>>
  BY DEF Reveal, Keep, loopVars
<1>b. SetCall(n, k, d) /\ round' = [round EXCEPT ![c.r].revealed = TRUE]
  BY DEF Reveal
<1>c. /\ c.r \in DOMAIN round /\ c.fn = "crashed" /\ Rank("crashed") <= Rank(Eff(round[c.r]))
      /\ st[n] = [r |-> c.r, phase |-> c.fn]
  BY <1>0, FitNow DEF Safe, Parts, Fit
<1>d. d.at = "publish" /\ d.fn = c.fn /\ d.r = c.r /\ d.safe = c.safe
  BY <1>0, CallAt
<1> HIDE DEF d
<1>1. Moves(n, k, d) /\ LoopMoves(n, k, d) /\ d # NoCall
  <2>1. d # NoCall
    BY <1>d DEF NoCall
  <2> QED BY <1>0, <1>a, <1>b, <1>d, <2>1, SameLoop
<1>2. Eff(round[c.r]) \in {"crashed", "settling", "completed"}
  BY <1>c, StatusRank, LatePhases DEF Safe
<1>3. /\ SamePhases /\ DOMAIN round' = DOMAIN round /\ Forward
      /\ \A i \in DOMAIN round' : RowOK(round'[i], Watched)
  BY <1>2, <1>b, <1>c, SeedOrSettle
<1>4. CacheOK(public', round')
  BY <1>3, <1>a, BooksForward
<1>5. round'[c.r].revealed
  <2>1. RowMoves(c.r, [round[c.r] EXCEPT !.revealed = TRUE])
    BY <1>b, <1>c, Edits DEF Safe
  <2> QED BY <1>c, <2>1, RowOf DEF RowMoves, Safe
<1>6. Fit(d, st'[n], round')
  BY <1>3, <1>5, <1>a, <1>c, <1>d DEF Fit, SamePhases
<1>7. ViewsFit' /\ (mode' = "steady" => LiveFits' /\ StaleWritesFit')
  <2>1. CASE ~ StillLeader(n)
    BY <1>1, <1>3, <1>d, <2>1, StaleQuiet
  <2>2. CASE StillLeader(n)
    <3>1. CallSeen(d, st'[n], round', Watched)
      BY <1>0, <1>3, <1>d, <2>2, LeaderKnows, SeenStays DEF CallSeen
    <3>2. mode = "steady" => CallLive(d, st'[n], round, Watched)
      BY <1>0, <1>a, <1>c, <1>d, <2>2, LeaderKnows DEF CallLive
    <3>3. ASSUME mode = "steady", NEW m \in Nodes, NEW j \in Slots, m # n, call[m][j].at = "write"
          PROVE  CallMeets(call[m][j], d, st'[n], round)
      <4>1. CallMeets(call[m][j], c, st[n], round)
        BY <1>0, <2>2, <3>3, LeaderKnows
      <4> QED BY <1>0, <1>a, <1>d, <4>1 DEF CallMeets
    <3> QED BY <1>1, <1>3, <2>2, <3>1, <3>2, <3>3, LeaderQuiet
  <2> QED BY <2>1, <2>2
<1> QED BY <1>1, <1>3, <1>4, <1>6, <1>7, <1>d, WritesStay, MovedParts

\* The new phase is mirrored, the round settled in its phase, and the timer armed.
LEMMA PublishSafe ==
  ASSUME Safe, TypeOK', NEW n \in Nodes, NEW k \in Slots, Publish(n, k)
  PROVE  Parts'
<1> DEFINE c == call[n][k]
<1>0. c.at = "publish" /\ c \in CallType /\ c.at # "none" /\ c.fn \in Phases
  BY CallIs DEF Publish, Safe, Shaped
<1>a. EndCall(n, k) /\ UNCHANGED <<leadVars, mode, running, st>> /\ public' = Ingest(Payload(n, st[n]))
  BY DEF Publish, Keep
<1>b. /\ timer'[n] = NextPhase(c.fn) /\ (soon'[n] => c.fn = "running")
      /\ \A m \in Nodes : m # n => timer'[m] = timer[m] /\ soon'[m] = soon[m]
  BY DEF Publish, Schedule, Safe, TypeOK
<1>c. /\ c.r \in DOMAIN round /\ Rank(c.fn) <= Rank(Eff(round[c.r]))
      /\ st[n] = [r |-> c.r, phase |-> c.fn]
      /\ c.fn \in {"crashed", "settling"} => round[c.r].revealed
  BY <1>0, FitNow DEF Safe, Parts, Fit
<1>d. st[n].r = c.r /\ st[n].phase = c.fn
  BY <1>c
<1>1. /\ SamePhases /\ DOMAIN round' = DOMAIN round /\ Forward
      /\ \A i \in DOMAIN round' : RowOK(round'[i], Watched)
  <2>1. CASE c.fn = "settling"
    <3>1. round' = [round EXCEPT ![c.r].settled = @ \/ isLeader(n)] /\ round[c.r].revealed
      BY <1>c, <1>d, <2>1 DEF Publish, Settle
    <3> QED BY <1>c, <3>1, SeedOrSettle
  <2>2. CASE c.fn # "settling"
    <3>1. round' = round
      BY <2>2 DEF Publish
    <3> QED BY <1>c, <3>1, SeedOrSettle
  <2> QED BY <2>1, <2>2
<1>2. CacheOK(public', round')
  <2>1. CacheOK(st[n], round')
    BY <1>1, <1>c, <1>d DEF CacheOK, SamePhases
  <2>2. CacheOK(public, round) /\ TypeOK
    BY DEF Safe, Parts, Books
  <2> QED BY <1>1, <1>a, <2>1, <2>2, CacheMirrors
<1>3. /\ Moves(n, k, NoCall) /\ LoopMoves(n, k, NoCall)
      /\ NoCall.at \notin {"read", "resume", "write"}
  BY <1>0, <1>a, <1>b DEF Moves, LoopMoves, EndCall, NoCall
<1>4. ViewsFit' /\ (mode' = "steady" => LiveFits' /\ StaleWritesFit')
  <2>1. CASE ~ StillLeader(n)
    BY <1>1, <1>3, <2>1, StaleQuiet
  <2>2. CASE StillLeader(n)
    <3>1. CallSeen(NoCall, st'[n], round', Watched) /\ CallLive(NoCall, st'[n], round, Watched)
      BY DEF CallSeen, CallLive, NoCall
    <3>2. \A e : CallMeets(e, NoCall, st'[n], round)
      BY DEF CallMeets, NoCall
    <3>3. SeenAt(c.r, c.fn, round, Watched)
      BY <1>0, <2>2, LeaderKnows DEF CallSeen
    <3>4. DueAt(st'[n], timer'[n], round', Watched)
      <4>1. SeenAt(c.r, c.fn, round', Watched) /\ (round[c.r].revealed => round'[c.r].revealed)
        BY <1>1, <3>3, SeenStays
      <4> QED BY <1>0, <1>a, <1>b, <1>c, <1>d, <4>1, PhaseAfter DEF DueAt
    <3>5. mode = "steady" => TimerLive(timer'[n], st'[n], round, Watched)
      <4>1. mode = "steady" => CallLive(c, st[n], round, Watched)
        BY <1>0, <2>2, LeaderKnows
      <4> QED BY <1>0, <1>a, <1>b, <4>1, PhaseAfter DEF TimerLive, CallLive
    <3>6. ASSUME mode = "steady", NEW m \in Nodes, NEW j \in Slots, m # n, call[m][j].at = "write"
          PROVE  TimerMeets(call[m][j], timer'[n], st'[n], soon'[n], round)
      <4>1. CallMeets(call[m][j], c, st[n], round)
        BY <1>0, <2>2, <3>6, LeaderKnows
      <4>2. Pace(call[m][j].fn, c.fn) /\ call[m][j].r = c.r /\ Eff(round[c.r]) = c.fn
        BY <1>0, <1>d, <4>1 DEF CallMeets
      <4>3. soon'[n] => Pace(call[m][j].fn, timer'[n])
        BY <1>b, <4>2, PhaseTable DEF Pace
      <4> QED BY <1>a, <1>c, <4>2, <4>3 DEF TimerMeets
    <3> QED BY <1>1, <1>3, <2>2, <3>1, <3>2, <3>4, <3>5, <3>6, LeaderQuiet
  <2> QED BY <2>1, <2>2
<1> QED BY <1>1, <1>2, <1>3, <1>4, NoCallFits, WritesStay, MovedParts

\* A step of the deposed leader past which it no longer reads, resumes or writes: it is
\* enough to look at the leader of the day.
LEMMA StaleMoves ==
  ASSUME Safe, NEW n \in Nodes, NEW k \in Slots, NEW d, Moves(n, k, d), ~ StillLeader(n),
         d.at \notin {"read", "resume", "write"}, AtMostOne(LiveOf(round')),
         \A m \in Nodes : StillLeader(m) =>
           /\ Loose(m) => /\ timer[m] # "none" => DueAt(st[m], timer[m], round', FALSE)
                          /\ TimerLive(timer[m], st[m], round', FALSE)
           /\ \A j \in Slots : /\ CallSeen(call[m][j], st[m], round', FALSE)
                               /\ CallLive(call[m][j], st[m], round', FALSE)
  PROVE  ~ Watched' /\ ViewsFit' /\ (mode' = "steady" => LiveFits' /\ StaleWritesFit')
<1>0. UNCHANGED leadVars /\ SetCall(n, k, d) /\ call[n][k].at # "none" /\ mode' = mode
  BY DEF Moves
<1>1. (\A m \in Nodes : StillLeader(m)' <=> StillLeader(m)) /\ deposed' = deposed
  BY <1>0, SameLead
<1>2. ASSUME NEW m \in Nodes, StillLeader(m)'
      PROVE  /\ m # n /\ StillLeader(m) /\ call'[m] = call[m] /\ (Loose(m)' <=> Loose(m))
             /\ timer'[m] = timer[m] /\ st'[m] = st[m]
  BY <1>0, <1>1, <1>2, Moved DEF Moves
<1>3. ASSUME NEW m \in Nodes, NEW j \in Slots, ~ StillLeader(m)'
      PROVE  call'[m][j].at \notin {"read", "resume", "write"}
  <2>1. CASE m = n
    BY <1>0, <2>1, Moved DEF NoCall
  <2>2. CASE m # n
    <3>1. ~ Stale(m) /\ ~ StillLeader(m) /\ call'[m] = call[m]
      BY <1>0, <1>1, <1>3, <2>2, InFlight, Moved
    <3>2. call[m][j] = NoCall
      BY <3>1 DEF Stale, Retired, Loose
    <3> QED BY <3>1, <3>2 DEF NoCall
  <2> QED BY <2>1, <2>2
<1>4. ~ Watched'
  <2>1. deposed' # 0
    BY <1>0, <1>1, InFlight
  <2> QED BY <1>3, <2>1 DEF Watched
<1>5. ViewsFit'
  <2> SUFFICES ASSUME NEW m \in Nodes, StillLeader(m)'
               PROVE  /\ Loose(m)' /\ timer'[m] # "none" => DueAt(st'[m], timer'[m], round', Watched')
                      /\ \A j \in Slots : CallSeen(call'[m][j], st'[m], round', Watched')
    BY ViewNext
  <2>1. /\ Loose(m)' /\ timer'[m] # "none" => DueAt(st'[m], timer'[m], round', FALSE)
        /\ \A j \in Slots : CallSeen(call'[m][j], st'[m], round', FALSE)
    BY <1>2
  <2> QED BY <1>4, <2>1, ViewsWeaken
<1>6. LiveFits'
  <2> SUFFICES ASSUME NEW m \in Nodes, StillLeader(m)'
               PROVE  /\ Loose(m)' => TimerLive(timer'[m], st'[m], round', Watched')
                      /\ \A j \in Slots : CallLive(call'[m][j], st'[m], round', Watched')
    BY <1>4, LiveNext
  <2>1. /\ Loose(m)' => TimerLive(timer'[m], st'[m], round', FALSE)
        /\ \A j \in Slots : CallLive(call'[m][j], st'[m], round', FALSE)
    BY <1>2
  <2> QED BY <1>4, <2>1 DEF TimerLive, CallLive
<1>7. StaleWritesFit'
  BY <1>3, StaleNext
<1> QED BY <1>4, <1>5, <1>6, <1>7

\* The row and the open rounds after a status write. A write of running that comes after the
\* crash leaves the round where it was.
LEMMA StatusMoves ==
  ASSUME Safe, TypeOK', NEW r \in DOMAIN round, NEW p \in Phases,
         \/ round' = [round EXCEPT ![r].status = p, ![r].crashed = @ \/ p = "crashed"]
         \/ round' = [round EXCEPT ![r].status = p] /\ p = "completed",
         Rank(Eff(round[r])) <= Rank(p) \/ Pace(p, Eff(round[r])),
         p = "settling" => round[r].revealed
  PROVE  /\ DOMAIN round' = DOMAIN round
         /\ Eff(round'[r]) = IF p = "running" /\ Eff(round[r]) = "crashed" THEN "crashed" ELSE p
         /\ round'[r].revealed = round[r].revealed
         /\ \A i \in DOMAIN round : i # r => round'[i] = round[i]
         /\ Forward /\ \A i \in DOMAIN round' : RowOK(round'[i], FALSE)
         /\ ~ (p = "running" /\ Eff(round[r]) = "crashed") =>
              \A i \in DOMAIN round' : RowOK(round'[i], Watched)
         /\ p # "completed" => Open(round') = Open(round)
         /\ p = "completed" => Open(round') = Open(round) \ {r} /\ LiveOf(round') = LiveOf(round) \ {r}
         /\ LiveOf(round') \subseteq LiveOf(round) \cup {r}
<1> DEFINE e == Eff(round[r])
           q == Eff(round'[r])
<1>0. TypeOK /\ e \in Phases /\ round[r].crashed \in BOOLEAN
  BY RowsAre, StatusRank DEF Safe
<1>1. /\ DOMAIN round' = DOMAIN round /\ round'[r].status = p
      /\ round'[r].crashed = (round[r].crashed \/ p = "crashed")
      /\ round'[r].revealed = round[r].revealed /\ round'[r].settled = round[r].settled
      /\ \A i \in DOMAIN round : i # r => round'[i] = round[i]
  <2>1. CASE round' = [round EXCEPT ![r].status = p, ![r].crashed = @ \/ p = "crashed"]
    <3> DEFINE x == (p = "crashed")
    <3> HIDE DEF x
    <3>1. RowMoves(r, [round[r] EXCEPT !.status = p, !.crashed = @ \/ x])
      BY <1>0, <2>1, Edits DEF x
    <3> DEFINE row == [round[r] EXCEPT !.status = p, !.crashed = @ \/ x]
    <3>2. /\ row.status = p /\ row.crashed = (round[r].crashed \/ x)
          /\ row.revealed = round[r].revealed /\ row.settled = round[r].settled
      BY <1>0, RowOf
    <3> HIDE DEF row
    <3>3. RowMoves(r, row)
      BY <3>1 DEF row
    <3> QED BY <3>2, <3>3 DEF RowMoves, x
  <2>2. CASE round' = [round EXCEPT ![r].status = p] /\ p = "completed"
    <3> DEFINE row == [round[r] EXCEPT !.status = p]
    <3>1. /\ row.status = p /\ row.crashed = round[r].crashed
          /\ row.revealed = round[r].revealed /\ row.settled = round[r].settled
      BY <1>0, RowOf
    <3>2. RowMoves(r, row)
      BY <1>0, <2>2, Edits
    <3> HIDE DEF row
    <3>3. (round[r].crashed \/ p = "crashed") = round[r].crashed
      BY <1>0, <2>2
    <3> QED BY <3>1, <3>2, <3>3 DEF RowMoves
  <2> QED BY <2>1, <2>2
<1>2. \A i \in DOMAIN round : RowOK(round[i], Watched)
  BY DEF Safe, Parts, Books
<1>3. /\ round[r].crashed => e \in Over
      /\ e = "crashed" => round[r].crashed
      /\ round[r].revealed => e \in Over
      /\ round[r].settled => round[r].revealed
  BY <1>2 DEF RowOK
<1>4. q = (IF p = "running" /\ e = "crashed" THEN "crashed" ELSE p) /\ Rank(e) <= Rank(q) /\ q \in Phases
  <2>1. p = "running" => (round[r].crashed <=> e = "crashed")
    BY <1>0, <1>3, PhaseTable DEF Over, Pace
  <2>2. Again(round'[r]) <=> p = "running" /\ e = "crashed"
    BY <1>1, <2>1 DEF Again
  <2>3. q = IF p = "running" /\ e = "crashed" THEN "crashed" ELSE p
    BY <1>1, <2>2 DEF Eff
  <2>4. Rank(e) <= Rank(q) /\ q \in Phases
    BY <1>0, <2>3, PhaseTable DEF Pace
  <2> QED BY <2>3, <2>4
<1>5. Forward
  <2>1. \A i \in DOMAIN round : Rank(Eff(round[i])) \in Nat
    BY <1>0, StatusRank
  <2> QED BY <1>1, <1>4, <2>1 DEF Forward
<1>6. e \in Over => q \in Over
  BY <1>0, <1>4, PhaseTable DEF Over
<1>7. RowOK(round'[r], FALSE)
  <2>1. round'[r].crashed => q \in Over
    BY <1>1, <1>3, <1>4, <1>6 DEF Over
  <2>2. q = "crashed" => round'[r].crashed
    BY <1>1, <1>3, <1>4
  <2>3. q = "settling" => round'[r].revealed
    BY <1>1, <1>4
  <2>4. (round'[r].revealed => q \in Over) /\ (round'[r].settled => round'[r].revealed)
    BY <1>1, <1>3, <1>6
  <2> QED BY <2>1, <2>2, <2>3, <2>4 DEF RowOK
<1>8. ~ (p = "running" /\ e = "crashed") => RowOK(round'[r], Watched)
  <2>1. ~ (p = "running" /\ e = "crashed") => ~ Again(round'[r])
    BY <1>1, <1>4 DEF Again, Eff
  <2> QED BY <1>7, <2>1 DEF RowOK
<1>9. /\ \A i \in DOMAIN round' : RowOK(round'[i], FALSE)
      /\ ~ (p = "running" /\ e = "crashed") => \A i \in DOMAIN round' : RowOK(round'[i], Watched)
  <2>1. \A i \in DOMAIN round : RowOK(round[i], FALSE)
    BY <1>2, ViewsWeaken
  <2> QED BY <1>1, <1>2, <1>7, <1>8, <2>1
<1> HIDE DEF e, q
<1>10. p # "completed" => Open(round') = Open(round)
  <2>1. p # "completed" => e # "completed" /\ q # "completed"
    BY <1>0, <1>4, PhaseTable DEF Pace, e
  <2> QED BY <1>0, <1>1, <1>4, <2>1 DEF Open, OPEN_PHASES, e, q
<1>11. p = "completed" => Open(round') = Open(round) \ {r} /\ LiveOf(round') = LiveOf(round) \ {r}
  <2>1. p = "completed" => q = "completed"
    BY <1>4
  <2> QED BY <1>1, <2>1 DEF Open, LiveOf, OPEN_PHASES, q
<1>12. LiveOf(round') \subseteq LiveOf(round) \cup {r}
  BY <1>1 DEF Open, LiveOf
<1> QED BY <1>1, <1>4, <1>5, <1>9, <1>10, <1>11, <1>12 DEF e, q

\* A round nobody drove for long is closed and refunded.
LEMMA AncientSafe ==
  ASSUME Safe, TypeOK', NEW n \in Nodes, NEW k \in Slots, ResumeAncient(n, k)
  PROVE  Parts'
<1> DEFINE c == call[n][k]
           d == [NoCall EXCEPT !.fn = "waiting", !.at = "fence"]
<1>0. c.at = "resume" /\ c.at # "none" /\ c.ph \in {"waiting", "betting"}
  BY DEF ResumeAncient
<1>a. UNCHANGED <<leadVars, mode, public, running, timer, soon, st>> /\ SetCall(n, k, d)
  BY DEF ResumeAncient, Keep, loopVars
<1>b. Abandoned(n, k)
  BY DEF ResumeAncient, Safe
<1>c. \A m \in Nodes, j \in Slots : m # n => call[m][j] = NoCall
  BY <1>b DEF Abandoned
<1>d. c.r \in DOMAIN round
  BY <1>0, FitNow DEF Safe, Parts, Fit
<1>e. d.at = "fence" /\ d.fn = "waiting" /\ ~ d.safe /\ d # NoCall
  BY DEF NoCall
<1> HIDE DEF d
<1>1. Moves(n, k, d) /\ LoopMoves(n, k, d)
  BY <1>0, <1>a, <1>e, SameLoop
<1>2. /\ DOMAIN round' = DOMAIN round /\ Forward /\ \A i \in DOMAIN round' : RowOK(round'[i], Watched)
      /\ Open(round') = Open(round) \ {c.r} /\ LiveOf(round') = LiveOf(round) \ {c.r}
  <2>1. Eff(round[c.r]) \in Phases
    BY <1>d, StatusRank DEF Safe
  <2>2. "completed" \in Phases /\ Rank(Eff(round[c.r])) <= Rank("completed")
    BY <2>1, PhaseTable
  <2> DEFINE p == "completed"
  <2>3. round' = [round EXCEPT ![c.r].status = p]
    BY DEF ResumeAncient
  <2>4. p = "completed" /\ p # "running" /\ p # "settling"
    OBVIOUS
  <2> HIDE DEF p
  <2>5. p \in Phases /\ Rank(Eff(round[c.r])) <= Rank(p)
    BY <2>2, <2>4
  <2> QED BY <1>d, <2>3, <2>4, <2>5, StatusMoves
<1>3. CacheOK(public', round')
  BY <1>2, <1>a, BooksForward
<1>4. Fit(d, st'[n], round')
  BY <1>e DEF Fit
<1>5. \A m \in Nodes, j \in Slots : ~ (m # n /\ call[m][j].at = "write")
  BY <1>c DEF NoCall
<1>6. ViewsFit' /\ (mode' = "steady" => LiveFits' /\ StaleWritesFit')
  <2>1. CASE ~ StillLeader(n)
    <3>1. ASSUME NEW m \in Nodes, StillLeader(m) PROVE timer[m] = "none" /\ \A j \in Slots : call[m][j] = NoCall
      <4>1. m # n /\ ~ running[m]
        BY <1>b, <2>1, <3>1 DEF Abandoned
      <4> QED BY <1>c, <3>1, <4>1 DEF Safe, Parts, LoopsFit
    <3>2. \A s : /\ CallSeen(NoCall, s, round', FALSE) /\ CallLive(NoCall, s, round', FALSE)
                 /\ TimerLive("none", s, round', FALSE)
      BY DEF CallSeen, CallLive, TimerLive, NoCall
    <3>3. AtMostOne(LiveOf(round'))
      <4>1. mode = "steady"
        BY <1>0, <2>1, InFlight
      <4>2. AtMostOne(LiveOf(round))
        BY <4>1, LiveNow DEF Safe, Parts
      <4> QED BY <1>2, <4>2 DEF AtMostOne
    <3> QED BY <1>1, <1>e, <2>1, <3>1, <3>2, <3>3, StaleMoves
  <2>2. CASE StillLeader(n)
    <3>1. CallSeen(d, st'[n], round', Watched)
      BY <1>e DEF CallSeen, DueAt
    <3>2. ASSUME mode = "steady"
          PROVE  LiveOf(round') = {} /\ (Watched => Open(round') = {})
      <4>1. LiveOf(round) \subseteq {c.r}
        BY <1>0, <2>2, <3>2, LeaderKnows DEF CallLive
      <4>2. Watched => AtMostOne(Open(round))
        BY <1>0, <2>2, <3>2, LeaderKnows
      <4>3. SeenAt(c.r, c.ph, round, Watched)
        BY <1>0, <2>2, LeaderKnows DEF CallSeen
      <4>4. Eff(round[c.r]) \in {"waiting", "betting", "running"}
        BY <1>0, <4>3, PhaseTable DEF SeenAt
      <4>5. c.r \in Open(round)
        BY <1>d, <4>4, PhaseTable DEF Open, OPEN_PHASES
      <4>6. Watched => Open(round) = {c.r}
        BY <4>2, <4>5 DEF AtMostOne
      <4> QED BY <1>2, <4>1, <4>6
    <3>3. mode = "steady" => /\ AtMostOne(LiveOf(round')) /\ (Watched => AtMostOne(Open(round')))
                             /\ CallLive(d, st'[n], round', Watched)
      BY <1>e, <3>2 DEF AtMostOne, CallLive
    <3> QED BY <1>1, <1>5, <1>e, <2>2, <3>1, <3>3, LeaderMoves
  <2> QED BY <2>1, <2>2
<1> QED BY <1>1, <1>2, <1>3, <1>4, <1>5, <1>6, <1>e, MovedParts

\* A round is created on its seed, or the seed was used.
LEMMA CreateSafe ==
  ASSUME Safe, TypeOK', NEW n \in Nodes, NEW k \in Slots, Create(n, k)
  PROVE  Parts'
<1> DEFINE c == call[n][k]
           d == [c EXCEPT !.at = "publish"]
           row == [status |-> "waiting", crashed |-> FALSE, revealed |-> FALSE, settled |-> FALSE]
<1>0. c.at = "create" /\ c.at # "none" /\ c \in CallType
  BY CallIs DEF Create, Safe
<1>a. UNCHANGED <<leadVars, mode, public>>
  BY DEF Create, Keep
<1>b. c.fn = "waiting" /\ c.r \in 1 .. Len(round) + 1 /\ Len(round) \in Nat
  BY <1>0, FitNow DEF Safe, Parts, Fit, TypeOK
<1>1. CASE ~ (c.r > Len(round))
  <2>1. EndCall(n, k) /\ Stop(n) /\ UNCHANGED <<round, st>>
    BY <1>1 DEF Create
  <2> QED BY <1>0, <1>a, <2>1, Stops
<1>2. CASE c.r > Len(round)
  <2>1. /\ round' = Append(round, row) /\ st' = [st EXCEPT ![n] = [r |-> c.r, phase |-> "waiting"]]
        /\ SetCall(n, k, d) /\ UNCHANGED <<running, timer, soon>>
    BY <1>2 DEF Create
  <2>2. c.r = Len(round) + 1
    BY <1>2, <1>b
  <2>3. /\ DOMAIN round' = DOMAIN round \cup {c.r} /\ c.r \notin DOMAIN round
        /\ round'[c.r] = row /\ \A i \in DOMAIN round : round'[i] = round[i]
    <3>1. round \in Seq(RoundType)
      BY DEF Safe, TypeOK
    <3> HIDE DEF row
    <3> QED BY <1>b, <2>1, <2>2, <3>1
  <2>4. Eff(row) = "waiting" /\ ~ row.revealed /\ ~ row.settled /\ ~ row.crashed /\ ~ Again(row)
    BY DEF Eff, Again
  <2>5. /\ st'[n] = [r |-> c.r, phase |-> "waiting"] /\ st'[n].r = c.r
        /\ \A m \in Nodes : m # n => st'[m] = st[m]
    BY <2>1 DEF Safe, TypeOK
  <2>6. d.at = "publish" /\ d.fn = "waiting" /\ d.r = c.r /\ d.safe = c.safe
    BY <1>0, <1>b, CallAt
  <2> HIDE DEF d, row
  <2>7. Moves(n, k, d) /\ LoopMoves(n, k, d) /\ d # NoCall
    <3>1. d # NoCall
      BY <2>6 DEF NoCall
    <3> QED BY <1>0, <1>a, <2>1, <2>5, <2>6, <3>1, SameLoop
  <2>8. SamePhases
    BY <2>3 DEF SamePhases
  <2>9. Forward
    BY <2>8, SameForward DEF Safe
  <2>10. \A i \in DOMAIN round' : RowOK(round'[i], Watched)
    <3>1. RowOK(row, Watched)
      BY <2>4 DEF RowOK
    <3> QED BY <2>3, <3>1 DEF Safe, Parts, Books
  <2>11. CacheOK(public', round')
    BY <1>a, <2>9, BooksForward
  <2>12. Fit(d, st'[n], round')
    BY <2>3, <2>4, <2>5, <2>6, PhaseTable DEF Fit
  <2>13. LiveOf(round') = LiveOf(round) /\ Open(round') \subseteq Open(round) \cup {c.r}
    BY <2>3, <2>4 DEF LiveOf, Open
  <2>14. ViewsFit' /\ (mode' = "steady" => LiveFits' /\ StaleWritesFit')
    <3>1. CASE ~ StillLeader(n)
      <4>1. mode = "steady"
        BY <1>0, <3>1, InFlight
      <4>2. LiveFits
        BY <4>1 DEF Safe, Parts
      <4>3. AtMostOne(LiveOf(round'))
        BY <2>13, <4>2, LiveNow
      <4>4. ASSUME NEW m \in Nodes, StillLeader(m)
            PROVE  /\ Loose(m) => /\ timer[m] # "none" => DueAt(st[m], timer[m], round', FALSE)
                                  /\ TimerLive(timer[m], st[m], round', FALSE)
                   /\ \A j \in Slots : /\ CallSeen(call[m][j], st[m], round', FALSE)
                                       /\ CallLive(call[m][j], st[m], round', FALSE)
        <5>1. /\ Loose(m) /\ timer[m] # "none" => DueAt(st[m], timer[m], round, Watched)
              /\ \A j \in Slots : CallSeen(call[m][j], st[m], round, Watched)
          BY <4>4, ViewNow DEF Safe, Parts
        <5>2. /\ Loose(m) => TimerLive(timer[m], st[m], round, Watched)
              /\ \A j \in Slots : CallLive(call[m][j], st[m], round, Watched)
          BY <4>2, <4>4, LiveNow
        <5>3. /\ Loose(m) => TimerLive(timer[m], st[m], round', FALSE)
              /\ \A j \in Slots : CallLive(call[m][j], st[m], round', FALSE)
          BY <2>13, <5>2 DEF TimerLive, CallLive
        <5>4. /\ Loose(m) /\ timer[m] # "none" => DueAt(st[m], timer[m], round', Watched)
              /\ \A j \in Slots : CallSeen(call[m][j], st[m], round', Watched)
          BY <2>8, <5>1, DueStays, CallSeenStays
        <5>5. /\ Loose(m) /\ timer[m] # "none" => DueAt(st[m], timer[m], round', FALSE)
              /\ \A j \in Slots : CallSeen(call[m][j], st[m], round', FALSE)
          BY <5>4, ViewsWeaken
        <5> QED BY <5>3, <5>5
      <4> QED BY <2>6, <2>7, <3>1, <4>3, <4>4, StaleMoves
    <3>2. CASE StillLeader(n)
      <4>1. CallSeen(d, st'[n], round', Watched)
        BY <2>3, <2>4, <2>6 DEF CallSeen, SeenAt
      <4>2. ASSUME mode = "steady"
            PROVE  /\ AtMostOne(LiveOf(round')) /\ (Watched => AtMostOne(Open(round')))
                   /\ CallLive(d, st'[n], round', Watched)
        <5>1. LiveOf(round) = {} /\ (Watched => Open(round) = {})
          BY <1>0, <1>b, <3>2, <4>2, LeaderKnows DEF CallLive
        <5>2. LiveOf(round') = {} /\ (Watched => Open(round') \subseteq {c.r})
          BY <2>13, <5>1
        <5> QED BY <2>6, <5>2 DEF AtMostOne, CallLive
      <4>3. mode = "steady" => \A m \in Nodes, j \in Slots : ~ (m # n /\ call[m][j].at = "write")
        BY <1>0, <1>b, <3>2, LeaderKnows DEF CallMeets
      <4> QED BY <2>7, <3>2, <4>1, <4>2, <4>3, LeaderMoves
    <3> QED BY <3>1, <3>2
  <2> QED BY <2>6, <2>7, <2>8, <2>9, <2>10, <2>11, <2>12, <2>14, WritesStay, MovedParts
<1> QED BY <1>1, <1>2

\* A phase is written. The leader's own write is the next phase of the round it is at; the
\* one of a deposed leader ends the phase its successor read.
LEMMA WriteSafe ==
  ASSUME Safe, TypeOK', NEW n \in Nodes, NEW k \in Slots, Write(n, k)
  PROVE  Parts'
<1> DEFINE c == call[n][k]
           d == [c EXCEPT !.at = IF c.fn = "crashed" THEN "reveal" ELSE "publish"]
<1>0. c.at = "write" /\ c.at # "none" /\ c \in CallType /\ c.fn \in Phases
  BY CallIs DEF Write, Safe, Shaped
<1>a. UNCHANGED <<leadVars, mode, public, running, timer, soon, st>>
  BY DEF Write, Keep, loopVars
<1>b. /\ SetCall(n, k, d)
      /\ round' = [round EXCEPT ![c.r].status = c.fn, ![c.r].crashed = @ \/ c.fn = "crashed"]
  BY DEF Write
<1>c. /\ c.r \in DOMAIN round /\ st[n] = [r |-> c.r, phase |-> c.fn]
      /\ Rank(Eff(round[c.r])) <= Rank(c.fn) \/ Pace(c.fn, Eff(round[c.r]))
      /\ c.fn # "waiting" /\ (c.fn = "settling" => round[c.r].revealed)
  BY <1>0, FitNow DEF Safe, Parts, Fit, Behind
<1>d. /\ d.at = IF c.fn = "crashed" THEN "reveal" ELSE "publish"
      /\ d.fn = c.fn /\ d.r = c.r /\ d.safe = c.safe
  <2> DEFINE a == IF c.fn = "crashed" THEN "reveal" ELSE "publish"
  <2> HIDE DEF a
  <2>1. /\ [c EXCEPT !.at = a].at = a /\ [c EXCEPT !.at = a].fn = c.fn
        /\ [c EXCEPT !.at = a].r = c.r /\ [c EXCEPT !.at = a].safe = c.safe
    BY <1>0, CallAt
  <2> QED BY <2>1 DEF a
<1>e. st[n].r = c.r
  BY <1>c
<1> HIDE DEF d
<1>1. Moves(n, k, d) /\ LoopMoves(n, k, d) /\ d # NoCall
  <2>1. d # NoCall
    BY <1>d DEF NoCall
  <2> QED BY <1>0, <1>a, <1>b, <1>d, <2>1, SameLoop
<1>2. /\ DOMAIN round' = DOMAIN round
      /\ Eff(round'[c.r]) = IF c.fn = "running" /\ Eff(round[c.r]) = "crashed" THEN "crashed" ELSE c.fn
      /\ round'[c.r].revealed = round[c.r].revealed
      /\ \A i \in DOMAIN round : i # c.r => round'[i] = round[i]
      /\ Forward /\ \A i \in DOMAIN round' : RowOK(round'[i], FALSE)
      /\ ~ (c.fn = "running" /\ Eff(round[c.r]) = "crashed") =>
           \A i \in DOMAIN round' : RowOK(round'[i], Watched)
      /\ c.fn # "completed" => Open(round') = Open(round)
      /\ c.fn = "completed" => Open(round') = Open(round) \ {c.r} /\ LiveOf(round') = LiveOf(round) \ {c.r}
      /\ LiveOf(round') \subseteq LiveOf(round) \cup {c.r}
  BY <1>0, <1>b, <1>c, StatusMoves
<1>3. CacheOK(public', round')
  BY <1>2, <1>a, BooksForward
<1>4. Fit(d, st'[n], round')
  <2>1. Rank(c.fn) <= Rank(Eff(round'[c.r]))
    BY <1>0, <1>2, PhaseTable
  <2> QED BY <1>2, <1>a, <1>c, <1>d, <2>1 DEF Fit
<1>5. CASE StillLeader(n)
  <2>1. PICK p \in Phases : NextPhase(p) = c.fn /\ SeenAt(c.r, p, round, Watched)
    BY <1>0, <1>5, LeaderKnows DEF CallSeen
  <2>0. /\ Eff(round'[c.r]) = c.fn /\ (Watched => Eff(round[c.r]) = p)
        /\ \A i \in DOMAIN round' : RowOK(round'[i], Watched)
    <3>1. Eff(round[c.r]) = p \/ Eff(round[c.r]) = c.fn
      BY <2>1 DEF SeenAt
    <3>2. ~ (c.fn = "running" /\ Eff(round[c.r]) = "crashed")
      BY <2>1, <3>1, PhaseTable
    <3>3. Watched => Eff(round[c.r]) = p
      BY <2>1 DEF SeenAt
    <3> QED BY <1>2, <3>2, <3>3
  <2>2. CallSeen(d, st'[n], round', Watched)
    BY <1>2, <1>c, <1>d, <2>0 DEF CallSeen, SeenAt
  <2>3. ASSUME NEW m \in Nodes, NEW j \in Slots, m # n, call[m][j].at = "write"
        PROVE  /\ mode = "steady" /\ StaleRow(call[m][j], round)
               /\ Pace(call[m][j].fn, c.fn) /\ call[m][j].r = c.r
    <3>1. mode = "steady"
      BY <1>0, <1>5, <2>3, InFlight
    <3> QED BY <1>0, <1>5, <1>e, <2>3, <3>1, LeaderKnows DEF CallMeets
  <2>4. \A m \in Nodes, j \in Slots : m # n /\ call[m][j].at = "write" =>
          Behind(call[m][j], round')
    BY <2>0, <2>3 DEF Behind
  <2>5. ASSUME NEW m \in Nodes, NEW j \in Slots, m # n, call[m][j].at = "write"
        PROVE  StaleRow(call[m][j], round') /\ CallMeets(call[m][j], d, st'[n], round')
    <3>1. Open(round') \subseteq Open(round)
      BY <1>2
    <3> QED BY <1>a, <1>d, <1>e, <2>0, <2>3, <2>5, <3>1 DEF StaleRow, CallMeets
  <2>6. ASSUME mode = "steady"
        PROVE  /\ AtMostOne(LiveOf(round')) /\ (Watched => AtMostOne(Open(round')))
               /\ CallLive(d, st'[n], round', Watched)
    <3>1. LiveOf(round) \subseteq {c.r} /\ (Watched => AtMostOne(Open(round)))
      BY <1>0, <1>5, <1>e, <2>6, LeaderKnows DEF CallLive
    <3>2. LiveOf(round') \subseteq {c.r} /\ (Watched => AtMostOne(Open(round')))
      BY <1>2, <3>1 DEF AtMostOne
    <3>3. ASSUME c.fn = "completed", Watched PROVE c.r \in Open(round)
      <4>1. Eff(round[c.r]) = p /\ p # "completed"
        BY <2>0, <2>1, <3>3, PhaseTable
      <4> QED BY <1>c, <4>1 DEF Open, OPEN_PHASES
    <3>4. c.fn = "completed" => LiveOf(round') = {} /\ (Watched => Open(round') = {})
      BY <1>2, <3>1, <3>3 DEF AtMostOne
    <3> QED BY <1>a, <1>c, <1>d, <1>e, <3>2, <3>4 DEF AtMostOne, CallLive
  <2>7. ViewsFit' /\ (mode' = "steady" => LiveFits' /\ StaleWritesFit')
    BY <1>1, <1>5, <2>2, <2>5, <2>6, LeaderMoves
  <2> QED BY <1>1, <1>2, <1>3, <1>4, <1>5, <2>0, <2>4, <2>7, MovedParts
<1>6. CASE ~ StillLeader(n)
  <2>1. mode = "steady" /\ deposed = 1 /\ \A m \in Nodes : m # n => ~ Stale(m)
    BY <1>0, <1>6, InFlight
  <2>2. Watched
    BY <1>0, <1>6 DEF Watched
  <2>3. StaleRow(c, round)
    BY <1>0, <1>6, <2>1, StaleNow DEF Safe, Parts
  \* the round stays where it is, or the write ends its phase
  <2>4. Eff(round'[c.r]) = Eff(round[c.r]) \/ Eff(round'[c.r]) = NextPhase(Eff(round[c.r]))
    BY <1>2, <2>3, PhaseTable DEF StaleRow, Ahead, Pace
  <2>5. /\ Open(round') \subseteq Open(round) /\ Open(round) \subseteq {c.r}
        /\ LiveOf(round') \subseteq {c.r} /\ (Open(round) = {} => LiveOf(round') = {})
    <3>1. Open(round') \subseteq Open(round) /\ Open(round) \subseteq {c.r}
      BY <1>2, <2>3 DEF StaleRow
    <3>2. LiveOf(round') \subseteq Open(round')
      BY DEF LiveOf
    <3> QED BY <3>1, <3>2
  \* what the leader saw of this round it still sees
  <2>6. ASSUME NEW p, SeenAt(c.r, p, round, Watched) PROVE SeenAt(c.r, p, round', FALSE)
    BY <1>2, <1>c, <2>2, <2>4, <2>6 DEF SeenAt
  <2>7. ASSUME NEW m \in Nodes, StillLeader(m), Loose(m)
        PROVE  /\ timer[m] # "none" => DueAt(st[m], timer[m], round', FALSE)
               /\ TimerLive(timer[m], st[m], round', FALSE)
    <3>0. TimerMeets(c, timer[m], st[m], soon[m], round)
      BY <1>0, <1>6, <2>1, <2>7, StaleNow DEF Safe, Parts
    <3>1. timer[m] # "none" => st[m].r = c.r
      BY <3>0 DEF TimerMeets
    <3>2. timer[m] # "none" => DueAt(st[m], timer[m], round, Watched)
      BY <2>7, ViewNow DEF Safe, Parts
    <3>3. TimerLive(timer[m], st[m], round, Watched)
      BY <2>1, <2>7, LiveNow DEF Safe, Parts
    <3>4. timer[m] # "none" => DueAt(st[m], timer[m], round', FALSE)
      BY <1>2, <2>6, <3>1, <3>2 DEF DueAt
    <3>5. TimerLive(timer[m], st[m], round', FALSE)
      BY <2>2, <2>5, <3>1, <3>3 DEF TimerLive
    <3> QED BY <3>4, <3>5
  <2>8. ASSUME NEW m \in Nodes, StillLeader(m), NEW j \in Slots
        PROVE  /\ CallSeen(call[m][j], st[m], round', FALSE)
               /\ CallLive(call[m][j], st[m], round', FALSE)
               /\ call[m][j].at = "write" => Behind(call[m][j], round')
    <3> DEFINE e == call[m][j]
    <3>0. e \in CallType /\ Shaped(e) /\ Fit(e, st[m], round)
      BY CallIs, FitNow DEF Safe, Parts
    <3>1. CallMeets(c, e, st[m], round)
      BY <1>0, <1>6, <2>1, <2>8, StaleNow DEF Safe, Parts
    <3>2. CallSeen(e, st[m], round, Watched)
      BY <2>8, ViewNow DEF Safe, Parts
    <3>3. CallLive(e, st[m], round, Watched)
      BY <2>1, <2>8, LiveNow DEF Safe, Parts
    <3> HIDE DEF e
    <3>4. /\ e.at = "resume" => e.r = c.r
          /\ e.at \in {"honor", "fence", "write", "reveal", "publish"} => st[m].r = c.r
          /\ e.at \in {"write", "reveal", "publish"} => e.r = c.r
      <4>1. e.at \in {"write", "reveal", "publish"} => st[m].r = e.r
        BY <3>0 DEF Fit
      <4> QED BY <3>1, <4>1 DEF CallMeets
    <3>5. CallSeen(e, st[m], round', FALSE)
      <4>1. e.at = "resume" => SeenAt(e.r, e.ph, round', FALSE)
        BY <2>6, <3>2, <3>4 DEF CallSeen
      <4>2. e.at \in {"honor", "fence"} => DueAt(st[m], e.fn, round', FALSE)
        BY <1>2, <2>6, <3>2, <3>4 DEF CallSeen, DueAt
      <4>3. e.at = "write" => \E p \in Phases : NextPhase(p) = e.fn /\ SeenAt(e.r, p, round', FALSE)
        BY <2>6, <3>2, <3>4 DEF CallSeen
      <4>4. e.at \in {"reveal", "publish"} => SeenAt(e.r, e.fn, round', FALSE)
        BY <2>6, <3>2, <3>4 DEF CallSeen
      <4> QED BY <4>1, <4>2, <4>3, <4>4 DEF CallSeen
    <3>6. CallLive(e, st[m], round', FALSE)
      BY <2>2, <2>5, <3>3, <3>4 DEF CallLive
    <3>7. e.at = "write" => Behind(e, round')
      <4> SUFFICES ASSUME e.at = "write" PROVE Behind(e, round')
        OBVIOUS
      <4>1. NextPhase(Eff(round[c.r])) = e.fn /\ e.fn # "waiting" /\ e.r = c.r
        BY <3>0, <3>1, <3>4 DEF CallMeets, Fit
      <4>2. Eff(round[c.r]) \in Phases
        BY <1>c, StatusRank DEF Safe
      <4>3. Rank(Eff(round'[c.r])) <= Rank(e.fn)
        BY <2>4, <4>1, <4>2, PhaseBefore
      <4> QED BY <4>1, <4>3 DEF Behind
    <3> QED BY <3>5, <3>6, <3>7 DEF e
  <2>9. ASSUME NEW m \in Nodes, NEW j \in Slots, m # n, call[m][j].at = "write"
        PROVE  Behind(call[m][j], round')
    <3>1. StillLeader(m)
      <4>1. call[m][j] # NoCall
        BY <2>9 DEF NoCall
      <4> QED BY <2>1, <2>9, <4>1 DEF Stale, Retired, Loose
    <3> QED BY <2>8, <2>9, <3>1
  <2>10. AtMostOne(LiveOf(round'))
    BY <2>5 DEF AtMostOne
  <2>11. ~ Watched' /\ ViewsFit' /\ (mode' = "steady" => LiveFits' /\ StaleWritesFit')
    <3>1. d.at \notin {"read", "resume", "write"}
      BY <1>d
    <3> QED BY <1>1, <1>6, <2>7, <2>8, <2>10, <3>1, StaleMoves
  <2>12. \A i \in DOMAIN round' : RowOK(round'[i], Watched')
    BY <1>2, <2>11, ViewsWeaken
  <2> QED BY <1>1, <1>2, <1>3, <1>4, <2>9, <2>11, <2>12, MovedPartsAt
<1> QED BY <1>5, <1>6

(* ------------------------------------------------------ timers and leaders *)

\* A timer fires: nothing of its node was in flight, and the call is what the timer was armed
\* for. A write of the leader before it can be in flight where the timer was at 0 ms.
LEMMA TimerFiresSafe ==
  ASSUME Safe, TypeOK', NEW n \in Nodes, TimerFires(n)
  PROVE  Parts'
<1> DEFINE d == [NoCall EXCEPT !.fn = timer[n], !.at = "fence", !.safe = TRUE]
<1>0. UNCHANGED <<leadVars, mode, round, public, running, st>> /\ running[n] /\ timer[n] # "none"
  BY DEF TimerFires, Keep
<1>1. Loose(n) /\ (soon[n] \/ Quiet)
  BY DEF TimerFires, Safe, Parts, LoopsFit
<1>2. PICK k \in Slots : SetCall(n, k, d)
  BY DEF TimerFires, FreeSlot
<1>3. d.at = "fence" /\ d.fn = timer[n] /\ d # NoCall
  BY DEF NoCall
<1> HIDE DEF d
<1>4. /\ call'[n][k] = d /\ \A j \in Slots : j # k => call'[n][j] = NoCall
      /\ \A m \in Nodes : m # n => call'[m] = call[m]
  BY <1>1, <1>2, CallMove DEF Loose, Safe
<1>5. /\ timer'[n] = "none"
      /\ \A m \in Nodes : m # n => timer'[m] = timer[m] /\ soon'[m] = soon[m]
  BY DEF TimerFires, Schedule, Safe, TypeOK
<1>6. /\ (\A m \in Nodes : StillLeader(m)' <=> StillLeader(m)) /\ deposed' = deposed /\ token' = token
      /\ FencesFit' /\ (Unclaimed' <=> Unclaimed)
  BY <1>0, SameLead DEF Safe, Parts
<1>7. ~ Loose(n)' /\ \A m \in Nodes : m # n => (Loose(m)' <=> Loose(m))
  BY <1>3, <1>4 DEF Loose, NoCall
<1>8. \A j \in Slots : call'[n][j] = d \/ call'[n][j] = NoCall
  BY <1>4
<1>9. NoCall.at = "none"
  BY DEF NoCall
<1>10. Stale(n)' => Stale(n)
  BY <1>0, <1>6 DEF Stale, Retired
<1>11. \A m \in Nodes : m # n => (Stale(m)' <=> Stale(m))
  BY <1>0, <1>6, <1>7 DEF Stale, Retired
<1>12. LoopsFit'
  <2>1. LoopsFit
    BY DEF Safe, Parts
  <2>2. ASSUME NEW m \in Nodes PROVE AtMostOne({j \in Slots : call[m][j] # NoCall})'
    <3>1. CASE m = n
      BY <1>4, <3>1 DEF AtMostOne, NoCall
    <3>2. CASE m # n
      BY <1>4, <2>1, <3>2 DEF LoopsFit, AtMostOne, NoCall
    <3> QED BY <3>1, <3>2
  <2>3. ASSUME NEW m \in Nodes
        PROVE  /\ StillLeader(m)' /\ ~ running'[m] => Loose(m)' /\ timer'[m] = "none"
               /\ running'[m] /\ timer'[m] # "none" => Loose(m)'
               /\ Stale(m)' => deposed' = 1
               /\ deposed' = 0 /\ (StillLeader(m)' => ~ Loose(m)') => timer'[m] = "none"
    <3>1. CASE m = n
      BY <1>0, <1>5, <1>6, <1>10, <2>1, <3>1 DEF LoopsFit
    <3>2. CASE m # n
      BY <1>0, <1>5, <1>6, <1>7, <1>11, <2>1, <3>2 DEF LoopsFit
    <3> QED BY <3>1, <3>2
  <2>4. AtMostOne({m \in Nodes : Stale(m)})'
    BY <1>10, <1>11, <2>1 DEF LoopsFit, AtMostOne
  <2> QED BY <2>2, <2>3, <2>4 DEF LoopsFit
<1>13. CallsFit'
  <2>1. \A s, rd : Fit(d, s, rd)
    BY <1>3 DEF Fit
  <2>2. \A m \in Nodes, j \in Slots : Fit(call[m][j], st[m], round)
    BY FitNow DEF Safe, Parts
  <2>3. ASSUME NEW m \in Nodes, NEW j \in Slots PROVE Fit(call'[m][j], st'[m], round')
    BY <1>0, <1>4, <1>8, <2>1, <2>2, NoCallFits
  <2> QED BY <2>3, FitNext
<1>14. Watched' => Watched
  <2> SUFFICES ASSUME Watched' PROVE Watched
    OBVIOUS
  <2>1. CASE deposed' = 0
    BY <1>6, <2>1 DEF Watched
  <2>2. CASE deposed' # 0
    <3>1. PICK m \in Nodes, j \in Slots : ~ StillLeader(m)' /\ call'[m][j].at \in {"read", "resume", "write"}
      BY <2>2 DEF Watched
    <3>2. m # n
      BY <1>3, <1>8, <1>9, <3>1
    <3> QED BY <1>4, <1>6, <3>1, <3>2 DEF Watched
  <2> QED BY <2>1, <2>2
<1>15. ASSUME StillLeader(n) PROVE DueAt(st[n], timer[n], round, Watched)
  BY <1>0, <1>1, <1>15, ViewNow DEF Safe, Parts
<1>16. \A s, rd, w : CallSeen(NoCall, s, rd, w) /\ CallLive(NoCall, s, rd, w)
  BY DEF CallSeen, CallLive, NoCall
<1>17. ViewsFit'
  <2> SUFFICES ASSUME NEW m \in Nodes, StillLeader(m)'
               PROVE  /\ Loose(m)' /\ timer'[m] # "none" => DueAt(st'[m], timer'[m], round', Watched')
                      /\ \A j \in Slots : CallSeen(call'[m][j], st'[m], round', Watched')
    BY ViewNext
  <2>1. CASE m = n
    <3>1. DueAt(st[n], timer[n], round, Watched')
      BY <1>6, <1>14, <1>15, <2>1, ViewsWeaken
    <3>2. CallSeen(d, st'[n], round', Watched')
      BY <1>0, <1>3, <3>1 DEF CallSeen
    <3> QED BY <1>7, <1>8, <1>16, <2>1, <3>2
  <2>2. CASE m # n
    <3>1. /\ Loose(m) /\ timer[m] # "none" => DueAt(st[m], timer[m], round, Watched)
          /\ \A j \in Slots : CallSeen(call[m][j], st[m], round, Watched)
      BY <1>6, ViewNow DEF Safe, Parts
    <3>2. /\ Loose(m) /\ timer[m] # "none" => DueAt(st[m], timer[m], round, Watched')
          /\ \A j \in Slots : CallSeen(call[m][j], st[m], round, Watched')
      BY <1>14, <3>1, ViewsWeaken
    <3> QED BY <1>0, <1>4, <1>5, <1>7, <2>2, <3>2
  <2> QED BY <2>1, <2>2
<1>18. ASSUME mode = "steady" PROVE LiveFits'
  <2>1. LiveFits
    BY <1>18 DEF Safe, Parts
  <2>2. AtMostOne(LiveOf(round')) /\ (Watched' => AtMostOne(Open(round')))
    BY <1>0, <1>14, <2>1, LiveNow
  <2>3. ASSUME NEW m \in Nodes, StillLeader(m)'
        PROVE  /\ Loose(m)' => TimerLive(timer'[m], st'[m], round', Watched')
               /\ \A j \in Slots : CallLive(call'[m][j], st'[m], round', Watched')
    <3>1. /\ Loose(m) => TimerLive(timer[m], st[m], round, Watched)
          /\ \A j \in Slots : CallLive(call[m][j], st[m], round, Watched)
      BY <1>6, <2>1, <2>3, LiveNow
    <3>2. /\ Loose(m) => TimerLive(timer[m], st[m], round, Watched')
          /\ \A j \in Slots : CallLive(call[m][j], st[m], round, Watched')
      BY <1>14, <3>1, ViewsWeaken
    <3>3. CASE m = n
      <4>1. CallLive(d, st'[n], round', Watched')
        BY <1>0, <1>1, <1>3, <3>2, <3>3 DEF TimerLive, CallLive
      <4> QED BY <1>7, <1>8, <1>16, <3>3, <4>1
    <3>4. CASE m # n
      BY <1>0, <1>4, <1>5, <1>7, <3>2, <3>4
    <3> QED BY <3>3, <3>4
  <2> QED BY <2>2, <2>3, LiveNext
<1>19. ASSUME mode = "steady" PROVE StaleWritesFit'
  <2> SUFFICES ASSUME NEW m \in Nodes, NEW j \in Slots, ~ StillLeader(m)', call'[m][j].at = "write"
               PROVE  /\ StaleRow(call'[m][j], round') /\ (Unclaimed' => Ahead(call'[m][j], round'))
                      /\ \A o \in Nodes : StillLeader(o)' =>
                           /\ Loose(o)' => TimerMeets(call'[m][j], timer'[o], st'[o], soon'[o], round')
                           /\ \A i \in Slots : CallMeets(call'[m][j], call'[o][i], st'[o], round')
    BY StaleNext
  <2> DEFINE c == call[m][j]
  <2>1. m # n /\ call'[m][j] = c
    BY <1>3, <1>4, <1>8, <1>9
  <2>2. ~ StillLeader(m) /\ c.at = "write"
    BY <1>6, <2>1
  <2>3. /\ StaleRow(c, round) /\ (Unclaimed => Ahead(c, round))
        /\ \A o \in Nodes : StillLeader(o) =>
             /\ Loose(o) => TimerMeets(c, timer[o], st[o], soon[o], round)
             /\ \A i \in Slots : CallMeets(c, call[o][i], st[o], round)
    BY <1>19, <2>2, StaleNow DEF Safe, Parts
  <2>4. c.fn # "waiting"
    BY <2>2, FitNow DEF Safe, Parts, Fit
  <2>5. ~ Quiet
    BY <2>2 DEF Quiet, NoCall
  <2> HIDE DEF c
  <2>6. ASSUME NEW o \in Nodes, StillLeader(o)'
        PROVE  /\ Loose(o)' => TimerMeets(c, timer'[o], st'[o], soon'[o], round')
               /\ \A i \in Slots : CallMeets(c, call'[o][i], st'[o], round')
    <3>1. CASE o = n
      <4>1. TimerMeets(c, timer[n], st[n], soon[n], round)
        BY <1>1, <1>6, <2>3, <2>6, <3>1
      <4>2. st[n] = [r |-> c.r, phase |-> Eff(round[c.r])] /\ Pace(c.fn, timer[n])
        BY <1>0, <1>1, <2>5, <4>1 DEF TimerMeets
      <4>3. timer[n] # "waiting"
        BY <2>4, <4>2 DEF Pace
      <4>4. NextPhase(st[n].phase) = timer[n]
        BY <1>6, <1>15, <2>6, <3>1, <4>3 DEF DueAt
      <4>5. st[n].r = c.r /\ NextPhase(Eff(round[c.r])) = timer[n]
        BY <4>2, <4>4
      <4>6. CallMeets(c, d, st'[n], round')
        BY <1>0, <1>3, <4>2, <4>5 DEF CallMeets
      <4>7. CallMeets(c, NoCall, st'[n], round')
        BY <1>9 DEF CallMeets
      <4> QED BY <1>7, <1>8, <3>1, <4>6, <4>7
    <3>2. CASE o # n
      BY <1>0, <1>4, <1>5, <1>6, <1>7, <2>3, <2>6, <3>2
    <3> QED BY <3>1, <3>2
  <2> QED BY <1>0, <1>6, <2>1, <2>3, <2>6
<1>20. Books'
  BY <1>0, <1>14, SameBooks
<1> QED BY <1>0, <1>6, <1>12, <1>13, <1>17, <1>18, <1>19, <1>20 DEF Parts

\* A node goes, or nothing changes but what is left of a loop: who leads now led before and is
\* where it was, and of the others less is left than before.
LEMMA LeaderGone ==
  ASSUME Safe, TypeOK', UNCHANGED <<mode, deposed, round, public>>, FencesFit',
         \A m \in Nodes : StillLeader(m)' =>
           /\ StillLeader(m) /\ timer'[m] = timer[m] /\ soon'[m] = soon[m] /\ st'[m] = st[m]
           /\ running'[m] = running[m] /\ call'[m] = call[m],
         \A m \in Nodes : running'[m] /\ timer'[m] # "none" => running[m] /\ timer[m] # "none",
         Unclaimed' => Unclaimed \/ Quiet,
         \A m \in Nodes : (call'[m] = call[m] /\ st'[m] = st[m]) \/ Loose(m)',
         \A m \in Nodes : StillLeader(m) /\ ~ StillLeader(m)' => Loose(m)',
         \A m \in Nodes : Stale(m)' => Stale(m),
         deposed = 0 => \A m \in Nodes : StillLeader(m)' \/ timer'[m] = "none"
  PROVE  Parts'
<1>0. \A m \in Nodes, j \in Slots :
        (call'[m][j] = call[m][j] /\ st'[m] = st[m]) \/ call'[m][j] = NoCall
  BY DEF Loose, NoCall
<1>1. NoCall.at = "none"
  BY DEF NoCall
<1>2. \A m \in Nodes : StillLeader(m)' => (Loose(m)' <=> Loose(m))
  BY DEF Loose, NoCall
<1>3. \A m \in Nodes, j \in Slots : ~ StillLeader(m)' /\ call'[m][j].at # "none" =>
        ~ StillLeader(m) /\ call'[m][j] = call[m][j] /\ st'[m] = st[m]
  BY <1>0, <1>1 DEF Loose, NoCall
<1>4. LoopsFit'
  <2>1. LoopsFit
    BY DEF Safe, Parts
  <2>2. ASSUME NEW m \in Nodes
        PROVE  /\ AtMostOne({j \in Slots : call[m][j] # NoCall})'
               /\ StillLeader(m)' /\ ~ running'[m] => Loose(m)' /\ timer'[m] = "none"
               /\ running'[m] /\ timer'[m] # "none" => Loose(m)'
               /\ Stale(m)' => deposed' = 1
               /\ deposed' = 0 /\ (StillLeader(m)' => ~ Loose(m)') => timer'[m] = "none"
    <3>1. AtMostOne({j \in Slots : call[m][j] # NoCall})'
      <4>1. \A j \in Slots : call'[m][j] # NoCall => call[m][j] # NoCall
        BY <1>0
      <4> QED BY <2>1, <4>1 DEF LoopsFit, AtMostOne, NoCall
    <3>2. StillLeader(m)' /\ ~ running'[m] => Loose(m)' /\ timer'[m] = "none"
      BY <1>2, <2>1 DEF LoopsFit
    <3>3. Stale(m)' => deposed' = 1
      BY <2>1 DEF LoopsFit
    <3>4. deposed' = 0 /\ (StillLeader(m)' => ~ Loose(m)') => timer'[m] = "none"
      BY <1>2, <2>1 DEF LoopsFit
    <3>5. running'[m] /\ timer'[m] # "none" => Loose(m)'
      <4>1. Loose(m) => Loose(m)'
        BY <1>0 DEF Loose, NoCall
      <4> QED BY <2>1, <4>1 DEF LoopsFit
    <3> QED BY <3>1, <3>2, <3>3, <3>4, <3>5
  <2>3. AtMostOne({m \in Nodes : Stale(m)})'
    BY <2>1 DEF LoopsFit, AtMostOne
  <2> QED BY <2>2, <2>3 DEF LoopsFit
<1>5. CallsFit'
  <2>1. \A m \in Nodes, j \in Slots : Fit(call[m][j], st[m], round)
    BY FitNow DEF Safe, Parts
  <2>2. \A m \in Nodes, j \in Slots : Fit(call'[m][j], st'[m], round)
    BY <1>0, <2>1, NoCallFits
  <2> QED BY <2>2, FitNext
<1>7. Watched' => Watched
  BY <1>3 DEF Watched
<1>6. ViewsFit'
  <2> SUFFICES ASSUME NEW m \in Nodes, StillLeader(m)'
               PROVE  /\ Loose(m)' /\ timer'[m] # "none" => DueAt(st'[m], timer'[m], round', Watched')
                      /\ \A j \in Slots : CallSeen(call'[m][j], st'[m], round', Watched')
    BY ViewNext
  <2>1. /\ Loose(m) /\ timer[m] # "none" => DueAt(st[m], timer[m], round, Watched)
        /\ \A j \in Slots : CallSeen(call[m][j], st[m], round, Watched)
    BY ViewNow DEF Safe, Parts
  <2>2. /\ Loose(m) /\ timer[m] # "none" => DueAt(st[m], timer[m], round, Watched')
        /\ \A j \in Slots : CallSeen(call[m][j], st[m], round, Watched')
    BY <1>7, <2>1, ViewsWeaken
  <2> QED BY <1>2, <2>2
<1>8. ASSUME mode = "steady" PROVE LiveFits'
  <2>1. LiveFits
    BY <1>8 DEF Safe, Parts
  <2>2. AtMostOne(LiveOf(round')) /\ (Watched' => AtMostOne(Open(round')))
    BY <1>7, <2>1, LiveNow
  <2>3. ASSUME NEW m \in Nodes, StillLeader(m)'
        PROVE  /\ Loose(m)' => TimerLive(timer'[m], st'[m], round', Watched')
               /\ \A j \in Slots : CallLive(call'[m][j], st'[m], round', Watched')
    <3>1. /\ Loose(m) => TimerLive(timer[m], st[m], round, Watched)
          /\ \A j \in Slots : CallLive(call[m][j], st[m], round, Watched)
      BY <2>1, <2>3, LiveNow
    <3> QED BY <1>2, <1>7, <2>3, <3>1 DEF TimerLive, CallLive
  <2> QED BY <2>2, <2>3, LiveNext
<1>9. ASSUME mode = "steady" PROVE StaleWritesFit'
  <2> SUFFICES ASSUME NEW m \in Nodes, NEW j \in Slots, ~ StillLeader(m)', call'[m][j].at = "write"
               PROVE  /\ StaleRow(call'[m][j], round') /\ (Unclaimed' => Ahead(call'[m][j], round'))
                      /\ \A n \in Nodes : StillLeader(n)' =>
                           /\ Loose(n)' => TimerMeets(call'[m][j], timer'[n], st'[n], soon'[n], round')
                           /\ \A k \in Slots : CallMeets(call'[m][j], call'[n][k], st'[n], round')
    BY StaleNext
  <2>1. ~ StillLeader(m) /\ call'[m][j] = call[m][j]
    BY <1>3
  <2>2. /\ StaleRow(call[m][j], round) /\ (Unclaimed => Ahead(call[m][j], round))
        /\ \A n \in Nodes : StillLeader(n) =>
             /\ Loose(n) => TimerMeets(call[m][j], timer[n], st[n], soon[n], round)
             /\ \A k \in Slots : CallMeets(call[m][j], call[n][k], st[n], round)
    BY <1>9, <2>1, StaleNow DEF Safe, Parts
  <2>3. ~ Quiet
    BY <1>1, <2>1 DEF Quiet
  <2> QED BY <1>2, <2>1, <2>2, <2>3
<1>10. Books'
  BY <1>7, SameBooks
<1> QED BY <1>4, <1>5, <1>6, <1>8, <1>9, <1>10 DEF Parts

\* A node forgets that it leads.
LEMMA ForgetFences ==
  ASSUME Safe, TypeOK', NEW n \in Nodes, Promise!Forget(n),
         used' = used \/ used' = [used EXCEPT ![n] = fence]
  PROVE  /\ FencesFit' /\ ~ StillLeader(n)' /\ token'[n] = NoFence
         /\ \A m \in Nodes : m # n => (StillLeader(m)' <=> StillLeader(m)) /\ token'[m] = token[m]
         /\ Unclaimed' => Unclaimed
<1>1. /\ token'[n] = NoFence /\ (\A m \in Nodes : m # n => token'[m] = token[m]) /\ grants' = grants
  BY DEF Promise!Forget, Safe, TypeOK
<1>2. fence' = fence /\ fence \in Nat
  BY <1>1, LeadIs DEF fence, Safe
<1>3. \A m \in Nodes : /\ used'[m] = used[m] \/ (m = n /\ used'[m] = fence)
                       /\ used[m] \in Nat /\ used[m] <= fence
  <2>1. \A m \in Nodes : used[m] \in Nat /\ used[m] <= fence
    BY DEF Safe, Parts, TypeOK, FencesFit
  <2>2. used \in [Nodes -> 0 .. MaxFence]
    BY DEF Safe, TypeOK
  <2> QED BY <2>1, <2>2
<1>4. ~ StillLeader(n)'
  BY <1>1, <1>2, EngineAssumption DEF StillLeader, Promise!StillLeader, Promise!fence, fence
<1>5. \A m \in Nodes : m # n => (StillLeader(m)' <=> StillLeader(m))
  BY <1>1, <1>2 DEF StillLeader, Promise!StillLeader, Promise!fence, fence
<1>6. FencesFit'
  <2>1. FencesFit
    BY DEF Safe, Parts
  <2>2. \A m \in Nodes : isLeader(m)' => m # n /\ isLeader(m)
    BY <1>1 DEF isLeader
  <2>3. \A m \in Nodes : used[m] <= used'[m] /\ used'[m] <= fence'
    BY <1>2, <1>3
  <2>4. \A m \in Nodes : isLeader(m)' => token'[m] <= used'[m] /\ grants'[token'[m]] = m
    BY <1>1, <1>3, <2>1, <2>2 DEF FencesFit
  <2>5. \A f \in 1 .. fence : grants[f] \in Nodes
    BY DEF Safe, TypeOK, fence
  <2>6. \A f \in 1 .. fence' - 1 : f <= used'[grants'[f]]
    <3> SUFFICES ASSUME NEW f \in 1 .. fence - 1 PROVE f <= used'[grants[f]]
      BY <1>1, <1>2
    <3>1. f \in 1 .. fence /\ f \in Nat
      BY <1>2
    <3>2. f <= used[grants[f]] /\ grants[f] \in Nodes
      BY <2>1, <2>5, <3>1 DEF FencesFit
    <3> QED BY <1>2, <1>3, <3>1, <3>2
  <2>7. fence > 0 /\ used'[grants[fence]] < fence => token'[grants[fence]] = NoFence
    <3> SUFFICES ASSUME fence > 0, used'[grants[fence]] < fence PROVE token'[grants[fence]] = NoFence
      OBVIOUS
    <3> DEFINE g == grants[fence]
    <3>1. g \in Nodes
      BY <1>2, <2>5
    <3>2. token[g] = NoFence \/ ~ (used[g] < fence)
      BY <2>1 DEF FencesFit, Unclaimed, isLeader
    <3> HIDE DEF g
    <3>3. used'[g] < fence
      BY DEF g
    <3>4. g = n \/ used[g] < fence
      BY <1>2, <1>3, <3>1, <3>3
    <3>5. token'[g] = NoFence
      BY <1>1, <3>1, <3>2, <3>4
    <3> QED BY <3>5 DEF g
  <2>8. (Unclaimed => ~ isLeader(grants[fence]))'
    BY <1>1, <1>2, <2>7 DEF isLeader, Unclaimed
  <2> QED BY <2>3, <2>4, <2>6, <2>8 DEF FencesFit
<1>7. Unclaimed' => Unclaimed
  <2> SUFFICES ASSUME fence > 0, used'[grants[fence]] < fence PROVE used[grants[fence]] < fence
    BY <1>1, <1>2 DEF Unclaimed
  <2>1. grants[fence] \in Nodes
    BY <1>2 DEF Safe, TypeOK, fence
  <2> QED BY <1>2, <1>3, <2>1
<1> QED BY <1>1, <1>4, <1>5, <1>6, <1>7

\* The loop of a node is stopped as it steps down or dies.
LEMMA Forgets ==
  ASSUME Safe, TypeOK', NEW n \in Nodes, Promise!Forget(n), Stop(n),
         used' = used \/ used' = [used EXCEPT ![n] = fence],
         UNCHANGED <<mode, deposed, round, public>>,
         \A m \in Nodes : m # n => call'[m] = call[m] /\ st'[m] = st[m],
         (call'[n] = call[n] /\ st'[n] = st[n] /\ (StillLeader(n) => Loose(n))) \/ Loose(n)'
  PROVE  Parts'
<1>1. /\ FencesFit' /\ ~ StillLeader(n)' /\ token'[n] = NoFence /\ (Unclaimed' => Unclaimed)
      /\ \A m \in Nodes : m # n => (StillLeader(m)' <=> StillLeader(m)) /\ token'[m] = token[m]
  BY ForgetFences
<1>2. /\ running'[n] = FALSE /\ timer'[n] = "none"
      /\ \A m \in Nodes : m # n => timer'[m] = timer[m] /\ soon'[m] = soon[m] /\ running'[m] = running[m]
  BY DEF Stop, Schedule, Safe, TypeOK
<1>3. StillLeader(n) => Loose(n)'
  BY DEF Loose, NoCall
<1>4. \A m \in Nodes : m # n => (Loose(m)' <=> Loose(m))
  BY DEF Loose, NoCall
<1>5. ASSUME NEW m \in Nodes, Stale(m)' PROVE Stale(m)
  <2>1. CASE m # n
    BY <1>1, <1>2, <1>4, <1>5, <2>1 DEF Stale, Retired
  <2>2. CASE m = n
    <3>1. ~ Loose(n)'
      BY <1>1, <1>2, <1>5, <2>2 DEF Stale, Retired
    <3>2. call'[n] = call[n] /\ ~ StillLeader(n)
      BY <1>3, <3>1
    <3>3. ~ Loose(n)
      BY <3>1, <3>2 DEF Loose, NoCall
    <3> QED BY <2>2, <3>2, <3>3 DEF Stale, Retired
  <2> QED BY <2>1, <2>2
<1>6. deposed = 0 => \A m \in Nodes : StillLeader(m)' \/ timer'[m] = "none"
  BY <1>1, <1>2 DEF Safe, Parts, LoopsFit
<1>7. \A m \in Nodes : StillLeader(m)' =>
        /\ StillLeader(m) /\ timer'[m] = timer[m] /\ soon'[m] = soon[m] /\ st'[m] = st[m]
        /\ running'[m] = running[m] /\ call'[m] = call[m]
  BY <1>1, <1>2
<1>8. \A m \in Nodes : (call'[m] = call[m] /\ st'[m] = st[m]) \/ Loose(m)'
  OBVIOUS
<1>9. \A m \in Nodes : StillLeader(m) /\ ~ StillLeader(m)' => Loose(m)'
  BY <1>1, <1>3
<1>10. \A m \in Nodes : running'[m] /\ timer'[m] # "none" => running[m] /\ timer[m] # "none"
  BY <1>2
<1> QED BY <1>1, <1>5, <1>6, <1>7, <1>8, <1>9, <1>10, LeaderGone

\* A leader steps down, is stepped down or dies.
LEMMA StepDown ==
  ASSUME Safe, TypeOK', NEW n \in Nodes, LeaderLost(n) \/ Deadman(n) \/ Crash(n)
  PROVE  Parts'
<1>1. CASE LeaderLost(n)
  BY <1>1, Forgets DEF LeaderLost, Keep
<1>2. CASE Deadman(n)
  <2>1. Loose(n)
    BY <1>2 DEF Deadman, Loose, Safe
  <2> QED BY <1>2, <2>1, Forgets DEF Deadman, Keep
<1>3. CASE Crash(n)
  <2>1. \A m \in Nodes : m # n => call'[m] = call[m] /\ st'[m] = st[m]
    BY <1>3 DEF Crash, Safe, TypeOK
  <2>2. Loose(n)'
    BY <1>3 DEF Crash, Safe, TypeOK, Loose, NoCall
  <2>3. /\ Promise!Forget(n) /\ Stop(n) /\ used' = [used EXCEPT ![n] = fence]
        /\ UNCHANGED <<mode, deposed, round, public>>
    BY <1>3 DEF Crash, Keep
  <2> QED BY <2>1, <2>2, <2>3, Forgets
<1> QED BY <1>1, <1>2, <1>3

\* A timer armed on a stopped loop does nothing.
LEMMA TimerFizzlesSafe ==
  ASSUME Safe, TypeOK', NEW n \in Nodes, TimerFizzles(n)
  PROVE  Parts'
<1>1. UNCHANGED <<leadVars, mode, round, public, running, st, call>> /\ ~ running[n] /\ timer[n] # "none"
  BY DEF TimerFizzles, Keep
<1>2. timer'[n] = "none" /\ \A m \in Nodes : m # n => timer'[m] = timer[m] /\ soon'[m] = soon[m]
  BY DEF TimerFizzles, Schedule, Safe, TypeOK
<1>3. /\ \A m \in Nodes : StillLeader(m)' <=> StillLeader(m)
      /\ deposed' = deposed /\ token' = token /\ FencesFit' /\ (Unclaimed' => Unclaimed)
  BY <1>1, SameLead DEF Safe, Parts
<1>4. ~ StillLeader(n)
  BY <1>1 DEF Safe, Parts, LoopsFit
<1>5. \A m \in Nodes : (Loose(m)' <=> Loose(m)) /\ (Stale(m)' <=> Stale(m))
  BY <1>1, <1>3 DEF Loose, NoCall, Stale, Retired
<1>6. deposed = 0 => \A m \in Nodes : StillLeader(m)' \/ timer'[m] = "none"
  BY <1>2, <1>3 DEF Safe, Parts, LoopsFit
<1>7. \A m \in Nodes : StillLeader(m)' =>
        /\ StillLeader(m) /\ timer'[m] = timer[m] /\ soon'[m] = soon[m] /\ st'[m] = st[m]
        /\ running'[m] = running[m] /\ call'[m] = call[m]
  BY <1>1, <1>2, <1>3, <1>4
<1>8. \A m \in Nodes : running'[m] /\ timer'[m] # "none" => running[m] /\ timer[m] # "none"
  BY <1>1, <1>2
<1> QED BY <1>1, <1>3, <1>5, <1>6, <1>7, <1>8, LeaderGone

\* A new fence is issued once the last one was taken up: then nobody leads.
LEMMA GrantFences ==
  ASSUME Safe, TypeOK', NEW n \in Nodes, Promise!Grant(n), used' = used, ~ isLeader(n),
         fence > 0 => fence <= used[grants[fence]]
  PROVE  FencesFit' /\ token' = token /\ \A m \in Nodes : ~ StillLeader(m)'
<1>0. fence \in Nat /\ token' = token /\ grants' = Append(grants, n) /\ grants \in Seq(Nodes)
  BY LeadIs DEF Safe, TypeOK, Promise!Grant
<1>1. /\ fence' = fence + 1 /\ grants'[fence + 1] = n
      /\ \A f \in 1 .. fence : grants'[f] = grants[f] /\ grants[f] \in Nodes
  BY <1>0 DEF fence
<1>2. FencesFit
  BY DEF Safe, Parts
<1>3. ASSUME NEW m \in Nodes, isLeader(m)
      PROVE  token[m] \in 1 .. fence /\ token[m] <= used[m] /\ grants'[token[m]] = m
  <2>1. token[m] \in 1 .. MaxFence /\ used[m] \in Nat
    BY <1>3 DEF isLeader, Safe, TypeOK
  <2>2. token[m] <= used[m] /\ grants[token[m]] = m /\ used[m] <= fence
    BY <1>2, <1>3 DEF FencesFit
  <2>3. token[m] \in 1 .. fence
    BY <1>0, <2>1, <2>2, EngineAssumption
  <2> QED BY <1>1, <2>2, <2>3
<1>4. \A m \in Nodes : used[m] <= fence /\ used[m] \in Nat
  BY <1>2 DEF FencesFit, Safe, TypeOK
<1>5. \A m \in Nodes : ~ StillLeader(m)'
  <2> SUFFICES ASSUME NEW m \in Nodes, StillLeader(m)' PROVE FALSE
    OBVIOUS
  <2>1. token[m] = fence + 1 /\ token[m] # NoFence
    BY <1>0, <1>1, EngineAssumption DEF StillLeader, Promise!StillLeader, Promise!fence, fence
  <2>2. token[m] \in 1 .. fence
    BY <1>3, <2>1 DEF isLeader
  <2> QED BY <1>0, <2>1, <2>2
<1>6. FencesFit'
  <2>1. \A m \in Nodes : used'[m] <= fence'
    BY <1>0, <1>1, <1>4
  <2>2. \A m \in Nodes : isLeader(m)' => token'[m] <= used'[m] /\ grants'[token'[m]] = m
    BY <1>0, <1>3 DEF isLeader
  <2>3. \A f \in 1 .. fence' - 1 : f <= used'[grants'[f]]
    <3>0. fence' - 1 = fence
      BY <1>0, <1>1
    <3> SUFFICES ASSUME NEW f \in 1 .. fence PROVE f <= used[grants[f]]
      BY <1>1, <3>0
    <3>1. CASE f = fence
      BY <1>0, <3>1
    <3>2. CASE f # fence
      <4>1. f \in 1 .. fence - 1
        BY <1>0, <3>2
      <4> QED BY <1>2, <4>1 DEF FencesFit
    <3> QED BY <3>1, <3>2
  <2>4. (~ isLeader(grants[fence]))'
    BY <1>0, <1>1 DEF isLeader
  <2> QED BY <2>1, <2>2, <2>3, <2>4 DEF FencesFit
<1> QED BY <1>0, <1>5, <1>6

\* A lock that was given up is won: nothing of a deposed leader is left, or the weather is tame
\* no more.
LEMMA ElectSafe ==
  ASSUME Safe, TypeOK', Tame', NEW n \in Nodes, Elect(n)
  PROVE  Parts'
<1>0. \A m \in Nodes : ~ StillLeader(m)
  BY DEF Elect, Vacant
<1>a. Quiet /\ deposed' = deposed
  <2>0. deposed' = (IF ~ Quiet THEN deposed + 1 ELSE deposed) /\ mode' = mode
    BY DEF Elect, Outlived, Keep, Safe
  <2>1. deposed \in Nat
    BY DEF Safe, TypeOK
  <2>2. CASE deposed = 0
    <3>0. \A m \in Nodes : Stale(m) => deposed = 1
      BY DEF Safe, Parts, LoopsFit
    <3>1. \A m \in Nodes : ~ Stale(m)
      BY <2>2, <3>0
    <3>2. \A m \in Nodes : Loose(m)
      BY <1>0, <3>1 DEF Stale, Retired
    <3>3. Quiet
      BY <3>2 DEF Quiet, Loose
    <3> QED BY <2>0, <3>3
  <2>3. CASE deposed # 0
    BY <2>0, <2>1, <2>3 DEF Tame
  <2> QED BY <2>2, <2>3
<1>1. /\ UNCHANGED <<mode, used, deposed, round, public, running, timer, soon, st, call>>
      /\ Vacant /\ ~ isLeader(n) /\ Promise!Grant(n)
  BY <1>a DEF Elect, Keep, loopVars
<1>2. fence > 0 => fence <= used[grants[fence]]
  <2> SUFFICES ASSUME fence > 0 PROVE fence <= used[grants[fence]]
    OBVIOUS
  <2>1. fence \in Nat /\ grants \in Seq(Nodes)
    BY LeadIs DEF Safe, TypeOK
  <2>2. grants[fence] \in Nodes
    BY <2>1 DEF fence
  <2>3. ~ (used[grants[fence]] < fence)
    BY <1>1, <2>2 DEF Vacant
  <2> QED BY <2>1, <2>2, <2>3 DEF Safe, TypeOK
<1>3. FencesFit' /\ token' = token /\ \A m \in Nodes : ~ StillLeader(m)'
  BY <1>1, <1>2, GrantFences
<1>4. \A m \in Nodes : ~ StillLeader(m)
  BY <1>1 DEF Vacant
<1>5. \A m \in Nodes : (Loose(m)' <=> Loose(m)) /\ (Stale(m)' => Stale(m))
  BY <1>1, <1>3, <1>4 DEF Loose, NoCall, Stale, Retired
<1>6. deposed = 0 => \A m \in Nodes : timer'[m] = "none"
  BY <1>1, <1>4 DEF Safe, Parts, LoopsFit
<1> QED BY <1>1, <1>3, <1>4, <1>5, <1>6, <1>a, LeaderGone

\* The leader is deposed with a call in flight: it is the first, and until now it was alone,
\* so that its write, if it has one, ends the phase of the only open round.
LEMMA DeposeSafe ==
  ASSUME Safe, TypeOK', Tame', NEW n \in Nodes, Depose(n)
  PROVE  Parts'
<1>1. /\ UNCHANGED <<mode, used, round, public, running, timer, soon, st, call>>
      /\ ~ isLeader(n) /\ Promise!Grant(n) /\ deposed' = deposed + 1
  BY DEF Depose, Keep, loopVars
<1>2. PICK o \in Nodes : StillLeader(o)
  BY DEF Depose
<1>3. deposed = 0 /\ deposed' = 1 /\ mode = "steady"
  <2>1. deposed \in Nat
    BY DEF Safe, TypeOK
  <2> QED BY <1>1, <2>1 DEF Tame
<1>4. fence > 0 => fence <= used[grants[fence]]
  <2>1. fence > 0 /\ token[o] = fence /\ isLeader(o)
    BY <1>2, LeadIs DEF Safe
  <2> QED BY <2>1 DEF Safe, Parts, FencesFit
<1>5. FencesFit' /\ token' = token /\ \A m \in Nodes : ~ StillLeader(m)'
  BY <1>1, <1>4, GrantFences
<1>6. ASSUME NEW m \in Nodes, m # o PROVE Retired(m) /\ Retired(m)'
  <2>1. ~ StillLeader(m)
    BY <1>2, <1>6, OneLeader DEF Safe, Parts
  <2>2. Retired(m)
    <3>1. LoopsFit
      BY DEF Safe, Parts
    <3>2. Stale(m) => deposed = 1
      BY <3>1 DEF LoopsFit
    <3>3. ~ Stale(m)
      BY <1>3, <3>2
    <3> QED BY <2>1, <3>3 DEF Stale
  <2> QED BY <1>1, <1>5, <2>2 DEF Retired, Loose, NoCall
<1>7. \A m \in Nodes : Stale(m)' => m = o
  BY <1>6 DEF Stale
<1>8. \A m \in Nodes, j \in Slots : call'[m][j] = call[m][j] /\ (call[m][j] # NoCall => m = o)
  BY <1>1, <1>6 DEF Retired, Loose
<1>9. LoopsFit'
  <2>1. \A m \in Nodes : AtMostOne({k \in Slots : call[m][k] # NoCall})'
    <3>1. \A m \in Nodes : AtMostOne({k \in Slots : call[m][k] # NoCall})
      BY DEF Safe, Parts, LoopsFit
    <3> QED BY <1>1, <3>1 DEF AtMostOne, NoCall
  <2>2. AtMostOne({m \in Nodes : Stale(m)})'
    BY <1>7 DEF AtMostOne
  <2>3. ASSUME NEW m \in Nodes, running'[m], timer'[m] # "none" PROVE Loose(m)'
    <3>1. Loose(m)
      BY <1>1, <2>3 DEF Safe, Parts, LoopsFit
    <3> QED BY <1>1, <3>1 DEF Loose, NoCall
  <2> QED BY <1>3, <1>5, <2>1, <2>2, <2>3 DEF LoopsFit
<1>10. CallsFit'
  BY <1>1, FitNow, FitNext DEF Safe, Parts
<1>11. ViewsFit'
  BY <1>5, ViewNext
<1>12. Watched /\ LiveFits
  BY <1>3 DEF Watched, Safe, Parts
<1>13. LiveFits'
  BY <1>1, <1>5, <1>12, LiveNow, LiveNext
<1>14. StaleWritesFit'
  <2> SUFFICES ASSUME NEW m \in Nodes, NEW j \in Slots, call[m][j].at = "write"
               PROVE  StaleRow(call[m][j], round) /\ Ahead(call[m][j], round)
    BY <1>1, <1>5, StaleNext
  <2>1. m = o
    BY <1>8 DEF NoCall
  <2> DEFINE c == call[m][j]
  <2>2. CallSeen(c, st[m], round, Watched)
    BY <1>2, <2>1, ViewNow DEF Safe, Parts
  <2>3. PICK p \in Phases : NextPhase(p) = c.fn /\ SeenAt(c.r, p, round, Watched)
    BY <2>2 DEF CallSeen
  <2>4. c.fn # "waiting"
    BY FitNow DEF Safe, Parts, Fit
  <2> HIDE DEF c
  <2>5. p # "completed" /\ c.r \in DOMAIN round /\ Eff(round[c.r]) = p
    BY <1>12, <2>3, <2>4, PhaseTable DEF SeenAt
  <2>6. c.r \in Open(round)
    BY <2>5 DEF Open, OPEN_PHASES
  <2>7. Open(round) = {c.r}
    BY <1>12, <2>6, LiveNow DEF AtMostOne
  <2> QED BY <2>3, <2>5, <2>7 DEF StaleRow, Ahead, c
<1>15. Books'
  BY <1>1, <1>12, SameBooks
<1> QED BY <1>3, <1>5, <1>9, <1>10, <1>11, <1>13, <1>14, <1>15 DEF Parts

\* The node the newest fence names takes it up, and looks for open rounds. It has no timer left
\* from before, or the weather is tame no more.
LEMMA AcquireSafe ==
  ASSUME Safe, TypeOK', Tame', NEW n \in Nodes, LeaderAcquired(n)
  PROVE  Parts'
<1> DEFINE d == [NoCall EXCEPT !.fn = "start", !.at = "read"]
<1>1. /\ UNCHANGED <<mode, round, public, timer, soon, st, grants>>
      /\ deposed' = IF timer[n] # "none" THEN deposed + 1 ELSE deposed
      /\ used' = [used EXCEPT ![n] = token'[n]] /\ running' = [running EXCEPT ![n] = TRUE]
      /\ token'[n] > used[n] /\ Loose(n)
  BY DEF LeaderAcquired, Keep, Promise!Believe, Safe, Loose, Outlived
<1>2. PICK f \in 1 .. fence : grants[f] = n /\ token' = [token EXCEPT ![n] = f]
  BY DEF LeaderAcquired, Promise!Believe, Promise!fence, fence
<1>3. PICK k \in Slots : SetCall(n, k, d)
  BY DEF LeaderAcquired, FreeSlot
<1>4. d.at = "read" /\ ~ d.safe /\ d # NoCall
  BY DEF NoCall
<1> HIDE DEF d
<1>5. /\ call'[n][k] = d /\ \A j \in Slots : j # k => call'[n][j] = NoCall
      /\ \A m \in Nodes : m # n => call'[m] = call[m]
  BY <1>1, <1>3, CallMove DEF Loose, Safe
<1>6. /\ token'[n] = f /\ used'[n] = f /\ running'[n] = TRUE
      /\ \A m \in Nodes : m # n => token'[m] = token[m] /\ used'[m] = used[m] /\ running'[m] = running[m]
  BY <1>1, <1>2 DEF Safe, TypeOK
<1>7. FencesFit /\ fence \in Nat /\ fence' = fence /\ grants' = grants
      /\ \A m \in Nodes : used[m] \in Nat /\ used[m] <= fence
  BY <1>1, LeadIs DEF Safe, Parts, TypeOK, FencesFit, fence
<1>8. f = fence /\ fence > 0 /\ used[n] < fence
  <2>1. f > used[n] /\ f \in Nat /\ used[n] \in Nat
    BY <1>1, <1>6, <1>7
  <2>2. f \in 1 .. fence - 1 => f <= used[n]
    BY <1>2, <1>7 DEF FencesFit
  <2> QED BY <1>7, <2>1, <2>2
<1>9. \A m \in Nodes : ~ StillLeader(m)
  <2> SUFFICES ASSUME NEW m \in Nodes, StillLeader(m) PROVE FALSE
    OBVIOUS
  <2>1. token[m] = fence /\ isLeader(m)
    BY LeadIs DEF Safe
  <2>2. m = n
    BY <1>2, <1>7, <1>8, <2>1 DEF FencesFit
  <2> QED BY <1>2, <1>7, <1>8, <2>1, <2>2 DEF FencesFit, Unclaimed
<1>a. timer[n] = "none" /\ deposed' = deposed
  <2>1. deposed \in Nat
    BY DEF Safe, TypeOK
  <2>2. CASE deposed = 0
    <3>1. timer[n] = "none"
      BY <1>9, <2>2 DEF Safe, Parts, LoopsFit
    <3> QED BY <1>1, <3>1
  <2>3. CASE deposed # 0
    BY <1>1, <2>1, <2>3 DEF Tame
  <2> QED BY <2>2, <2>3
<1>b. Unclaimed
  BY <1>2, <1>8 DEF Unclaimed
<1>10. StillLeader(n)' /\ \A m \in Nodes : m # n => ~ StillLeader(m)'
  <2>1. StillLeader(n)'
    BY <1>6, <1>7, <1>8 DEF StillLeader, Promise!StillLeader, Promise!fence, fence
  <2>2. \A m \in Nodes : m # n => ~ StillLeader(m)'
    BY <1>6, <1>7, <1>9 DEF StillLeader, Promise!StillLeader, Promise!fence, fence
  <2> QED BY <2>1, <2>2
<1>11. FencesFit'
  <2>0. \A g \in 1 .. fence : grants[g] \in Nodes
    BY DEF Safe, TypeOK, fence
  <2>1. \A m \in Nodes : used'[m] <= fence'
    BY <1>6, <1>7, <1>8
  <2>2. \A m \in Nodes : isLeader(m)' => token'[m] <= used'[m] /\ grants'[token'[m]] = m
    BY <1>2, <1>6, <1>7, <1>8 DEF FencesFit, isLeader
  <2>3. \A g \in 1 .. fence' - 1 : g <= used'[grants'[g]]
    <3> SUFFICES ASSUME NEW g \in 1 .. fence - 1 PROVE g <= used'[grants[g]]
      BY <1>7
    <3>1. g <= used[grants[g]] /\ grants[g] \in Nodes
      BY <1>7, <2>0 DEF FencesFit
    <3> QED BY <1>6, <1>7, <1>8, <3>1
  <2>4. (~ Unclaimed)'
    BY <1>2, <1>6, <1>7, <1>8 DEF Unclaimed
  <2> QED BY <2>1, <2>2, <2>3, <2>4 DEF FencesFit
<1>12. ~ Loose(n)' /\ \A m \in Nodes : m # n => (Loose(m)' <=> Loose(m))
  BY <1>4, <1>5 DEF Loose, NoCall
<1>13. \A m \in Nodes : Stale(m)' => m # n /\ Stale(m)
  BY <1>6, <1>9, <1>10, <1>12 DEF Stale, Retired
<1>c. ~ Unclaimed'
  BY <1>2, <1>6, <1>7, <1>8 DEF Unclaimed
<1>14. \A m \in Nodes, j \in Slots : m # n => call'[m][j] = call[m][j]
  BY <1>5
<1>15. LoopsFit'
  <2>1. LoopsFit
    BY DEF Safe, Parts
  <2>2. ASSUME NEW m \in Nodes PROVE AtMostOne({j \in Slots : call[m][j] # NoCall})'
    <3>1. CASE m = n
      BY <1>5, <3>1 DEF AtMostOne, NoCall
    <3>2. CASE m # n
      BY <1>14, <2>1, <3>2 DEF LoopsFit, AtMostOne, NoCall
    <3> QED BY <3>1, <3>2
  <2>3. \A m \in Nodes : StillLeader(m)' => running'[m]
    BY <1>6, <1>10
  <2>4. \A m \in Nodes : /\ Stale(m)' => deposed' = 1
                         /\ deposed' = 0 => timer'[m] = "none"
    BY <1>1, <1>9, <1>13, <1>a, <2>1 DEF LoopsFit
  <2>5. AtMostOne({m \in Nodes : Stale(m)})'
    BY <1>13, <2>1 DEF LoopsFit, AtMostOne
  <2>6. \A m \in Nodes : running'[m] /\ timer'[m] # "none" => Loose(m)'
    BY <1>1, <1>6, <1>12, <1>a, <2>1 DEF LoopsFit
  <2> QED BY <2>2, <2>3, <2>4, <2>5, <2>6 DEF LoopsFit
<1>16. \A s, rd, w, c :
         /\ Fit(d, s, rd) /\ CallSeen(d, s, rd, w) /\ CallSeen(NoCall, s, rd, w)
         /\ CallLive(d, s, rd, w) /\ CallLive(NoCall, s, rd, w)
         /\ (Ahead(c, rd) => CallMeets(c, d, s, rd)) /\ CallMeets(c, NoCall, s, rd)
  BY <1>4 DEF Fit, CallSeen, CallLive, CallMeets, NoCall
<1>17. \A j \in Slots : call'[n][j] = d \/ call'[n][j] = NoCall
  BY <1>5
<1>18. CallsFit'
  <2>1. \A m \in Nodes, j \in Slots : Fit(call[m][j], st[m], round)
    BY FitNow DEF Safe, Parts
  <2>2. \A m \in Nodes, j \in Slots : Fit(call'[m][j], st[m], round)
    BY <1>14, <1>16, <1>17, <2>1, NoCallFits
  <2> QED BY <1>1, <2>2, FitNext
<1>19. ViewsFit'
  BY <1>10, <1>12, <1>16, <1>17, ViewNext
<1>20. Watched' => Watched
  BY <1>9, <1>10, <1>14, <1>a DEF Watched
<1>21. ASSUME mode = "steady" PROVE LiveFits' /\ StaleWritesFit'
  <2>1. AtMostOne(LiveOf(round)) /\ (Watched => AtMostOne(Open(round)))
    BY <1>21, LiveNow DEF Safe, Parts
  <2>2. LiveFits'
    BY <1>1, <1>10, <1>12, <1>16, <1>17, <1>20, <2>1, LiveNext
  <2>3. ASSUME NEW m \in Nodes, NEW j \in Slots, ~ StillLeader(m)', call'[m][j].at = "write"
        PROVE  StaleRow(call'[m][j], round') /\ Ahead(call'[m][j], round')
    <3>1. call'[m][j] = call[m][j]
      BY <1>10, <1>14, <2>3
    <3>2. StaleRow(call[m][j], round) /\ Ahead(call[m][j], round)
      BY <1>9, <1>21, <1>b, <2>3, <3>1, StaleNow DEF Safe, Parts
    <3> QED BY <1>1, <3>1, <3>2
  <2>4. StaleWritesFit'
    BY <1>10, <1>12, <1>16, <1>17, <2>3, StaleNext
  <2> QED BY <2>2, <2>4
<1>22. Books'
  BY <1>1, <1>20, SameBooks
<1> QED BY <1>1, <1>11, <1>15, <1>18, <1>19, <1>21, <1>22 DEF Parts

(* ------------------------------------------------------------ the theorems *)

\* The inductive invariant.
EngineInv == TypeOK /\ CallsShaped /\ (Tame => Parts)

\* The invariant holds at the start: nobody leads and there is no round.
LEMMA InitSafe == Init => EngineInv
<1> SUFFICES ASSUME Init PROVE EngineInv
  OBVIOUS
<1>1. TypeOK /\ CallsShaped
  BY InitTypes
<1>2. /\ grants = << >> /\ token = [n \in Nodes |-> NoFence] /\ used = [n \in Nodes |-> 0] /\ deposed = 0
      /\ round = << >> /\ public = NoState /\ running = [n \in Nodes |-> FALSE]
      /\ timer = [n \in Nodes |-> "none"]
      /\ \A n \in Nodes, k \in Slots : call[n][k] = NoCall
  BY DEF Init, Promise!Init
<1>3. fence = 0 /\ \A n \in Nodes : ~ isLeader(n) /\ ~ StillLeader(n)
  BY <1>1, <1>2, LeadIs DEF fence, isLeader
<1>4. NoCall.at = "none"
  BY DEF NoCall
<1>5. Books
  BY <1>2 DEF Books, CacheOK
<1>6. FencesFit
  BY <1>2, <1>3 DEF FencesFit, Unclaimed
<1>7. \A n \in Nodes : Retired(n) /\ ~ Stale(n)
  BY <1>2 DEF Retired, Stale, Loose
<1>8. LoopsFit
  BY <1>2, <1>3, <1>4, <1>7 DEF LoopsFit, AtMostOne
<1>9. CallsFit
  BY <1>2, NoCallFits, FitNow
<1>10. ViewsFit
  BY <1>3, ViewNow
<1>11. LiveFits
  <2>1. Open(round) = {} /\ LiveOf(round) = {}
    BY <1>2 DEF Open, LiveOf
  <2> QED BY <1>3, <2>1, LiveNow DEF AtMostOne
<1>12. StaleWritesFit
  BY <1>2, <1>4, StaleNow
<1> QED BY <1>1, <1>5, <1>6, <1>8, <1>9, <1>10, <1>11, <1>12 DEF EngineInv, Parts

\* A mode is for good, and deposed leaders are only counted up.
LEMMA TameStays ==
  ASSUME TypeOK, [Next]_vars, Tame'
  PROVE  Tame /\ mode' = mode
<1>0. deposed \in Nat
  BY DEF TypeOK
<1>1. mode' = mode /\ (deposed' = deposed \/ deposed' = deposed + 1)
  <2>1. CASE UNCHANGED vars
    BY <2>1 DEF vars, leadVars
  <2>2. ASSUME NEW n \in Nodes,
               \/ Elect(n) \/ Depose(n) \/ LeaderAcquired(n) \/ LeaderLost(n)
               \/ Deadman(n) \/ Crash(n) \/ TimerFires(n) \/ TimerFizzles(n)
        PROVE  mode' = mode /\ (deposed' = deposed \/ deposed' = deposed + 1)
    BY <2>2 DEF Elect, Depose, LeaderAcquired, LeaderLost, Deadman, Crash, TimerFires, TimerFizzles,
                Outlived, Keep, leadVars
  <2>3. ASSUME NEW n \in Nodes, NEW k \in Slots,
               \/ Step(n, k) \/ ResumeAncient(n, k)
               \/ FenceErrs(n, k) \/ NoSeed(n, k) \/ Throws(n, k) \/ Deadline(n, k)
        PROVE  mode' = mode /\ deposed' = deposed
    BY <2>3 DEF Step, StartReads, Resume, Honor, FencePasses, FenceFails, Create, Write, Reveal, Publish,
                ResumeAncient, FenceErrs, NoSeed, Throws, Deadline, Keep, leadVars
  <2> QED BY <2>1, <2>2, <2>3 DEF Next
<1> QED BY <1>0, <1>1 DEF Tame

\* Nothing happens.
LEMMA StutterSafe ==
  ASSUME Safe, TypeOK', UNCHANGED vars
  PROVE  Parts'
<1>1. UNCHANGED <<leadVars, mode, deposed, round, public, running, timer, soon, st, call>>
  BY DEF vars, leadVars, loopVars
<1>2. /\ \A m \in Nodes : StillLeader(m)' <=> StillLeader(m)
      /\ token' = token /\ FencesFit' /\ (Unclaimed' => Unclaimed)
  BY <1>1, SameLead DEF Safe, Parts
<1>3. \A m \in Nodes : Stale(m)' => Stale(m)
  BY <1>1, <1>2 DEF Stale, Retired, Loose, NoCall
<1>4. deposed = 0 => \A m \in Nodes : StillLeader(m)' \/ timer'[m] = "none"
  BY <1>1, <1>2 DEF Safe, Parts, LoopsFit
<1> QED BY <1>1, <1>2, <1>3, <1>4, LeaderGone

\* Every step keeps the invariant, one lemma per handler.
LEMMA NextSafe ==
  ASSUME EngineInv, [Next]_vars
  PROVE  EngineInv'
<1>1. TypeOK /\ CallsShaped
  BY DEF EngineInv
<1>2. TypeOK' /\ CallsShaped'
  BY <1>1, NextTypes
<1>3. ASSUME Tame' PROVE Parts'
  <2>1. Tame /\ mode' = mode
    BY <1>1, <1>3, TameStays
  <2>2. Safe
    BY <1>1, <2>1 DEF EngineInv, Safe, Tame
  <2>3. CASE UNCHANGED vars
    BY <1>2, <2>2, <2>3, StutterSafe
  <2>4. ASSUME NEW n \in Nodes,
               \/ Elect(n) \/ Depose(n) \/ LeaderAcquired(n) \/ LeaderLost(n)
               \/ Deadman(n) \/ Crash(n) \/ TimerFires(n) \/ TimerFizzles(n)
        PROVE  Parts'
    BY <1>2, <1>3, <2>2, <2>4, ElectSafe, DeposeSafe, AcquireSafe, StepDown, TimerFiresSafe, TimerFizzlesSafe
  <2>5. ASSUME NEW n \in Nodes, NEW k \in Slots,
               \/ Step(n, k) \/ ResumeAncient(n, k)
               \/ FenceErrs(n, k) \/ NoSeed(n, k) \/ Throws(n, k) \/ Deadline(n, k)
        PROVE  Parts'
    <3>1. CASE FenceFails(n, k) \/ FenceErrs(n, k)
      <4>1. /\ call[n][k].at # "none" /\ EndCall(n, k) /\ Stop(n)
            /\ UNCHANGED <<leadVars, mode, round, public, st>>
        BY <3>1 DEF FenceFails, FenceErrs, Keep
      <4> QED BY <1>2, <2>2, <4>1, Stops
    <3>2. ~ Deadline(n, k)
      BY <2>2 DEF Deadline, Safe
    <3> QED BY <1>2, <2>2, <2>5, <3>1, <3>2, StartReadsSafe, ResumeSafe, HonorSafe, FencePassesSafe, CreateSafe,
               WriteSafe, RevealSafe, PublishSafe, AncientSafe, GivesUp DEF Step
  <2> QED BY <2>3, <2>4, <2>5 DEF Next
<1> QED BY <1>2, <1>3 DEF EngineInv

\* The invariant holds throughout.
LEMMA EngineKeeps == Spec => []EngineInv
<1>1. Init => EngineInv
  BY InitSafe
<1>2. EngineInv /\ [Next]_vars => EngineInv'
  BY NextSafe
<1> QED BY <1>1, <1>2, PTL DEF Spec

\* The properties are what it was for.
LEMMA PartsGive ==
  ASSUME EngineInv, Tame
  PROVE  RoundInv /\ OneLiveRound /\ CacheNeverAhead
<1>1. Parts /\ mode # "hanging"
  BY DEF EngineInv, Tame
<1>2. RevealedIsOver /\ SettledIsRevealed /\ CacheNeverAhead /\ RoundsFit
  BY <1>1, BooksNow DEF Parts
<1>3. RoundInv
  BY <1>1, <1>2 DEF RoundInv, RoundsKept, EngineInv, Parts
<1>4. OneLiveRound
  <2> SUFFICES ASSUME mode = "steady", NEW i \in OpenRounds, NEW j \in OpenRounds, i # j,
                      round[i].status # "waiting", round[j].status # "waiting"
               PROVE  FALSE
    BY DEF OneLiveRound
  <2>1. i \in Live /\ j \in Live
    BY DEF Live, Status
  <2>2. AtMostOne(Live)
    BY <1>1 DEF Parts, LiveFits
  <2> QED BY <2>1, <2>2 DEF AtMostOne
<1> QED BY <1>2, <1>3, <1>4

\* While the weather is tame (steady with at most one leader deposed against its will, or throwing
\* with none), for any number of nodes, rounds, fences and faults, and with timers that resume
\* and a crash point of 1.00 arm at 0 ms: a seed is revealed only after its crash is written,
\* settlement comes after the reveal, and every loop, call and view is where the next step
\* needs it to be.
THEOREM RoundsAreSafe == Spec => [](Tame => RoundInv)
<1>1. EngineInv => (Tame => RoundInv)
  BY PartsGive
<1> QED BY <1>1, EngineKeeps, PTL

\* At most one open round has ever taken bets, across failovers, crashes, failed fence reads
\* and one leader deposed with its transition in flight.
THEOREM OneRoundTakesBets == Spec => [](Tame => OneLiveRound)
<1>1. EngineInv => (Tame => OneLiveRound)
  BY PartsGive
<1> QED BY <1>1, EngineKeeps, PTL

\* No follower shows, or takes bets by, a phase that the round has not reached in the database,
\* where a crash that was written stays reached (enter*: the write before mirror).
THEOREM CacheIsNeverAhead == Spec => [](Tame => CacheNeverAhead)
<1>1. EngineInv => (Tame => CacheNeverAhead)
  BY PartsGive
<1> QED BY <1>1, EngineKeeps, PTL
=============================================================================
