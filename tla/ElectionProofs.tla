--------------------------- MODULE ElectionProofs ---------------------------
(***************************************************************************)
(* LockInv of Election is inductive, for any number of nodes, overlapping  *)
(* polls, sessions and faults; that one node at most passes                *)
(* assertStillLeader, and that the election implements Leadership, follow. *)
(***************************************************************************)
EXTENDS Election, TLAPS

USE ElectionAssumption

\* A session belongs to one node.
LEMMA SessionFacts ==
  /\ \A n \in Nodes : \A s \in SessionsOf(n) : s \in Sessions /\ s[1] = n
  /\ \A s \in Sessions : s[1] \in Nodes /\ s \in SessionsOf(s[1])
  BY DEF Sessions, SessionsOf

\* The polls a step can leave behind.
LEMMA PollTypes ==
  ASSUME NEW s \in Sessions \cup {NoSession}, NEW f \in 1 .. MaxFence \cup {NoFence},
         NEW at \in {"idle", "connect", "lock", "bump", "promote"}
  PROVE  /\ PollAt(at, s, f) \in PollType /\ NoPoll \in PollType
         /\ PollAt(at, s, f).at = at /\ PollAt(at, s, f).s = s /\ PollAt(at, s, f).f = f
         /\ NoPoll.at = "idle" /\ NoPoll.s = NoSession /\ NoPoll.f = NoFence
  BY DEF PollType, PollAt, NoPoll

\* A write of one poll keeps the types of the others.
LEMMA PollWrite ==
  ASSUME TypeOK, NEW n \in Nodes, NEW k \in Slots, NEW p \in PollType, poll' = [poll EXCEPT ![n][k] = p]
  PROVE  poll' \in [Nodes -> [Slots -> PollType]]
  BY DEF TypeOK

-----------------------------------------------------------------------------
(* What the actions with an early return do, as equations.                 *)

TryLockEffect(n, k) ==
  LET s == poll[n][k].s
      won == Answers(s) /\ CanLock(s)
  IN  /\ poll[n][k].at = "lock"
      /\ holder' = IF won THEN s ELSE holder
      /\ depth' = IF won THEN depth + 1 ELSE depth
      /\ poll' = [poll EXCEPT ![n][k] = IF won THEN PollAt("bump", s, NoFence) ELSE NoPoll]
      /\ UNCHANGED <<slow, faults, sess, grants, nodeVars, connVars, beat, leaving>>

LEMMA TryLockEffectHolds ==
  ASSUME NEW n \in Nodes, NEW k \in Slots, TryLock(n, k)
  PROVE  TryLockEffect(n, k)
<1>1. CASE Answers(poll[n][k].s) /\ CanLock(poll[n][k].s)
  BY <1>1 DEF TryLock, TryLockEffect, SetPoll, NoFault
<1>2. CASE ~(Answers(poll[n][k].s) /\ CanLock(poll[n][k].s))
  BY <1>2 DEF TryLock, TryLockEffect, SetPoll, NoFault
<1> QED BY <1>1, <1>2

BumpEffect(n, k) ==
  LET s == poll[n][k].s
  IN  /\ poll[n][k].at = "bump"
      /\ Answers(s) => fence < MaxFence
      /\ grants' = IF Answers(s) THEN Append(grants, n) ELSE grants
      /\ poll' = [poll EXCEPT ![n][k] = IF Answers(s) THEN PollAt("promote", s, fence + 1) ELSE NoPoll]
      /\ UNCHANGED <<slow, faults, sess, holder, depth, nodeVars, connVars, beat, leaving>>

LEMMA BumpEffectHolds ==
  ASSUME NEW n \in Nodes, NEW k \in Slots, Bump(n, k)
  PROVE  BumpEffect(n, k)
<1>1. CASE Answers(poll[n][k].s)
  BY <1>1 DEF Bump, BumpEffect, SetPoll, NoFault
<1>2. CASE ~Answers(poll[n][k].s)
  BY <1>2 DEF Bump, BumpEffect, SetPoll, NoFault
<1> QED BY <1>1, <1>2

\* The client of node n is closed, if closes.
CloseEffect(n, closes) ==
  /\ closing' = [closing EXCEPT ![n] = IF closes THEN client[n] ELSE @]
  /\ sess' = [s \in Sessions |-> IF closes /\ s = client[n] /\ sess[s] = "live" THEN "closing" ELSE sess[s]]

LEMMA CloseEffectHolds ==
  ASSUME TypeOK, NEW n \in Nodes
  PROVE  /\ BeginClose(n) => CloseEffect(n, TRUE)
         /\ UNCHANGED <<sess, closing>> => CloseEffect(n, FALSE)
<1> USE DEF TypeOK, CloseEffect
<1>1. ASSUME BeginClose(n), Answers(client[n])
      PROVE  CloseEffect(n, TRUE)
  BY <1>1 DEF BeginClose, Answers
<1>2. ASSUME BeginClose(n), ~Answers(client[n])
      PROVE  CloseEffect(n, TRUE)
  BY <1>2 DEF BeginClose, Answers
<1>3. UNCHANGED <<sess, closing>> => CloseEffect(n, FALSE)
  OBVIOUS
<1> QED BY <1>1, <1>2, <1>3

\* The steps that demote a node, if it still leads.
DemoteStep(n) == BeatWithoutClient(n) \/ BeatReturns(n) \/ StepDownDemotes(n)

DemoteEffect(n) ==
  \E lost \in BOOLEAN :
    /\ lost => leader[n]
    /\ leader' = [leader EXCEPT ![n] = @ /\ ~lost]
    /\ myFence' = [myFence EXCEPT ![n] = IF lost THEN NoFence ELSE @]
    /\ beating' \in [Nodes -> BOOLEAN] /\ polling' \in [Nodes -> BOOLEAN]
    /\ closing' = [closing EXCEPT ![n] = IF lost THEN client[n] ELSE @]
    /\ sess' = [s \in Sessions |-> IF lost /\ s = client[n] /\ sess[s] = "live" THEN "closing" ELSE sess[s]]
    /\ beat' \in {beat, [beat EXCEPT ![n] = NoSession]}
    /\ leaving' \in [Nodes -> BOOLEAN]
    /\ UNCHANGED <<slow, faults, holder, depth, grants, stopped, client, poll>>

LEMMA DemoteEffectHolds ==
  ASSUME TypeOK, NEW n \in Nodes, DemoteStep(n)
  PROVE  DemoteEffect(n)
<1>1. /\ UNCHANGED <<slow, faults, holder, depth, grants, client, poll>>
      /\ beat' \in {beat, [beat EXCEPT ![n] = NoSession]}
      /\ leaving' \in [Nodes -> BOOLEAN]
      /\ Demote(n) \/ UNCHANGED <<nodeVars, sess, closing>>
  BY DEF DemoteStep, BeatWithoutClient, BeatReturns, StepDownDemotes, NoFault, callVars, TypeOK
<1>2. CASE leader[n] /\ Demote(n)
  <2>1. CloseEffect(n, TRUE)
    BY <1>2, CloseEffectHolds DEF Demote
  <2> QED BY <1>1, <1>2, <2>1 DEF DemoteEffect, CloseEffect, Demote, TypeOK
<1>3. CASE UNCHANGED <<nodeVars, sess, closing>>
  <2> USE DEF DemoteEffect
  <2>1. CloseEffect(n, FALSE)
    BY <1>3, CloseEffectHolds
  <2>2. leader' = [leader EXCEPT ![n] = @ /\ ~FALSE]
    BY <1>3 DEF nodeVars, TypeOK
  <2>3. myFence' = [myFence EXCEPT ![n] = IF FALSE THEN NoFence ELSE @]
    BY <1>3 DEF nodeVars, TypeOK
  <2> WITNESS FALSE \in BOOLEAN
  <2> QED BY <1>1, <1>3, <2>1, <2>2, <2>3 DEF CloseEffect, nodeVars, TypeOK
<1> QED BY <1>1, <1>2, <1>3 DEF Demote

\* One level of the lock is released.
Releases(n) == leader[n] /\ Answers(client[n]) /\ holder = client[n]
ReleaseEffect(n) ==
  /\ depth' = IF Releases(n) THEN depth - 1 ELSE depth
  /\ holder' = IF Releases(n) /\ depth = 1 THEN NoSession ELSE holder

StepDownEffect(n) ==
  /\ leader[n] /\ ReleaseEffect(n) /\ Fault
  /\ leaving' \in [Nodes -> BOOLEAN]
  /\ UNCHANGED <<slow, sess, grants, nodeVars, connVars, poll, beat>>

LEMMA StepDownEffectHolds ==
  ASSUME TypeOK, NEW n \in Nodes, StepDown(n)
  PROVE  StepDownEffect(n)
  BY DEF StepDown, StepDownEffect, ReleaseEffect, Releases, Unlock, TypeOK

DestroyEffect(n) ==
  /\ Fault /\ ReleaseEffect(n) /\ CloseEffect(n, TRUE)
  /\ leader' = [leader EXCEPT ![n] = FALSE]
  /\ stopped' \in [Nodes -> BOOLEAN] /\ polling' \in [Nodes -> BOOLEAN] /\ beating' \in [Nodes -> BOOLEAN]
  /\ UNCHANGED <<slow, grants, myFence, client, callVars>>

LEMMA DestroyEffectHolds ==
  ASSUME TypeOK, NEW n \in Nodes, Destroy(n)
  PROVE  DestroyEffect(n)
<1>1. CloseEffect(n, TRUE)
  BY CloseEffectHolds DEF Destroy
<1>2. ReleaseEffect(n)
  BY DEF Destroy, ReleaseEffect, Releases, Unlock
<1> QED BY <1>1, <1>2 DEF Destroy, DestroyEffect, TypeOK

-----------------------------------------------------------------------------
(* LockInv is inductive: one lemma per part, one step per action.          *)

\* Types are kept.
LEMMA TypeNext ==
  ASSUME TypeOK, SessionsInUse, [Next]_vars
  PROVE  TypeOK'
<1> USE DEF TypeOK, fence, NoFault, SetPoll, dbVars, nodeVars, connVars, callVars
<1>1. ASSUME NEW n \in Nodes, NEW k \in Slots, Tick(n, k)
      PROVE  TypeOK'
  <2>1. PICK p \in PollType : poll' = [poll EXCEPT ![n][k] = p]
    <3>1. PollAt(IF client[n] = NoSession THEN "connect" ELSE "lock", client[n], NoFence) \in PollType
      BY DEF PollAt, PollType
    <3> QED BY <1>1, <3>1 DEF Tick
  <2>2. poll' \in [Nodes -> [Slots -> PollType]]
    BY <2>1, PollWrite
  <2> QED BY <1>1, <2>2 DEF Tick
<1>2. ASSUME NEW n \in Nodes, NEW k \in Slots, Connect(n, k)
      PROVE  TypeOK'
  <2>1. PICK p \in PollType : poll' = [poll EXCEPT ![n][k] = p]
    BY <1>2, PollTypes, SessionFacts DEF Connect, FreeSession
  <2>2. poll' \in [Nodes -> [Slots -> PollType]]
    BY <2>1, PollWrite
  <2> QED BY <1>2, <2>2, SessionFacts DEF Connect, FreeSession
<1>3. ASSUME NEW n \in Nodes, NEW k \in Slots, ConnectFails(n, k)
      PROVE  TypeOK'
  <2>1. PICK p \in PollType : poll' = [poll EXCEPT ![n][k] = p]
    BY <1>3, PollTypes DEF ConnectFails
  <2>2. poll' \in [Nodes -> [Slots -> PollType]]
    BY <2>1, PollWrite
  <2> QED BY <1>3, <2>2 DEF ConnectFails, Fault
<1>4. ASSUME NEW n \in Nodes, NEW k \in Slots, TryLock(n, k)
      PROVE  TypeOK'
  <2>0. TryLockEffect(n, k)
    BY <1>4, TryLockEffectHolds
  <2>1. PICK p \in PollType : poll' = [poll EXCEPT ![n][k] = p]
    <3>1. poll[n][k].s \in Sessions \cup {NoSession}
      BY DEF PollType
    <3> QED BY <2>0, <3>1, PollTypes DEF TryLockEffect
  <2>2. poll' \in [Nodes -> [Slots -> PollType]]
    BY <2>1, PollWrite
  <2>3. poll[n][k].s \in Sessions \cup {NoSession}
    BY DEF PollType
  <2> QED BY <2>0, <2>2, <2>3 DEF TryLockEffect, Answers
<1>5. ASSUME NEW n \in Nodes, NEW k \in Slots, Bump(n, k)
      PROVE  TypeOK'
  <2>0. BumpEffect(n, k)
    BY <1>5, BumpEffectHolds
  <2>1. PICK p \in PollType : poll' = [poll EXCEPT ![n][k] = p]
    <3>1. poll[n][k].s \in Sessions \cup {NoSession}
      BY DEF PollType
    <3>2. Answers(poll[n][k].s) => fence + 1 \in 1 .. MaxFence \cup {NoFence}
      BY <2>0 DEF BumpEffect
    <3>3. CASE Answers(poll[n][k].s)
      BY <2>0, <3>1, <3>2, <3>3, PollTypes DEF BumpEffect
    <3>4. CASE ~Answers(poll[n][k].s)
      BY <2>0, <3>1, <3>4, PollTypes DEF BumpEffect
    <3> QED BY <3>3, <3>4
  <2>2. poll' \in [Nodes -> [Slots -> PollType]]
    BY <2>1, PollWrite
  <2> QED BY <2>0, <2>2 DEF BumpEffect
<1>6. ASSUME NEW n \in Nodes, NEW k \in Slots, Promote(n, k)
      PROVE  TypeOK'
  <2>1. PICK p \in PollType : poll' = [poll EXCEPT ![n][k] = p]
    BY <1>6, PollTypes DEF Promote
  <2>2. poll' \in [Nodes -> [Slots -> PollType]]
    BY <2>1, PollWrite
  <2> QED BY <1>6, <2>2 DEF Promote, PollType
<1>7. ASSUME NEW n \in Nodes, Beat(n)
      PROVE  TypeOK'
  BY <1>7, SessionFacts DEF Beat
<1>8. ASSUME NEW n \in Nodes, DemoteStep(n)
      PROVE  TypeOK'
  <2>1. DemoteEffect(n)
    BY <1>8, DemoteEffectHolds
  <2>2. PICK lost \in BOOLEAN : /\ myFence' = [myFence EXCEPT ![n] = IF lost THEN NoFence ELSE @]
                                /\ leader' = [leader EXCEPT ![n] = @ /\ ~lost]
    BY <2>1 DEF DemoteEffect
  <2>5. myFence' \in [Nodes -> 1 .. MaxFence \cup {NoFence}] /\ leader' \in [Nodes -> BOOLEAN]
    BY <2>2
  <2>3. beat' \in [Nodes -> Sessions \cup {NoSession}]
    BY <2>1 DEF DemoteEffect
  <2>6. closing' \in [Nodes -> Sessions \cup {NoSession}]
    BY <2>1 DEF DemoteEffect
  <2>4. sess' \in [Sessions -> {"free", "live", "closing", "broken"}]
    BY <2>1 DEF DemoteEffect
  <2> QED BY <2>1, <2>3, <2>4, <2>5, <2>6 DEF DemoteEffect
<1>9. ASSUME NEW n \in Nodes, StepDown(n)
      PROVE  TypeOK'
  <2>1. StepDownEffect(n)
    BY <1>9, StepDownEffectHolds
  <2>2. holder' \in Sessions \cup {NoSession} /\ depth' \in Nat
    BY <2>1 DEF StepDownEffect, ReleaseEffect, Releases, Answers, SessionsInUse
  <2> QED BY <2>1, <2>2 DEF StepDownEffect, Fault
<1>10. ASSUME NEW n \in Nodes, CloseReturns(n)
      PROVE  TypeOK'
  BY <1>10, SessionFacts DEF CloseReturns
<1>11. ASSUME NEW n \in Nodes, Destroy(n)
      PROVE  TypeOK'
  <2>1. DestroyEffect(n)
    BY <1>11, DestroyEffectHolds
  <2>2. holder' \in Sessions \cup {NoSession} /\ depth' \in Nat
    BY <2>1 DEF DestroyEffect, ReleaseEffect, Releases, Answers, SessionsInUse
  <2> QED BY <2>1, <2>2 DEF DestroyEffect, CloseEffect, Fault
<1>12. ASSUME NEW n \in Nodes, ReadFence(n)
      PROVE  TypeOK'
  BY <1>12, SessionFacts DEF ReadFence, FreeSession
<1>13. ASSUME NEW n \in Nodes, Crash(n)
      PROVE  TypeOK'
  <2>1. [k \in Slots |-> NoPoll] \in [Slots -> PollType]
    BY PollTypes
  <2> QED BY <1>13, <2>1 DEF Crash, Fault
<1>14. ASSUME NEW s \in Sessions, Break(s)
      PROVE  TypeOK'
  BY <1>14, SessionFacts DEF Break, Fault
<1>15. ASSUME NEW s \in Sessions, Reap(s)
      PROVE  TypeOK'
  BY <1>15, SessionFacts DEF Reap, Forgotten
<1>16. CASE UNCHANGED vars
  BY <1>16 DEF vars
<1> QED BY <1>1, <1>2, <1>3, <1>4, <1>5, <1>6, <1>7, <1>8, <1>9, <1>10, <1>11, <1>12, <1>13, <1>14, <1>15, <1>16 DEF Next, Polls, Faulty, Answered, DemoteStep

\* A poll that carries no new fence keeps the fences issued.
LEMMA PollKeepsFences ==
  ASSUME TypeOK, FencesAreIssued, NEW n \in Nodes, NEW k \in Slots, NEW p,
         poll' = [poll EXCEPT ![n][k] = p], p.at # "promote", UNCHANGED <<grants, leader, myFence>>
  PROVE  FencesAreIssued'
<1>1. ASSUME NEW m \in Nodes, NEW j \in Slots
      PROVE  poll'[m][j] = IF m = n /\ j = k THEN p ELSE poll[m][j]
  BY DEF TypeOK
<1> QED BY <1>1 DEF FencesAreIssued, fence

\* A fence is issued to a node before the node carries it.
LEMMA FencesNext ==
  ASSUME TypeOK, FencesAreIssued, [Next]_vars
  PROVE  FencesAreIssued'
<1> USE DEF NoFault, SetPoll, dbVars, nodeVars, connVars, callVars
<1>1. ASSUME NEW n \in Nodes, NEW k \in Slots, Tick(n, k)
      PROVE  FencesAreIssued'
  <2>1. PollAt(IF client[n] = NoSession THEN "connect" ELSE "lock", client[n], NoFence).at # "promote"
    BY DEF PollAt
  <2> QED BY <1>1, <2>1, PollKeepsFences DEF Tick
<1>2. ASSUME NEW n \in Nodes, NEW k \in Slots, Connect(n, k)
      PROVE  FencesAreIssued'
  <2>1. PICK s : poll' = [poll EXCEPT ![n][k] = PollAt("lock", s, NoFence)]
    BY <1>2 DEF Connect
  <2>2. PollAt("lock", s, NoFence).at # "promote" /\ UNCHANGED <<grants, leader, myFence>>
    BY <1>2 DEF PollAt, Connect
  <2> QED BY <2>1, <2>2, PollKeepsFences
<1>3. ASSUME NEW n \in Nodes, NEW k \in Slots, ConnectFails(n, k)
      PROVE  FencesAreIssued'
  <2>1. NoPoll.at # "promote"
    BY DEF PollAt, NoPoll
  <2> QED BY <1>3, <2>1, PollKeepsFences DEF ConnectFails
<1>4. ASSUME NEW n \in Nodes, NEW k \in Slots, TryLock(n, k)
      PROVE  FencesAreIssued'
  <2>1. PollAt("bump", poll[n][k].s, NoFence).at # "promote" /\ NoPoll.at # "promote"
    BY DEF PollAt, NoPoll
  <2> QED BY <1>4, <2>1, PollKeepsFences DEF TryLock
<1>5. ASSUME NEW n \in Nodes, NEW k \in Slots, Bump(n, k)
      PROVE  FencesAreIssued'
  <2>1. CASE ~Answers(poll[n][k].s)
    <3>1. NoPoll.at # "promote"
      BY DEF PollAt, NoPoll
    <3> QED BY <1>5, <2>1, <3>1, PollKeepsFences DEF Bump
  <2>2. CASE Answers(poll[n][k].s)
    <3> DEFINE p == PollAt("promote", poll[n][k].s, fence + 1)
    <3>1. p.at = "promote" /\ p.f = fence + 1
      BY DEF PollAt
    <3>2. grants' = Append(grants, n) /\ poll' = [poll EXCEPT ![n][k] = p] /\ UNCHANGED <<leader, myFence>>
      BY <1>5, <2>2 DEF Bump
    <3> HIDE DEF p
    <3>3. fence \in Nat /\ fence' = fence + 1 /\ grants'[fence + 1] = n /\ \A f \in 1 .. fence : grants'[f] = grants[f]
      BY <3>2 DEF TypeOK, fence
    <3>4. ASSUME NEW m \in Nodes, NEW j \in Slots
          PROVE  poll'[m][j] = IF m = n /\ j = k THEN p ELSE poll[m][j]
      BY <3>2 DEF TypeOK
    <3>5. ASSUME NEW m \in Nodes
          PROVE  /\ leader'[m] => myFence'[m] # NoFence
                 /\ myFence'[m] # NoFence => myFence'[m] \in 1 .. fence' /\ grants'[myFence'[m]] = m
      <4>1. leader'[m] = leader[m] /\ myFence'[m] = myFence[m]
        BY <3>2
      <4>2. ASSUME myFence[m] # NoFence
            PROVE  myFence[m] \in 1 .. fence' /\ grants'[myFence[m]] = m
        BY <3>3, <4>2 DEF FencesAreIssued
      <4> QED BY <4>1, <4>2 DEF FencesAreIssued
    <3>6. ASSUME NEW m \in Nodes, NEW j \in Slots, poll'[m][j].at = "promote"
          PROVE  poll'[m][j].f \in 1 .. fence' /\ grants'[poll'[m][j].f] = m
      <4>1. CASE m = n /\ j = k
        BY <3>1, <3>3, <3>4, <4>1
      <4>2. CASE ~(m = n /\ j = k)
        BY <3>3, <3>4, <3>6, <4>2 DEF FencesAreIssued
      <4> QED BY <4>1, <4>2
    <3> QED BY <3>5, <3>6 DEF FencesAreIssued
  <2> QED BY <2>1, <2>2
<1>6. ASSUME NEW n \in Nodes, NEW k \in Slots, Promote(n, k)
      PROVE  FencesAreIssued'
  <2>1. ASSUME NEW m \in Nodes, NEW j \in Slots
        PROVE  poll'[m][j] = IF m = n /\ j = k THEN NoPoll ELSE poll[m][j]
    BY <1>6 DEF Promote, TypeOK
  <2>2. NoPoll.at # "promote"
    BY DEF PollAt, NoPoll
  <2>3. poll[n][k].f \in 1 .. fence /\ grants[poll[n][k].f] = n
    BY <1>6 DEF Promote, FencesAreIssued
  <2>4. fence' = fence /\ grants' = grants
    BY <1>6 DEF Promote, fence
  <2>5. ASSUME NEW m \in Nodes
        PROVE  /\ leader'[m] => myFence'[m] # NoFence
               /\ myFence'[m] # NoFence => myFence'[m] \in 1 .. fence /\ grants[myFence'[m]] = m
    <3>1. fence \in Nat
      BY DEF TypeOK, fence
    <3>2. /\ leader'[m] = IF m = n THEN TRUE ELSE leader[m]
          /\ myFence'[m] = IF m = n THEN poll[n][k].f ELSE myFence[m]
      BY <1>6 DEF Promote, TypeOK
    <3> QED BY <2>3, <3>1, <3>2 DEF FencesAreIssued
  <2>6. ASSUME NEW m \in Nodes, NEW j \in Slots, poll'[m][j].at = "promote"
        PROVE  poll'[m][j].f \in 1 .. fence /\ grants[poll'[m][j].f] = m
    BY <2>1, <2>2, <2>6 DEF FencesAreIssued
  <2> QED BY <2>4, <2>5, <2>6 DEF FencesAreIssued
<1>7. ASSUME NEW n \in Nodes, DemoteStep(n)
      PROVE  FencesAreIssued'
  <2>1. DemoteEffect(n)
    BY <1>7, DemoteEffectHolds
  <2>2. PICK lost \in BOOLEAN : /\ lost => leader[n]
                                /\ leader' = [leader EXCEPT ![n] = @ /\ ~lost]
                                /\ myFence' = [myFence EXCEPT ![n] = IF lost THEN NoFence ELSE @]
                                /\ UNCHANGED <<grants, poll>>
    BY <2>1 DEF DemoteEffect
  <2>3. CASE lost
    BY <2>2, <2>3 DEF FencesAreIssued, TypeOK, fence
  <2>4. CASE ~lost
    BY <2>2, <2>4 DEF FencesAreIssued, TypeOK, fence
  <2> QED BY <2>3, <2>4
<1>8. ASSUME NEW n \in Nodes, Destroy(n)
      PROVE  FencesAreIssued'
  BY <1>8 DEF Destroy, FencesAreIssued, TypeOK, fence
<1>9. ASSUME NEW n \in Nodes, Crash(n)
      PROVE  FencesAreIssued'
  <2>1. NoPoll.at # "promote"
    BY DEF PollAt, NoPoll
  <2> QED BY <1>9, <2>1 DEF Crash, FencesAreIssued, TypeOK, fence
<1>10. CASE UNCHANGED <<grants, leader, myFence, poll>>
  BY <1>10 DEF FencesAreIssued, fence
<1>11. ASSUME NEW n \in Nodes, Beat(n) \/ StepDown(n) \/ CloseReturns(n) \/ ReadFence(n)
       PROVE  UNCHANGED <<grants, leader, myFence, poll>>
  BY <1>11 DEF Beat, StepDown, CloseReturns, ReadFence
<1>12. ASSUME NEW s \in Sessions, Break(s) \/ Reap(s)
       PROVE  UNCHANGED <<grants, leader, myFence, poll>>
  BY <1>12 DEF Break, Reap
<1>13. CASE UNCHANGED vars
  BY <1>10, <1>13 DEF vars
<1> QED BY <1>1, <1>2, <1>3, <1>4, <1>5, <1>6, <1>7, <1>8, <1>9, <1>10, <1>11, <1>12, <1>13
       DEF Next, Polls, Faulty, Answered, DemoteStep

\* Nothing in use is freed, and no node refers to a session it did not refer to.
LEMMA UseKept ==
  ASSUME TypeOK, SessionsInUse,
         \A s \in Sessions : sess'[s] = "free" => sess[s] = "free",
         \A m \in Nodes : client'[m] \in {client[m], NoSession},
         \A m \in Nodes : closing'[m] \in {closing[m], client[m], NoSession},
         \A m \in Nodes : beat'[m] \in {beat[m], client[m], NoSession},
         \A m \in Nodes, j \in Slots :
            \/ poll'[m][j] = poll[m][j] \/ poll'[m][j] = NoPoll
            \/ poll'[m][j].at # "idle" /\ poll'[m][j].s \in {poll[m][j].s, client[m]},
         holder' \in Sessions \cup {NoSession},
         holder' # NoSession => sess[holder'] # "free",
         holder' = NoSession <=> depth' = 0
  PROVE  SessionsInUse'
<1>1. \A m \in Nodes : \A s : InUse(m, s) => s = NoSession \/ (s \in SessionsOf(m) /\ sess'[s] # "free")
  BY SessionFacts DEF InUse
<1>2. NoPoll.s = NoSession /\ NoPoll.at = "idle"
  BY DEF NoPoll, PollAt
<1>3. ASSUME NEW m \in Nodes
      PROVE  /\ InUse(m, client[m])' /\ InUse(m, closing[m])' /\ InUse(m, beat[m])'
  BY <1>1 DEF SessionsInUse, InUse
<1>4. ASSUME NEW m \in Nodes, NEW j \in Slots
      PROVE  InUse(m, poll[m][j].s)' /\ (poll'[m][j].at = "idle" => poll'[m][j] = NoPoll)
  BY <1>1, <1>2 DEF SessionsInUse, InUse
<1>5. holder' # NoSession => sess'[holder'] # "free"
  OBVIOUS
<1> QED BY <1>3, <1>4, <1>5 DEF SessionsInUse, NoPoll, PollAt

\* A session that a node or the lock refers to is not handed out again.
LEMMA SessionsNext ==
  ASSUME TypeOK, TypeOK', SessionsInUse, [Next]_vars
  PROVE  SessionsInUse'
<1> USE DEF NoFault, SetPoll, dbVars, nodeVars, connVars, callVars
<1>0. /\ holder \in Sessions \cup {NoSession} /\ holder' \in Sessions \cup {NoSession} /\ depth \in Nat
      /\ holder # NoSession => sess[holder] # "free"
      /\ holder = NoSession <=> depth = 0
  BY DEF TypeOK, SessionsInUse
<1>1. ASSUME NEW n \in Nodes, NEW k \in Slots, Tick(n, k)
      PROVE  SessionsInUse'
  <2> DEFINE p == PollAt(IF client[n] = NoSession THEN "connect" ELSE "lock", client[n], NoFence)
  <2>1. p.at # "idle" /\ p.s = client[n]
    BY DEF PollAt
  <2>2. poll' = [poll EXCEPT ![n][k] = p]
    BY <1>1 DEF Tick
  <2> HIDE DEF p
  <2>3. ASSUME NEW m \in Nodes, NEW j \in Slots
        PROVE  poll'[m][j] = IF m = n /\ j = k THEN p ELSE poll[m][j]
    BY <2>2 DEF TypeOK
  <2>4. UNCHANGED <<sess, holder, depth, client, closing, beat>>
    BY <1>1 DEF Tick
  <2> QED BY <1>0, <2>1, <2>3, <2>4, UseKept
<1>2. ASSUME NEW n \in Nodes, NEW k \in Slots, Connect(n, k)
      PROVE  SessionsInUse'
  <2>1. PICK s \in FreeSession(n) :
          /\ sess' = [sess EXCEPT ![s] = "live"] /\ client' = [client EXCEPT ![n] = s]
          /\ poll' = [poll EXCEPT ![n][k] = PollAt("lock", s, NoFence)]
          /\ UNCHANGED <<holder, depth, closing, beat>>
    BY <1>2 DEF Connect
  <2>2. s \in SessionsOf(n) /\ s \in Sessions /\ sess[s] = "free"
    BY SessionFacts DEF FreeSession
  <2>3. PollAt("lock", s, NoFence).at # "idle" /\ PollAt("lock", s, NoFence).s = s
    BY DEF PollAt
  <2>4. ASSUME NEW m \in Nodes, NEW j \in Slots
        PROVE  poll'[m][j] = IF m = n /\ j = k THEN PollAt("lock", s, NoFence) ELSE poll[m][j]
    BY <2>1 DEF TypeOK
  <2>5. /\ \A m \in Nodes : client'[m] = IF m = n THEN s ELSE client[m]
        /\ \A r \in Sessions : sess'[r] = IF r = s THEN "live" ELSE sess[r]
    BY <2>1, <2>2 DEF TypeOK
  <2>6. NoPoll' = NoPoll
    BY DEF NoPoll, PollAt
  <2>8. ASSUME NEW m \in Nodes
        PROVE  InUse(m, client[m])' /\ InUse(m, closing[m])' /\ InUse(m, beat[m])'
    BY <2>1, <2>2, <2>5, SessionFacts DEF SessionsInUse, InUse
  <2>9. ASSUME NEW m \in Nodes, NEW j \in Slots
        PROVE  InUse(m, poll[m][j].s)' /\ (poll'[m][j].at = "idle" => poll'[m][j] = NoPoll)
    BY <2>2, <2>3, <2>4, <2>5, SessionFacts DEF SessionsInUse, InUse
  <2> QED BY <1>0, <2>1, <2>5, <2>6, <2>8, <2>9 DEF SessionsInUse
<1>3. ASSUME NEW n \in Nodes, NEW k \in Slots, ConnectFails(n, k)
      PROVE  SessionsInUse'
  <2>1. ASSUME NEW m \in Nodes, NEW j \in Slots
        PROVE  poll'[m][j] = IF m = n /\ j = k THEN NoPoll ELSE poll[m][j]
    BY <1>3 DEF ConnectFails, TypeOK
  <2>2. UNCHANGED <<sess, holder, depth, client, closing, beat>>
    BY <1>3 DEF ConnectFails
  <2> QED BY <1>0, <2>1, <2>2, UseKept
<1>4. ASSUME NEW n \in Nodes, NEW k \in Slots, TryLock(n, k)
      PROVE  SessionsInUse'
  <2> DEFINE s == poll[n][k].s
             won == Answers(s) /\ CanLock(s)
             p == IF won THEN PollAt("bump", s, NoFence) ELSE NoPoll
  <2>0. TryLockEffect(n, k)
    BY <1>4, TryLockEffectHolds
  <2>1. p = NoPoll \/ (p.at # "idle" /\ p.s = s)
    BY DEF PollAt
  <2>2. /\ poll' = [poll EXCEPT ![n][k] = p]
        /\ holder' = IF won THEN s ELSE holder
        /\ depth' = IF won THEN depth + 1 ELSE depth
        /\ UNCHANGED <<sess, client, closing, beat>>
    BY <2>0 DEF TryLockEffect
  <2>3. won => s # NoSession /\ sess[s] # "free"
    BY DEF Answers
  <2> HIDE DEF p, won
  <2>4. ASSUME NEW m \in Nodes, NEW j \in Slots
        PROVE  poll'[m][j] = IF m = n /\ j = k THEN p ELSE poll[m][j]
    BY <2>2 DEF TypeOK
  <2>5. /\ holder' # NoSession => sess[holder'] # "free"
        /\ holder' = NoSession <=> depth' = 0
    BY <1>0, <2>2, <2>3
  <2> QED BY <1>0, <2>1, <2>2, <2>4, <2>5, UseKept
<1>5. ASSUME NEW n \in Nodes, NEW k \in Slots, Bump(n, k)
      PROVE  SessionsInUse'
  <2> DEFINE p == IF Answers(poll[n][k].s) THEN PollAt("promote", poll[n][k].s, fence + 1) ELSE NoPoll
  <2>0. BumpEffect(n, k)
    BY <1>5, BumpEffectHolds
  <2>1. p = NoPoll \/ (p.at # "idle" /\ p.s = poll[n][k].s)
    BY DEF PollAt
  <2>2. poll' = [poll EXCEPT ![n][k] = p] /\ UNCHANGED <<sess, holder, depth, client, closing, beat>>
    BY <2>0 DEF BumpEffect
  <2> HIDE DEF p
  <2>3. ASSUME NEW m \in Nodes, NEW j \in Slots
        PROVE  poll'[m][j] = IF m = n /\ j = k THEN p ELSE poll[m][j]
    BY <2>2 DEF TypeOK
  <2> QED BY <1>0, <2>1, <2>2, <2>3, UseKept
<1>6. ASSUME NEW n \in Nodes, NEW k \in Slots, Promote(n, k)
      PROVE  SessionsInUse'
  <2>1. ASSUME NEW m \in Nodes, NEW j \in Slots
        PROVE  poll'[m][j] = IF m = n /\ j = k THEN NoPoll ELSE poll[m][j]
    BY <1>6 DEF Promote, TypeOK
  <2>2. UNCHANGED <<sess, holder, depth, client, closing, beat>>
    BY <1>6 DEF Promote
  <2> QED BY <1>0, <2>1, <2>2, UseKept
<1>7. ASSUME NEW n \in Nodes, Beat(n)
      PROVE  SessionsInUse'
  <2>1. ASSUME NEW m \in Nodes
        PROVE  beat'[m] = IF m = n THEN client[n] ELSE beat[m]
    BY <1>7 DEF Beat, TypeOK
  <2>2. UNCHANGED <<sess, holder, depth, client, closing, poll>>
    BY <1>7 DEF Beat
  <2> QED BY <1>0, <2>1, <2>2, UseKept
<1>8. ASSUME NEW n \in Nodes, DemoteStep(n)
      PROVE  SessionsInUse'
  <2>0. DemoteEffect(n)
    BY <1>8, DemoteEffectHolds
  <2>1. PICK lost \in BOOLEAN :
          /\ closing' = [closing EXCEPT ![n] = IF lost THEN client[n] ELSE @]
          /\ sess' = [s \in Sessions |-> IF lost /\ s = client[n] /\ sess[s] = "live" THEN "closing" ELSE sess[s]]
    BY <2>0 DEF DemoteEffect
  <2>2. \A m \in Nodes : closing'[m] \in {closing[m], client[m], NoSession}
    BY <2>1 DEF TypeOK
  <2>3. \A s \in Sessions : sess'[s] = "free" => sess[s] = "free"
    BY <2>1
  <2>4. UNCHANGED <<holder, depth, client, poll>> /\ beat' \in {beat, [beat EXCEPT ![n] = NoSession]}
    BY <2>0 DEF DemoteEffect
  <2>5. \A m \in Nodes : beat'[m] \in {beat[m], client[m], NoSession}
    BY <2>4 DEF TypeOK
  <2> QED BY <1>0, <2>2, <2>3, <2>4, <2>5, UseKept
<1>9. ASSUME NEW n \in Nodes, StepDown(n) \/ Destroy(n)
      PROVE  SessionsInUse'
  <2>1. ReleaseEffect(n)
    BY <1>9, StepDownEffectHolds, DestroyEffectHolds DEF StepDownEffect, DestroyEffect
  <2>2. /\ holder' # NoSession => sess[holder'] # "free"
        /\ holder' = NoSession <=> depth' = 0
    BY <1>0, <2>1 DEF ReleaseEffect, Releases, Answers
  <2>3. CASE StepDown(n)
    <3>1. UNCHANGED <<sess, client, closing, poll, beat>>
      BY <2>3 DEF StepDown
    <3> QED BY <1>0, <2>2, <3>1, UseKept
  <2>4. CASE Destroy(n)
    <3>1. DestroyEffect(n)
      BY <2>4, DestroyEffectHolds
    <3>2. \A m \in Nodes : closing'[m] \in {closing[m], client[m], NoSession}
      BY <3>1 DEF DestroyEffect, CloseEffect, TypeOK
    <3>3. \A s \in Sessions : sess'[s] = "free" => sess[s] = "free"
      BY <3>1 DEF DestroyEffect, CloseEffect
    <3>4. UNCHANGED <<client, poll, beat>>
      BY <3>1 DEF DestroyEffect
    <3> QED BY <1>0, <2>2, <3>2, <3>3, <3>4, UseKept
  <2> QED BY <1>9, <2>3, <2>4
<1>10. ASSUME NEW n \in Nodes, CloseReturns(n)
      PROVE  SessionsInUse'
  <2>1. \A m \in Nodes : client'[m] \in {client[m], NoSession} /\ closing'[m] \in {closing[m], NoSession}
    BY <1>10 DEF CloseReturns, TypeOK
  <2>2. UNCHANGED <<sess, holder, depth, poll, beat>>
    BY <1>10 DEF CloseReturns
  <2> QED BY <1>0, <2>1, <2>2, UseKept
<1>11. ASSUME NEW n \in Nodes, ReadFence(n)
      PROVE  SessionsInUse'
  BY <1>11, SessionFacts DEF ReadFence, FreeSession, TypeOK, SessionsInUse, InUse, NoPoll, PollAt
<1>12. ASSUME NEW n \in Nodes, Crash(n)
      PROVE  SessionsInUse'
  <2>1. ASSUME NEW m \in Nodes, NEW j \in Slots
        PROVE  poll'[m][j] = IF m = n THEN NoPoll ELSE poll[m][j]
    BY <1>12 DEF Crash, TypeOK
  <2>2. /\ \A m \in Nodes : client'[m] \in {client[m], NoSession} /\ closing'[m] \in {closing[m], NoSession}
        /\ \A m \in Nodes : beat'[m] \in {beat[m], NoSession}
    BY <1>12 DEF Crash, TypeOK
  <2>3. (\A s \in Sessions : sess'[s] = "free" => sess[s] = "free") /\ UNCHANGED <<holder, depth>>
    BY <1>12 DEF Crash
  <2> QED BY <1>0, <2>1, <2>2, <2>3, UseKept
<1>13. ASSUME NEW s \in Sessions, Break(s)
      PROVE  SessionsInUse'
  <2>1. \A r \in Sessions : sess'[r] = "free" => sess[r] = "free"
    BY <1>13 DEF Break, TypeOK
  <2>2. UNCHANGED <<holder, depth, client, closing, poll, beat>>
    BY <1>13 DEF Break
  <2> QED BY <1>0, <2>1, <2>2, UseKept
<1>14. ASSUME NEW s \in Sessions, Reap(s)
      PROVE  SessionsInUse'
  BY <1>14, SessionFacts DEF Reap, Forgotten, TypeOK, SessionsInUse, InUse, NoPoll, PollAt
<1>15. CASE UNCHANGED vars
  <2>1. UNCHANGED <<sess, holder, depth, client, closing, poll, beat>>
    BY <1>15 DEF vars
  <2> QED BY <1>0, <2>1, UseKept
<1> QED BY <1>1, <1>2, <1>3, <1>4, <1>5, <1>6, <1>7, <1>8, <1>9, <1>10, <1>11, <1>12, <1>13, <1>14, <1>15
       DEF Next, Polls, Faulty, Answered, DemoteStep

\* A node that keeps its client and its polls stays prompt, if no session of it comes
\* to life and the lock is not taken from a poll that won it.
LEMMA PromptKept ==
  ASSUME TypeOK, SessionsInUse, NEW m \in Nodes, PromptNode(m),
         poll'[m] = poll[m], client'[m] = client[m], closing'[m] = closing[m], leader'[m] => leader[m],
         \A s \in SessionsOf(m) : sess'[s] = "live" => sess[s] = "live",
         \/ holder' = holder
         \/ \A k \in Slots : poll[m][k].at = "bump" /\ Answers(poll[m][k].s) => holder # poll[m][k].s
  PROVE  PromptNode(m)'
<1>1. closing[m] # NoSession => client[m] \in SessionsOf(m)
  BY DEF PromptNode, SessionsInUse, InUse
<1>2. ASSUME NEW k \in Slots, poll[m][k].at = "bump", Answers(poll[m][k].s)'
      PROVE  holder' = poll'[m][k].s
  <2>1. poll[m][k].s \in SessionsOf(m) /\ Answers(poll[m][k].s)
    BY <1>2 DEF SessionsInUse, InUse, Answers
  <2> QED BY <1>2, <2>1 DEF PromptNode
<1> QED BY <1>1, <1>2 DEF PromptNode

\* The lock of a poll that won it is not another node's.
LEMMA WonElsewhere ==
  ASSUME TypeOK, SessionsInUse, NEW n \in Nodes, NEW m \in Nodes, m # n,
         holder = NoSession \/ holder \in SessionsOf(n)
  PROVE  \A k \in Slots : poll[m][k].at = "bump" /\ Answers(poll[m][k].s) => holder # poll[m][k].s
<1> SUFFICES ASSUME NEW k \in Slots, Answers(poll[m][k].s)
             PROVE  holder # poll[m][k].s
  OBVIOUS
<1>1. poll[m][k].s \in SessionsOf(m) /\ poll[m][k].s # NoSession
  BY DEF SessionsInUse, InUse, Answers
<1> QED BY <1>1, SessionFacts

\* Without slow round trips every step leaves each node with one poll and one client.
LEMMA PromptNext ==
  ASSUME TypeOK, TypeOK', SessionsInUse, OneClientPerNode, [Next]_vars
  PROVE  OneClientPerNode'
<1> USE DEF NoFault, SetPoll, dbVars, nodeVars, connVars, callVars
<1>0. slow' = slow
  BY DEF Next, Polls, Faulty, Answered, Tick, Connect, TryLock, Bump, Promote, Destroy, Crash, StepDown,
         ConnectFails, BeatReturns, StepDownDemotes, CloseReturns, Beat, BeatWithoutClient, ReadFence,
         Break, Reap, vars
<1> SUFFICES ASSUME ~slow, NEW m \in Nodes
             PROVE  PromptNode(m)'
  BY <1>0 DEF OneClientPerNode
<1>a. PromptNode(m)
  BY DEF OneClientPerNode
<1>b. NoPoll.at = "idle"
  BY DEF NoPoll, PollAt
<1>c. \A s \in SessionsOf(m) : s \in Sessions /\ s # NoSession
  BY SessionFacts
<1>1. ASSUME NEW n \in Nodes, NEW k \in Slots, Tick(n, k)
      PROVE  PromptNode(m)'
  <2> DEFINE p == PollAt(IF client[n] = NoSession THEN "connect" ELSE "lock", client[n], NoFence)
  <2>1. p.at \in {"connect", "lock"} /\ (p.at = "connect" => client[n] = NoSession)
    BY DEF PollAt
  <2>2. poll' = [poll EXCEPT ![n][k] = p]
    BY <1>1 DEF Tick
  <2> HIDE DEF p
  <2>3. /\ \A j \in Slots : poll'[m][j] = IF m = n /\ j = k THEN p ELSE poll[m][j]
        /\ m # n => poll'[m] = poll[m]
    BY <2>2 DEF TypeOK
  <2>4. /\ UNCHANGED <<sess, holder, client, closing, leader>>
        /\ ~leader[n] /\ \A j \in Slots : poll[n][j].at = "idle"
    BY <1>1, <1>b DEF Tick
  <2>5. CASE m # n
    BY <1>a, <2>3, <2>4, <2>5, PromptKept
  <2>6. CASE m = n
    BY <1>a, <2>1, <2>3, <2>4, <2>6 DEF PromptNode
  <2> QED BY <2>5, <2>6
<1>2. ASSUME NEW n \in Nodes, NEW k \in Slots, Connect(n, k)
      PROVE  PromptNode(m)'
  <2>1. PICK s \in FreeSession(n) :
          /\ sess' = [sess EXCEPT ![s] = "live"] /\ client' = [client EXCEPT ![n] = s]
          /\ poll' = [poll EXCEPT ![n][k] = PollAt("lock", s, NoFence)]
          /\ UNCHANGED <<holder, closing, leader>> /\ poll[n][k].at = "connect"
    BY <1>2 DEF Connect
  <2>2. s \in SessionsOf(n) /\ s \in Sessions /\ sess[s] = "free"
    BY SessionFacts DEF FreeSession
  <2>3. PollAt("lock", s, NoFence).at = "lock"
    BY DEF PollAt
  <2>4. /\ \A j \in Slots : poll'[m][j] = IF m = n /\ j = k THEN PollAt("lock", s, NoFence) ELSE poll[m][j]
        /\ m # n => poll'[m] = poll[m]
    BY <2>1 DEF TypeOK
  <2>5. /\ client'[m] = IF m = n THEN s ELSE client[m]
        /\ \A r \in Sessions : sess'[r] = IF r = s THEN "live" ELSE sess[r]
    BY <2>1, <2>2 DEF TypeOK
  <2>6. CASE m # n
    <3>1. \A r \in SessionsOf(m) : r # s
      BY <2>2, <2>6, SessionFacts
    <3> QED BY <1>a, <1>c, <2>1, <2>4, <2>5, <2>6, <3>1, PromptKept
  <2>7. CASE m = n
    <3>1. client[n] = NoSession /\ closing[n] = NoSession /\ ~leader[n]
      BY <1>a, <2>1, <2>7 DEF PromptNode
    <3>2. \A j \in Slots : j # k => poll[m][j].at = "idle"
      BY <1>a, <2>1, <2>7 DEF PromptNode
    <3>3. \A r \in SessionsOf(m) : sess'[r] = "live" => r = s
      BY <1>a, <1>c, <2>5, <2>7, <3>1 DEF PromptNode
    <3> QED BY <2>1, <2>3, <2>4, <2>5, <2>7, <3>1, <3>2, <3>3 DEF PromptNode
  <2> QED BY <2>6, <2>7
<1>3. ASSUME NEW n \in Nodes, NEW k \in Slots, ConnectFails(n, k)
      PROVE  PromptNode(m)'
  <2>1. \A j \in Slots : poll'[m][j] = IF m = n /\ j = k THEN NoPoll ELSE poll[m][j]
    BY <1>3 DEF ConnectFails, TypeOK
  <2>2. UNCHANGED <<sess, holder, client, closing, leader>>
    BY <1>3 DEF ConnectFails
  <2> QED BY <1>a, <1>b, <2>1, <2>2 DEF PromptNode, Answers
<1>4. ASSUME NEW n \in Nodes, NEW k \in Slots, TryLock(n, k)
      PROVE  PromptNode(m)'
  <2> DEFINE s == poll[n][k].s
             won == Answers(s) /\ CanLock(s)
             p == IF won THEN PollAt("bump", s, NoFence) ELSE NoPoll
  <2>0. TryLockEffect(n, k)
    BY <1>4, TryLockEffectHolds
  <2>1. (p.at = "idle" /\ ~won) \/ (p.at = "bump" /\ p.s = s /\ won)
    BY <1>b DEF PollAt
  <2>2. /\ poll' = [poll EXCEPT ![n][k] = p] /\ poll[n][k].at = "lock"
        /\ holder' = IF won THEN s ELSE holder
        /\ UNCHANGED <<sess, client, closing, leader>>
    BY <2>0 DEF TryLockEffect
  <2>3. won => s \in SessionsOf(n) /\ (holder = NoSession \/ holder \in SessionsOf(n))
    BY DEF Answers, CanLock, SessionsInUse, InUse
  <2> HIDE DEF p, won
  <2>4. /\ \A j \in Slots : poll'[m][j] = IF m = n /\ j = k THEN p ELSE poll[m][j]
        /\ m # n => poll'[m] = poll[m]
    BY <2>2 DEF TypeOK
  <2>5. CASE m # n
    <3>1. \/ holder' = holder
          \/ \A j \in Slots : poll[m][j].at = "bump" /\ Answers(poll[m][j].s) => holder # poll[m][j].s
      BY <2>2, <2>3, <2>5, WonElsewhere
    <3> QED BY <1>a, <2>2, <2>4, <2>5, <3>1, PromptKept
  <2>6. CASE m = n
    <3>1. \A j \in Slots : j # k => poll[m][j].at = "idle"
      BY <1>a, <2>2, <2>6 DEF PromptNode
    <3> QED BY <1>a, <2>1, <2>2, <2>4, <2>6, <3>1 DEF PromptNode, Answers
  <2> QED BY <2>5, <2>6
<1>5. ASSUME NEW n \in Nodes, NEW k \in Slots, Bump(n, k)
      PROVE  PromptNode(m)'
  <2> DEFINE p == IF Answers(poll[n][k].s) THEN PollAt("promote", poll[n][k].s, fence + 1) ELSE NoPoll
  <2>0. BumpEffect(n, k)
    BY <1>5, BumpEffectHolds
  <2>1. p.at \in {"idle", "promote"}
    BY <1>b DEF PollAt
  <2>2. /\ poll' = [poll EXCEPT ![n][k] = p] /\ poll[n][k].at = "bump"
        /\ UNCHANGED <<sess, holder, client, closing, leader>>
    BY <2>0 DEF BumpEffect
  <2> HIDE DEF p
  <2>3. \A j \in Slots : poll'[m][j] = IF m = n /\ j = k THEN p ELSE poll[m][j]
    BY <2>2 DEF TypeOK
  <2> QED BY <1>a, <2>1, <2>2, <2>3 DEF PromptNode, Answers
<1>6. ASSUME NEW n \in Nodes, NEW k \in Slots, Promote(n, k)
      PROVE  PromptNode(m)'
  <2>1. \A j \in Slots : poll'[m][j] = IF m = n /\ j = k THEN NoPoll ELSE poll[m][j]
    BY <1>6 DEF Promote, TypeOK
  <2>2. /\ UNCHANGED <<sess, holder, client, closing>> /\ poll[n][k].at = "promote"
        /\ m # n => leader'[m] = leader[m]
    BY <1>6 DEF Promote, TypeOK
  <2>3. m = n => \A j \in Slots : j # k => poll[m][j].at = "idle"
    BY <1>a, <2>2 DEF PromptNode
  <2> QED BY <1>a, <1>b, <2>1, <2>2, <2>3 DEF PromptNode, Answers
<1>7. ASSUME NEW n \in Nodes, Beat(n)
      PROVE  PromptNode(m)'
  BY <1>7, <1>a, PromptKept DEF Beat
<1>8. ASSUME NEW n \in Nodes, DemoteStep(n)
      PROVE  PromptNode(m)'
  <2>0. DemoteEffect(n)
    BY <1>8, DemoteEffectHolds
  <2>1. PICK lost \in BOOLEAN :
          /\ lost => leader[n]
          /\ leader' = [leader EXCEPT ![n] = @ /\ ~lost]
          /\ closing' = [closing EXCEPT ![n] = IF lost THEN client[n] ELSE @]
          /\ sess' = [s \in Sessions |-> IF lost /\ s = client[n] /\ sess[s] = "live" THEN "closing" ELSE sess[s]]
          /\ UNCHANGED <<holder, client, poll>>
    BY <2>0 DEF DemoteEffect
  <2>2. leader'[m] => leader[m]
    BY <2>1 DEF TypeOK
  <2>3. \A s \in SessionsOf(m) : sess'[s] = "live" => sess[s] = "live"
    BY <1>c, <2>1
  <2>4. CASE m # n \/ ~lost
    <3>1. closing'[m] = closing[m]
      BY <2>1, <2>4 DEF TypeOK
    <3> QED BY <1>a, <2>1, <2>2, <2>3, <3>1, PromptKept
  <2>5. CASE m = n /\ lost
    <3>1. closing'[m] = client[m] /\ client'[m] = client[m]
      BY <2>1, <2>5 DEF TypeOK
    <3>2. client[m] # NoSession => sess'[client[m]] # "live"
      BY <2>1, <2>5 DEF TypeOK
    <3>3. \A j \in Slots : poll'[m][j] = poll[m][j] /\ poll[m][j].at = "idle"
      BY <1>a, <2>1, <2>5 DEF PromptNode
    <3> QED BY <1>a, <2>3, <3>1, <3>2, <3>3 DEF PromptNode
  <2> QED BY <2>4, <2>5
<1>9. ASSUME NEW n \in Nodes, StepDown(n)
      PROVE  PromptNode(m)'
  <2>1. StepDownEffect(n)
    BY <1>9, StepDownEffectHolds
  <2>2. /\ UNCHANGED <<sess, client, closing, leader, poll>> /\ leader[n]
        /\ holder' = holder \/ (holder = client[n] /\ Answers(client[n]))
    BY <2>1 DEF StepDownEffect, ReleaseEffect, Releases
  <2>3. CASE holder' = holder
    BY <1>a, <2>2, <2>3, PromptKept
  <2>4. CASE m # n /\ holder' # holder
    <3>1. holder \in SessionsOf(n)
      BY <2>2, <2>4 DEF Answers, SessionsInUse, InUse
    <3> QED BY <1>a, <2>2, <2>4, <3>1, WonElsewhere, PromptKept
  <2>5. CASE m = n
    <3>1. \A j \in Slots : poll[m][j].at = "idle"
      BY <1>a, <2>2, <2>5 DEF PromptNode
    <3> QED BY <1>a, <2>2, <3>1, PromptKept
  <2> QED BY <2>3, <2>4, <2>5
<1>10. ASSUME NEW n \in Nodes, CloseReturns(n)
      PROVE  PromptNode(m)'
  <2>1. /\ UNCHANGED <<sess, holder, leader, poll>> /\ closing[n] # NoSession
        /\ client'[m] = (IF m = n THEN NoSession ELSE client[m])
        /\ closing'[m] = (IF m = n THEN NoSession ELSE closing[m])
    BY <1>10 DEF CloseReturns, TypeOK
  <2>2. CASE m # n
    BY <1>a, <2>1, <2>2, PromptKept
  <2>3. CASE m = n
    <3>1. \A s \in SessionsOf(m) : sess[s] # "live"
      BY <1>a, <2>1, <2>3 DEF PromptNode
    <3> QED BY <1>a, <2>1, <2>3, <3>1 DEF PromptNode, Answers
  <2> QED BY <2>2, <2>3
<1>11. ASSUME NEW n \in Nodes, Destroy(n)
      PROVE  PromptNode(m)'
  <2>0. DestroyEffect(n)
    BY <1>11, DestroyEffectHolds
  <2>1. /\ leader' = [leader EXCEPT ![n] = FALSE]
        /\ closing' = [closing EXCEPT ![n] = client[n]]
        /\ sess' = [s \in Sessions |-> IF s = client[n] /\ sess[s] = "live" THEN "closing" ELSE sess[s]]
        /\ UNCHANGED <<client, poll>>
        /\ holder' = holder \/ (holder = client[n] /\ Answers(client[n]))
    BY <2>0 DEF DestroyEffect, CloseEffect, ReleaseEffect, Releases
  <2>2. leader'[m] => leader[m]
    BY <2>1 DEF TypeOK
  <2>3. \A s \in SessionsOf(m) : sess'[s] = "live" => sess[s] = "live"
    BY <1>c, <2>1
  <2>4. CASE m # n
    <3>1. closing'[m] = closing[m]
      BY <2>1, <2>4 DEF TypeOK
    <3>2. holder' # holder => holder \in SessionsOf(n)
      BY <2>1 DEF Answers, SessionsInUse, InUse
    <3>3. \/ holder' = holder
          \/ \A k \in Slots : poll[m][k].at = "bump" /\ Answers(poll[m][k].s) => holder # poll[m][k].s
      BY <2>4, <3>2, WonElsewhere
    <3> QED BY <1>a, <2>1, <2>2, <2>3, <3>1, <3>3, PromptKept
  <2>5. CASE m = n
    <3>1. closing'[m] = client[m] /\ client'[m] = client[m] /\ poll'[m] = poll[m]
      BY <2>1, <2>5 DEF TypeOK
    <3>2. client[m] # NoSession => sess'[client[m]] # "live"
      BY <2>1, <2>5 DEF TypeOK
    <3>3. ASSUME NEW k \in Slots
          PROVE  ~Answers(poll[m][k].s)'
      <4>1. InUse(m, poll[m][k].s)
        BY DEF SessionsInUse
      <4> QED BY <1>a, <2>3, <3>1, <3>2, <4>1 DEF PromptNode, Answers, InUse
    <3> QED BY <1>a, <2>2, <2>3, <3>1, <3>2, <3>3 DEF PromptNode
  <2> QED BY <2>4, <2>5
<1>12. ASSUME NEW n \in Nodes, ReadFence(n)
      PROVE  PromptNode(m)'
  <2>1. PICK s \in FreeSession(n) :
          /\ sess' = [sess EXCEPT ![s] = "live"] /\ client' = [client EXCEPT ![n] = s]
          /\ UNCHANGED <<holder, closing, leader, poll>> /\ leader[n] /\ client[n] = NoSession
    BY <1>12 DEF ReadFence
  <2>2. s \in SessionsOf(n) /\ s \in Sessions
    BY SessionFacts DEF FreeSession
  <2>3. /\ client'[m] = IF m = n THEN s ELSE client[m]
        /\ \A r \in Sessions : sess'[r] = IF r = s THEN "live" ELSE sess[r]
    BY <2>1, <2>2 DEF TypeOK
  <2>4. CASE m # n
    <3>1. \A r \in SessionsOf(m) : r # s
      BY <2>2, <2>4, SessionFacts
    <3> QED BY <1>a, <1>c, <2>1, <2>3, <2>4, <3>1, PromptKept
  <2>5. CASE m = n
    <3>1. closing[n] = NoSession /\ \A r \in SessionsOf(n) : sess[r] # "live"
      BY <1>a, <1>c, <2>1, <2>5 DEF PromptNode
    <3>2. \A j \in Slots : poll[n][j].at = "idle"
      BY <1>a, <2>1, <2>5 DEF PromptNode
    <3> QED BY <1>c, <2>1, <2>3, <2>5, <3>1, <3>2 DEF PromptNode
  <2> QED BY <2>4, <2>5
<1>13. ASSUME NEW n \in Nodes, Crash(n)
      PROVE  PromptNode(m)'
  <2>1. /\ client'[m] = (IF m = n THEN NoSession ELSE client[m])
        /\ closing'[m] = (IF m = n THEN NoSession ELSE closing[m])
        /\ poll'[m] = (IF m = n THEN [k \in Slots |-> NoPoll] ELSE poll[m])
        /\ holder' = holder
    BY <1>13 DEF Crash, TypeOK
  <2>2. leader'[m] => leader[m]
    BY <1>13 DEF Crash, TypeOK
  <2>3. \A s \in SessionsOf(m) : sess'[s] = IF m = n /\ sess[s] # "free" THEN "broken" ELSE sess[s]
    BY <1>13, <1>c, SessionFacts DEF Crash
  <2>4. CASE m # n
    BY <1>a, <2>1, <2>2, <2>3, <2>4, PromptKept
  <2>5. CASE m = n
    <3>1. \A k \in Slots : poll'[m][k].at = "idle"
      BY <1>b, <2>1, <2>5
    <3>2. \A s \in SessionsOf(m) : sess'[s] # "live"
      BY <2>3, <2>5
    <3> QED BY <2>1, <2>5, <3>1, <3>2 DEF PromptNode
  <2> QED BY <2>4, <2>5
<1>14. ASSUME NEW s \in Sessions, Break(s)
      PROVE  PromptNode(m)'
  <2>1. \A r \in SessionsOf(m) : sess'[r] = "live" => sess[r] = "live"
    BY <1>14, <1>c DEF Break, TypeOK
  <2>2. UNCHANGED <<holder, client, closing, leader, poll>>
    BY <1>14 DEF Break
  <2> QED BY <1>a, <2>1, <2>2, PromptKept
<1>15. ASSUME NEW s \in Sessions, Reap(s)
      PROVE  PromptNode(m)'
  <2>1. \A r \in SessionsOf(m) : sess'[r] = "live" => sess[r] = "live"
    BY <1>15, <1>c DEF Reap, TypeOK
  <2>2. UNCHANGED <<client, closing, leader, poll>> /\ sess[s] # "live" /\ (holder' = holder \/ holder = s)
    BY <1>15 DEF Reap
  <2>3. \/ holder' = holder
        \/ \A k \in Slots : poll[m][k].at = "bump" /\ Answers(poll[m][k].s) => holder # poll[m][k].s
    BY <2>2 DEF Answers
  <2> QED BY <1>a, <2>1, <2>2, <2>3, PromptKept
<1>16. CASE UNCHANGED vars
  BY <1>16, <1>a, PromptKept DEF vars
<1> QED BY <1>1, <1>2, <1>3, <1>4, <1>5, <1>6, <1>7, <1>8, <1>9, <1>10, <1>11, <1>12, <1>13, <1>14, <1>15, <1>16
       DEF Next, Polls, Faulty, Answered, DemoteStep

\* The newest fence stays the lock holder's while nobody else takes the lock, nobody
\* bumps, no session comes to life as the holder, and no poll that won is dropped.
LEMMA FollowsKept ==
  ASSUME FenceFollowsLock, slow' = slow, grants' = grants, holder' \in {holder, NoSession},
         Answers(holder)' => Answers(holder),
         ~slow /\ Answers(holder)' =>
           \A k \in Slots : poll[holder[1]][k].at = "bump" /\ poll[holder[1]][k].s = holder
                              => poll'[holder[1]][k] = poll[holder[1]][k]
  PROVE  FenceFollowsLock'
<1> SUFFICES ASSUME ~slow, Answers(holder)'
             PROVE  \/ fence' > 0 /\ grants'[fence'] = holder'[1]
                    \/ \E k \in Slots : poll'[holder'[1]][k].s = holder' /\ poll'[holder'[1]][k].at = "bump"
  BY DEF FenceFollowsLock
<1>1. holder' = holder /\ fence' = fence /\ Answers(holder)
  BY DEF Answers, fence
<1>2. CASE fence > 0 /\ grants[fence] = holder[1]
  BY <1>1, <1>2
<1>3. CASE \E k \in Slots : poll[holder[1]][k].s = holder /\ poll[holder[1]][k].at = "bump"
  BY <1>1, <1>3
<1> QED BY <1>1, <1>2, <1>3 DEF FenceFollowsLock

\* The fence follows the lock.
LEMMA FollowsNext ==
  ASSUME TypeOK, SessionsInUse, OneClientPerNode, FenceFollowsLock, [Next]_vars
  PROVE  FenceFollowsLock'
<1> USE DEF NoFault, SetPoll, dbVars, nodeVars, connVars, callVars
<1>0. holder \in Sessions \cup {NoSession} /\ (holder # NoSession => holder[1] \in Nodes)
  BY SessionFacts DEF TypeOK
<1>1. ASSUME NEW n \in Nodes, NEW k \in Slots, NEW p, poll' = [poll EXCEPT ![n][k] = p], poll[n][k].at # "bump",
             UNCHANGED <<slow, grants, holder, sess>>
      PROVE  FenceFollowsLock'
  <2>1. \A m \in Nodes, j \in Slots : poll'[m][j] = IF m = n /\ j = k THEN p ELSE poll[m][j]
    BY <1>1 DEF TypeOK
  <2> QED BY <1>0, <1>1, <2>1, FollowsKept DEF Answers
<1>2. ASSUME NEW n \in Nodes, NEW k \in Slots, Tick(n, k) \/ ConnectFails(n, k) \/ Promote(n, k)
      PROVE  FenceFollowsLock'
  <2>1. PICK p : poll' = [poll EXCEPT ![n][k] = p]
    BY <1>2 DEF Tick, ConnectFails, Promote
  <2>2. poll[n][k].at # "bump" /\ UNCHANGED <<slow, grants, holder, sess>>
    BY <1>2 DEF Tick, ConnectFails, Promote, NoPoll, PollAt
  <2> QED BY <1>1, <2>1, <2>2
<1>3. ASSUME NEW n \in Nodes, NEW k \in Slots, Connect(n, k)
      PROVE  FenceFollowsLock'
  <2>1. PICK s \in FreeSession(n) :
          /\ sess' = [sess EXCEPT ![s] = "live"]
          /\ poll' = [poll EXCEPT ![n][k] = PollAt("lock", s, NoFence)]
          /\ UNCHANGED <<slow, grants, holder>> /\ poll[n][k].at = "connect"
    BY <1>3 DEF Connect
  <2>2. \A m \in Nodes, j \in Slots :
          poll'[m][j] = IF m = n /\ j = k THEN PollAt("lock", s, NoFence) ELSE poll[m][j]
    BY <2>1 DEF TypeOK
  <2>3. Answers(holder)' => Answers(holder)
    BY <2>1 DEF FreeSession, SessionsInUse, Answers, TypeOK
  <2> QED BY <1>0, <2>1, <2>2, <2>3, FollowsKept DEF Answers
<1>4. ASSUME NEW n \in Nodes, NEW k \in Slots, TryLock(n, k)
      PROVE  FenceFollowsLock'
  <2>0. TryLockEffect(n, k)
    BY <1>4, TryLockEffectHolds
  <2> DEFINE s == poll[n][k].s
  <2>1. CASE ~(Answers(s) /\ CanLock(s))
    <3>1. poll' = [poll EXCEPT ![n][k] = NoPoll] /\ poll[n][k].at # "bump" /\ UNCHANGED <<slow, grants, holder, sess>>
      BY <2>0, <2>1 DEF TryLockEffect
    <3> QED BY <1>1, <3>1
  <2>2. CASE Answers(s) /\ CanLock(s)
    <3>1. holder' = s /\ poll' = [poll EXCEPT ![n][k] = PollAt("bump", s, NoFence)]
      BY <2>0, <2>2 DEF TryLockEffect
    <3>2. s \in SessionsOf(n)
      BY <2>2 DEF Answers, SessionsInUse, InUse
    <3>3. holder'[1] = n
      BY <3>1, <3>2, SessionFacts
    <3>4. poll'[n][k] = PollAt("bump", s, NoFence)
      BY <3>1 DEF TypeOK
    <3>5. poll'[n][k].s = s /\ poll'[n][k].at = "bump"
      BY <3>4 DEF PollAt
    <3> QED BY <3>1, <3>3, <3>5 DEF FenceFollowsLock
  <2> QED BY <2>1, <2>2
<1>5. ASSUME NEW n \in Nodes, NEW k \in Slots, Bump(n, k)
      PROVE  FenceFollowsLock'
  <2>0. BumpEffect(n, k)
    BY <1>5, BumpEffectHolds
  <2> DEFINE s == poll[n][k].s
  <2>1. CASE Answers(s)
    <3>1. grants' = Append(grants, n) /\ slow' = slow /\ UNCHANGED <<holder, sess>> /\ poll[n][k].at = "bump"
      BY <2>0, <2>1 DEF BumpEffect
    <3>2. fence' = fence + 1 /\ fence \in Nat /\ grants'[fence + 1] = n
      BY <3>1 DEF fence, TypeOK
    <3>3. ~slow => holder[1] = n
      <4>1. s \in SessionsOf(n)
        BY <2>1 DEF Answers, SessionsInUse, InUse
      <4>2. ~slow => holder = s
        BY <2>1, <3>1 DEF OneClientPerNode, PromptNode
      <4> QED BY <4>1, <4>2, SessionFacts
    <3> QED BY <3>1, <3>2, <3>3 DEF FenceFollowsLock
  <2>2. CASE ~Answers(s)
    <3>1. poll' = [poll EXCEPT ![n][k] = NoPoll] /\ UNCHANGED <<slow, grants, holder, sess>>
      BY <2>0, <2>2 DEF BumpEffect
    <3>2. \A m \in Nodes, j \in Slots : poll'[m][j] = IF m = n /\ j = k THEN NoPoll ELSE poll[m][j]
      BY <3>1 DEF TypeOK
    <3>3. Answers(holder)' => Answers(holder)
      BY <3>1 DEF Answers
    <3> QED BY <1>0, <2>2, <3>1, <3>2, <3>3, FollowsKept DEF Answers
  <2> QED BY <2>1, <2>2
<1>6. ASSUME UNCHANGED <<slow, grants, poll>>, holder' \in {holder, NoSession},
             \A r \in Sessions : sess'[r] = "live" => sess[r] = "live" \/ sess[r] = "free"
      PROVE  FenceFollowsLock'
  <2>1. Answers(holder)' => Answers(holder)
    BY <1>0, <1>6 DEF Answers, SessionsInUse
  <2> QED BY <1>6, <2>1, FollowsKept
<1>7. ASSUME NEW n \in Nodes, DemoteStep(n)
      PROVE  FenceFollowsLock'
  <2>0. DemoteEffect(n)
    BY <1>7, DemoteEffectHolds
  <2>1. UNCHANGED <<slow, grants, poll, holder>>
    BY <2>0 DEF DemoteEffect
  <2>2. \A r \in Sessions : sess'[r] = "live" => sess[r] = "live"
    BY <2>0 DEF DemoteEffect
  <2> QED BY <1>6, <2>1, <2>2
<1>8. ASSUME NEW n \in Nodes, StepDown(n)
      PROVE  FenceFollowsLock'
  <2>1. StepDownEffect(n)
    BY <1>8, StepDownEffectHolds
  <2> QED BY <1>6, <2>1 DEF StepDownEffect, ReleaseEffect
<1>9. ASSUME NEW n \in Nodes, Destroy(n)
      PROVE  FenceFollowsLock'
  <2>1. DestroyEffect(n)
    BY <1>9, DestroyEffectHolds
  <2> QED BY <1>6, <2>1 DEF DestroyEffect, ReleaseEffect, CloseEffect
<1>10. ASSUME NEW n \in Nodes, ReadFence(n)
      PROVE  FenceFollowsLock'
  <2>1. \A r \in Sessions : sess'[r] = "live" => sess[r] = "live" \/ sess[r] = "free"
    BY <1>10 DEF ReadFence, FreeSession, TypeOK
  <2> QED BY <1>6, <1>10, <2>1 DEF ReadFence
<1>11. ASSUME NEW n \in Nodes, Crash(n)
      PROVE  FenceFollowsLock'
  <2>1. UNCHANGED <<slow, grants, holder>> /\ \A m \in Nodes : m # n => poll'[m] = poll[m]
    BY <1>11 DEF Crash, TypeOK
  <2>2. Answers(holder)' => Answers(holder) /\ holder \notin SessionsOf(n)
    BY <1>11, <1>0, SessionFacts DEF Crash, Answers, SessionsInUse
  <2> QED BY <1>0, <2>1, <2>2, FollowsKept, SessionFacts DEF Answers
<1>12. ASSUME NEW s \in Sessions, Break(s) \/ Reap(s)
      PROVE  FenceFollowsLock'
  <2>1. UNCHANGED <<slow, grants, poll>> /\ holder' \in {holder, NoSession}
    BY <1>12 DEF Break, Reap
  <2>2. \A r \in Sessions : sess'[r] = "live" => sess[r] = "live"
    BY <1>12 DEF Break, Reap, TypeOK
  <2> QED BY <1>6, <2>1, <2>2
<1>13. ASSUME NEW n \in Nodes, Beat(n) \/ CloseReturns(n)
       PROVE  FenceFollowsLock'
  <2>1. UNCHANGED <<slow, grants, poll, holder, sess>>
    BY <1>13 DEF Beat, CloseReturns
  <2> QED BY <1>6, <2>1
<1>14. CASE UNCHANGED vars
  BY <1>6, <1>14 DEF vars
<1> QED BY <1>2, <1>3, <1>4, <1>5, <1>7, <1>8, <1>9, <1>10, <1>11, <1>12, <1>13, <1>14
       DEF Next, Polls, Faulty, Answered, DemoteStep

-----------------------------------------------------------------------------
(* The results.                                                            *)

\* The invariant of the election holds for any number of nodes, sessions, overlapping
\* polls, wins and faults: fences are carried only by the nodes they were issued to, no
\* session is handed out while it is in use, and, without slow round trips, the newest
\* fence and the heartbeat follow the session that holds the lock.
THEOREM LockIsSafe == Spec => []LockInv
<1>1. Init => LockInv
  <2> SUFFICES ASSUME Init PROVE LockInv
    OBVIOUS
  <2>1. NoPoll \in PollType /\ NoPoll.at = "idle" /\ NoPoll.s = NoSession
    BY DEF PollAt, PollType, NoPoll
  <2>2. \A n \in Nodes, k \in Slots : poll[n][k] = NoPoll
    BY DEF Init
  <2>3. TypeOK
    BY <2>1 DEF Init, TypeOK, fence
  <2>4. FencesAreIssued
    BY <2>1, <2>2 DEF Init, FencesAreIssued
  <2>5. SessionsInUse
    BY <2>1, <2>2 DEF Init, SessionsInUse, InUse
  <2>6. OneClientPerNode
    BY <2>1, <2>2, SessionFacts DEF Init, OneClientPerNode, PromptNode
  <2>7. FenceFollowsLock
    BY DEF Init, FenceFollowsLock, Answers
  <2>8. HeartbeatWatchesLock
    BY <2>6 DEF HeartbeatWatchesLock, OneClientPerNode, PromptNode, Answers
  <2> QED BY <2>3, <2>4, <2>5, <2>6, <2>7, <2>8 DEF LockInv
<1>2. LockInv /\ [Next]_vars => LockInv'
  <2> SUFFICES ASSUME LockInv, [Next]_vars PROVE LockInv'
    OBVIOUS
  <2>1. TypeOK'
    BY TypeNext DEF LockInv
  <2>2. FencesAreIssued'
    BY FencesNext DEF LockInv
  <2>3. SessionsInUse'
    BY <2>1, SessionsNext DEF LockInv
  <2>4. OneClientPerNode'
    BY <2>1, PromptNext DEF LockInv
  <2>5. FenceFollowsLock'
    BY FollowsNext DEF LockInv
  <2>6. HeartbeatWatchesLock'
    BY <2>4 DEF HeartbeatWatchesLock, OneClientPerNode, PromptNode, Answers
  <2> QED BY <2>1, <2>2, <2>3, <2>4, <2>5, <2>6 DEF LockInv
<1> QED BY <1>1, <1>2, PTL DEF Spec

\* assertStillLeader singles out one node at most, whatever breaks, crashes, promotes
\* late or overlaps, slow round trips included: a node passes it only under the newest
\* fence, and the newest fence was issued to one node.
THEOREM LeaderIsUnique == Spec => []OneCurrentLeader
<1>1. LockInv => OneCurrentLeader
  BY DEF LockInv, FencesAreIssued, OneCurrentLeader, StillLeader
<1> QED BY <1>1, LockIsSafe, PTL

\* The election implements what the engine relies on: a bump is a grant, a promotion
\* makes a node believe a fence that was issued to it, a demotion, shutdown or crash
\* makes it forget, and no other step changes a fence or a belief.
THEOREM ElectionRefinesLeadership == Spec => ImplementsLeadership
<1> DEFINE token == [n \in Nodes |-> IF leader[n] THEN myFence[n] ELSE NoFence]
<1>1. Init => Promise!Init
  BY DEF Init, Promise!Init
<1>2. LockInv /\ [Next]_vars => [Promise!Next]_Promise!lvars
  <2> SUFFICES ASSUME LockInv, [Next]_vars PROVE [Promise!Next]_Promise!lvars
    OBVIOUS
  <2> USE DEF NoFault, dbVars, nodeVars, connVars, callVars
  <2>0. TypeOK /\ FencesAreIssued
    BY DEF LockInv
  <2>1. ASSUME UNCHANGED <<grants, leader, myFence>>
        PROVE  UNCHANGED Promise!lvars
    BY <2>1 DEF Promise!lvars
  <2>2. ASSUME NEW n \in Nodes, grants' = grants, token' = [token EXCEPT ![n] = NoFence]
        PROVE  Promise!Next
    BY <2>2 DEF Promise!Next, Promise!Forget
  <2>3. ASSUME NEW n \in Nodes, NEW k \in Slots, Bump(n, k)
        PROVE  [Promise!Next]_Promise!lvars
    <3>1. CASE Answers(poll[n][k].s)
      <4>1. fence < MaxFence /\ grants' = Append(grants, n) /\ UNCHANGED <<leader, myFence>>
        BY <2>3, <3>1 DEF Bump
      <4>2. Promise!Grant(n)
        BY <4>1 DEF Promise!Grant, Promise!fence, fence
      <4> QED BY <4>2 DEF Promise!Next
    <3>2. CASE ~Answers(poll[n][k].s)
      BY <2>1, <2>3, <3>2 DEF Bump
    <3> QED BY <3>1, <3>2
  <2>4. ASSUME NEW n \in Nodes, NEW k \in Slots, Promote(n, k)
        PROVE  Promise!Next
    <3>1. poll[n][k].f \in 1 .. fence /\ grants[poll[n][k].f] = n
      BY <2>0, <2>4 DEF Promote, FencesAreIssued
    <3>2. leader' = [leader EXCEPT ![n] = TRUE] /\ myFence' = [myFence EXCEPT ![n] = poll[n][k].f] /\ grants' = grants
      BY <2>4 DEF Promote
    <3>3. \A m \in Nodes : /\ leader'[m] = IF m = n THEN TRUE ELSE leader[m]
                           /\ myFence'[m] = IF m = n THEN poll[n][k].f ELSE myFence[m]
      BY <2>0, <3>2 DEF TypeOK
    <3>4. token' = [token EXCEPT ![n] = poll[n][k].f]
      BY <3>3
    <3>5. Promise!Believe(n)
      BY <3>1, <3>2, <3>4 DEF Promise!Believe, Promise!fence, fence
    <3> QED BY <3>5 DEF Promise!Next
  <2>5. ASSUME NEW n \in Nodes, DemoteStep(n)
        PROVE  [Promise!Next]_Promise!lvars
    <3>1. DemoteEffect(n)
      BY <2>0, <2>5, DemoteEffectHolds
    <3>2. PICK lost \in BOOLEAN : /\ leader' = [leader EXCEPT ![n] = @ /\ ~lost]
                                  /\ myFence' = [myFence EXCEPT ![n] = IF lost THEN NoFence ELSE @]
                                  /\ grants' = grants
      BY <3>1 DEF DemoteEffect
    <3>3. CASE lost
      <4>1. \A m \in Nodes : leader'[m] = (IF m = n THEN FALSE ELSE leader[m]) /\ (m # n => myFence'[m] = myFence[m])
        BY <2>0, <3>2, <3>3 DEF TypeOK
      <4>2. token' = [token EXCEPT ![n] = NoFence]
        BY <4>1
      <4> QED BY <2>2, <3>2, <4>2
    <3>4. CASE ~lost
      <4>1. leader' = leader /\ myFence' = myFence
        BY <2>0, <3>2, <3>4 DEF TypeOK
      <4> QED BY <2>1, <3>2, <4>1
    <3> QED BY <3>3, <3>4
  <2>6. ASSUME NEW n \in Nodes, Destroy(n) \/ Crash(n)
        PROVE  Promise!Next
    <3>1. leader' = [leader EXCEPT ![n] = FALSE] /\ grants' = grants /\ \A m \in Nodes : m # n => myFence'[m] = myFence[m]
      BY <2>0, <2>6 DEF Destroy, Crash, TypeOK
    <3>2. \A m \in Nodes : leader'[m] = IF m = n THEN FALSE ELSE leader[m]
      BY <2>0, <3>1 DEF TypeOK
    <3>3. token' = [token EXCEPT ![n] = NoFence]
      BY <3>1, <3>2
    <3> QED BY <2>2, <3>1, <3>3
  <2>7. ASSUME NEW n \in Nodes, NEW k \in Slots, Tick(n, k) \/ Connect(n, k) \/ ConnectFails(n, k) \/ TryLock(n, k)
        PROVE  UNCHANGED <<grants, leader, myFence>>
    BY <2>7 DEF Tick, Connect, ConnectFails, TryLock
  <2>8. ASSUME NEW n \in Nodes, Beat(n) \/ StepDown(n) \/ CloseReturns(n) \/ ReadFence(n)
        PROVE  UNCHANGED <<grants, leader, myFence>>
    BY <2>8 DEF Beat, StepDown, CloseReturns, ReadFence
  <2>9. ASSUME NEW s \in Sessions, Break(s) \/ Reap(s)
        PROVE  UNCHANGED <<grants, leader, myFence>>
    BY <2>9 DEF Break, Reap
  <2>10. CASE UNCHANGED vars
    BY <2>1, <2>10 DEF vars
  <2> QED BY <2>1, <2>3, <2>4, <2>5, <2>6, <2>7, <2>8, <2>9, <2>10
         DEF Next, Polls, Faulty, Answered, DemoteStep
<1> QED BY <1>1, <1>2, LockIsSafe, PTL DEF Spec, ImplementsLeadership, Promise!Spec
=============================================================================
