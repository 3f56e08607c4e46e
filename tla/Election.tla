----------------------------- MODULE Election -----------------------------
(***************************************************************************)
(* Leader election: ElectionService (election.service.ts) over             *)
(* PgAdvisoryLock (pg-advisory-lock.ts). Leadership is a Postgres session  *)
(* advisory lock on a client the lock object opens lazily and keeps; a     *)
(* follower polls for it, a leader heartbeats its client, and each win     *)
(* bumps a fence row that the engine checks before it writes.              *)
(*                                                                         *)
(* Every await is a step boundary. A poll is four steps (connect, lock,    *)
(* bump, promote), a heartbeat, a step-down and a close are two each, and  *)
(* polls of one node overlap when a database round trip outlasts the poll  *)
(* interval (slow). A session breaks at its client first and is reaped by  *)
(* Postgres later, in either order of discovery.                           *)
(*                                                                         *)
(* The Redis lease (writeLease, clearLease) mirrors the holder and is read *)
(* by nobody in this code; it is left out.                                 *)
(***************************************************************************)
EXTENDS Naturals, Sequences, FiniteSets

CONSTANTS
  Nodes, Participants,   \* GAME_AUTOSTART=false keeps a node out of Participants
  Slots,                 \* polls of one node that can be in flight together
  MaxSessions,           \* Postgres sessions per node; a reaped one is used again
  NoSession,
  NoFence, MaxFence,     \* bound on the fence, hence on the wins
  MaxFaults              \* bound on breaks, crashes, failed connects, step-downs and
                         \* shutdowns, for prompt and for slow round trips

\* The sessions a node can have open at once.
SessionsOf(n) == {n} \X (1 .. MaxSessions)
Sessions == UNION {SessionsOf(n) : n \in Nodes}

ASSUME ElectionAssumption ==
  /\ Participants \subseteq Nodes
  /\ NoSession \notin Sessions
  /\ NoFence \notin Nat
  /\ MaxFaults \in [BOOLEAN -> Nat]
  /\ MaxFence \in Nat /\ MaxSessions \in Nat

VARIABLES
  slow,        \* a database round trip may outlast ACQUIRE_INTERVAL_MS
  faults,      \* faults so far
  sess,        \* per session: "free", "live", "closing" (end() called), "broken"
  holder,      \* the session that holds LEADER_KEY
  depth,       \* how often it took it: session locks are re-entrant
  grants,      \* engine_leadership: the node each fence was issued to, newest last
  leader, myFence, stopped, polling, beating,   \* the fields of ElectionService
  client,      \* PgAdvisoryLock.client
  closing,     \* a close() in flight: the session it ends
  poll,        \* polls in flight: [at, s, f]
  beat,        \* a heartbeat in flight: the session it was sent on
  leaving      \* a stepDown() between its release and its demote

nodeVars == <<leader, myFence, stopped, polling, beating>>
dbVars == <<sess, holder, depth, grants>>
connVars == <<client, closing>>
callVars == <<poll, beat, leaving>>
vars == <<slow, faults, dbVars, nodeVars, connVars, callVars>>

fence == Len(grants)
PollAt(at, s, f) == [at |-> at, s |-> s, f |-> f]
PollType == [at : {"idle", "connect", "lock", "bump", "promote"},
             s : Sessions \cup {NoSession}, f : 1 .. MaxFence \cup {NoFence}]
NoPoll == PollAt("idle", NoSession, NoFence)

TypeOK ==
  /\ slow \in BOOLEAN /\ faults \in 0 .. MaxFaults[slow]
  /\ sess \in [Sessions -> {"free", "live", "closing", "broken"}]
  /\ holder \in Sessions \cup {NoSession} /\ depth \in Nat
  /\ grants \in Seq(Nodes) /\ fence <= MaxFence
  /\ leader \in [Nodes -> BOOLEAN] /\ stopped \in [Nodes -> BOOLEAN]
  /\ polling \in [Nodes -> BOOLEAN] /\ beating \in [Nodes -> BOOLEAN]
  /\ leaving \in [Nodes -> BOOLEAN]
  /\ myFence \in [Nodes -> 1 .. MaxFence \cup {NoFence}]
  /\ client \in [Nodes -> Sessions \cup {NoSession}]
  /\ closing \in [Nodes -> Sessions \cup {NoSession}]
  /\ beat \in [Nodes -> Sessions \cup {NoSession}]
  /\ poll \in [Nodes -> [Slots -> PollType]]

\* onApplicationBootstrap: a participant polls at once and then on the interval.
Init ==
  /\ slow \in BOOLEAN /\ faults = 0
  /\ sess = [s \in Sessions |-> "free"]
  /\ holder = NoSession /\ depth = 0 /\ grants = << >>
  /\ leader = [n \in Nodes |-> FALSE] /\ stopped = [n \in Nodes |-> FALSE]
  /\ polling = [n \in Nodes |-> n \in Participants]
  /\ beating = [n \in Nodes |-> FALSE] /\ leaving = [n \in Nodes |-> FALSE]
  /\ myFence = [n \in Nodes |-> NoFence]
  /\ client = [n \in Nodes |-> NoSession] /\ closing = [n \in Nodes |-> NoSession]
  /\ beat = [n \in Nodes |-> NoSession]
  /\ poll = [n \in Nodes |-> [k \in Slots |-> NoPoll]]

Fault == faults < MaxFaults[slow] /\ faults' = faults + 1
NoFault == faults' = faults

SetPoll(n, k, p) == poll' = [poll EXCEPT ![n][k] = p]

\* A session on which a query still gets an answer.
Answers(s) == s # NoSession /\ sess[s] = "live"

\* The session a connect opens: the first one not in use.
FreeSession(n) ==
  {s \in SessionsOf(n) : /\ sess[s] = "free"
                         /\ \A r \in SessionsOf(n) : sess[r] = "free" => s[2] <= r[2]}

(* ------------------------------------------------------------ the polls *)

\* tick: the interval fires; conn() returns the open client or starts another.
\* An older poll or heartbeat still in flight means the round trips are slow.
Tick(n, k) ==
  /\ polling[n] /\ ~stopped[n] /\ ~leader[n]
  /\ poll[n][k] = NoPoll
  /\ slow \/ ((\A j \in Slots : poll[n][j] = NoPoll) /\ beat[n] = NoSession)
  /\ SetPoll(n, k, PollAt(IF client[n] = NoSession THEN "connect" ELSE "lock", client[n], NoFence))
  /\ NoFault /\ UNCHANGED <<slow, dbVars, nodeVars, connVars, beat, leaving>>

\* conn: connect() resolves and this client becomes the lock's client, whatever
\* client another poll stored meanwhile.
Connect(n, k) ==
  /\ poll[n][k].at = "connect"
  /\ \E s \in FreeSession(n) :
       /\ sess' = [sess EXCEPT ![s] = "live"]
       /\ client' = [client EXCEPT ![n] = s]
       /\ SetPoll(n, k, PollAt("lock", s, NoFence))
  /\ NoFault /\ UNCHANGED <<slow, holder, depth, grants, nodeVars, closing, beat, leaving>>

\* connectionTimeoutMillis, or a refused connection: tick logs and returns.
ConnectFails(n, k) ==
  /\ poll[n][k].at = "connect"
  /\ Fault
  /\ SetPoll(n, k, NoPoll)
  /\ UNCHANGED <<slow, dbVars, nodeVars, connVars, beat, leaving>>

\* pg_try_advisory_lock: re-entrant for the session that holds the key.
CanLock(s) == holder \in {NoSession, s}

TryLock(n, k) ==
  LET s == poll[n][k].s IN
  /\ poll[n][k].at = "lock"
  /\ IF Answers(s) /\ CanLock(s)
     THEN /\ holder' = s /\ depth' = depth + 1
          /\ SetPoll(n, k, PollAt("bump", s, NoFence))
     ELSE UNCHANGED <<holder, depth>> /\ SetPoll(n, k, NoPoll)
  /\ NoFault /\ UNCHANGED <<slow, sess, grants, nodeVars, connVars, beat, leaving>>

\* Mutant: the fence is read, and bumped only if there was none.
BumpFirst(n, k) ==
  LET s == poll[n][k].s IN
  /\ poll[n][k].at = "bump"
  /\ IF Answers(s)
     THEN /\ grants' = IF fence = 0 THEN <<n>> ELSE grants
          /\ SetPoll(n, k, PollAt("promote", s, Len(grants')))
     ELSE UNCHANGED grants /\ SetPoll(n, k, NoPoll)
  /\ NoFault /\ UNCHANGED <<slow, sess, holder, depth, nodeVars, connVars, beat, leaving>>

\* The fence UPDATE in the same session; on a dead session it throws and the
\* poll gives up with nothing to undo.
Bump(n, k) ==
  LET s == poll[n][k].s IN
  /\ poll[n][k].at = "bump"
  /\ IF Answers(s)
     THEN /\ fence < MaxFence
          /\ grants' = Append(grants, n)
          /\ SetPoll(n, k, PollAt("promote", s, fence + 1))
     ELSE UNCHANGED grants /\ SetPoll(n, k, NoPoll)
  /\ NoFault /\ UNCHANGED <<slow, sess, holder, depth, nodeVars, connVars, beat, leaving>>

\* Mutant: the fence is read again at promotion.
PromoteNewest(n, k) ==
  /\ poll[n][k].at = "promote"
  /\ leader' = [leader EXCEPT ![n] = TRUE]
  /\ myFence' = [myFence EXCEPT ![n] = fence]
  /\ polling' = [polling EXCEPT ![n] = FALSE]
  /\ beating' = [beating EXCEPT ![n] = @ \/ ~stopped[n]]
  /\ SetPoll(n, k, NoPoll)
  /\ NoFault /\ UNCHANGED <<slow, dbVars, stopped, connVars, beat, leaving>>

\* promote: unconditional once tryAcquire returned a fence. The heartbeat is
\* not started on a node that was stopped meanwhile. Queries of one client and
\* commands of one Redis connection answer in order, so polls of a node promote
\* in the order of their fences.
Promote(n, k) ==
  /\ poll[n][k].at = "promote"
  /\ \A j \in Slots : poll[n][j].at = "promote" => poll[n][k].f <= poll[n][j].f
  /\ leader' = [leader EXCEPT ![n] = TRUE]
  /\ myFence' = [myFence EXCEPT ![n] = poll[n][k].f]
  /\ polling' = [polling EXCEPT ![n] = FALSE]
  /\ beating' = [beating EXCEPT ![n] = @ \/ ~stopped[n]]
  /\ SetPoll(n, k, NoPoll)
  /\ NoFault /\ UNCHANGED <<slow, dbVars, stopped, connVars, beat, leaving>>

(* -------------------------------------------------- losing the leadership *)

\* pg_advisory_unlock on the client: one level, and only if it is the holder.
Unlock(s) ==
  IF Answers(s) /\ holder = s
  THEN /\ depth' = depth - 1
       /\ holder' = IF depth = 1 THEN NoSession ELSE holder
  ELSE UNCHANGED <<holder, depth>>

\* close: end() is sent; no query of this client is answered from here on.
BeginClose(n) ==
  /\ closing' = [closing EXCEPT ![n] = client[n]]
  /\ sess' = IF Answers(client[n]) THEN [sess EXCEPT ![client[n]] = "closing"] ELSE sess

\* Mutant: the poll timer that promote cleared is not set again.
DemoteSilent(n) ==
  IF leader[n]
  THEN /\ leader' = [leader EXCEPT ![n] = FALSE]
       /\ myFence' = [myFence EXCEPT ![n] = NoFence]
       /\ beating' = [beating EXCEPT ![n] = FALSE]
       /\ BeginClose(n)
       /\ UNCHANGED <<polling, stopped>>
  ELSE UNCHANGED <<nodeVars, sess, closing>>

\* demote: a follower again, and polling unless the node is shutting down.
Demote(n) ==
  IF leader[n]
  THEN /\ leader' = [leader EXCEPT ![n] = FALSE]
       /\ myFence' = [myFence EXCEPT ![n] = NoFence]
       /\ beating' = [beating EXCEPT ![n] = FALSE]
       /\ polling' = [polling EXCEPT ![n] = ~stopped[n]]
       /\ BeginClose(n)
       /\ UNCHANGED stopped
  ELSE UNCHANGED <<nodeVars, sess, closing>>

\* beat: the heartbeat fires and sends SELECT 1 on the client of that moment.
Beat(n) ==
  /\ beating[n] /\ ~stopped[n] /\ leader[n] /\ beat[n] = NoSession
  /\ client[n] # NoSession
  /\ beat' = [beat EXCEPT ![n] = client[n]]
  /\ NoFault /\ UNCHANGED <<slow, dbVars, nodeVars, connVars, poll, leaving>>

\* heartbeat throws at once when there is no client.
BeatWithoutClient(n) ==
  /\ beating[n] /\ ~stopped[n] /\ leader[n] /\ beat[n] = NoSession
  /\ client[n] = NoSession
  /\ Demote(n)
  /\ NoFault /\ UNCHANGED <<slow, holder, depth, grants, client, callVars>>

\* The answer: a session that broke meanwhile demotes whoever leads now.
BeatReturns(n) ==
  /\ beat[n] # NoSession
  /\ IF Answers(beat[n]) THEN UNCHANGED <<nodeVars, sess, closing>> ELSE Demote(n)
  /\ beat' = [beat EXCEPT ![n] = NoSession]
  /\ NoFault /\ UNCHANGED <<slow, holder, depth, grants, client, poll, leaving>>

\* stepDown: the deadman of the engine asks; the lock is released first ...
StepDown(n) ==
  /\ leader[n] /\ ~leaving[n]
  /\ Fault
  /\ Unlock(client[n])
  /\ leaving' = [leaving EXCEPT ![n] = TRUE]
  /\ UNCHANGED <<slow, sess, grants, nodeVars, connVars, poll, beat>>

\* ... and the node is demoted when the release has returned.
StepDownDemotes(n) ==
  /\ leaving[n]
  /\ Demote(n)
  /\ leaving' = [leaving EXCEPT ![n] = FALSE]
  /\ NoFault /\ UNCHANGED <<slow, holder, depth, grants, client, poll, beat>>

\* close returns: the session ends in Postgres and the field is cleared,
\* whichever client it holds by now.
CloseReturns(n) ==
  /\ closing[n] # NoSession
  /\ client' = [client EXCEPT ![n] = NoSession]
  /\ closing' = [closing EXCEPT ![n] = NoSession]
  /\ NoFault /\ UNCHANGED <<slow, dbVars, nodeVars, callVars>>

\* onModuleDestroy: timers off, the lock released if leading, the client closed.
Destroy(n) ==
  /\ ~stopped[n]
  /\ Fault
  /\ stopped' = [stopped EXCEPT ![n] = TRUE]
  /\ polling' = [polling EXCEPT ![n] = FALSE]
  /\ beating' = [beating EXCEPT ![n] = FALSE]
  /\ leader' = [leader EXCEPT ![n] = FALSE]
  /\ IF leader[n] THEN Unlock(client[n]) ELSE UNCHANGED <<holder, depth>>
  /\ BeginClose(n)
  /\ UNCHANGED <<slow, grants, myFence, client, callVars>>

\* assertStillLeader on a node without a client: currentFence opens one.
ReadFence(n) ==
  /\ leader[n] /\ client[n] = NoSession
  /\ \E s \in FreeSession(n) :
       /\ sess' = [sess EXCEPT ![s] = "live"]
       /\ client' = [client EXCEPT ![n] = s]
  /\ NoFault /\ UNCHANGED <<slow, holder, depth, grants, nodeVars, closing, callVars>>

(* ----------------------------------------------- Postgres and the network *)

\* A connection breaks under its client; Postgres has not noticed yet.
Break(s) ==
  /\ sess[s] = "live"
  /\ Fault
  /\ sess' = [sess EXCEPT ![s] = "broken"]
  /\ UNCHANGED <<slow, holder, depth, grants, nodeVars, connVars, callVars>>

\* A session nobody refers to any more can be handed out again.
Forgotten(s) ==
  /\ \A n \in Nodes : s \notin {client[n], closing[n], beat[n]}
  /\ \A n \in Nodes, k \in Slots : poll[n][k].s # s

\* Postgres tears a broken or ended session down and frees its lock.
Reap(s) ==
  /\ sess[s] \in {"broken", "closing"}
  /\ holder = s \/ Forgotten(s)
  /\ holder' = IF holder = s THEN NoSession ELSE holder
  /\ depth' = IF holder = s THEN 0 ELSE depth
  /\ sess' = IF Forgotten(s) THEN [sess EXCEPT ![s] = "free"] ELSE sess
  /\ NoFault /\ UNCHANGED <<slow, grants, nodeVars, connVars, callVars>>

\* The process dies and comes back with the state of a fresh one.
Crash(n) ==
  /\ Fault
  /\ sess' = [s \in Sessions |-> IF s \in SessionsOf(n) /\ sess[s] # "free"
                              THEN "broken" ELSE sess[s]]
  /\ leader' = [leader EXCEPT ![n] = FALSE]
  /\ myFence' = [myFence EXCEPT ![n] = NoFence]
  /\ stopped' = [stopped EXCEPT ![n] = FALSE]
  /\ polling' = [polling EXCEPT ![n] = n \in Participants]
  /\ beating' = [beating EXCEPT ![n] = FALSE]
  /\ client' = [client EXCEPT ![n] = NoSession]
  /\ closing' = [closing EXCEPT ![n] = NoSession]
  /\ beat' = [beat EXCEPT ![n] = NoSession]
  /\ poll' = [poll EXCEPT ![n] = [k \in Slots |-> NoPoll]]
  /\ leaving' = [leaving EXCEPT ![n] = FALSE]
  /\ UNCHANGED <<slow, holder, depth, grants>>

(* --------------------------------------------------------- specification *)

Polls(n) == \E k \in Slots :
  Tick(n, k) \/ Connect(n, k) \/ TryLock(n, k) \/ Bump(n, k) \/ Promote(n, k)
Faulty(n) == Destroy(n) \/ Crash(n) \/ StepDown(n) \/ \E k \in Slots : ConnectFails(n, k)
Answered(n) ==
  BeatReturns(n) \/ StepDownDemotes(n) \/ CloseReturns(n)

Next ==
  \/ \E n \in Nodes : \/ Polls(n) \/ Faulty(n) \/ Answered(n)
                      \/ Beat(n) \/ BeatWithoutClient(n) \/ ReadFence(n)
  \/ \E s \in Sessions : Break(s) \/ Reap(s)

Spec == Init /\ [][Next]_vars

\* Timers fire and every query sent is answered or fails; faults need not come.
Fairness ==
  /\ \A n \in Nodes :
       /\ \A k \in Slots :
            /\ WF_vars(Tick(n, k)) /\ WF_vars(Connect(n, k)) /\ WF_vars(TryLock(n, k))
            /\ WF_vars(Bump(n, k)) /\ WF_vars(Promote(n, k))
       /\ WF_vars(Beat(n)) /\ WF_vars(BeatWithoutClient(n)) /\ WF_vars(BeatReturns(n))
       /\ WF_vars(StepDownDemotes(n)) /\ WF_vars(CloseReturns(n))
  /\ \A s \in Sessions : WF_vars(Reap(s))

FairSpec == Spec /\ Fairness

(* ------------------------------------------------------------ properties *)

\* assertStillLeader, when its read succeeds.
StillLeader(n) == leader[n] /\ myFence[n] = fence

\* Of all nodes that think they lead, one at most passes assertStillLeader,
\* through breaks, crashes, late promotions and overlapping polls.
OneCurrentLeader == \A m, n \in Nodes : StillLeader(m) /\ StillLeader(n) => m = n

\* tryAcquire bumps in the session that won: as long as no round trip outlasts the
\* poll interval, while a session that still answers holds the lock, the newest
\* fence was issued to its node, or its poll is about to issue one. (A slow poll may
\* bump after a step-down of its own node released the lock it won.)
FenceFollowsLock ==
  ~slow /\ Answers(holder) =>
    \/ fence > 0 /\ grants[fence] = holder[1]
    \/ \E k \in Slots : poll[holder[1]][k].s = holder /\ poll[holder[1]][k].at = "bump"

\* The dedicated client: as long as no round trip outlasts the poll interval,
\* the session a leader heartbeats is the one that holds its lock.
HeartbeatWatchesLock ==
  ~slow => \A n \in Nodes :
    leader[n] /\ Answers(holder) /\ holder \in SessionsOf(n) => client[n] = holder

\* A node acts, and is about to act, only on a fence that was issued to it.
FencesAreIssued ==
  \A n \in Nodes :
    /\ leader[n] => myFence[n] # NoFence
    /\ myFence[n] # NoFence => myFence[n] \in 1 .. fence /\ grants[myFence[n]] = n
    /\ \A k \in Slots : poll[n][k].at = "promote" =>
         poll[n][k].f \in 1 .. fence /\ grants[poll[n][k].f] = n

\* A node refers to sessions of its own, and to none that could be handed out
\* again; the key is held as often as it was taken.
InUse(n, s) == s = NoSession \/ (s \in SessionsOf(n) /\ sess[s] # "free")
SessionsInUse ==
  /\ \A n \in Nodes :
       /\ InUse(n, client[n]) /\ InUse(n, closing[n]) /\ InUse(n, beat[n])
       /\ \A k \in Slots : /\ InUse(n, poll[n][k].s)
                           /\ poll[n][k].at = "idle" => poll[n][k] = NoPoll
  /\ holder # NoSession => sess[holder] # "free"
  /\ holder = NoSession <=> depth = 0

\* Without slow round trips a node has one poll in flight, and none while it leads;
\* the only session it has live is its client, and the poll that won the lock holds it.
PromptNode(n) ==
  /\ \A j, k \in Slots : poll[n][j].at # "idle" /\ poll[n][k].at # "idle" => j = k
  /\ closing[n] # NoSession => closing[n] = client[n] /\ sess[client[n]] # "live"
  /\ \A s \in SessionsOf(n) : sess[s] = "live" => client[n] = s
  /\ \A k \in Slots :
       /\ poll[n][k].at # "idle" => ~leader[n]
       /\ poll[n][k].at = "connect" => client[n] = NoSession
       /\ poll[n][k].at = "bump" /\ Answers(poll[n][k].s) => holder = poll[n][k].s
OneClientPerNode == ~slow => \A n \in Nodes : PromptNode(n)

\* The invariant of the election: types, the fences, the sessions and the lock.
LockInv ==
  TypeOK /\ FencesAreIssued /\ SessionsInUse /\ OneClientPerNode
  /\ FenceFollowsLock /\ HeartbeatWatchesLock

\* A follower whose client broke: conn() hands the dead client to every poll,
\* and only a close(), which only a demotion sends, would clear it.
Deaf(n) ==
  ~leader[n] /\ client[n] # NoSession /\ ~Answers(client[n]) /\ closing[n] = NoSession

\* After the last fault some node leads under the newest fence for good, unless
\* each participant has shut down or is deaf: no other lock, timer or flag that a
\* fault leaves behind keeps the game without a leader.
LeaderEmerges ==
  ~slow => <>[]( \/ \E n \in Nodes : StillLeader(n)
                 \/ \A n \in Participants : stopped[n] \/ Deaf(n))

\* tick: "A DB blip at acquire-time: stay follower, retry next poll." A follower
\* that keeps polling gets a connection that answers, or someone leads.
RetryReachesDatabase ==
  \A n \in Nodes :
    polling[n] ~> ~polling[n] \/ Answers(client[n]) \/ \E m \in Nodes : StillLeader(m)

\* Election is an implementation of what the engine relies on.
Promise == INSTANCE Leadership
  WITH token <- [n \in Nodes |-> IF leader[n] THEN myFence[n] ELSE NoFence]
ImplementsLeadership == Promise!Spec
===========================================================================
