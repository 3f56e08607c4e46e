---------------------------- MODULE Leadership ----------------------------
(***************************************************************************)
(* What the election promises the round engine (leader-lock.ts, Belt B of  *)
(* election.service.ts): every grant of leadership carries a fence that    *)
(* was never issued before, a node acts only on a fence that was issued to *)
(* it, and a check against the newest fence therefore singles out one node *)
(* at most. When a lock is won, when it is noticed lost and by whom is     *)
(* left open: the engine must be right for every order of these events.    *)
(***************************************************************************)
EXTENDS Naturals, Sequences

CONSTANTS Nodes, NoFence, MaxFence

VARIABLES
  grants,    \* the fences issued: grants[f] is the node that fence f names
  token      \* the fence each node believes it leads under

lvars == <<grants, token>>

\* engine_leadership.fence: the newest fence.
fence == Len(grants)

Init == grants = << >> /\ token = [n \in Nodes |-> NoFence]

\* The lock is won somewhere and the fence is bumped for node n.
Grant(n) ==
  /\ fence < MaxFence
  /\ grants' = Append(grants, n)
  /\ UNCHANGED token

\* A node starts to believe a fence that was issued to it.
Believe(n) ==
  /\ \E f \in 1 .. fence : grants[f] = n /\ token' = [token EXCEPT ![n] = f]
  /\ UNCHANGED grants

\* A node stops leading: demotion, step-down, shutdown or crash.
Forget(n) ==
  /\ token' = [token EXCEPT ![n] = NoFence]
  /\ UNCHANGED grants

Next == \E n \in Nodes : Grant(n) \/ Believe(n) \/ Forget(n)

Spec == Init /\ [][Next]_lvars

\* assertStillLeader: n believes the newest fence.
StillLeader(n) == fence > 0 /\ token[n] = fence
===========================================================================
