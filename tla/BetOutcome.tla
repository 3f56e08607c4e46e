----------------------------- MODULE BetOutcome -----------------------------
(***************************************************************************)
(* What a bet slot promises, without handlers, claims or sweeps: a slot    *)
(* (round, user, panel) yields at most one bet; the bet is held, then won, *)
(* lost or given back; and a bet that was given back stays given back.     *)
(* The statuses are those of Bet.status, grouped by what they mean for the *)
(* player (common/bet-status.ts and the comment on the column in           *)
(* prisma/schema.prisma).                                                  *)
(***************************************************************************)
CONSTANT BetIds
VARIABLE outcome

Outcomes == {"none", "held", "won", "lost", "returned"}

Init == outcome = [b \in BetIds |-> "none"]

\* A bet comes into being: held, or given back before it was ever active.
Enter(b, o) ==
    /\ \A c \in BetIds : outcome[c] = "none"
    /\ outcome' = [outcome EXCEPT ![b] = o]

\* A held bet is decided.
Decide(b, o) ==
    /\ outcome[b] = "held"
    /\ outcome' = [outcome EXCEPT ![b] = o]

\* The stake is given back, by a cancel, a refund or a void.
GiveBack(b) ==
    /\ outcome[b] \in {"held", "won", "lost"}
    /\ outcome' = [outcome EXCEPT ![b] = "returned"]

Next ==
    \E b \in BetIds :
        \/ \E o \in {"held", "returned"} : Enter(b, o)
        \/ \E o \in {"won", "lost"} : Decide(b, o)
        \/ GiveBack(b)

Spec == Init /\ [][Next]_outcome
=============================================================================
