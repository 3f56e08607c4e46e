--------------------------- MODULE FairnessProofs ---------------------------
(***************************************************************************)
(* Proofs about Fairness, for any number of nodes, endpoints, epochs and   *)
(* faults: the invariant of the epochs, rounds only under genuine salts,   *)
(* and salts that never change.                                            *)
(***************************************************************************)
EXTENDS Fairness, FiniteSetTheorems, TLAPS

(* ------------------------------------------------------- the block oracle *)

\* What liars alone report is less than a majority of the configured endpoints.
LEMMA LiarsLack ==
  ASSUME NEW S \in SUBSET Liars
  PROVE  /\ Cardinality(S) \in Nat /\ Cardinality(Rpcs) \in Nat
         /\ Cardinality(S) < Cardinality(Rpcs) \div 2 + 1
<1>1. IsFiniteSet(Rpcs) /\ IsFiniteSet(Liars) /\ IsFiniteSet(S)
  BY FairnessAssumption, FS_Subset
<1>2. Cardinality(S) <= Cardinality(Liars)
  BY <1>1, FS_Subset
<1>3. Cardinality(S) \in Nat /\ Cardinality(Liars) \in Nat /\ Cardinality(Rpcs) \in Nat
  BY <1>1, FS_CardinalityType
<1>4. 2 * Cardinality(Liars) < Cardinality(Rpcs)
  BY FairnessAssumption
<1> QED
  BY <1>2, <1>3, <1>4

\* The quorum: whatever a minority of liars reports and however few of the honest
\* endpoints answer, the agreed hash is the one of the block, or there is none.
LEMMA QuorumIsHonest ==
  ASSUME NEW known, NEW v \in Votes(known), NEW w \in LiarVotes
  PROVE  TopHash(Count(v, w, "hash"), Count(v, w, "forged")) \in {"hash", "none"}
<1> DEFINE H == {r \in Rpcs \ Liars : v[r] = "forged"}
           L == {r \in Liars : w[r] = "forged"}
           H2 == {r \in Rpcs \ Liars : v[r] = "hash"}
           L2 == {r \in Liars : w[r] = "hash"}
<1>1. H = {}
  BY DEF Votes
<1>2. Cardinality(H) = 0
  BY <1>1, FS_EmptySet
<1>3. /\ Cardinality(L) \in Nat /\ Cardinality(Rpcs) \in Nat
      /\ Cardinality(L) < Cardinality(Rpcs) \div 2 + 1
  <2>1. L \in SUBSET Liars
    OBVIOUS
  <2> HIDE DEF L
  <2> QED
    BY <2>1, LiarsLack
<1>4. Count(v, w, "forged") = Cardinality(H) + Cardinality(L)
  BY DEF Count
<1>5. Cardinality(H2) \in Nat /\ Cardinality(L2) \in Nat
  <2>1. IsFiniteSet(Rpcs) /\ H2 \subseteq Rpcs /\ L2 \subseteq Rpcs
    BY FairnessAssumption
  <2> HIDE DEF H2, L2
  <2> QED
    BY <2>1, FS_Subset, FS_CardinalityType
<1>6. Count(v, w, "hash") = Cardinality(H2) + Cardinality(L2)
  BY DEF Count
<1> HIDE DEF H, L, H2, L2
<1>7. Count(v, w, "forged") < Cardinality(Rpcs) \div 2 + 1 /\ Count(v, w, "forged") \in Nat
  BY <1>2, <1>3, <1>4
<1>8. Count(v, w, "hash") \in Nat
  BY <1>5, <1>6
<1> QED
  BY <1>3, <1>7, <1>8 DEF TopHash

\* tryResolve gives back the salt the epoch has, or for a block epoch its hash.
LEMMA ResolvedIsGenuine ==
  ASSUME NEW e \in Ids, RowFits(e), NEW s, Resolve(e, s), s # "none"
  PROVE  s = Genuine(e)
<1>1. CASE epoch[e].salt # "none"
  BY <1>1 DEF Resolve, Resolved, RowFits
<1>2. CASE epoch[e].salt = "none"
  <2>1. PICK v \in Votes(e \in final), w \in LiarVotes :
          s = TopHash(Count(v, w, "hash"), Count(v, w, "forged"))
    BY <1>2 DEF Resolve, Resolved
  <2>2. s \in {"hash", "none"}
    BY <2>1, QuorumIsHonest
  <2> QED
    BY <1>2, <2>2 DEF RowFits, Genuine
<1> QED
  BY <1>1, <1>2

(* ------------------------------------------------------ effects of updates *)

\* What no step undoes: ids, sources, known salts and seed rows.
Grows ==
  /\ strict' = strict
  /\ Ids \subseteq Ids'
  /\ \A e \in Ids :
       /\ epoch'[e].source = epoch[e].source
       /\ epoch[e].salt # "none" => epoch'[e].salt = epoch[e].salt
       /\ epoch'[e].seeds >= epoch[e].seeds

\* An epoch is updated by id.
LEMMA RowUpdate ==
  ASSUME TypeOK, NEW e \in Ids, NEW r \in EpochType, epoch' = [epoch EXCEPT ![e] = r]
  PROVE  /\ epoch' \in Seq(EpochType) /\ Len(epoch') <= MaxEpochs
         /\ Ids' = Ids
         /\ epoch'[e] = r /\ \A f \in Ids \ {e} : epoch'[f] = epoch[f]
<1>1. epoch \in Seq(EpochType) /\ Len(epoch) <= MaxEpochs
  BY DEF TypeOK
<1>2. epoch' \in Seq(EpochType) /\ Len(epoch') = Len(epoch)
  BY <1>1 DEF Ids
<1> QED
  BY <1>1, <1>2 DEF Ids

\* An epoch is created.
LEMMA RowCreation ==
  ASSUME TypeOK, NEW r \in EpochType, epoch' = Append(epoch, r), NextId <= MaxEpochs
  PROVE  /\ epoch' \in Seq(EpochType) /\ Len(epoch') <= MaxEpochs
         /\ Ids' = Ids \cup {NextId} /\ NextId \notin Ids /\ NextId \in Nat
         /\ epoch'[NextId] = r /\ \A f \in Ids : epoch'[f] = epoch[f]
<1>1. epoch \in Seq(EpochType)
  BY DEF TypeOK
<1>2. epoch' \in Seq(EpochType) /\ Len(epoch') = Len(epoch) + 1
  BY <1>1
<1>3. Ids = 1 .. Len(epoch) /\ Ids' = 1 .. Len(epoch')
  BY <1>1, <1>2 DEF Ids
<1>4. Len(epoch) \in Nat
  BY <1>1
<1> QED
  BY <1>1, <1>2, <1>3, <1>4 DEF NextId

LEMMA RowTypes ==
  ASSUME TypeOK, NEW e \in Ids
  PROVE  /\ epoch[e] \in EpochType /\ e \in Nat
         /\ epoch[e].status \in {"pending", "armed", "active", "exhausted"}
         /\ epoch[e].source \in {"random", "eth-block"} /\ epoch[e].salt \in Salts
         /\ epoch[e].seeds \in {0, ChainLength} /\ epoch[e].used \in Nat
         /\ epoch[e].seeds \in Nat /\ epoch[e].seeds <= ChainLength
         /\ ChainLength \in Nat
<1>1. epoch[e] \in EpochType /\ e \in Nat
  BY DEF TypeOK, Ids
<1>2. ChainLength \in Nat
  BY FairnessAssumption
<1> QED
  BY <1>1, <1>2 DEF EpochType

LEMMA CallTypes ==
  ASSUME TypeOK, NEW c \in Callers
  PROVE  /\ call[c] \in CallType /\ call[c].fn \in {"none", "ensure", "allocate"}
         /\ call[c].pc \in CallSteps \cup {"idle"} /\ call[c].pass \in Nat
         /\ call[c].e \in Nat /\ call[c].salt \in Salts
         /\ upkeep[c] \in UpkeepType
         /\ upkeep[c].pc \in UpkeepSteps \cup {"idle"} /\ upkeep[c].todo \in SUBSET Nat
         /\ upkeep[c].e \in Nat /\ upkeep[c].salt \in Salts
BY DEF TypeOK, CallType, UpkeepType

LEMMA FaultType ==
  ASSUME TypeOK, Fault \/ NoFault
  PROVE  faults' \in 0 .. MaxFaults
<1>1. MaxFaults \in Nat /\ faults \in 0 .. MaxFaults
  BY FairnessAssumption DEF TypeOK
<1> QED
  BY <1>1 DEF Fault, NoFault

LEMMA ResolveFault ==
  ASSUME NEW e, NEW s, Resolve(e, s)
  PROVE  Fault \/ NoFault
<1>1. CASE s = "none" /\ Settled(e) # "none"
  BY <1>1 DEF Resolve
<1>2. CASE ~(s = "none" /\ Settled(e) # "none")
  BY <1>2 DEF Resolve
<1> QED
  BY <1>1, <1>2

(* ---------------------------------------------------------------- frames *)

\* Rows that did not change still fit, and so do calls and upkeep that did not move.
LEMMA RowFrame ==
  ASSUME Grows, NEW e \in Ids, RowFits(e), epoch'[e] = epoch[e]
  PROVE  RowFits(e)'
BY DEF Grows, RowFits, Genuine, NotServable

LEMMA CallFrame ==
  ASSUME TypeOK, TypeOK', Grows, NEW c \in Callers, CallFits(c), call'[c] = call[c]
  PROVE  CallFits(c)'
<1> DEFINE e == call[c].e
<1>1. call'[c].e = e /\ call'[c].pc = call[c].pc /\ call'[c].salt = call[c].salt
      /\ call'[c].pass = call[c].pass /\ strict' = strict
  BY DEF Grows
<1>2. ASSUME e \in Ids
      PROVE  /\ e \in Ids' /\ (NotServable(e) <=> NotServable(e)') /\ Genuine(e)' = Genuine(e)
             /\ epoch[e].salt # "none" => epoch'[e].salt # "none"
             /\ epoch'[e].seeds >= epoch[e].seeds
             /\ epoch[e].seeds \in Nat /\ epoch'[e].seeds \in Nat
  <2>1. e \in Ids' /\ epoch'[e].source = epoch[e].source /\ strict' = strict
        /\ (epoch[e].salt # "none" => epoch'[e].salt # "none")
        /\ epoch'[e].seeds >= epoch[e].seeds
    BY <1>2 DEF Grows
  <2>2. epoch[e].seeds \in Nat
    BY <1>2, RowTypes
  <2>3. epoch'[e] \in EpochType
    BY <2>1 DEF TypeOK, Ids
  <2>4. epoch'[e].seeds \in Nat
    BY <2>3, FairnessAssumption DEF EpochType
  <2> QED
    BY <2>1, <2>2, <2>4 DEF NotServable, Genuine
<1>3. call[c].pass \in Nat
  BY CallTypes
<1> QED
  BY <1>1, <1>2, <1>3 DEF CallFits, CallSteps

LEMMA UpkeepFrame ==
  ASSUME Grows, NEW c \in Callers, UpkeepFits(c), upkeep'[c] = upkeep[c]
  PROVE  UpkeepFits(c)'
BY DEF Grows, UpkeepFits, Genuine

\* A step of an engine call: what is left to show of it.
LEMMA CallKeeps ==
  ASSUME EpochInv, TypeOK', Grows, RowsFit', NEW c \in Callers,
         started' = started, upkeep' = upkeep, call[c] # NoCall,
         \A d \in Callers \ {c} : call'[d] = call[d],
         CallFits(c)',
         Alone => /\ \A e, f \in With("active")' : e = f
                  /\ ServesAlone(c)'
  PROVE  EpochInv'
<1>1. CallsFit'
  <2> SUFFICES ASSUME NEW d \in Callers PROVE CallFits(d)'
    BY DEF CallsFit
  <2>1. CASE d = c
    BY <2>1
  <2>2. CASE d # c
    BY <2>2, CallFrame DEF EpochInv, CallsFit
  <2> QED
    BY <2>1, <2>2
<1>2. UpkeepsFit'
  BY UpkeepFrame DEF EpochInv, UpkeepsFit
<1>3. OneActiveEpoch'
  BY DEF OneActiveEpoch, Alone
<1>4. CallsAlone'
  <2>1. c \in Deposed => c \in started
    BY DEF EpochInv, CallsAlone
  <2>2. ASSUME NEW d \in Deposed \ started PROVE call'[d] = NoCall /\ upkeep'[d] = NoUpkeep
    BY <2>1, <2>2, FairnessAssumption DEF EpochInv, CallsAlone
  <2>3. ASSUME Alone, NEW d \in Callers \ Deposed PROVE ServesAlone(d)'
    <3>1. c \notin Deposed
      BY <2>1, <2>3 DEF Alone
    <3>2. d = c
      BY <3>1, FairnessAssumption
    <3> QED
      BY <2>3, <3>2
  <2> QED
    BY <2>2, <2>3 DEF CallsAlone, Alone
<1> QED
  BY <1>1, <1>2, <1>3, <1>4 DEF EpochInv

\* A step of maintain: what is left to show of it.
LEMMA UpkeepKeeps ==
  ASSUME EpochInv, TypeOK', Grows, RowsFit', NEW c \in Callers,
         started' = started, call' = call, upkeep[c] # NoUpkeep,
         \A d \in Callers \ {c} : upkeep'[d] = upkeep[d],
         UpkeepFits(c)', With("active")' \subseteq With("active")
  PROVE  EpochInv'
<1>1. CallsFit'
  BY CallFrame DEF EpochInv, CallsFit
<1>2. UpkeepsFit'
  <2> SUFFICES ASSUME NEW d \in Callers PROVE UpkeepFits(d)'
    BY DEF UpkeepsFit
  <2>1. CASE d = c
    BY <2>1
  <2>2. CASE d # c
    BY <2>2, UpkeepFrame DEF EpochInv, UpkeepsFit
  <2> QED
    BY <2>1, <2>2
<1>3. OneActiveEpoch'
  BY DEF EpochInv, OneActiveEpoch
<1>4. CallsAlone'
  <2>1. c \in Deposed => c \in started
    BY DEF EpochInv, CallsAlone
  <2>2. ASSUME NEW d \in Deposed \ started PROVE call'[d] = NoCall /\ upkeep'[d] = NoUpkeep
    BY <2>1, <2>2, FairnessAssumption DEF EpochInv, CallsAlone
  <2>3. ASSUME Alone, NEW d \in Callers \ Deposed PROVE ServesAlone(d)'
    BY <2>3 DEF EpochInv, CallsAlone, ServesAlone
  <2> QED
    BY <2>2, <2>3 DEF CallsAlone, Alone
<1> QED
  BY <1>1, <1>2, <1>3, <1>4 DEF EpochInv

LEMMA CallUpdate ==
  ASSUME TypeOK, NEW c \in Callers, NEW k \in CallType, call' = [call EXCEPT ![c] = k]
  PROVE  /\ call' \in [Callers -> CallType] /\ call'[c] = k
         /\ \A d \in Callers \ {c} : call'[d] = call[d]
BY DEF TypeOK

LEMMA UpkeepUpdate ==
  ASSUME TypeOK, NEW c \in Callers, NEW u \in UpkeepType, upkeep' = [upkeep EXCEPT ![c] = u]
  PROVE  /\ upkeep' \in [Callers -> UpkeepType] /\ upkeep'[c] = u
         /\ \A d \in Callers \ {c} : upkeep'[d] = upkeep[d]
BY DEF TypeOK

\* A step that leaves the epochs alone.
LEMMA SameEpochs ==
  ASSUME EpochInv, UNCHANGED <<fixed, epoch>>
  PROVE  Grows /\ RowsFit' /\ \A s : With(s)' = With(s)
<1>1. ASSUME NEW e \in Ids PROVE epoch[e].seeds \in Nat
  BY <1>1, RowTypes DEF EpochInv
<1>2. Grows
  BY <1>1 DEF Grows, fixed, config, Ids
<1>3. RowsFit'
  BY <1>2, RowFrame DEF EpochInv, RowsFit, Ids
<1> QED
  BY <1>2, <1>3 DEF With, Ids

\* A call that reads.
LEMMA CallReads ==
  ASSUME EpochInv, NEW c \in Callers, NEW k \in CallType, call[c].pc # "idle",
         Fault \/ NoFault, UNCHANGED <<fixed, epoch, upkeep>>,
         call' = [call EXCEPT ![c] = k], CallFits(c)', Alone => ServesAlone(c)'
  PROVE  EpochInv' /\ Grows
<1>1. TypeOK
  BY DEF EpochInv
<1>2. /\ call' \in [Callers -> CallType] /\ call'[c] = k
      /\ \A d \in Callers \ {c} : call'[d] = call[d]
  BY <1>1, CallUpdate
<1>3. Grows /\ RowsFit' /\ With("active")' = With("active")
  BY SameEpochs
<1>4. faults' \in 0 .. MaxFaults
  BY <1>1, FaultType
<1>5. TypeOK'
  BY <1>1, <1>2, <1>4 DEF TypeOK, fixed, config, Ids
<1>6. Alone => \A e, f \in With("active")' : e = f
  BY <1>3 DEF EpochInv, OneActiveEpoch, Alone
<1>7. call[c] # NoCall /\ started' = started /\ upkeep' = upkeep
  BY DEF NoCall, Call, fixed
<1>8. EpochInv'
  BY <1>2, <1>3, <1>5, <1>6, <1>7, CallKeeps
<1> QED
  BY <1>3, <1>8

\* The update of a row keeps the others, and grows.
LEMMA RowKeeps ==
  ASSUME EpochInv, NEW e \in Ids, NEW r \in EpochType, epoch' = [epoch EXCEPT ![e] = r],
         UNCHANGED <<strict, final>>,
         r.source = epoch[e].source, r.seeds >= epoch[e].seeds,
         epoch[e].salt # "none" => r.salt = epoch[e].salt, RowFits(e)'
  PROVE  /\ epoch' \in Seq(EpochType) /\ Len(epoch') <= MaxEpochs /\ Ids' = Ids
         /\ epoch'[e] = r /\ \A f \in Ids \ {e} : epoch'[f] = epoch[f]
         /\ Grows /\ RowsFit'
         /\ \A s : With(s)' \ {e} = With(s) \ {e}
         /\ \A s : e \in With(s)' <=> r.status = s
<1>1. /\ epoch' \in Seq(EpochType) /\ Len(epoch') <= MaxEpochs /\ Ids' = Ids
      /\ epoch'[e] = r /\ \A f \in Ids \ {e} : epoch'[f] = epoch[f]
  BY RowUpdate DEF EpochInv
<1>2. Grows
  <2>1. ASSUME NEW f \in Ids PROVE epoch[f].seeds \in Nat
    BY <2>1, RowTypes DEF EpochInv
  <2>2. ASSUME NEW f \in Ids
        PROVE  /\ epoch'[f].source = epoch[f].source
               /\ epoch[f].salt # "none" => epoch'[f].salt = epoch[f].salt
               /\ epoch'[f].seeds >= epoch[f].seeds
    <3>1. CASE f = e
      BY <1>1, <3>1
    <3>2. CASE f # e
      BY <1>1, <2>1, <3>2
    <3> QED
      BY <3>1, <3>2
  <2> QED
    BY <1>1, <2>2 DEF Grows
<1>3. RowsFit'
  <2> SUFFICES ASSUME NEW f \in Ids PROVE RowFits(f)'
    BY <1>1 DEF RowsFit
  <2>1. CASE f = e
    BY <2>1
  <2>2. CASE f # e
    BY <1>1, <1>2, <2>2, RowFrame DEF EpochInv, RowsFit
  <2> QED
    BY <2>1, <2>2
<1>4. ASSUME NEW s PROVE With(s)' \ {e} = With(s) \ {e} /\ (e \in With(s)' <=> r.status = s)
  BY <1>1 DEF With
<1> QED
  BY <1>1, <1>2, <1>3, <1>4

\* The creation of a row keeps the others, and grows.
LEMMA CreationKeeps ==
  ASSUME EpochInv, NEW r \in EpochType, epoch' = Append(epoch, r), NextId <= MaxEpochs,
         UNCHANGED <<strict, final>>,
         r.used = 0, r.salt = "none" => r.source = "eth-block", r.status = "pending" => r.source = "eth-block",
         r.salt \in {"none", IF r.source = "eth-block" THEN "hash" ELSE "random"},
         r.status \in {"armed", "active"} => r.salt # "none"
  PROVE  /\ epoch' \in Seq(EpochType) /\ Len(epoch') <= MaxEpochs
         /\ Ids' = Ids \cup {NextId} /\ NextId \notin Ids /\ NextId \in Nat
         /\ epoch'[NextId] = r /\ \A f \in Ids : epoch'[f] = epoch[f]
         /\ Grows /\ RowsFit'
         /\ \A s : With(s)' = With(s) \cup (IF r.status = s THEN {NextId} ELSE {})
<1>1. /\ epoch' \in Seq(EpochType) /\ Len(epoch') <= MaxEpochs
      /\ Ids' = Ids \cup {NextId} /\ NextId \notin Ids /\ NextId \in Nat
      /\ epoch'[NextId] = r /\ \A f \in Ids : epoch'[f] = epoch[f]
  BY RowCreation DEF EpochInv
<1>2. Grows
  <2>1. ASSUME NEW f \in Ids PROVE epoch'[f] = epoch[f] /\ epoch'[f].seeds >= epoch[f].seeds
    <3>1. epoch[f].seeds \in Nat
      BY <2>1, RowTypes DEF EpochInv
    <3>2. epoch'[f] = epoch[f]
      BY <1>1, <2>1
    <3> QED
      BY <3>1, <3>2
  <2>2. Ids \subseteq Ids' /\ strict' = strict
    BY <1>1
  <2> QED
    BY <2>1, <2>2 DEF Grows
<1>3. RowsFit'
  <2>1. ASSUME NEW n, n = NextId PROVE RowFits(n)'
    <3>1. epoch'[n] = r
      BY <1>1, <2>1
    <3>2. r.seeds \in Nat
      BY FairnessAssumption DEF EpochType
    <3>3. epoch'[n].used = 0 /\ epoch'[n].seeds = r.seeds /\ 0 <= r.seeds
      BY <3>1, <3>2
    <3> QED
      BY <3>1, <3>3 DEF RowFits, Genuine
  <2>2. ASSUME NEW f \in Ids PROVE RowFits(f)'
    BY <1>1, <1>2, <2>2, RowFrame DEF EpochInv, RowsFit
  <2> QED
    BY <1>1, <2>1, <2>2 DEF RowsFit
<1>4. ASSUME NEW s PROVE With(s)' = With(s) \cup (IF r.status = s THEN {NextId} ELSE {})
  BY <1>1 DEF With
<1> QED
  BY <1>1, <1>2, <1>3, <1>4

(* ----------------------------------------------------- the steps of a call *)

\* Returning, and serving an epoch that may serve.
LEMMA EndOk ==
  ASSUME NEW c \in Callers, call'[c] = NoCall
  PROVE  CallFits(c)' /\ ServesAlone(c)'
BY DEF NoCall, Call, CallFits, ServesAlone

LEMMA CallTyped ==
  ASSUME TypeOK, NEW c \in Callers, NEW pc \in CallSteps, NEW pass \in Nat, NEW e \in Nat, NEW s \in Salts
  PROVE  Call(call[c].fn, pc, pass, e, s) \in CallType /\ NoCall \in CallType
<1>1. call[c].fn \in {"none", "ensure", "allocate"}
  BY CallTypes
<1> QED
  BY <1>1 DEF Call, CallType, NoCall, CallSteps, Salts

LEMMA AtTyped ==
  ASSUME TypeOK, NEW c \in Callers, NEW pc \in CallSteps, NEW e \in Nat
  PROVE  /\ Call(call[c].fn, pc, call[c].pass, e, call[c].salt) \in CallType
         /\ Call(call[c].fn, pc, call[c].pass, call[c].e, call[c].salt) \in CallType
         /\ NoCall \in CallType
<1>1. call[c].pass \in Nat /\ call[c].salt \in Salts /\ call[c].e \in Nat
  BY CallTypes
<1> QED
  BY <1>1, CallTyped

LEMMA FindActiveKeeps ==
  ASSUME EpochInv, NEW c \in Callers, FindActive(c)
  PROVE  EpochInv' /\ Grows
<1>1. TypeOK /\ call[c].pc # "idle" /\ (Fault \/ NoFault) /\ UNCHANGED <<fixed, epoch, upkeep>>
  BY DEF EpochInv, FindActive
<1>2. With("active")' = With("active") /\ Ids' = Ids /\ strict' = strict
  BY <1>1 DEF With, Ids, fixed, config
<1>3. CASE With("active") = {} /\ Go(c, "armed")
  <2> DEFINE k == Call(call[c].fn, "armed", call[c].pass, call[c].e, call[c].salt)
  <2>1. k \in CallType
    BY <1>1, AtTyped, CallTypes DEF CallSteps
  <2>2. call' = [call EXCEPT ![c] = k] /\ call'[c] = k
    BY <1>1, <1>3 DEF Go, At, TypeOK
  <2>3. CallFits(c)' /\ ServesAlone(c)'
    BY <1>2, <1>3, <2>2 DEF CallFits, ServesAlone, Call
  <2> QED
    BY <1>1, <2>1, <2>2, <2>3, CallReads
<1>4. ASSUME NEW e \in With("active"), NotServable(e), At(c, "retireActive", e)
      PROVE  EpochInv' /\ Grows
  <2> DEFINE k == Call(call[c].fn, "retireActive", call[c].pass, e, call[c].salt)
  <2>1. e \in Ids /\ e \in Nat
    BY <1>1, <1>4, RowTypes DEF With
  <2>2. k \in CallType
    BY <1>1, <2>1, AtTyped DEF CallSteps
  <2>3. call' = [call EXCEPT ![c] = k] /\ call'[c] = k
    BY <1>1, <1>4 DEF At, TypeOK
  <2>4. CallFits(c)'
    BY <1>2, <2>1, <2>3 DEF CallFits, Call
  <2>5. Alone => ServesAlone(c)'
    BY <1>2, <1>4, <2>3 DEF ServesAlone, Call, EpochInv, OneActiveEpoch, Alone
  <2> QED
    BY <1>1, <2>2, <2>3, <2>4, <2>5, CallReads
<1>5. ASSUME NEW e \in With("active"), ~NotServable(e), Serve(c, e)
      PROVE  EpochInv' /\ Grows
  <2>1. e \in Ids /\ e \in Nat
    BY <1>1, <1>5, RowTypes DEF With
  <2>2. CASE End(c)
    <3>1. call' = [call EXCEPT ![c] = NoCall] /\ call'[c] = NoCall
      BY <1>1, <2>2 DEF End, TypeOK
    <3>2. NoCall \in CallType
      BY <1>1, <2>1, AtTyped DEF CallSteps
    <3> QED
      BY <1>1, <3>1, <3>2, EndOk, CallReads
  <2>3. CASE At(c, "seed", e)
    <3> DEFINE k == Call(call[c].fn, "seed", call[c].pass, e, call[c].salt)
    <3>1. k \in CallType
      BY <1>1, <2>1, AtTyped DEF CallSteps
    <3>2. call' = [call EXCEPT ![c] = k] /\ call'[c] = k
      BY <1>1, <2>3 DEF At, TypeOK
    <3>3. epoch[e].salt # "none" /\ epoch' = epoch
      BY <1>1, <1>5, <2>1 DEF EpochInv, RowsFit, RowFits, With
    <3>4. CallFits(c)'
      BY <1>2, <1>5, <2>1, <3>2, <3>3 DEF CallFits, Call, NotServable
    <3>5. Alone => ServesAlone(c)'
      BY <1>2, <1>5, <3>2 DEF ServesAlone, Call, EpochInv, OneActiveEpoch, Alone
    <3> QED
      BY <1>1, <3>1, <3>2, <3>4, <3>5, CallReads
  <2> QED
    BY <1>5, <2>2, <2>3 DEF Serve
<1> QED
  BY <1>3, <1>4, <1>5 DEF FindActive

LEMMA FindArmedKeeps ==
  ASSUME EpochInv, NEW c \in Callers, FindArmed(c)
  PROVE  EpochInv' /\ Grows
<1>1. TypeOK /\ call[c].pc # "idle" /\ (Fault \/ NoFault) /\ UNCHANGED <<fixed, epoch, upkeep>>
  BY DEF EpochInv, FindArmed
<1>2. With("active")' = With("active") /\ Ids' = Ids /\ strict' = strict /\ epoch' = epoch
  BY <1>1 DEF With, Ids, fixed, config
<1>3. Alone => With("active") = {}
  <2>1. call[c].pc = "armed" /\ call[c] # NoCall
    BY DEF FindArmed, NoCall, Call
  <2>2. Alone => c \notin Deposed
    BY <2>1 DEF EpochInv, CallsAlone, Alone
  <2> QED
    BY <2>1, <2>2 DEF EpochInv, CallsAlone, ServesAlone
<1>4. CASE With("armed") = {} /\ Go(c, "pending")
  <2> DEFINE k == Call(call[c].fn, "pending", call[c].pass, call[c].e, call[c].salt)
  <2>1. k \in CallType
    BY <1>1, AtTyped, CallTypes DEF CallSteps
  <2>2. call' = [call EXCEPT ![c] = k] /\ call'[c] = k
    BY <1>1, <1>4 DEF Go, At, TypeOK
  <2>3. CallFits(c)' /\ (Alone => ServesAlone(c)')
    BY <1>2, <1>3, <2>2 DEF CallFits, ServesAlone, Call
  <2> QED
    BY <1>1, <2>1, <2>2, <2>3, CallReads
<1>5. ASSUME NEW e \in With("armed"), NEW pc \in {"retireArmed", "promote"}, At(c, pc, e),
             pc = "promote" => ~NotServable(e)
      PROVE  EpochInv' /\ Grows
  <2> DEFINE k == Call(call[c].fn, pc, call[c].pass, e, call[c].salt)
  <2>1. e \in Ids /\ e \in Nat /\ epoch[e].salt # "none"
    <3>1. e \in Ids
      BY <1>5 DEF With
    <3> QED
      BY <1>1, <1>5, <3>1, RowTypes DEF EpochInv, RowsFit, RowFits, With
  <2>2. k \in CallType
    BY <1>1, <2>1, AtTyped DEF CallSteps
  <2>3. call' = [call EXCEPT ![c] = k] /\ call'[c] = k
    BY <1>1, <1>5 DEF At, TypeOK
  <2>4. CallFits(c)'
    BY <1>2, <1>5, <2>1, <2>3 DEF CallFits, Call, NotServable
  <2>5. Alone => ServesAlone(c)'
    BY <1>2, <1>3, <1>5, <2>3 DEF ServesAlone, Call
  <2> QED
    BY <1>1, <2>2, <2>3, <2>4, <2>5, CallReads
<1> QED
  BY <1>4, <1>5 DEF FindArmed

\* The call of the leader, without a straggler beside it.
LEMMA ServesAloneNow ==
  ASSUME EpochInv, NEW c \in Callers, call[c].pc # "idle", Alone
  PROVE  ServesAlone(c)
<1>1. call[c] # NoCall
  BY DEF NoCall, Call
<1>2. c \notin Deposed
  BY <1>1 DEF EpochInv, CallsAlone, Alone
<1> QED
  BY <1>2 DEF EpochInv, CallsAlone

\* A call that writes an epoch by id.
LEMMA CallWrites ==
  ASSUME EpochInv, NEW c \in Callers, NEW k \in CallType, call[c].pc # "idle",
         NoFault, UNCHANGED <<fixed, upkeep>>, call' = [call EXCEPT ![c] = k],
         NEW e \in Ids, NEW r \in EpochType, epoch' = [epoch EXCEPT ![e] = r],
         r.source = epoch[e].source, r.seeds >= epoch[e].seeds,
         epoch[e].salt # "none" => r.salt = epoch[e].salt,
         RowFits(e)', CallFits(c)',
         Alone => ServesAlone(c)',
         Alone /\ r.status = "active" => With("active") \subseteq {e}
  PROVE  EpochInv' /\ Grows
<1>1. TypeOK
  BY DEF EpochInv
<1>2. /\ call' \in [Callers -> CallType] /\ call'[c] = k
      /\ \A d \in Callers \ {c} : call'[d] = call[d]
  BY <1>1, CallUpdate
<1>3. strict' = strict /\ block' = block /\ final' = final /\ started' = started /\ upkeep' = upkeep
  BY DEF fixed, config
<1>4. /\ epoch' \in Seq(EpochType) /\ Len(epoch') <= MaxEpochs /\ Ids' = Ids
      /\ Grows /\ RowsFit'
      /\ \A s : With(s)' \ {e} = With(s) \ {e}
      /\ \A s : e \in With(s)' <=> r.status = s
  <2>1. UNCHANGED <<strict, final>>
    BY <1>3
  <2> QED
    BY <2>1, RowKeeps
<1>5. faults' \in 0 .. MaxFaults
  BY <1>1, FaultType
<1>6. TypeOK'
  BY <1>1, <1>2, <1>3, <1>4, <1>5 DEF TypeOK
<1>7. ASSUME Alone PROVE \A f, g \in With("active")' : f = g
  <2>1. \A f, g \in With("active") : f = g
    BY <1>7 DEF EpochInv, OneActiveEpoch, Alone
  <2>2. With("active")' \ {e} = With("active") \ {e} /\ (e \in With("active")' <=> r.status = "active")
    BY <1>4
  <2> QED
    BY <1>7, <2>1, <2>2
<1>8. call[c] # NoCall
  BY DEF NoCall, Call
<1>9. EpochInv'
  BY <1>2, <1>3, <1>4, <1>6, <1>7, <1>8, CallKeeps
<1> QED
  BY <1>4, <1>9

LEMMA RetireKeeps ==
  ASSUME EpochInv, NEW c \in Callers, Retire(c)
  PROVE  EpochInv' /\ Grows
<1>1. TypeOK /\ NoFault /\ UNCHANGED <<fixed, upkeep>> /\ call[c].pc # "idle"
      /\ call[c].pc \in {"retireActive", "retireArmed"}
  BY DEF EpochInv, Retire
<1>2. PICK e \in Ids : e = call[c].e
  BY <1>1 DEF EpochInv, CallsFit, CallFits
<1> DEFINE r == Epoch("exhausted", epoch[e].source, epoch[e].salt, epoch[e].seeds, epoch[e].used)
<1>3. r \in EpochType /\ epoch[e].seeds >= epoch[e].seeds
  BY <1>1, <1>2, RowTypes DEF Epoch, EpochType
<1>4. epoch' = [epoch EXCEPT ![e] = r] /\ epoch'[e] = r /\ strict' = strict
  BY <1>1, <1>2 DEF Retire, SetStatus, TypeOK, Ids, fixed, config
<1>5. RowFits(e) /\ strict' = strict
  BY <1>1, <1>2 DEF EpochInv, RowsFit, fixed, config
<1>6. RowFits(e)'
  BY <1>4, <1>5 DEF RowFits, Genuine, NotServable, Epoch
<1>7. With("active")' = With("active") \ {e}
  <2>1. Ids' = Ids /\ \A f \in Ids \ {e} : epoch'[f] = epoch[f]
    BY <1>1, <1>2, <1>3, <1>4, RowUpdate
  <2> QED
    BY <1>2, <1>4, <2>1 DEF With, Epoch
<1>8. ASSUME NEW pc \in {"armed", "pending"}, Go(c, pc),
             pc = "armed" => call[c].pc = "retireActive",
             pc = "pending" => call[c].pc = "retireArmed"
      PROVE  EpochInv' /\ Grows
  <2> DEFINE k == Call(call[c].fn, pc, call[c].pass, call[c].e, call[c].salt)
  <2>1. k \in CallType
    BY <1>1, <1>8, AtTyped, CallTypes DEF CallSteps
  <2>2. call' = [call EXCEPT ![c] = k] /\ call'[c] = k
    BY <1>1, <1>8 DEF Go, At, TypeOK
  <2>3. CallFits(c)'
    BY <1>8, <2>2 DEF CallFits, Call
  <2>4. Alone => ServesAlone(c)
    BY <1>1, ServesAloneNow
  <2>5. Alone => ServesAlone(c)'
    BY <1>1, <1>2, <1>7, <1>8, <2>2, <2>4 DEF ServesAlone, Call
  <2>6. r.source = epoch[e].source /\ r.seeds = epoch[e].seeds /\ r.salt = epoch[e].salt
        /\ r.status # "active"
    BY DEF Epoch
  <2> HIDE DEF r, k
  <2> QED
    BY <1>1, <1>2, <1>3, <1>4, <1>6, <2>1, <2>2, <2>3, <2>5, <2>6, CallWrites
<1> QED
  BY <1>8 DEF Retire

LEMMA FindPendingKeeps ==
  ASSUME EpochInv, NEW c \in Callers, FindPending(c)
  PROVE  EpochInv' /\ Grows
<1>1. TypeOK /\ call[c].pc = "pending" /\ UNCHANGED <<fixed, epoch, upkeep>>
  BY DEF EpochInv, FindPending
<1>2. With("active")' = With("active") /\ Ids' = Ids /\ strict' = strict /\ epoch' = epoch
  BY <1>1 DEF With, Ids, fixed, config
<1>3. Alone => With("active") = {}
  BY <1>1, ServesAloneNow DEF ServesAlone
<1>4. ASSUME Go(c, "max"), Fault \/ NoFault
      PROVE  EpochInv' /\ Grows
  <2> DEFINE k == Call(call[c].fn, "max", call[c].pass, call[c].e, call[c].salt)
  <2>1. k \in CallType
    BY <1>1, AtTyped, CallTypes DEF CallSteps
  <2>2. call' = [call EXCEPT ![c] = k] /\ call'[c] = k
    BY <1>1, <1>4 DEF Go, At, TypeOK
  <2>3. CallFits(c)' /\ (Alone => ServesAlone(c)')
    BY <1>2, <1>3, <2>2 DEF CallFits, ServesAlone, Call
  <2> QED
    BY <1>1, <1>4, <2>1, <2>2, <2>3, CallReads
<1>5. ASSUME NEW e \in With("pending"), NEW s \in Salts, Resolve(e, s), s # "none",
             call' = [call EXCEPT ![c] = Call(call[c].fn, "arm", call[c].pass, e, s)]
      PROVE  EpochInv' /\ Grows
  <2> DEFINE k == Call(call[c].fn, "arm", call[c].pass, e, s)
  <2>1. e \in Ids /\ RowFits(e) /\ epoch[e].status = "pending"
    BY <1>5 DEF With, EpochInv, RowsFit
  <2>2. e \in Nat /\ call[c].pass \in Nat
    BY <1>1, <2>1, RowTypes, CallTypes
  <2>3. k \in CallType
    BY <1>1, <1>5, <2>2, CallTyped DEF CallSteps
  <2>4. call'[c] = k
    BY <1>1, <1>5 DEF TypeOK
  <2>5. s = Genuine(e)
    BY <1>5, <2>1, ResolvedIsGenuine
  <2>6. CallFits(c)'
    BY <1>2, <2>1, <2>4, <2>5 DEF CallFits, Call, NotServable, Genuine, RowFits
  <2>7. Alone => ServesAlone(c)'
    BY <1>2, <1>3, <2>4 DEF ServesAlone, Call
  <2>8. Fault \/ NoFault
    BY <1>5, ResolveFault
  <2> QED
    BY <1>1, <1>5, <2>3, <2>6, <2>7, <2>8, CallReads
<1>6. CASE With("pending") = {} /\ Go(c, "max") /\ NoFault
  BY <1>4, <1>6
<1>7. ASSUME NEW e \in With("pending"), NEW s \in Salts, Resolve(e, s), s = "none" /\ Go(c, "max")
      PROVE  EpochInv' /\ Grows
  BY <1>4, <1>7, ResolveFault
<1> QED
  BY <1>5, <1>6, <1>7 DEF FindPending

\* ensureActiveChain returns an epoch that may serve.
LEMMA ServeOk ==
  ASSUME TypeOK, NEW c \in Callers, NEW e \in Ids, Serve(c, e), e \in Ids',
         ~NotServable(e)', epoch'[e].salt # "none", Alone => With("active")' \subseteq {e}
  PROVE  \E k \in CallType : /\ call' = [call EXCEPT ![c] = k]
                             /\ CallFits(c)' /\ (Alone => ServesAlone(c)')
<1>0. e \in Nat /\ "seed" \in CallSteps
  BY RowTypes DEF CallSteps
<1>1. CASE End(c)
  <2>1. call' = [call EXCEPT ![c] = NoCall] /\ call'[c] = NoCall
    BY <1>1 DEF End, TypeOK
  <2>2. NoCall \in CallType
    BY <1>0, AtTyped
  <2> QED
    BY <2>1, <2>2, EndOk
<1>2. CASE At(c, "seed", e)
  <2> DEFINE k == Call(call[c].fn, "seed", call[c].pass, e, call[c].salt)
  <2>1. k \in CallType
    BY <1>0, AtTyped
  <2>2. call' = [call EXCEPT ![c] = k] /\ call'[c] = k
    BY <1>2 DEF At, TypeOK
  <2>3. CallFits(c)'
    BY <2>2 DEF CallFits, Call
  <2>4. Alone => ServesAlone(c)'
    BY <2>2 DEF ServesAlone, Call
  <2> QED
    BY <2>1, <2>2, <2>3, <2>4
<1> QED
  BY <1>1, <1>2 DEF Serve

LEMMA ArmKeeps ==
  ASSUME EpochInv, NEW c \in Callers, Arm(c)
  PROVE  EpochInv' /\ Grows
<1>1. TypeOK /\ NoFault /\ UNCHANGED <<fixed, upkeep>> /\ call[c].pc = "arm"
  BY DEF EpochInv, Arm
<1>2. PICK e \in Ids : e = call[c].e
  BY <1>1 DEF EpochInv, CallsFit, CallFits
<1>3. call[c].salt = Genuine(e) /\ ~NotServable(e)
  BY <1>1, <1>2 DEF EpochInv, CallsFit, CallFits
<1> DEFINE r == Epoch(epoch[e].status, epoch[e].source, call[c].salt, epoch[e].seeds, epoch[e].used)
<1>4. r \in EpochType /\ epoch[e].seeds >= epoch[e].seeds
  BY <1>1, <1>2, RowTypes, CallTypes DEF Epoch, EpochType
<1>5. epoch' = [epoch EXCEPT ![e] = r] /\ epoch'[e] = r /\ strict' = strict
  BY <1>1, <1>2 DEF Arm, SetSalt, TypeOK, Ids, fixed, config
<1>6. RowFits(e)
  BY <1>2 DEF EpochInv, RowsFit
<1>7. RowFits(e)'
  BY <1>3, <1>5, <1>6 DEF RowFits, Genuine, NotServable, Epoch
<1>8. Ids' = Ids /\ With("active")' = With("active")
  <2>1. Ids' = Ids /\ \A f \in Ids \ {e} : epoch'[f] = epoch[f]
    BY <1>1, <1>2, <1>4, <1>5, RowUpdate
  <2> QED
    BY <1>2, <1>5, <2>1 DEF With, Epoch
<1> DEFINE k == Call(call[c].fn, "promote", call[c].pass, call[c].e, call[c].salt)
<1>9. k \in CallType
  BY <1>1, AtTyped, CallTypes DEF CallSteps
<1>10. call' = [call EXCEPT ![c] = k] /\ call'[c] = k
  BY <1>1 DEF Arm, Go, At, TypeOK
<1>11. CallFits(c)'
  BY <1>2, <1>3, <1>5, <1>8, <1>10 DEF CallFits, Call, Epoch, NotServable, Genuine
<1>12. Alone => With("active") = {}
  BY <1>1, ServesAloneNow DEF ServesAlone
<1>13. Alone => ServesAlone(c)'
  BY <1>8, <1>10, <1>12 DEF ServesAlone, Call
<1>14. r.source = epoch[e].source /\ r.seeds = epoch[e].seeds
       /\ (epoch[e].salt # "none" => r.salt = epoch[e].salt)
  BY <1>3, <1>6 DEF Epoch, RowFits
<1>15. call[c].pc # "idle"
  BY <1>1
<1> HIDE DEF r, k
<1> QED
  BY <1>1, <1>2, <1>4, <1>5, <1>7, <1>9, <1>10, <1>11, <1>12, <1>13, <1>14, <1>15, CallWrites

LEMMA PromoteKeeps ==
  ASSUME EpochInv, NEW c \in Callers, Promote(c)
  PROVE  EpochInv' /\ Grows
<1>1. TypeOK /\ NoFault /\ UNCHANGED <<fixed, upkeep>> /\ call[c].pc = "promote"
  BY DEF EpochInv, Promote
<1>2. PICK e \in Ids : e = call[c].e
  BY <1>1 DEF EpochInv, CallsFit, CallFits
<1>3. epoch[e].salt # "none" /\ ~NotServable(e)
  BY <1>1, <1>2 DEF EpochInv, CallsFit, CallFits
<1> DEFINE r == Epoch("active", epoch[e].source, epoch[e].salt, epoch[e].seeds, epoch[e].used)
<1>4. r \in EpochType /\ epoch[e].seeds >= epoch[e].seeds
  BY <1>1, <1>2, RowTypes DEF Epoch, EpochType
<1>5. epoch' = [epoch EXCEPT ![e] = r] /\ epoch'[e] = r /\ strict' = strict
  BY <1>1, <1>2 DEF Promote, SetStatus, TypeOK, Ids, fixed, config
<1>6. RowFits(e)
  BY <1>2 DEF EpochInv, RowsFit
<1>7. RowFits(e)'
  BY <1>3, <1>5, <1>6 DEF RowFits, Genuine, NotServable, Epoch
<1>8. Ids' = Ids /\ With("active")' \subseteq With("active") \cup {e}
  <2>1. Ids' = Ids /\ \A f \in Ids \ {e} : epoch'[f] = epoch[f]
    BY <1>1, <1>2, <1>4, <1>5, RowUpdate
  <2> QED
    BY <1>2, <1>5, <2>1 DEF With
<1>9. Alone => With("active") = {}
  BY <1>1, ServesAloneNow DEF ServesAlone
<1>10. r.source = epoch[e].source /\ r.seeds = epoch[e].seeds /\ r.salt = epoch[e].salt
  BY DEF Epoch
<1>11. ~NotServable(e)' /\ epoch'[e].salt # "none" /\ e \in Ids'
  BY <1>3, <1>5, <1>8, <1>10 DEF NotServable
<1>12. Alone => With("active")' \subseteq {e}
  BY <1>8, <1>9
<1>13. Serve(c, e)
  BY <1>2 DEF Promote
<1>14. PICK k \in CallType : /\ call' = [call EXCEPT ![c] = k]
                             /\ CallFits(c)' /\ (Alone => ServesAlone(c)')
  BY <1>1, <1>11, <1>12, <1>13, ServeOk
<1>15. call[c].pc # "idle"
  BY <1>1
<1> HIDE DEF r
<1> QED
  BY <1>1, <1>4, <1>5, <1>7, <1>9, <1>10, <1>14, <1>15, CallWrites

LEMMA CommitNowKeeps ==
  ASSUME EpochInv, NEW c \in Callers, CommitNow(c)
  PROVE  EpochInv' /\ Grows
<1>1. TypeOK /\ call[c].pc = "max" /\ NoFault /\ UNCHANGED <<fixed, epoch, upkeep>>
  BY DEF EpochInv, CommitNow
<1>2. With("active")' = With("active") /\ Ids' = Ids /\ strict' = strict /\ epoch' = epoch
  BY <1>1 DEF With, Ids, fixed, config
<1>3. Alone => With("active") = {}
  BY <1>1, ServesAloneNow DEF ServesAlone
<1>4. NextId \in Nat
  BY <1>1 DEF NextId, TypeOK
<1>5. CASE strict /\ End(c)
  <2>1. call' = [call EXCEPT ![c] = NoCall] /\ call'[c] = NoCall
    BY <1>1, <1>5 DEF End, TypeOK
  <2>2. NoCall \in CallType
    BY <1>1, <1>4, AtTyped DEF CallSteps
  <2> QED
    BY <1>1, <2>1, <2>2, EndOk, CallReads
<1>6. CASE ~strict /\ At(c, "create", NextId)
  <2> DEFINE k == Call(call[c].fn, "create", call[c].pass, NextId, call[c].salt)
  <2>1. k \in CallType
    BY <1>1, <1>4, AtTyped DEF CallSteps
  <2>2. call' = [call EXCEPT ![c] = k] /\ call'[c] = k
    BY <1>1, <1>6 DEF At, TypeOK
  <2>3. CallFits(c)' /\ (Alone => ServesAlone(c)')
    BY <1>2, <1>3, <1>6, <2>2 DEF CallFits, ServesAlone, Call
  <2> QED
    BY <1>1, <2>1, <2>2, <2>3, CallReads
<1> QED
  BY <1>5, <1>6 DEF CommitNow

LEMMA CreateNowKeeps ==
  ASSUME EpochInv, NEW c \in Callers, CreateNow(c)
  PROVE  EpochInv' /\ Grows
<1>1. TypeOK /\ call[c].pc = "create" /\ NoFault /\ UNCHANGED <<fixed, upkeep>>
  BY DEF EpochInv, CreateNow
<1>2. ~strict /\ strict' = strict
  BY <1>1 DEF EpochInv, CallsFit, CallFits, fixed, config
<1>3. CASE Taken(call[c].e) /\ End(c) /\ UNCHANGED epoch
  <2>1. call' = [call EXCEPT ![c] = NoCall] /\ call'[c] = NoCall
    BY <1>1, <1>3 DEF End, TypeOK
  <2>2. NoCall \in CallType
    BY <1>1, AtTyped, CallTypes DEF CallSteps
  <2>3. UNCHANGED <<fixed, epoch, upkeep>>
    BY <1>1, <1>3
  <2> QED
    BY <1>1, <2>1, <2>2, <2>3, EndOk, CallReads
<1>4. CASE /\ NextId <= MaxEpochs
           /\ Opens(call[c].e, Epoch("active", "random", "random", 0, 0)) /\ Go(c, "seeds")
  <2> DEFINE r == Epoch("active", "random", "random", 0, 0)
             k == Call(call[c].fn, "seeds", call[c].pass, call[c].e, call[c].salt)
  <2>1. r \in EpochType /\ r.used = 0 /\ r.status = "active" /\ r.source = "random" /\ r.salt = "random"
    BY FairnessAssumption DEF Epoch, EpochType, Salts
  <2>2. k \in CallType
    BY <1>1, AtTyped, CallTypes DEF CallSteps
  <2>3. call' = [call EXCEPT ![c] = k] /\ call'[c] = k
    BY <1>1, <1>4 DEF Go, At, TypeOK
  <2>4. epoch' = Append(epoch, r) /\ call[c].e = NextId
    BY <1>4 DEF Opens
  <2>5. UNCHANGED <<strict, final>> /\ started' = started /\ block' = block
    BY <1>1 DEF fixed, config
  <2> HIDE DEF r
  <2>6. /\ epoch' \in Seq(EpochType) /\ Len(epoch') <= MaxEpochs
        /\ Ids' = Ids \cup {NextId} /\ NextId \notin Ids /\ NextId \in Nat
        /\ epoch'[NextId] = r
        /\ Grows /\ RowsFit'
        /\ \A s : With(s)' = With(s) \cup (IF r.status = s THEN {NextId} ELSE {})
    BY <1>4, <2>1, <2>4, <2>5, CreationKeeps
  <2>7. With("active")' = With("active") \cup {NextId}
    BY <2>1, <2>6
  <2>8. /\ call' \in [Callers -> CallType]
        /\ \A d \in Callers \ {c} : call'[d] = call[d]
    BY <1>1, <2>2, <2>3, CallUpdate
  <2>9. TypeOK'
    <3>1. faults' \in 0 .. MaxFaults
      BY <1>1, FaultType
    <3> QED
      BY <1>1, <2>5, <2>6, <2>8, <3>1 DEF TypeOK
  <2>10. CallFits(c)'
    <3>1. call'[c].e = NextId /\ call'[c].pc = "seeds"
      BY <2>3, <2>4 DEF Call
    <3> QED
      BY <1>2, <2>1, <2>6, <3>1 DEF CallFits, NotServable
  <2>11. Alone => With("active") = {}
    BY <1>1, ServesAloneNow DEF ServesAlone
  <2>12. Alone => ServesAlone(c)'
    BY <2>3, <2>4, <2>7, <2>11 DEF ServesAlone, Call
  <2>13. Alone => \A e, f \in With("active")' : e = f
    BY <2>7, <2>11
  <2>14. call[c] # NoCall
    BY <1>1 DEF NoCall, Call
  <2>15. EpochInv'
    BY <1>1, <2>5, <2>6, <2>8, <2>9, <2>10, <2>12, <2>13, <2>14, CallKeeps
  <2> QED
    BY <2>6, <2>15
<1> QED
  BY <1>3, <1>4 DEF CreateNow

LEMMA SeedsNowKeeps ==
  ASSUME EpochInv, NEW c \in Callers, SeedsNow(c)
  PROVE  EpochInv' /\ Grows
<1>1. TypeOK /\ NoFault /\ UNCHANGED <<fixed, upkeep>> /\ call[c].pc = "seeds"
  BY DEF EpochInv, SeedsNow
<1>2. PICK e \in Ids : e = call[c].e
  BY <1>1 DEF EpochInv, CallsFit, CallFits
<1>3. epoch[e].salt # "none" /\ ~NotServable(e)
  BY <1>1, <1>2 DEF EpochInv, CallsFit, CallFits
<1> DEFINE r == Epoch(epoch[e].status, epoch[e].source, epoch[e].salt, ChainLength, epoch[e].used)
<1>4. r \in EpochType
  BY <1>1, <1>2, RowTypes DEF Epoch, EpochType
<1>5. epoch' = [epoch EXCEPT ![e] = r] /\ epoch'[e] = r /\ strict' = strict
  BY <1>1, <1>2 DEF SeedsNow, AddSeeds, SetSeeds, TypeOK, Ids, fixed, config
<1>6. RowFits(e) /\ ChainLength >= epoch[e].seeds /\ epoch[e].used <= ChainLength
  <2>1. RowFits(e)
    BY <1>2 DEF EpochInv, RowsFit
  <2>2. epoch[e].seeds \in Nat /\ epoch[e].used \in Nat /\ ChainLength \in Nat /\ epoch[e].seeds <= ChainLength
    BY <1>1, <1>2, RowTypes
  <2>3. epoch[e].used <= epoch[e].seeds
    BY <2>1 DEF RowFits
  <2> QED
    BY <2>1, <2>2, <2>3
<1>7. RowFits(e)'
  BY <1>3, <1>5, <1>6 DEF RowFits, Genuine, NotServable, Epoch
<1>8. Ids' = Ids /\ With("active")' = With("active")
  <2>1. Ids' = Ids /\ \A f \in Ids \ {e} : epoch'[f] = epoch[f]
    BY <1>1, <1>2, <1>4, <1>5, RowUpdate
  <2> QED
    BY <1>2, <1>5, <2>1 DEF With, Epoch
<1>9. Alone => With("active") \subseteq {e}
  BY <1>1, <1>2, ServesAloneNow DEF ServesAlone
<1>10. r.source = epoch[e].source /\ r.seeds = ChainLength /\ r.salt = epoch[e].salt
  BY DEF Epoch
<1>11. ~NotServable(e)' /\ epoch'[e].salt # "none" /\ e \in Ids'
  BY <1>3, <1>5, <1>8, <1>10 DEF NotServable
<1>12. Alone => With("active")' \subseteq {e}
  BY <1>8, <1>9
<1>13. Serve(c, e)
  BY <1>2 DEF SeedsNow
<1>14. PICK k \in CallType : /\ call' = [call EXCEPT ![c] = k]
                             /\ CallFits(c)' /\ (Alone => ServesAlone(c)')
  BY <1>1, <1>11, <1>12, <1>13, ServeOk
<1>15. call[c].pc # "idle"
  BY <1>1
<1> HIDE DEF r
<1> QED
  BY <1>1, <1>4, <1>5, <1>6, <1>7, <1>9, <1>10, <1>14, <1>15, CallWrites

LEMMA NextUnusedSeedKeeps ==
  ASSUME EpochInv, NEW c \in Callers, NextUnusedSeed(c)
  PROVE  EpochInv' /\ Grows
<1>1. TypeOK /\ call[c].pc = "seed" /\ NoFault /\ UNCHANGED <<fixed, epoch, upkeep>>
  BY DEF EpochInv, NextUnusedSeed
<1>2. With("active")' = With("active") /\ Ids' = Ids /\ strict' = strict /\ epoch' = epoch
  BY <1>1 DEF With, Ids, fixed, config
<1>3. PICK e \in Ids : e = call[c].e
  BY <1>1 DEF EpochInv, CallsFit, CallFits
<1>4. epoch[e].salt # "none" /\ ~NotServable(e)
  BY <1>1, <1>3 DEF EpochInv, CallsFit, CallFits
<1>5. Alone => With("active") \subseteq {e}
  BY <1>1, <1>3, ServesAloneNow DEF ServesAlone
<1>6. call[c].e \in Nat /\ call[c].salt \in Salts
  BY <1>1, CallTypes
<1>7. CASE /\ epoch[e].used < epoch[e].seeds
           /\ call' = [call EXCEPT ![c] = Call(@.fn, "round", epoch[e].used + 1, @.e, @.salt)]
  <2> DEFINE k == Call(call[c].fn, "round", epoch[e].used + 1, call[c].e, call[c].salt)
  <2>1. epoch[e].used + 1 \in Nat /\ epoch[e].used + 1 <= epoch[e].seeds
    <3>1. epoch[e].used \in Nat /\ epoch[e].seeds \in Nat
      BY <1>1, <1>3, RowTypes
    <3> QED
      BY <1>7, <3>1
  <2>2. k \in CallType
    BY <1>1, <1>6, <2>1, CallTyped DEF CallSteps
  <2>3. call' = [call EXCEPT ![c] = k] /\ call'[c] = k
    BY <1>1, <1>7 DEF TypeOK
  <2>4. CallFits(c)'
    BY <1>2, <1>3, <1>4, <2>1, <2>3 DEF CallFits, Call, NotServable
  <2>5. Alone => ServesAlone(c)'
    BY <1>2, <1>3, <1>5, <2>3 DEF ServesAlone, Call
  <2> HIDE DEF k
  <2>6. call[c].pc # "idle"
    BY <1>1
  <2> QED
    BY <1>1, <2>2, <2>3, <2>4, <2>5, <2>6, CallReads
<1>8. CASE Go(c, "exhaust")
  <2> DEFINE k == Call(call[c].fn, "exhaust", call[c].pass, call[c].e, call[c].salt)
  <2>1. k \in CallType
    BY <1>1, <1>6, AtTyped DEF CallSteps
  <2>2. call' = [call EXCEPT ![c] = k] /\ call'[c] = k
    BY <1>1, <1>8 DEF Go, At, TypeOK
  <2>3. CallFits(c)'
    BY <1>2, <1>3, <1>4, <2>2 DEF CallFits, Call, NotServable
  <2>4. Alone => ServesAlone(c)'
    BY <1>2, <1>3, <1>5, <2>2 DEF ServesAlone, Call
  <2> QED
    BY <1>1, <2>1, <2>2, <2>3, <2>4, CallReads
<1>9. CASE End(c)
  <2>1. call' = [call EXCEPT ![c] = NoCall] /\ call'[c] = NoCall
    BY <1>1, <1>9 DEF End, TypeOK
  <2>2. NoCall \in CallType
    BY <1>1, <1>6, AtTyped DEF CallSteps
  <2> QED
    BY <1>1, <2>1, <2>2, EndOk, CallReads
<1> QED
  BY <1>3, <1>7, <1>8, <1>9 DEF NextUnusedSeed

LEMMA ExhaustKeeps ==
  ASSUME EpochInv, NEW c \in Callers, Exhaust(c)
  PROVE  EpochInv' /\ Grows
<1>1. TypeOK /\ NoFault /\ UNCHANGED <<fixed, upkeep>> /\ call[c].pc = "exhaust"
  BY DEF EpochInv, Exhaust
<1>2. PICK e \in Ids : e = call[c].e
  BY <1>1 DEF EpochInv, CallsFit, CallFits
<1> DEFINE r == Epoch("exhausted", epoch[e].source, epoch[e].salt, epoch[e].seeds, epoch[e].used)
           k == Call(call[c].fn, "active", 2, call[c].e, call[c].salt)
<1>3. r \in EpochType /\ epoch[e].seeds >= epoch[e].seeds
  BY <1>1, <1>2, RowTypes DEF Epoch, EpochType
<1>4. epoch' = [epoch EXCEPT ![e] = r] /\ epoch'[e] = r /\ strict' = strict
  BY <1>1, <1>2 DEF Exhaust, SetStatus, TypeOK, Ids, fixed, config
<1>5. RowFits(e)
  BY <1>2 DEF EpochInv, RowsFit
<1>6. RowFits(e)'
  BY <1>4, <1>5 DEF RowFits, Genuine, NotServable, Epoch
<1>7. k \in CallType
  <2>1. call[c].e \in Nat /\ call[c].salt \in Salts
    BY <1>1, CallTypes
  <2> QED
    BY <1>1, <2>1, CallTyped DEF CallSteps
<1>8. call' = [call EXCEPT ![c] = k] /\ call'[c] = k
  BY <1>1 DEF Exhaust, Again, TypeOK
<1>9. CallFits(c)' /\ ServesAlone(c)'
  BY <1>8 DEF CallFits, ServesAlone, Call
<1>10. r.source = epoch[e].source /\ r.seeds = epoch[e].seeds /\ r.salt = epoch[e].salt
       /\ r.status # "active"
  BY DEF Epoch
<1>11. call[c].pc # "idle"
  BY <1>1
<1> HIDE DEF r, k
<1> QED
  BY <1>1, <1>3, <1>4, <1>6, <1>7, <1>8, <1>9, <1>10, <1>11, CallWrites

LEMMA OpenRoundKeeps ==
  ASSUME EpochInv, NEW c \in Callers, OpenRound(c)
  PROVE  EpochInv' /\ Grows
<1>1. TypeOK /\ NoFault /\ UNCHANGED <<fixed, upkeep>> /\ call[c].pc = "round"
  BY DEF EpochInv, OpenRound
<1>2. PICK e \in Ids : e = call[c].e
  BY <1>1 DEF EpochInv, CallsFit, CallFits
<1>3. epoch[e].salt # "none" /\ ~NotServable(e) /\ call[c].pass <= epoch[e].seeds
  BY <1>1, <1>2 DEF EpochInv, CallsFit, CallFits
<1> DEFINE n == IF epoch[e].used < call[c].pass THEN call[c].pass ELSE epoch[e].used
           r == Epoch(epoch[e].status, epoch[e].source, epoch[e].salt, epoch[e].seeds, n)
<1>4. RowFits(e)
  BY <1>2 DEF EpochInv, RowsFit
<1>5. n \in Nat /\ n <= epoch[e].seeds
  <2>1. call[c].pass \in Nat /\ epoch[e].used \in Nat /\ epoch[e].used <= epoch[e].seeds
    BY <1>1, <1>2, <1>4, RowTypes, CallTypes DEF RowFits
  <2> QED
    BY <1>3, <2>1
<1>6. r \in EpochType /\ epoch[e].seeds >= epoch[e].seeds
  <2> HIDE DEF n
  <2> QED
    BY <1>1, <1>2, <1>5, RowTypes DEF Epoch, EpochType
<1>7. epoch' = [epoch EXCEPT ![e] = r] /\ epoch'[e] = r /\ strict' = strict
  BY <1>1, <1>2 DEF OpenRound, SetSeeds, TypeOK, Ids, fixed, config
<1>8. RowFits(e)'
  <2> HIDE DEF n
  <2> QED
    BY <1>3, <1>4, <1>5, <1>7 DEF RowFits, Genuine, NotServable, Epoch
<1>9. call' = [call EXCEPT ![c] = NoCall] /\ call'[c] = NoCall
  BY <1>1 DEF OpenRound, End, TypeOK
<1>10. NoCall \in CallType
  BY <1>1, AtTyped, CallTypes DEF CallSteps
<1>11. CallFits(c)' /\ ServesAlone(c)'
  BY <1>9, EndOk
<1>12. r.source = epoch[e].source /\ r.seeds = epoch[e].seeds /\ r.salt = epoch[e].salt
       /\ r.status = epoch[e].status
  BY DEF Epoch
<1>13. Alone => With("active") \subseteq {e}
  BY <1>1, <1>2, ServesAloneNow DEF ServesAlone
<1>14. call[c].pc # "idle"
  BY <1>1
<1> HIDE DEF r
<1> QED
  BY <1>1, <1>6, <1>7, <1>8, <1>9, <1>10, <1>11, <1>12, <1>13, <1>14, CallWrites

\* Every step of an engine call keeps the invariant.
LEMMA CallStepKeeps ==
  ASSUME EpochInv, NEW c \in Callers, CallStep(c)
  PROVE  EpochInv' /\ Grows
BY FindActiveKeeps, FindArmedKeeps, RetireKeeps, FindPendingKeeps, ArmKeeps, PromoteKeeps,
   CommitNowKeeps, CreateNowKeeps, SeedsNowKeeps, NextUnusedSeedKeeps, ExhaustKeeps, OpenRoundKeeps
   DEF CallStep

(* --------------------------------------------------- the steps of maintain *)

LEMMA UpkeepTyped ==
  ASSUME NEW pc \in UpkeepSteps, NEW todo \in SUBSET Nat, NEW e \in Nat, NEW s \in Salts
  PROVE  Upkeep(pc, todo, e, s) \in UpkeepType /\ NoUpkeep \in UpkeepType
BY DEF Upkeep, UpkeepType, NoUpkeep, UpkeepSteps, Salts

LEMMA UpGoTyped ==
  ASSUME TypeOK, NEW c \in Callers, NEW pc \in UpkeepSteps
  PROVE  /\ Upkeep(pc, upkeep[c].todo, upkeep[c].e, upkeep[c].salt) \in UpkeepType
         /\ NoUpkeep \in UpkeepType
<1>1. upkeep[c].todo \in SUBSET Nat /\ upkeep[c].e \in Nat /\ upkeep[c].salt \in Salts
  BY CallTypes
<1> QED
  BY <1>1, UpkeepTyped

LEMMA UpEndOk ==
  ASSUME NEW c \in Callers, upkeep'[c] = NoUpkeep
  PROVE  UpkeepFits(c)'
BY DEF NoUpkeep, Upkeep, UpkeepFits

\* An upkeep that reads.
LEMMA UpkeepReads ==
  ASSUME EpochInv, NEW c \in Callers, NEW u \in UpkeepType, upkeep[c].pc # "idle",
         Fault \/ NoFault, UNCHANGED <<fixed, epoch, call>>,
         upkeep' = [upkeep EXCEPT ![c] = u], UpkeepFits(c)'
  PROVE  EpochInv' /\ Grows
<1>1. TypeOK
  BY DEF EpochInv
<1>2. /\ upkeep' \in [Callers -> UpkeepType] /\ upkeep'[c] = u
      /\ \A d \in Callers \ {c} : upkeep'[d] = upkeep[d]
  BY <1>1, UpkeepUpdate
<1>3. Grows /\ RowsFit' /\ With("active")' = With("active")
  BY SameEpochs
<1>4. faults' \in 0 .. MaxFaults
  BY <1>1, FaultType
<1>5. TypeOK'
  BY <1>1, <1>2, <1>4 DEF TypeOK, fixed, config, Ids
<1>6. upkeep[c] # NoUpkeep /\ started' = started /\ call' = call
  BY DEF NoUpkeep, Upkeep, fixed
<1>7. EpochInv'
  BY <1>2, <1>3, <1>5, <1>6, UpkeepKeeps
<1> QED
  BY <1>3, <1>7

\* An upkeep that writes an epoch by id, and activates none.
LEMMA UpkeepWrites ==
  ASSUME EpochInv, NEW c \in Callers, NEW u \in UpkeepType, upkeep[c].pc # "idle",
         NoFault, UNCHANGED <<fixed, call>>, upkeep' = [upkeep EXCEPT ![c] = u],
         NEW e \in Ids, NEW r \in EpochType, epoch' = [epoch EXCEPT ![e] = r],
         r.source = epoch[e].source, r.seeds >= epoch[e].seeds,
         epoch[e].salt # "none" => r.salt = epoch[e].salt,
         r.status = "active" => epoch[e].status = "active",
         RowFits(e)', UpkeepFits(c)'
  PROVE  EpochInv' /\ Grows
<1>1. TypeOK
  BY DEF EpochInv
<1>2. /\ upkeep' \in [Callers -> UpkeepType] /\ upkeep'[c] = u
      /\ \A d \in Callers \ {c} : upkeep'[d] = upkeep[d]
  BY <1>1, UpkeepUpdate
<1>3. strict' = strict /\ block' = block /\ final' = final /\ started' = started /\ call' = call
  BY DEF fixed, config
<1>4. /\ epoch' \in Seq(EpochType) /\ Len(epoch') <= MaxEpochs /\ Ids' = Ids
      /\ Grows /\ RowsFit'
      /\ \A s : With(s)' \ {e} = With(s) \ {e}
      /\ \A s : e \in With(s)' <=> r.status = s
  <2>1. UNCHANGED <<strict, final>>
    BY <1>3
  <2> QED
    BY <2>1, RowKeeps
<1>5. faults' \in 0 .. MaxFaults
  BY <1>1, FaultType
<1>6. TypeOK'
  BY <1>1, <1>2, <1>3, <1>4, <1>5 DEF TypeOK
<1>7. With("active")' \subseteq With("active")
  <2>1. e \in With("active")' => e \in With("active")
    BY <1>4 DEF With
  <2> QED
    BY <1>4, <2>1
<1>8. upkeep[c] # NoUpkeep
  BY DEF NoUpkeep, Upkeep
<1>9. EpochInv'
  BY <1>2, <1>3, <1>4, <1>6, <1>7, <1>8, UpkeepKeeps
<1> QED
  BY <1>4, <1>9

LEMMA ScanKeeps ==
  ASSUME EpochInv, NEW c \in Callers, Scan(c)
  PROVE  EpochInv' /\ Grows
<1>1. TypeOK /\ upkeep[c].pc = "scan" /\ NoFault /\ UNCHANGED <<fixed, epoch, call>>
  BY DEF EpochInv, Scan
<1> DEFINE u == Upkeep("resolve", With("pending"), 0, "none")
<1>2. With("pending") \in SUBSET Nat /\ With("pending") \subseteq Ids
  BY <1>1, RowTypes DEF With
<1>3. u \in UpkeepType
  BY <1>2, UpkeepTyped DEF UpkeepSteps, Salts
<1>4. upkeep' = [upkeep EXCEPT ![c] = u] /\ upkeep'[c] = u
  BY <1>1 DEF Scan, UpAt, TypeOK
<1>5. \A e \in With("pending") : epoch[e].source = "eth-block"
  BY DEF EpochInv, RowsFit, RowFits, With
<1>6. UpkeepFits(c)'
  BY <1>1, <1>2, <1>4, <1>5 DEF UpkeepFits, Upkeep, Ids
<1>7. upkeep[c].pc # "idle"
  BY <1>1
<1> HIDE DEF u
<1> QED
  BY <1>1, <1>3, <1>4, <1>6, <1>7, UpkeepReads

LEMMA UpkeepResolvesKeeps ==
  ASSUME EpochInv, NEW c \in Callers, UpkeepResolves(c)
  PROVE  EpochInv' /\ Grows
<1>1. TypeOK /\ upkeep[c].pc = "resolve" /\ upkeep[c].pc # "idle" /\ UNCHANGED <<fixed, epoch, call>>
  BY DEF EpochInv, UpkeepResolves
<1>2. UpkeepFits(c) /\ Ids' = Ids /\ epoch' = epoch
  BY <1>1 DEF EpochInv, UpkeepsFit, Ids
<1>3. CASE upkeep[c].todo = {} /\ UpGo(c, "active") /\ NoFault
  <2> DEFINE u == Upkeep("active", upkeep[c].todo, upkeep[c].e, upkeep[c].salt)
  <2>1. u \in UpkeepType
    BY <1>1, UpGoTyped DEF UpkeepSteps
  <2>2. upkeep' = [upkeep EXCEPT ![c] = u] /\ upkeep'[c] = u
    BY <1>1, <1>3 DEF UpGo, UpAt, TypeOK
  <2>3. UpkeepFits(c)'
    BY <1>2, <1>3, <2>2 DEF UpkeepFits, Upkeep
  <2> HIDE DEF u
  <2> QED
    BY <1>1, <1>3, <2>1, <2>2, <2>3, UpkeepReads
<1>4. ASSUME NEW e \in upkeep[c].todo, NEW s \in Salts, Resolve(e, s),
             \/ s = "none" /\ UpAt(c, "resolve", upkeep[c].todo \ {e}, 0, "none")
             \/ s # "none" /\ UpAt(c, "arm", upkeep[c].todo \ {e}, e, s)
      PROVE  EpochInv' /\ Grows
  <2>1. e \in Ids /\ epoch[e].source = "eth-block"
    BY <1>2, <1>4 DEF UpkeepFits
  <2>2. upkeep[c].todo \ {e} \in SUBSET Nat /\ e \in Nat
    BY <1>1, <2>1, CallTypes, RowTypes
  <2>3. Fault \/ NoFault
    BY <1>4, ResolveFault
  <2>4. CASE s = "none" /\ UpAt(c, "resolve", upkeep[c].todo \ {e}, 0, "none")
    <3> DEFINE u == Upkeep("resolve", upkeep[c].todo \ {e}, 0, "none")
    <3>1. u \in UpkeepType
      BY <2>2, UpkeepTyped DEF UpkeepSteps, Salts
    <3>2. upkeep' = [upkeep EXCEPT ![c] = u] /\ upkeep'[c] = u
      BY <1>1, <2>4 DEF UpAt, TypeOK
    <3>3. UpkeepFits(c)'
      BY <1>2, <3>2 DEF UpkeepFits, Upkeep
    <3> HIDE DEF u
    <3> QED
      BY <1>1, <2>3, <3>1, <3>2, <3>3, UpkeepReads
  <2>5. CASE s # "none" /\ UpAt(c, "arm", upkeep[c].todo \ {e}, e, s)
    <3> DEFINE u == Upkeep("arm", upkeep[c].todo \ {e}, e, s)
    <3>1. u \in UpkeepType
      BY <1>4, <2>2, UpkeepTyped DEF UpkeepSteps
    <3>2. upkeep' = [upkeep EXCEPT ![c] = u] /\ upkeep'[c] = u
      BY <1>1, <2>5 DEF UpAt, TypeOK
    <3>3. RowFits(e)
      BY <2>1 DEF EpochInv, RowsFit
    <3>4. s = Genuine(e)
      BY <1>4, <2>1, <2>5, <3>3, ResolvedIsGenuine
    <3>5. UpkeepFits(c)'
      BY <1>2, <2>1, <3>2, <3>4 DEF UpkeepFits, Upkeep, Genuine
    <3> HIDE DEF u
    <3> QED
      BY <1>1, <2>3, <3>1, <3>2, <3>5, UpkeepReads
  <2> QED
    BY <1>4, <2>4, <2>5
<1> QED
  BY <1>3, <1>4 DEF UpkeepResolves

LEMMA UpkeepArmsKeeps ==
  ASSUME EpochInv, NEW c \in Callers, UpkeepArms(c)
  PROVE  EpochInv' /\ Grows
<1>1. TypeOK /\ NoFault /\ UNCHANGED <<fixed, call>> /\ upkeep[c].pc = "arm" /\ upkeep[c].pc # "idle"
  BY DEF EpochInv, UpkeepArms
<1>2. PICK e \in Ids : e = upkeep[c].e
  BY <1>1 DEF EpochInv, UpkeepsFit, UpkeepFits
<1>3. UpkeepFits(c) /\ upkeep[c].salt = Genuine(e)
  BY <1>1, <1>2 DEF EpochInv, UpkeepsFit, UpkeepFits
<1> DEFINE r == Epoch("armed", epoch[e].source, upkeep[c].salt, epoch[e].seeds, epoch[e].used)
           u == Upkeep("resolve", upkeep[c].todo, 0, "none")
<1>4. r \in EpochType /\ epoch[e].seeds >= epoch[e].seeds
  BY <1>1, <1>2, RowTypes, CallTypes DEF Epoch, EpochType
<1>5. epoch' = [epoch EXCEPT ![e] = r] /\ epoch'[e] = r /\ strict' = strict
  BY <1>1, <1>2 DEF UpkeepArms, SetSalt, TypeOK, Ids, fixed, config
<1>6. RowFits(e)
  BY <1>2 DEF EpochInv, RowsFit
<1>7. RowFits(e)'
  BY <1>3, <1>5, <1>6 DEF RowFits, Genuine, NotServable, Epoch
<1>8. r.source = epoch[e].source /\ r.seeds = epoch[e].seeds /\ r.status # "active"
      /\ (epoch[e].salt # "none" => r.salt = epoch[e].salt)
  BY <1>3, <1>6 DEF Epoch, RowFits
<1>9. u \in UpkeepType
  <2>1. upkeep[c].todo \in SUBSET Nat
    BY <1>1, CallTypes
  <2> QED
    BY <2>1, UpkeepTyped DEF UpkeepSteps, Salts
<1>10. upkeep' = [upkeep EXCEPT ![c] = u] /\ upkeep'[c] = u
  BY <1>1 DEF UpkeepArms, UpAt, TypeOK
<1>11. UpkeepFits(c)'
  <2>1. Ids' = Ids /\ \A f \in Ids \ {e} : epoch'[f] = epoch[f]
    BY <1>1, <1>2, <1>4, <1>5, RowUpdate
  <2>2. \A f \in Ids : epoch'[f].source = epoch[f].source
    BY <1>5, <1>8, <2>1
  <2> QED
    BY <1>3, <1>10, <2>1, <2>2 DEF UpkeepFits, Upkeep
<1> HIDE DEF r, u
<1> QED
  BY <1>1, <1>4, <1>5, <1>7, <1>8, <1>9, <1>10, <1>11, UpkeepWrites

\* An upkeep that goes on to a step that names no epoch, or ends.
LEMMA UpkeepMoves ==
  ASSUME EpochInv, NEW c \in Callers, upkeep[c].pc # "idle",
         Fault \/ NoFault, UNCHANGED <<fixed, epoch, call>>,
         UpEnd(c) \/ \E pc \in {"count", "max"} : UpGo(c, pc)
  PROVE  EpochInv' /\ Grows
<1>1. TypeOK /\ UpkeepFits(c) /\ Ids' = Ids /\ epoch' = epoch
  BY DEF EpochInv, UpkeepsFit, Ids
<1>2. CASE UpEnd(c)
  <2>1. upkeep' = [upkeep EXCEPT ![c] = NoUpkeep] /\ upkeep'[c] = NoUpkeep
    BY <1>1, <1>2 DEF UpEnd, TypeOK
  <2>2. NoUpkeep \in UpkeepType
    BY <1>1, UpGoTyped DEF UpkeepSteps
  <2> QED
    BY <2>1, <2>2, UpEndOk, UpkeepReads
<1>3. ASSUME NEW pc \in {"count", "max"}, UpGo(c, pc)
      PROVE  EpochInv' /\ Grows
  <2> DEFINE u == Upkeep(pc, upkeep[c].todo, upkeep[c].e, upkeep[c].salt)
  <2>1. u \in UpkeepType
    BY <1>1, UpGoTyped DEF UpkeepSteps
  <2>2. upkeep' = [upkeep EXCEPT ![c] = u] /\ upkeep'[c] = u
    BY <1>1, <1>3 DEF UpGo, UpAt, TypeOK
  <2>3. UpkeepFits(c)'
    BY <1>1, <2>2 DEF UpkeepFits, Upkeep
  <2> HIDE DEF u
  <2> QED
    BY <2>1, <2>2, <2>3, UpkeepReads
<1> QED
  BY <1>2, <1>3

LEMMA UpkeepCommitsKeeps ==
  ASSUME EpochInv, NEW c \in Callers, UpkeepCommits(c)
  PROVE  EpochInv' /\ Grows
<1>1. TypeOK /\ upkeep[c].pc # "idle" /\ (Fault \/ NoFault) /\ UNCHANGED <<fixed, epoch, call>>
  BY DEF EpochInv, UpkeepCommits
<1>2. CASE UpEnd(c)
  BY <1>1, <1>2, UpkeepMoves
<1>3. ASSUME NEW s \in {"none", "random"}, UpAt(c, "create", {}, NextId, s)
      PROVE  EpochInv' /\ Grows
  <2> DEFINE u == Upkeep("create", {}, NextId, s)
  <2>1. NextId \in Nat /\ {} \in SUBSET Nat /\ s \in Salts
    BY <1>1, <1>3 DEF NextId, TypeOK, Salts
  <2>2. u \in UpkeepType
    BY <2>1, UpkeepTyped DEF UpkeepSteps
  <2>3. upkeep' = [upkeep EXCEPT ![c] = u] /\ upkeep'[c] = u
    BY <1>1, <1>3 DEF UpAt, TypeOK
  <2>4. UpkeepFits(c)'
    BY <2>3 DEF UpkeepFits, Upkeep
  <2> HIDE DEF u
  <2> QED
    BY <1>1, <2>2, <2>3, <2>4, UpkeepReads
<1> QED
  BY <1>2, <1>3 DEF UpkeepCommits

LEMMA UpkeepCreatesKeeps ==
  ASSUME EpochInv, NEW c \in Callers, UpkeepCreates(c)
  PROVE  EpochInv' /\ Grows
<1>1. TypeOK /\ upkeep[c].pc = "create" /\ upkeep[c].pc # "idle" /\ NoFault /\ UNCHANGED <<fixed, call>>
  BY DEF EpochInv, UpkeepCreates
<1>2. CASE UpEnd(c) /\ UNCHANGED epoch
  BY <1>1, <1>2, UpkeepMoves
<1>3. ASSUME NEW r \in {Epoch("pending", "eth-block", "none", 0, 0), Epoch("armed", "random", "random", 0, 0)},
             NextId <= MaxEpochs, UpGo(c, "seeds"), Opens(upkeep[c].e, r)
      PROVE  EpochInv' /\ Grows
  <2> DEFINE u == Upkeep("seeds", upkeep[c].todo, upkeep[c].e, upkeep[c].salt)
  <2>1. /\ r \in EpochType /\ r.used = 0 /\ r.status # "active"
        /\ r.salt = "none" => r.source = "eth-block"
        /\ r.status = "pending" => r.source = "eth-block"
        /\ r.salt \in {"none", IF r.source = "eth-block" THEN "hash" ELSE "random"}
        /\ r.status \in {"armed", "active"} => r.salt # "none"
    BY <1>3, FairnessAssumption DEF Epoch, EpochType, Salts
  <2>2. u \in UpkeepType
    BY <1>1, UpGoTyped DEF UpkeepSteps
  <2>3. upkeep' = [upkeep EXCEPT ![c] = u] /\ upkeep'[c] = u
    BY <1>1, <1>3 DEF UpGo, UpAt, TypeOK
  <2>4. epoch' = Append(epoch, r) /\ upkeep[c].e = NextId
    BY <1>3 DEF Opens
  <2>5. UNCHANGED <<strict, final>> /\ started' = started /\ block' = block /\ call' = call
    BY <1>1 DEF fixed, config
  <2>6. /\ epoch' \in Seq(EpochType) /\ Len(epoch') <= MaxEpochs
        /\ Ids' = Ids \cup {NextId} /\ NextId \notin Ids /\ NextId \in Nat
        /\ \A f \in Ids : epoch'[f] = epoch[f]
        /\ Grows /\ RowsFit'
        /\ \A s : With(s)' = With(s) \cup (IF r.status = s THEN {NextId} ELSE {})
    BY <1>3, <2>1, <2>4, <2>5, CreationKeeps
  <2>7. With("active")' \subseteq With("active")
    BY <2>1, <2>6
  <2>8. /\ upkeep' \in [Callers -> UpkeepType]
        /\ \A d \in Callers \ {c} : upkeep'[d] = upkeep[d]
    BY <1>1, <2>2, <2>3, UpkeepUpdate
  <2>9. TypeOK'
    <3>1. faults' \in 0 .. MaxFaults
      BY <1>1, FaultType
    <3> QED
      BY <1>1, <2>5, <2>6, <2>8, <3>1 DEF TypeOK
  <2>10. UpkeepFits(c)'
    <3>1. UpkeepFits(c)
      BY DEF EpochInv, UpkeepsFit
    <3>2. /\ upkeep'[c].todo = upkeep[c].todo /\ upkeep'[c].pc = "seeds"
          /\ upkeep'[c].e = NextId
      BY <2>3, <2>4 DEF Upkeep
    <3>3. \A e \in upkeep[c].todo : e \in Ids /\ epoch'[e].source = "eth-block"
      BY <2>6, <3>1 DEF UpkeepFits
    <3>4. Ids \subseteq Ids' /\ NextId \in Ids'
      BY <2>6
    <3> QED
      BY <3>2, <3>3, <3>4 DEF UpkeepFits
  <2>11. upkeep[c] # NoUpkeep
    BY <1>1 DEF NoUpkeep, Upkeep
  <2>12. EpochInv'
    BY <1>1, <2>5, <2>6, <2>7, <2>8, <2>9, <2>10, <2>11, UpkeepKeeps
  <2> QED
    BY <2>6, <2>12
<1> QED
  BY <1>2, <1>3 DEF UpkeepCreates

LEMMA UpkeepSeedsKeeps ==
  ASSUME EpochInv, NEW c \in Callers, UpkeepSeeds(c)
  PROVE  EpochInv' /\ Grows
<1>1. TypeOK /\ NoFault /\ UNCHANGED <<fixed, call>> /\ upkeep[c].pc = "seeds" /\ upkeep[c].pc # "idle"
  BY DEF EpochInv, UpkeepSeeds
<1>2. PICK e \in Ids : e = upkeep[c].e
  BY <1>1 DEF EpochInv, UpkeepsFit, UpkeepFits
<1> DEFINE r == Epoch(epoch[e].status, epoch[e].source, epoch[e].salt, ChainLength, epoch[e].used)
<1>3. r \in EpochType
  BY <1>1, <1>2, RowTypes DEF Epoch, EpochType
<1>4. epoch' = [epoch EXCEPT ![e] = r] /\ epoch'[e] = r /\ strict' = strict
  BY <1>1, <1>2 DEF UpkeepSeeds, AddSeeds, SetSeeds, TypeOK, Ids, fixed, config
<1>5. RowFits(e) /\ ChainLength >= epoch[e].seeds /\ epoch[e].used <= ChainLength
  <2>1. RowFits(e)
    BY <1>2 DEF EpochInv, RowsFit
  <2>2. epoch[e].seeds \in Nat /\ epoch[e].used \in Nat /\ ChainLength \in Nat /\ epoch[e].seeds <= ChainLength
    BY <1>1, <1>2, RowTypes
  <2>3. epoch[e].used <= epoch[e].seeds
    BY <2>1 DEF RowFits
  <2> QED
    BY <2>1, <2>2, <2>3
<1>6. RowFits(e)'
  BY <1>4, <1>5 DEF RowFits, Genuine, NotServable, Epoch
<1>7. r.source = epoch[e].source /\ r.seeds = ChainLength /\ r.salt = epoch[e].salt
      /\ r.status = epoch[e].status
  BY DEF Epoch
<1>8. upkeep' = [upkeep EXCEPT ![c] = NoUpkeep] /\ upkeep'[c] = NoUpkeep
  BY <1>1 DEF UpkeepSeeds, UpEnd, TypeOK
<1>9. NoUpkeep \in UpkeepType
  BY <1>1, UpGoTyped DEF UpkeepSteps
<1>10. UpkeepFits(c)'
  BY <1>8, UpEndOk
<1> HIDE DEF r
<1> QED
  BY <1>1, <1>3, <1>4, <1>5, <1>6, <1>7, <1>8, <1>9, <1>10, UpkeepWrites

\* Every step of maintain keeps the invariant.
LEMMA UpkeepStepKeeps ==
  ASSUME EpochInv, NEW c \in Callers, UpkeepStep(c)
  PROVE  EpochInv' /\ Grows
<1>1. CASE UpkeepFindsActive(c)
  BY <1>1, UpkeepMoves DEF UpkeepFindsActive
<1>2. CASE UpkeepCounts(c)
  BY <1>2, UpkeepMoves DEF UpkeepCounts
<1> QED
  BY <1>1, <1>2, ScanKeeps, UpkeepResolvesKeeps, UpkeepArmsKeeps, UpkeepCommitsKeeps,
     UpkeepCreatesKeeps, UpkeepSeedsKeeps DEF UpkeepStep

(* ------------------------------------------------------------ other steps *)

\* A step that leaves the epochs alone and lets calls and upkeep begin or end.
LEMMA OthersKeep ==
  ASSUME EpochInv, UNCHANGED <<config, final, epoch>>, Fault \/ NoFault,
         NEW c \in Callers, started' \in SUBSET Callers,
         started \cap Deposed \subseteq started', started' \subseteq started \cup {c},
         \A d \in Callers \ {c} : call'[d] = call[d] /\ upkeep'[d] = upkeep[d],
         call' \in [Callers -> CallType], upkeep' \in [Callers -> UpkeepType],
         call'[c] = call[c] \/ call'[c].pc \in {"idle", "active"},
         upkeep'[c] = upkeep[c] \/ (upkeep'[c].pc \in {"idle", "scan"} /\ upkeep'[c].todo = {}),
         c \in Deposed \ started' => call'[c] = NoCall /\ upkeep'[c] = NoUpkeep
  PROVE  EpochInv' /\ Grows
<1>1. TypeOK /\ faults' \in 0 .. MaxFaults
  BY FaultType DEF EpochInv
<1>2. TypeOK'
  BY <1>1 DEF TypeOK, config, Ids
<1>3. Grows /\ RowsFit' /\ With("active")' = With("active")
  <2>1. ASSUME NEW e \in Ids PROVE epoch[e].seeds \in Nat
    BY <1>1, <2>1, RowTypes
  <2>2. Grows
    BY <2>1 DEF Grows, config, Ids
  <2>3. RowsFit'
    BY <2>2, RowFrame DEF EpochInv, RowsFit, Ids
  <2> QED
    BY <2>2, <2>3 DEF With, Ids
<1>4. CallsFit'
  <2> SUFFICES ASSUME NEW d \in Callers PROVE CallFits(d)'
    BY DEF CallsFit
  <2>1. CASE call'[d] = call[d]
    BY <1>1, <1>2, <1>3, <2>1, CallFrame DEF EpochInv, CallsFit
  <2>2. CASE call'[d].pc \in {"idle", "active"}
    BY <2>2 DEF CallFits
  <2> QED
    BY <2>1, <2>2
<1>5. UpkeepsFit'
  <2> SUFFICES ASSUME NEW d \in Callers PROVE UpkeepFits(d)'
    BY DEF UpkeepsFit
  <2>1. CASE upkeep'[d] = upkeep[d]
    BY <1>3, <2>1, UpkeepFrame DEF EpochInv, UpkeepsFit
  <2>2. CASE upkeep'[d].pc \in {"idle", "scan"} /\ upkeep'[d].todo = {}
    BY <2>2 DEF UpkeepFits
  <2> QED
    BY <2>1, <2>2
<1>6. OneActiveEpoch'
  BY <1>3 DEF EpochInv, OneActiveEpoch
<1>7. CallsAlone'
  <2>1. ASSUME NEW d \in Deposed \ started' PROVE call'[d] = NoCall /\ upkeep'[d] = NoUpkeep
    <3>1. d \in Callers /\ d \in Deposed \ started
      BY <2>1, FairnessAssumption
    <3>2. CASE d = c
      BY <2>1, <3>2
    <3>3. CASE d # c
      BY <3>1, <3>3 DEF EpochInv, CallsAlone
    <3> QED
      BY <3>2, <3>3
  <2>2. ASSUME Alone', NEW d \in Callers \ Deposed PROVE ServesAlone(d)'
    <3>1. Alone
      BY <2>2 DEF Alone
    <3>2. CASE call'[d] = call[d]
      BY <1>3, <2>2, <3>1, <3>2 DEF EpochInv, CallsAlone, ServesAlone
    <3>3. CASE call'[d].pc \in {"idle", "active"}
      BY <3>3 DEF ServesAlone
    <3> QED
      BY <3>2, <3>3
  <2> QED
    BY <2>1, <2>2 DEF CallsAlone
<1>8. EpochInv'
  BY <1>2, <1>3, <1>4, <1>5, <1>6, <1>7 DEF EpochInv
<1> QED
  BY <1>3, <1>8

LEMMA BeginTyped ==
  ASSUME NEW fn \in {"ensure", "allocate"}
  PROVE  Call(fn, "active", 1, 0, "none") \in CallType /\ NoCall \in CallType /\ NoUpkeep \in UpkeepType
BY DEF Call, CallType, CallSteps, Salts, NoCall, NoUpkeep, Upkeep, UpkeepType

LEMMA ScanBegins ==
  ASSUME TypeOK, NEW c \in Callers, upkeep[c] = NoUpkeep, UpGo(c, "scan")
  PROVE  /\ upkeep' \in [Callers -> UpkeepType] /\ \A d \in Callers \ {c} : upkeep'[d] = upkeep[d]
         /\ upkeep'[c].pc = "scan" /\ upkeep'[c].todo = {}
<1> DEFINE u == Upkeep("scan", upkeep[c].todo, upkeep[c].e, upkeep[c].salt)
<1>1. u \in UpkeepType
  BY UpGoTyped DEF UpkeepSteps
<1>2. upkeep' = [upkeep EXCEPT ![c] = u]
  BY DEF UpGo, UpAt
<1>3. u.pc = "scan" /\ u.todo = {}
  BY DEF Upkeep, NoUpkeep
<1> HIDE DEF u
<1> QED
  BY <1>1, <1>2, <1>3, UpkeepUpdate

LEMMA BeginKeeps ==
  ASSUME EpochInv, NEW c \in Callers, Begin(c)
  PROVE  EpochInv' /\ Grows
<1>1. /\ TypeOK /\ UNCHANGED <<config, final, epoch>> /\ NoFault /\ c \notin Deposed
      /\ started' = started \cup {c} /\ started \subseteq Callers
  BY DEF EpochInv, Begin, TypeOK
<1>2. PICK fn \in {"ensure", "allocate"} : call' = [call EXCEPT ![c] = Call(fn, "active", 1, 0, "none")]
  BY DEF Begin
<1>3. /\ call' \in [Callers -> CallType] /\ call'[c] = Call(fn, "active", 1, 0, "none")
      /\ \A d \in Callers \ {c} : call'[d] = call[d]
  BY <1>1, <1>2, BeginTyped, CallUpdate
<1>4. call'[c].pc = "active"
  BY <1>3 DEF Call
<1>5. CASE UNCHANGED upkeep
  <2>1. upkeep' \in [Callers -> UpkeepType]
    BY <1>1, <1>5 DEF TypeOK
  <2> QED
    BY <1>1, <1>3, <1>4, <1>5, <2>1, OthersKeep
<1>6. CASE upkeep[c] = NoUpkeep /\ UpGo(c, "scan")
  <2>1. /\ upkeep' \in [Callers -> UpkeepType] /\ \A d \in Callers \ {c} : upkeep'[d] = upkeep[d]
        /\ upkeep'[c].pc = "scan" /\ upkeep'[c].todo = {}
    BY <1>1, <1>6, ScanBegins
  <2> QED
    BY <1>1, <1>3, <1>4, <2>1, OthersKeep
<1> QED
  BY <1>5, <1>6 DEF Begin

LEMMA StraggleKeeps ==
  ASSUME EpochInv, NEW c \in Callers, Straggle(c)
  PROVE  EpochInv' /\ Grows
<1>1. /\ TypeOK /\ UNCHANGED <<config, final, epoch>> /\ Fault /\ c \in Deposed \ started
      /\ started' = started \cup {c} /\ started \subseteq Callers
  BY DEF EpochInv, Straggle, TypeOK
<1>2. CASE call' = [call EXCEPT ![c] = Call("allocate", "active", 1, 0, "none")] /\ UNCHANGED upkeep
  <2>1. /\ call' \in [Callers -> CallType] /\ call'[c] = Call("allocate", "active", 1, 0, "none")
        /\ \A d \in Callers \ {c} : call'[d] = call[d]
    BY <1>1, <1>2, BeginTyped, CallUpdate
  <2>2. call'[c].pc = "active" /\ upkeep' \in [Callers -> UpkeepType]
    BY <1>1, <1>2, <2>1 DEF Call, TypeOK
  <2> QED
    BY <1>1, <1>2, <2>1, <2>2, OthersKeep
<1>3. CASE UpGo(c, "scan") /\ UNCHANGED call
  <2>1. upkeep[c] = NoUpkeep
    BY <1>1 DEF EpochInv, CallsAlone
  <2>2. /\ upkeep' \in [Callers -> UpkeepType] /\ \A d \in Callers \ {c} : upkeep'[d] = upkeep[d]
        /\ upkeep'[c].pc = "scan" /\ upkeep'[c].todo = {}
    BY <1>1, <1>3, <2>1, ScanBegins
  <2>3. call' \in [Callers -> CallType]
    BY <1>1, <1>3 DEF TypeOK
  <2> QED
    BY <1>1, <1>3, <2>2, <2>3, OthersKeep
<1> QED
  BY <1>2, <1>3 DEF Straggle

\* A call or an upkeep ends.
LEMMA Endings ==
  ASSUME TypeOK, NEW c \in Callers
  PROVE  /\ End(c) => /\ call' \in [Callers -> CallType] /\ call'[c] = NoCall /\ call'[c].pc = "idle"
                      /\ \A d \in Callers \ {c} : call'[d] = call[d]
         /\ UpEnd(c) => /\ upkeep' \in [Callers -> UpkeepType] /\ upkeep'[c] = NoUpkeep
                        /\ upkeep'[c].pc = "idle" /\ upkeep'[c].todo = {}
                        /\ \A d \in Callers \ {c} : upkeep'[d] = upkeep[d]
<1>1. NoCall \in CallType /\ NoUpkeep \in UpkeepType
  BY BeginTyped
<1>2. NoCall.pc = "idle" /\ NoUpkeep.pc = "idle" /\ NoUpkeep.todo = {}
  BY DEF NoCall, Call, NoUpkeep, Upkeep
<1>3. ASSUME End(c)
      PROVE  /\ call' \in [Callers -> CallType] /\ call'[c] = NoCall
             /\ \A d \in Callers \ {c} : call'[d] = call[d]
  BY <1>1, <1>3, CallUpdate DEF End
<1>4. ASSUME UpEnd(c)
      PROVE  /\ upkeep' \in [Callers -> UpkeepType] /\ upkeep'[c] = NoUpkeep
             /\ \A d \in Callers \ {c} : upkeep'[d] = upkeep[d]
  BY <1>1, <1>4, UpkeepUpdate DEF UpEnd
<1> QED
  BY <1>2, <1>3, <1>4

LEMMA ThrowsKeeps ==
  ASSUME EpochInv, NEW c \in Callers, Throws(c)
  PROVE  EpochInv' /\ Grows
<1>1. /\ TypeOK /\ UNCHANGED <<config, final, epoch>> /\ Fault /\ started' = started
      /\ started \in SUBSET Callers
      /\ call \in [Callers -> CallType] /\ upkeep \in [Callers -> UpkeepType]
  BY DEF EpochInv, Throws, TypeOK, fixed
<1>2. CASE call[c] # NoCall /\ End(c) /\ UNCHANGED upkeep
  <2>1. c \notin Deposed \ started
    BY <1>2 DEF EpochInv, CallsAlone
  <2>2. /\ call' \in [Callers -> CallType] /\ call'[c].pc = "idle"
        /\ \A d \in Callers \ {c} : call'[d] = call[d]
    BY <1>1, <1>2, Endings
  <2> QED
    BY <1>1, <1>2, <2>1, <2>2, OthersKeep
<1>3. CASE upkeep[c] # NoUpkeep /\ UpEnd(c) /\ UNCHANGED call
  <2>1. c \notin Deposed \ started
    BY <1>3 DEF EpochInv, CallsAlone
  <2>2. /\ upkeep' \in [Callers -> UpkeepType] /\ upkeep'[c].pc = "idle" /\ upkeep'[c].todo = {}
        /\ \A d \in Callers \ {c} : upkeep'[d] = upkeep[d]
    BY <1>1, <1>3, Endings
  <2> QED
    BY <1>1, <1>3, <2>1, <2>2, OthersKeep
<1> QED
  BY <1>2, <1>3 DEF Throws

LEMMA CrashKeeps ==
  ASSUME EpochInv, NEW c \in Callers, Crash(c)
  PROVE  EpochInv' /\ Grows
<1>1. /\ TypeOK /\ UNCHANGED <<config, final, epoch>> /\ Fault /\ started' = started \ ({c} \ Deposed)
      /\ started \in SUBSET Callers
  BY DEF EpochInv, Crash, TypeOK
<1>2. /\ call' \in [Callers -> CallType] /\ call'[c] = NoCall /\ call'[c].pc = "idle"
      /\ \A d \in Callers \ {c} : call'[d] = call[d]
  BY <1>1, Endings DEF Crash
<1>3. /\ upkeep' \in [Callers -> UpkeepType] /\ upkeep'[c] = NoUpkeep
      /\ upkeep'[c].pc = "idle" /\ upkeep'[c].todo = {}
      /\ \A d \in Callers \ {c} : upkeep'[d] = upkeep[d]
  BY <1>1, Endings DEF Crash
<1>4. started' \in SUBSET Callers /\ started \cap Deposed \subseteq started' /\ started' \subseteq started \cup {c}
  BY <1>1
<1> QED
  BY <1>1, <1>2, <1>3, <1>4, OthersKeep

LEMMA FinalizeKeeps ==
  ASSUME EpochInv, NEW e \in Ids, Finalize(e)
  PROVE  EpochInv' /\ Grows
<1>1. /\ TypeOK /\ faults' = faults /\ strict' = strict /\ block' = block /\ started' = started
      /\ epoch' = epoch /\ call' = call /\ upkeep' = upkeep /\ final' = final \cup {e}
  BY DEF EpochInv, Finalize, NoFault, config
<1>2. TypeOK'
  BY <1>1 DEF TypeOK, Ids
<1>3. ASSUME NEW f \in Ids PROVE epoch[f].seeds \in Nat
  BY <1>1, <1>3, RowTypes
<1>4. Grows
  BY <1>1, <1>3 DEF Grows, Ids
<1>5. With("active")' = With("active")
  BY <1>1 DEF With, Ids
<1>6. RowsFit' /\ CallsFit' /\ UpkeepsFit'
  BY <1>1, <1>2, <1>4, RowFrame, CallFrame, UpkeepFrame DEF EpochInv, RowsFit, CallsFit, UpkeepsFit, Ids
<1>7. OneActiveEpoch' /\ CallsAlone'
  BY <1>1, <1>5 DEF EpochInv, OneActiveEpoch, CallsAlone, Alone, ServesAlone
<1> QED
  BY <1>2, <1>4, <1>6, <1>7 DEF EpochInv

(* -------------------------------------------------------------- theorems *)

LEMMA InitInv ==
  ASSUME Init
  PROVE  EpochInv
<1> DEFINE r == Epoch("active", "random", "random", ChainLength, 0)
           a == Epoch("armed", "random", "random", ChainLength, 0)
           b == Epoch("active", "eth-block", "hash", ChainLength, 0)
<1>1. ChainLength \in Nat \ {0} /\ MaxEpochs \in Nat \ {0, 1} /\ MaxFaults \in Nat
  BY FairnessAssumption
<1>2. r \in EpochType /\ a \in EpochType /\ b \in EpochType
  BY <1>1 DEF Epoch, EpochType, Salts
<1>3. /\ epoch \in Seq(EpochType) /\ Len(epoch) \in {0, 1, 2} /\ Ids = 1 .. Len(epoch)
      /\ \A e \in Ids : (epoch[e] \in {r, b} /\ e = 1) \/ epoch[e] = a
  <2> HIDE DEF r, a, b
  <2>1. CASE epoch = << >>
    BY <2>1 DEF Ids
  <2>2. CASE epoch = <<r>>
    BY <1>2, <2>2 DEF Ids
  <2>3. CASE epoch = <<b>>
    BY <1>2, <2>3 DEF Ids
  <2>4. CASE epoch = <<r, a>>
    BY <1>2, <2>4 DEF Ids
  <2> QED
    BY <2>1, <2>2, <2>3, <2>4 DEF Init, r, a, b
<1>4. NoCall \in CallType /\ NoUpkeep \in UpkeepType
  BY BeginTyped
<1>5. /\ call = [c \in Callers |-> NoCall] /\ upkeep = [c \in Callers |-> NoUpkeep]
      /\ started = {} /\ faults = 0 /\ final \subseteq Ids /\ strict \in BOOLEAN /\ block \in BOOLEAN
  BY DEF Init
<1>6. TypeOK
  <2>1. Len(epoch) <= MaxEpochs
    BY <1>1, <1>3
  <2>2. faults \in 0 .. MaxFaults
    BY <1>1, <1>5
  <2> QED
    BY <1>3, <1>4, <1>5, <2>1, <2>2 DEF TypeOK
<1>7. OneActiveEpoch
  BY <1>3 DEF OneActiveEpoch, With, Epoch
<1>8. RowsFit
  <2> SUFFICES ASSUME NEW e \in Ids PROVE RowFits(e)
    BY DEF RowsFit
  <2>1. epoch[e] \in {r, a, b} /\ 0 <= ChainLength
    BY <1>1, <1>3
  <2> QED
    BY <2>1 DEF RowFits, Genuine, Epoch
<1>9. CallsFit /\ UpkeepsFit /\ CallsAlone
  BY <1>5, FairnessAssumption
     DEF CallsFit, CallFits, UpkeepsFit, UpkeepFits, CallsAlone, ServesAlone, NoCall, Call, NoUpkeep, Upkeep
<1> QED
  BY <1>6, <1>7, <1>8, <1>9 DEF EpochInv

LEMMA NextKeeps ==
  ASSUME EpochInv, [Next]_vars
  PROVE  EpochInv' /\ Grows
<1>1. CASE Next
  BY <1>1, BeginKeeps, StraggleKeeps, CallStepKeeps, UpkeepStepKeeps, ThrowsKeeps, CrashKeeps,
     FinalizeKeeps DEF Next
<1>2. CASE UNCHANGED vars
  <2>1. UNCHANGED <<strict, block, faults, epoch, final, started, call, upkeep>>
    BY <1>2 DEF vars
  <2>2. ASSUME NEW e \in Ids PROVE epoch[e].seeds \in Nat
    BY <2>2, RowTypes DEF EpochInv
  <2>3. Grows
    BY <2>1, <2>2 DEF Grows, Ids
  <2>4. EpochInv'
    BY <2>1 DEF EpochInv, TypeOK, OneActiveEpoch, CallsAlone, RowsFit, CallsFit, UpkeepsFit, Alone,
                ServesAlone, RowFits, CallFits, UpkeepFits, With, Ids, Genuine, NotServable
  <2> QED
    BY <2>3, <2>4
<1> QED
  BY <1>1, <1>2

\* The invariant of fairness.service.ts: whatever maintain, deposed leaders, lying
\* endpoints and crashes interleave, rows, calls and upkeep fit together, and one
\* epoch serves unless a deposed leader interferes.
THEOREM EpochsAreSafe == Spec => []EpochInv
<1>1. Init => EpochInv
  BY InitInv
<1>2. EpochInv /\ [Next]_vars => EpochInv'
  BY NextKeeps
<1> QED
  BY <1>1, <1>2, PTL DEF Spec

\* A round is only ever opened under a committed, genuine salt, in strict mode the
\* hash of a block, for any minority of lying endpoints (allocateSeed, tryResolve).
THEOREM RoundsAreFair == Spec => []ServedSaltIsGenuine
<1>1. EpochInv => ServedSaltIsGenuine
  <2> SUFFICES ASSUME EpochInv, NEW e \in Ids, Served(e)
               PROVE  /\ epoch[e].salt = IF epoch[e].source = "eth-block" THEN "hash" ELSE "random"
                      /\ strict => epoch[e].source = "eth-block"
    BY DEF ServedSaltIsGenuine
  <2> QED
    BY DEF EpochInv, RowsFit, RowFits, Served, Genuine, NotServable
<1> QED
  BY <1>1, EpochsAreSafe, PTL

\* The salt a round is verified with never changes once it is known, although the
\* engine's call, maintain and a deposed leader may each resolve and write it.
THEOREM SaltIsFinal == Spec => SaltNeverChanges
<1>1. EpochInv /\ [Next]_vars =>
        [\A e \in Ids : epoch[e].salt # "none" => epoch'[e].salt = epoch[e].salt]_vars
  BY NextKeeps DEF Grows
<1> QED
  BY <1>1, EpochsAreSafe, PTL DEF Spec, SaltNeverChanges
=============================================================================
