--------------------------- MODULE SessionsProofs ---------------------------
(***************************************************************************)
(* IdentityInv of Sessions is inductive, for any tickets, launches,        *)
(* sockets, users, reality checks and faults. The steps are first brought  *)
(* to what they do to one session, one socket and one launch; each part of *)
(* the invariant then follows from those.                                  *)
(***************************************************************************)
EXTENDS Sessions, FiniteSetTheorems, TLAPS

USE SessionsAssumption

-----------------------------------------------------------------------------
(* Records.                                                                *)

\* The fields of the records the actions write.
LEMMA Fields ==
  /\ \A state, w, anon, pend :
       LET r == Session(state, w, anon, pend)
       IN  r.state = state /\ r.w = w /\ r.anon = anon /\ r.pend = pend
  /\ \A pc, t, w : LET r == Launch(pc, t, w) IN r.pc = pc /\ r.t = t /\ r.w = w
  /\ \A pc, up, t, pending, got, born :
       LET r == Sock(pc, up, t, pending, got, born)
       IN  r.pc = pc /\ r.up = up /\ r.t = t /\ r.pending = pending /\ r.got = got /\ r.born = born
  /\ \A pc, socks, users : LET r == Sweeping(pc, socks, users) IN r.pc = pc /\ r.socks = socks /\ r.users = users
  /\ \A pc, users : LET r == Erasing(pc, users) IN r.pc = pc /\ r.users = users
  BY DEF Session, Launch, Sock, Sweeping, Erasing

\* Those of the empty ones.
LEMMA EmptyFields ==
  /\ NoSession.state = "none" /\ NoSession.w = 0 /\ NoSession.anon = FALSE /\ NoSession.pend = FALSE
  /\ NoLaunch.pc = "idle" /\ NoLaunch.t = None /\ NoLaunch.w = 0
  /\ NoSock.pc = "idle" /\ NoSock.up = FALSE /\ NoSock.t = None /\ NoSock.pending = FALSE
  /\ NoSock.got = FALSE /\ NoSock.born = FALSE
  /\ NoSweep.pc = "idle" /\ NoErase.pc = "idle" /\ NoErase.users = {}
  BY DEF NoSession, NoLaunch, NoSock, NoSweep, NoErase, Session, Launch, Sock, Sweeping, Erasing

\* And their types.
LEMMA SessionTypes ==
  ASSUME NEW state \in {"none", "live", "revoked"}, NEW w \in 0 .. MaxWallets, NEW anon \in BOOLEAN, NEW pend \in BOOLEAN
  PROVE  Session(state, w, anon, pend) \in SessionType
  BY DEF Session, SessionType

\* A launch's.
LEMMA LaunchTypes ==
  ASSUME NEW pc \in {"idle", "find", "user", "refind", "session", "token"}, NEW t \in Tickets \cup {None},
         NEW w \in 0 .. MaxWallets
  PROVE  Launch(pc, t, w) \in LaunchType
  BY DEF Launch, LaunchType

\* A socket's.
LEMMA SockTypes ==
  ASSUME NEW pc \in {"idle", "live", "load", "loaded", "open", "closed"}, NEW up \in BOOLEAN,
         NEW t \in Tickets \cup {None}, NEW pending \in BOOLEAN, NEW got \in BOOLEAN, NEW born \in BOOLEAN
  PROVE  Sock(pc, up, t, pending, got, born) \in SockType
  BY Zenon DEF Sock, SockType

\* The empty ones'.
LEMMA EmptyTypes ==
  NoSession \in SessionType /\ NoLaunch \in LaunchType /\ NoSock \in SockType
  BY DEF NoSession, NoLaunch, NoSock, Session, SessionType, Launch, LaunchType, Sock, SockType

\* The fields of what is in the type.
LEMMA TypedFields ==
  ASSUME TypeOK
  PROVE  /\ \A t \in Tickets : /\ session[t] \in SessionType /\ session[t].state \in {"none", "live", "revoked"}
                               /\ session[t].w \in 0 .. MaxWallets /\ session[t].anon \in BOOLEAN
                               /\ session[t].pend \in BOOLEAN
         /\ \A c \in Launchers : /\ launch[c] \in LaunchType /\ launch[c].t \in Tickets \cup {None}
                                 /\ launch[c].w \in 0 .. MaxWallets
                                 /\ launch[c].pc \in {"idle", "find", "user", "refind", "session", "token"}
         /\ \A s \in Sockets : /\ sock[s] \in SockType /\ sock[s].t \in Tickets \cup {None} /\ sock[s].up \in BOOLEAN
                               /\ sock[s].pending \in BOOLEAN /\ sock[s].got \in BOOLEAN /\ sock[s].born \in BOOLEAN
                               /\ sock[s].pc \in {"idle", "live", "load", "loaded", "open", "closed"}
         /\ sweep.socks \subseteq Sockets /\ sweep.users \subseteq Users
         /\ erase.users \subseteq Users /\ erase.pc \in {"idle", "bets", "sessions", "scrub"}
         /\ Wallets \subseteq Users /\ Wallets = 1 .. Len(wallet)
<1>1. \A t \in Tickets : session[t] \in SessionType
  BY DEF TypeOK
<1>2. \A c \in Launchers : launch[c] \in LaunchType
  BY DEF TypeOK
<1>3. \A s \in Sockets : sock[s] \in SockType
  BY DEF TypeOK
<1>4. Wallets \subseteq Users /\ Wallets = 1 .. Len(wallet)
  BY DEF TypeOK, Wallets, Users
<1>5. /\ sweep.socks \subseteq Sockets /\ sweep.users \subseteq Users
      /\ erase.users \subseteq Users /\ erase.pc \in {"idle", "bets", "sessions", "scrub"}
  BY DEF TypeOK
<1>6. \A t \in Tickets : /\ session[t].state \in {"none", "live", "revoked"}
                         /\ session[t].w \in 0 .. MaxWallets /\ session[t].anon \in BOOLEAN
                         /\ session[t].pend \in BOOLEAN
  BY <1>1 DEF SessionType
<1>7. \A c \in Launchers : /\ launch[c].t \in Tickets \cup {None}
                           /\ launch[c].w \in 0 .. MaxWallets
                           /\ launch[c].pc \in {"idle", "find", "user", "refind", "session", "token"}
  BY <1>2 DEF LaunchType
<1>8. \A s \in Sockets : /\ sock[s].t \in Tickets \cup {None} /\ sock[s].up \in BOOLEAN
                         /\ sock[s].pending \in BOOLEAN /\ sock[s].got \in BOOLEAN /\ sock[s].born \in BOOLEAN
                         /\ sock[s].pc \in {"idle", "live", "load", "loaded", "open", "closed"}
  BY <1>3 DEF SockType
<1> QED BY <1>1, <1>2, <1>3, <1>4, <1>5, <1>6, <1>7, <1>8

-----------------------------------------------------------------------------
(* What a step does to a launch.                                           *)

LaunchIs(c, pc, t, w) ==
  /\ launch' \in [Launchers -> LaunchType]
  /\ \A d \in Launchers : d # c => launch'[d] = launch[d]
  /\ launch'[c].pc = pc /\ launch'[c].t = t /\ launch'[c].w = w

LaunchEnds(c) ==
  /\ launch' \in [Launchers -> LaunchType]
  /\ \A d \in Launchers : d # c => launch'[d] = launch[d]
  /\ launch'[c] = NoLaunch

\* Takes and Goes write one launch.
LEMMA TakesIs ==
  ASSUME TypeOK, NEW c \in Launchers, NEW pc \in {"user", "refind", "session", "token"}, NEW w \in 0 .. MaxWallets,
         Takes(c, pc, w)
  PROVE  LaunchIs(c, pc, launch[c].t, w)
<1> DEFINE r == Launch(pc, launch[c].t, w)
<1>1. r \in LaunchType
  BY LaunchTypes, TypedFields
<1>2. launch' = [launch EXCEPT ![c] = r] /\ launch \in [Launchers -> LaunchType]
  BY DEF Takes, TypeOK
<1>3. r.pc = pc /\ r.t = launch[c].t /\ r.w = w
  BY Fields
<1> HIDE DEF r
<1>4. launch'[c] = r /\ launch' \in [Launchers -> LaunchType] /\ \A d \in Launchers : d # c => launch'[d] = launch[d]
  BY <1>1, <1>2
<1> QED BY <1>3, <1>4 DEF LaunchIs

\* Ends empties it.
LEMMA EndsEnds ==
  ASSUME TypeOK, NEW c \in Launchers, Ends(c)
  PROVE  LaunchEnds(c)
  BY EmptyTypes DEF Ends, LaunchEnds, TypeOK

VerifyEffect(c) ==
  /\ launch[c].pc = "idle" /\ \E t \in Tickets : LaunchIs(c, "find", t, 0)
  /\ raced' = (raced \/ erase # NoErase)
  /\ UNCHANGED <<wallet, tokens, open, erase>>

FindEffect(c) ==
  /\ launch[c].pc # "idle"
  /\ \/ LaunchEnds(c)
     \/ \E pc \in {"user", "refind"} : LaunchIs(c, pc, launch[c].t, launch[c].w)
     \/ \E w \in Tagged : LaunchIs(c, "session", launch[c].t, w)
  /\ UNCHANGED <<wallet, tokens, open, erase, raced>>

CreateEffect(c) ==
  /\ launch[c].pc = "user" /\ Tagged = {} /\ Len(wallet) < MaxWallets
  /\ wallet' = Append(wallet, FALSE)
  /\ LaunchIs(c, "session", launch[c].t, Len(wallet) + 1)
  /\ UNCHANGED <<tokens, open, erase, raced>>

ConsumeEffect(c) ==
  /\ launch[c].pc = "session" /\ launch[c].t \in Tickets /\ session[launch[c].t] = NoSession
  /\ session' \in [Tickets -> SessionType]
  /\ session'[launch[c].t] = Session("live", launch[c].w, FALSE, FALSE)
  /\ \A t \in Tickets : t # launch[c].t => session'[t] = session[t]
  /\ LaunchIs(c, "token", launch[c].t, launch[c].w)
  /\ UNCHANGED <<wallet, tokens, open, erase, raced>>

IssueEffect(c) ==
  /\ launch[c].pc = "token"
  /\ tokens' = [tokens EXCEPT ![launch[c].t] = @ + 1]
  /\ LaunchEnds(c)
  /\ UNCHANGED <<wallet, open, erase, raced>>

LaunchStep(c) ==
  /\ \/ (VerifyEffect(c) \/ FindEffect(c) \/ CreateEffect(c) \/ IssueEffect(c)) /\ UNCHANGED session
     \/ ConsumeEffect(c)
  /\ UNCHANGED <<sock, registered, acking, bet, sweep, focus, checks>>

\* The steps of openFromToken.
LEMMA LaunchSteps ==
  ASSUME TypeOK, LaunchesFit, NEW c \in Launchers,
         \/ \E t \in Tickets : Verify(c, t)
         \/ FindWallet(c) \/ CreateUser(c) \/ CreateSession(c) \/ IssueToken(c) \/ LaunchFails(c)
  PROVE  LaunchStep(c)
<1> USE DEF dbVars, gameVars, eraseVars, rest
<1>t. /\ launch[c].t \in Tickets \cup {None} /\ launch[c].w \in 0 .. MaxWallets
      /\ launch[c] = NoLaunch => launch[c].pc = "idle"
      /\ launch[c].pc = "idle" => launch[c] = NoLaunch
      /\ launch[c].pc # "idle" => launch[c].t \in Tickets
      /\ Tagged \subseteq 0 .. MaxWallets
  BY TypedFields, EmptyFields DEF LaunchesFit, Tagged, Users
<1>1. ASSUME NEW t \in Tickets, Verify(c, t) PROVE LaunchStep(c)
  <2>1. Launch("find", t, 0) \in LaunchType
    BY LaunchTypes
  <2>2. launch' = [launch EXCEPT ![c] = Launch("find", t, 0)] /\ launch \in [Launchers -> LaunchType]
    BY <1>1 DEF Verify, TypeOK
  <2>3. launch'[c] = Launch("find", t, 0) /\ launch' \in [Launchers -> LaunchType]
        /\ \A d \in Launchers : d # c => launch'[d] = launch[d]
    BY <2>1, <2>2
  <2>4. LaunchIs(c, "find", t, 0)
    BY <2>3, Fields DEF LaunchIs
  <2> QED BY <1>1, <1>t, <2>4 DEF Verify, Overlaps, LaunchStep, VerifyEffect
<1>2. ASSUME FindWallet(c) PROVE LaunchStep(c)
  <2>1. CASE Tagged # {}
    <3>1. PICK w \in Tagged : Takes(c, "session", w)
      BY <1>2, <2>1 DEF FindWallet
    <3>2. LaunchIs(c, "session", launch[c].t, w)
      BY <1>t, <3>1, TakesIs
    <3> QED BY <1>2, <3>2 DEF FindWallet, LaunchStep, FindEffect
  <2>2. CASE Tagged = {} /\ launch[c].pc = "find"
    <3>1. LaunchIs(c, "user", launch[c].t, launch[c].w)
      BY <1>2, <1>t, <2>2, TakesIs DEF FindWallet, Goes
    <3> QED BY <1>2, <3>1 DEF FindWallet, LaunchStep, FindEffect
  <2>3. CASE Tagged = {} /\ launch[c].pc # "find"
    <3>1. LaunchEnds(c)
      BY <1>2, <2>3, EndsEnds DEF FindWallet
    <3> QED BY <1>2, <3>1 DEF FindWallet, LaunchStep, FindEffect
  <2> QED BY <2>1, <2>2, <2>3
<1>3. ASSUME CreateUser(c) PROVE LaunchStep(c)
  <2>1. CASE Tagged # {}
    <3>1. LaunchIs(c, "refind", launch[c].t, launch[c].w)
      BY <1>3, <1>t, <2>1, TakesIs DEF CreateUser, Goes
    <3> QED BY <1>3, <2>1, <3>1 DEF CreateUser, LaunchStep, FindEffect
  <2>2. CASE Tagged = {}
    <3>1. Len(wallet) + 1 \in 0 .. MaxWallets
      BY <1>3, <2>2 DEF CreateUser, TypeOK
    <3>2. LaunchIs(c, "session", launch[c].t, Len(wallet) + 1)
      BY <1>3, <2>2, <3>1, TakesIs DEF CreateUser
    <3> QED BY <1>3, <2>2, <3>2 DEF CreateUser, LaunchStep, CreateEffect
  <2> QED BY <2>1, <2>2
<1>4. ASSUME CreateSession(c) PROVE LaunchStep(c)
  <2>1. CASE session[launch[c].t] # NoSession
    <3>1. LaunchEnds(c)
      BY <1>4, <2>1, EndsEnds DEF CreateSession
    <3> QED BY <1>4, <2>1, <3>1 DEF CreateSession, LaunchStep, FindEffect
  <2>2. CASE session[launch[c].t] = NoSession
    <3>1. LaunchIs(c, "token", launch[c].t, launch[c].w)
      BY <1>4, <1>t, <2>2, TakesIs DEF CreateSession, Goes
    <3>2. Session("live", launch[c].w, FALSE, FALSE) \in SessionType /\ launch[c].t \in Tickets
      BY <1>4, <1>t, SessionTypes DEF CreateSession
    <3>3. session' = [session EXCEPT ![launch[c].t] = Session("live", launch[c].w, FALSE, FALSE)]
          /\ session \in [Tickets -> SessionType]
      BY <1>4, <2>2 DEF CreateSession, TypeOK
    <3> QED BY <1>4, <2>2, <3>1, <3>2, <3>3 DEF CreateSession, LaunchStep, ConsumeEffect
  <2> QED BY <2>1, <2>2
<1>5. ASSUME IssueToken(c) PROVE LaunchStep(c)
  BY <1>5, EndsEnds DEF IssueToken, LaunchStep, IssueEffect
<1>6. ASSUME LaunchFails(c) PROVE LaunchStep(c)
  BY <1>6, <1>t, EndsEnds DEF LaunchFails, LaunchStep, FindEffect
<1> QED BY <1>1, <1>2, <1>3, <1>4, <1>5, <1>6

-----------------------------------------------------------------------------
(* What a step does to a session, a socket and the registry.               *)

\* A session that exists stays and keeps its wallet; it is revoked, scrubbed and paused,
\* and only an acknowledgement ends the pause.
Kept(t) ==
  /\ session'[t].w = session[t].w
  /\ session[t].state = "none" <=> session'[t].state = "none"
  /\ session[t].state = "none" => session'[t] = session[t]
  /\ Live(t)' => Live(t)
  /\ session[t].anon => session'[t].anon
  /\ session[t].pend => session'[t].pend \/ \E s \in Sockets : acking[s] = t

SessionsKept == session' \in [Tickets -> SessionType] /\ \A t \in Tickets : Kept(t)

\* Where nothing is written.
LEMMA UnchangedIsKept ==
  ASSUME TypeOK, session' = session
  PROVE  SessionsKept
  BY DEF TypeOK, SessionsKept, Kept, Live

\* One socket's steps while nobody drops it.
Connects(s) ==
  /\ sock[s].pc \in {"idle", "closed"} /\ bet[s] = "none"
  /\ \E t \in Tickets : tokens[t] > 0 /\ sock'[s] = Sock("live", TRUE, t, FALSE, FALSE, Owed(t))
Proceeds(s) ==
  \/ sock[s].pc = "live" /\ sock'[s] = NoSock
  \/ sock[s].pc = "live" /\ sock'[s] = Reaches(sock[s], "load", FALSE)
  \/ sock[s].pc = "load" /\ sock'[s] = Reaches(sock[s], "loaded", session[sock[s].t].pend)
  \/ sock[s].pc = "load" /\ sock'[s] = Reaches(sock[s], "loaded", TRUE)
Pauses(s) ==
  sock[s].pc = "open" /\ sock'[s] = Sock("open", sock[s].up, sock[s].t, TRUE, sock[s].got, sock[s].born)

\* Other sockets and the registry stay.
Alone(s) ==
  /\ sock' \in [Sockets -> SockType] /\ registered' = registered
  /\ \A r \in Sockets : r # s => sock'[r] = sock[r]

Registers(s) ==
  LET prev == registered[User(s)] IN
  /\ sock[s].pc = "loaded"
  /\ registered' = [registered EXCEPT ![User(s)] = s]
  /\ sock' = [r \in Sockets |-> sock'[r]] /\ sock'[s] = Opened(sock[s])
  /\ \A r \in Sockets : r # s => sock'[r] = IF r = prev THEN Closed(sock[r]) ELSE sock[r]

Drops(S) ==
  /\ registered' = Forgotten(S) /\ sock' = [r \in Sockets |-> sock'[r]]
  /\ \A r \in Sockets : sock'[r] = IF r \in S THEN Closed(sock[r]) ELSE sock[r]

Acks(s) ==
  /\ Authed(s) /\ acking[s] = None /\ acking' = [acking EXCEPT ![s] = sock[s].t]
  /\ sock' = [r \in Sockets |-> sock'[r]]
  /\ \A r \in Sockets : sock'[r] =
       IF sock[r].t # sock[s].t THEN sock[r]
       ELSE Sock(sock[r].pc, sock[r].up, sock[r].t, sock[r].pending /\ r # s, sock[r].got, FALSE)

\* A closed or opened socket, field by field.
LEMMA ClosedFields ==
  ASSUME NEW r \in SockType
  PROVE  /\ Closed(r) \in SockType /\ Closed(r).t = r.t /\ Closed(r).pending = r.pending /\ Closed(r).got = r.got
         /\ Closed(r).pc = IF r.pc = "open" THEN "closed" ELSE r.pc
         /\ Closed(r).born => r.born /\ r.pc # "open"
<1>0. /\ r.t \in Tickets \cup {None} /\ r.up \in BOOLEAN
      /\ r.pending \in BOOLEAN /\ r.got \in BOOLEAN /\ r.born \in BOOLEAN
      /\ r.pc \in {"idle", "live", "load", "loaded", "open", "closed"}
  BY DEF SockType
<1>1. CASE r.pc = "open"
  <2>1. Closed(r) = Sock("closed", FALSE, r.t, r.pending, r.got, FALSE)
    BY <1>1 DEF Closed
  <2>2. Closed(r) \in SockType
    BY <1>0, <2>1, SockTypes, Zenon
  <2>3. Closed(r).t = r.t /\ Closed(r).pending = r.pending /\ Closed(r).got = r.got
        /\ Closed(r).pc = "closed" /\ Closed(r).born = FALSE
    BY <2>1 DEF Sock
  <2> QED BY <1>1, <2>2, <2>3
<1>2. CASE r.pc # "open"
  <2>1. Closed(r) = Sock(r.pc, FALSE, r.t, r.pending, r.got, r.born)
    BY <1>2 DEF Closed
  <2>2. Closed(r) \in SockType
    <3>1. FALSE \in BOOLEAN
      OBVIOUS
    <3>2. Sock(r.pc, FALSE, r.t, r.pending, r.got, r.born) \in SockType
      BY <1>0, <3>1, Zenon DEF Sock, SockType
    <3> QED BY <2>1, <3>2
  <2>3. Closed(r).t = r.t /\ Closed(r).pending = r.pending /\ Closed(r).got = r.got
        /\ Closed(r).pc = r.pc /\ Closed(r).born = r.born
    BY <2>1 DEF Sock
  <2> QED BY <1>2, <2>2, <2>3
<1> QED BY <1>1, <1>2

\* An opened one, which starts from the pause that was read.
LEMMA OpenedFields ==
  ASSUME NEW r \in SockType
  PROVE  /\ Opened(r) \in SockType /\ Opened(r).t = r.t /\ Opened(r).pending = r.got
         /\ Opened(r).pc \in {"open", "closed"}
         /\ Opened(r).born => r.born
<1>0. /\ r.t \in Tickets \cup {None} /\ r.up \in BOOLEAN
      /\ r.pending \in BOOLEAN /\ r.got \in BOOLEAN /\ r.born \in BOOLEAN
  BY DEF SockType
<1>1. CASE r.up
  <2>1. Opened(r) = Sock("open", TRUE, r.t, r.got, FALSE, r.born)
    BY <1>1 DEF Opened
  <2>2. Opened(r) \in SockType
    BY <1>0, <2>1, SockTypes, Zenon
  <2>3. Opened(r).t = r.t /\ Opened(r).pending = r.got /\ Opened(r).pc = "open" /\ Opened(r).born = r.born
    BY <2>1 DEF Sock
  <2> QED BY <2>2, <2>3
<1>2. CASE ~r.up
  <2>1. Opened(r) = Sock("closed", FALSE, r.t, r.got, FALSE, FALSE)
    BY <1>2 DEF Opened
  <2>2. Opened(r) \in SockType
    BY <1>0, <2>1, SockTypes, Zenon
  <2>3. Opened(r).t = r.t /\ Opened(r).pending = r.got /\ Opened(r).pc = "closed" /\ Opened(r).born = FALSE
    BY <2>1 DEF Sock
  <2> QED BY <2>2, <2>3
<1> QED BY <1>1, <1>2

\* One whose connect moves on.
LEMMA ReachesFields ==
  ASSUME NEW r \in SockType, NEW pc \in {"load", "loaded"}, NEW got \in BOOLEAN
  PROVE  /\ Reaches(r, pc, got) \in SockType /\ Reaches(r, pc, got).t = r.t /\ Reaches(r, pc, got).pending = r.pending
         /\ Reaches(r, pc, got).pc = pc /\ Reaches(r, pc, got).born = r.born /\ Reaches(r, pc, got).got = got
<1>0. /\ r.t \in Tickets \cup {None} /\ r.up \in BOOLEAN /\ r.pending \in BOOLEAN /\ r.born \in BOOLEAN
  BY DEF SockType
<1>1. Reaches(r, pc, got) = Sock(pc, r.up, r.t, r.pending, got, r.born)
  BY DEF Reaches
<1>2. Reaches(r, pc, got) \in SockType
  BY <1>0, <1>1, SockTypes
<1> QED BY <1>1, <1>2, Fields

\* One socket is written.
LEMMA SetSockAlone ==
  ASSUME TypeOK, NEW s \in Sockets, NEW r \in SockType, SetSock(s, r), registered' = registered
  PROVE  Alone(s) /\ sock'[s] = r
  BY DEF TypeOK, SetSock, Alone

-----------------------------------------------------------------------------
(* The other steps.                                                        *)

ConnectEffect(s) ==
  /\ Alone(s) /\ (Connects(s) \/ Proceeds(s) \/ Pauses(s))
  /\ UNCHANGED <<acking, bet, session, open>>

RegisterEffect(s) ==
  Registers(s) /\ UNCHANGED <<acking, bet, session, open>>

DropEffect(S) ==
  Drops(S) /\ UNCHANGED <<acking, bet, session, open>>

AckEffect(s) ==
  Acks(s) /\ UNCHANGED <<registered, bet, session, open>>

WriteEffect ==
  /\ SessionsKept
  /\ acking' \in [Sockets -> Tickets \cup {None}] /\ \A s \in Sockets : acking'[s] \in {acking[s], None}
  /\ UNCHANGED <<sock, registered, bet, open>>

SocketStep ==
  /\ \/ \E s \in Sockets : ConnectEffect(s) \/ RegisterEffect(s) \/ AckEffect(s)
     \/ \E S \in SUBSET Sockets : DropEffect(S)
     \/ WriteEffect
  /\ UNCHANGED <<wallet, tokens, launch, erase, raced>>

BetEffect(s) ==
  \/ /\ Authed(s) /\ bet' = [bet EXCEPT ![s] = "check"] /\ raced' = (raced \/ erase # NoErase) /\ open' = open
  \/ /\ bet[s] = "check" /\ bet' = [bet EXCEPT ![s] = "place"] /\ open' = open
     /\ (Live(sock[s].t) /\ raced' = raced) \/ raced' = TRUE
  \/ /\ bet[s] = "check" /\ bet' = [bet EXCEPT ![s] = "none"] /\ open' = open
     /\ raced' = raced \/ raced' = TRUE
  \/ /\ bet[s] = "place" /\ bet' = [bet EXCEPT ![s] = "none"] /\ open' = open \cup {User(s)} /\ raced' = raced

BetStep ==
  /\ \/ \E s \in Sockets : BetEffect(s)
     \/ \E w : open' = open \ {w} /\ UNCHANGED <<bet, raced>>
     \/ UNCHANGED <<open, bet, raced>>
  /\ UNCHANGED <<wallet, tokens, session, launch, sock, registered, acking, erase>>

BeginEffect ==
  /\ erase.pc = "idle"
  /\ erase' = Erasing("bets", Tagged \cup {session[t].w : t \in {u \in Tickets : session[u].anon}})
  /\ raced' = (raced \/ (\E c \in Launchers : launch[c] # NoLaunch) \/ \E s \in Sockets : bet[s] # "none")
  /\ UNCHANGED <<wallet, session>>

CountEffect ==
  /\ \/ erase' = NoErase
     \/ erase.pc = "bets" /\ erase.users \cap open = {} /\ erase' = Erasing("sessions", erase.users)
     \/ /\ erase.pc = "sessions" /\ erase' = Erasing("scrub", erase.users)
        /\ \A t \in Tickets : Live(t) => session[t].w \notin erase.users
  /\ UNCHANGED <<wallet, session, raced>>

ScrubEffect ==
  /\ erase.pc = "scrub" /\ erase' = NoErase
  /\ wallet' = [w \in Wallets |-> wallet[w] \/ w \in erase.users]
  /\ session' \in [Tickets -> SessionType]
  /\ \A t \in Tickets :
       /\ session'[t].state = session[t].state /\ session'[t].w = session[t].w /\ session'[t].pend = session[t].pend
       /\ session[t].anon => session'[t].anon
       /\ session[t].w \in erase.users => session'[t].anon
       /\ session[t].w \notin erase.users => session'[t] = session[t]
  /\ UNCHANGED raced

EraseStep ==
  /\ BeginEffect \/ CountEffect \/ ScrubEffect
  /\ UNCHANGED <<tokens, open, launch, sock, registered, acking, bet>>

\* The steps of handleConnection and the client's going away.
LEMMA ConnectionSteps ==
  ASSUME TypeOK, SocksFit, NEW s \in Sockets,
         \/ \E t \in Tickets : Connect(s, t)
         \/ ConnectStep(s) \/ LoadFails(s) \/ Disconnect(s)
  PROVE  SocketStep
<1> USE DEF dbVars, gameVars, eraseVars, rest, sockRest
<1>t. sock[s] \in SockType
  BY TypedFields
<1>1. ASSUME NEW t \in Tickets, Connect(s, t) PROVE SocketStep
  <2>1. Owed(t) \in BOOLEAN
    BY TypedFields DEF Owed
  <2>2. Sock("live", TRUE, t, FALSE, FALSE, Owed(t)) \in SockType
    BY <2>1, SockTypes, Zenon
  <2>3. Alone(s) /\ sock'[s] = Sock("live", TRUE, t, FALSE, FALSE, Owed(t))
    BY <1>1, <2>2, SetSockAlone DEF Connect
  <2>4. Connects(s)
    BY <1>1, <2>3 DEF Connect, Connects
  <2> QED BY <1>1, <2>3, <2>4 DEF Connect, SocketStep, ConnectEffect
<1>2. ASSUME NEW r \in SockType, SetSock(s, r), UNCHANGED sockRest, sock'[s] = r => Proceeds(s) PROVE SocketStep
  <2>1. Alone(s) /\ sock'[s] = r
    BY <1>2, SetSockAlone
  <2> QED BY <1>2, <2>1 DEF SocketStep, ConnectEffect
<1>3. ASSUME LiveAnswers(s) PROVE SocketStep
  <2>1. CASE SetSock(s, NoSock)
    BY <1>2, <1>3, <2>1, EmptyTypes DEF LiveAnswers, Proceeds
  <2>2. CASE SetSock(s, Reaches(sock[s], "load", FALSE))
    <3>1. Reaches(sock[s], "load", FALSE) \in SockType
      BY <1>t, ReachesFields
    <3> QED BY <1>2, <1>3, <2>2, <3>1 DEF LiveAnswers, Proceeds
  <2> QED BY <1>3, <2>1, <2>2 DEF LiveAnswers
<1>4. ASSUME LoadReads(s) PROVE SocketStep
  <2>1. sock[s].t \in Tickets
    BY <1>4 DEF LoadReads, SocksFit
  <2>2. session[sock[s].t].pend \in BOOLEAN
    BY <2>1, TypedFields
  <2>3. Reaches(sock[s], "loaded", session[sock[s].t].pend) \in SockType
    BY <1>t, <2>2, ReachesFields
  <2> QED BY <1>2, <1>4, <2>3 DEF LoadReads, Proceeds
<1>5. ASSUME LoadFails(s) PROVE SocketStep
  <2>1. Reaches(sock[s], "loaded", TRUE) \in SockType
    BY <1>t, ReachesFields
  <2> QED BY <1>2, <1>5, <2>1 DEF LoadFails, Proceeds
<1>6. ASSUME Register(s) PROVE SocketStep
  <2>1. \A r \in Sockets : sock'[r] = IF r = s THEN Opened(sock[s])
                                      ELSE IF r = registered[User(s)] THEN Closed(sock[r]) ELSE sock[r]
    BY <1>6 DEF Register, Dropped
  <2>2. sock' = [r \in Sockets |-> sock'[r]]
    BY <1>6 DEF Register, Dropped
  <2>3. Registers(s)
    BY <1>6, <2>1, <2>2 DEF Register, Registers
  <2> QED BY <1>6, <2>3 DEF Register, SocketStep, RegisterEffect
<1>7. ASSUME Disconnect(s) PROVE SocketStep
  <2>1. Drops({s}) /\ {s} \in SUBSET Sockets
    BY <1>7 DEF Disconnect, Drops, Dropped
  <2>2. DropEffect({s})
    BY <1>7, <2>1 DEF Disconnect, DropEffect
  <2> QED BY <1>7, <2>1, <2>2 DEF Disconnect, SocketStep
<1> QED BY <1>1, <1>3, <1>4, <1>5, <1>6, <1>7 DEF ConnectStep

\* SetPend writes one session.
LEMMA SetPendKeeps ==
  ASSUME TypeOK, SessionsFit, NEW t, NEW pend \in BOOLEAN, SetPend(t, pend), Live(t),
         pend \/ \E s \in Sockets : acking[s] = t
  PROVE  SessionsKept
<1> DEFINE r == Session(session[t].state, session[t].w, session[t].anon, pend)
<1>1. session' = [session EXCEPT ![t] = r] /\ session \in [Tickets -> SessionType]
  BY DEF SetPend, TypeOK
<1>2. r.state = session[t].state /\ r.w = session[t].w /\ r.anon = session[t].anon /\ r.pend = pend
  BY DEF Session
<1>3. t \in Tickets => r \in SessionType
  BY SessionTypes, TypedFields
<1> HIDE DEF r
<1>4. session' \in [Tickets -> SessionType] /\ \A u \in Tickets : session'[u] = IF u = t THEN r ELSE session[u]
  BY <1>1, <1>3
<1>5. ASSUME NEW u \in Tickets PROVE Kept(u)
  <2>1. CASE u = t
    BY <1>2, <1>4, <2>1 DEF Kept, Live
  <2>2. CASE u # t
    BY <1>4, <2>2 DEF Kept, Live
  <2> QED BY <2>1, <2>2
<1> QED BY <1>4, <1>5 DEF SessionsKept

\* The steps of acknowledgements, the sweep and revocations.
LEMMA CheckSteps ==
  ASSUME TypeOK, SessionsFit,
         \/ \E s \in Sockets : Ack(s) \/ AckWritten(s)
         \/ SweepStep
         \/ \E w \in Wallets : Revoke(w)
  PROVE  SocketStep \/ BetStep
<1> USE DEF dbVars, gameVars, eraseVars, rest, sweepRest
<1>1. ASSUME NEW s \in Sockets, Ack(s) PROVE SocketStep
  <2>1. Acks(s)
    BY <1>1 DEF Ack, Acks
  <2> QED BY <1>1, <2>1 DEF Ack, SocketStep, AckEffect
<1>2. ASSUME NEW s \in Sockets, AckWritten(s) PROVE SocketStep
  <2>1. SessionsKept
    <3>1. CASE session' = session
      BY <3>1, UnchangedIsKept
    <3>2. CASE Live(acking[s]) /\ SetPend(acking[s], FALSE)
      BY <3>2, SetPendKeeps
    <3> QED BY <1>2, <3>1, <3>2 DEF AckWritten
  <2>2. acking' \in [Sockets -> Tickets \cup {None}] /\ \A r \in Sockets : acking'[r] \in {acking[r], None}
    BY <1>2 DEF AckWritten, TypeOK
  <2> QED BY <1>2, <2>1, <2>2 DEF AckWritten, SocketStep, WriteEffect
<1>3. ASSUME SweepBegins \/ SweepReads \/ SweepEnds PROVE BetStep
  BY <1>3 DEF SweepBegins, SweepReads, SweepEnds, BetStep
<1>4. ASSUME SweepDrops PROVE SocketStep
  <2>1. Drops(sweep.socks) /\ sweep.socks \in SUBSET Sockets
    BY <1>4, TypedFields DEF SweepDrops, Drops, Dropped
  <2>2. DropEffect(sweep.socks)
    BY <1>4, <2>1 DEF SweepDrops, DropEffect
  <2> QED BY <1>4, <2>1, <2>2 DEF SweepDrops, SocketStep
<1>5. ASSUME NEW w \in Users, RgFires(w) PROVE SocketStep
  <2> DEFINE s == registered[w]
             r == Sock("open", sock[s].up, sock[s].t, TRUE, sock[s].got, sock[s].born)
  <2>1. s \in Sockets /\ sock[s].pc = "open"
    BY <1>5 DEF RgFires, Seen, TypeOK
  <2>2. r \in SockType
    BY <2>1, TypedFields, SockTypes, Zenon
  <2>3. SetSock(s, r) /\ registered' = registered
    BY <1>5 DEF RgFires
  <2> HIDE DEF r, s
  <2>4. Alone(s) /\ sock'[s] = r
    BY <2>1, <2>2, <2>3, SetSockAlone
  <2>5. Pauses(s)
    BY <2>1, <2>4 DEF r, Pauses
  <2> QED BY <1>5, <2>1, <2>4, <2>5 DEF RgFires, SocketStep, ConnectEffect
<1>6. ASSUME RgPersists PROVE SocketStep
  <2>1. SessionsKept
    <3>1. CASE session' = session
      BY <3>1, UnchangedIsKept
    <3>2. ASSUME NEW s, Live(sock[s].t), SetPend(sock[s].t, TRUE) PROVE SessionsKept
      BY <3>2, SetPendKeeps
    <3> QED BY <1>6, <3>1, <3>2 DEF RgPersists
  <2>2. acking' \in [Sockets -> Tickets \cup {None}] /\ \A r \in Sockets : acking'[r] \in {acking[r], None}
    BY <1>6 DEF RgPersists, TypeOK
  <2> QED BY <1>6, <2>1, <2>2 DEF RgPersists, SocketStep, WriteEffect
<1>7. ASSUME NEW w \in Wallets, Revoke(w) PROVE SocketStep
  <2>1. SessionsKept
    <3>1. ASSUME NEW t \in Tickets PROVE session'[t] \in SessionType /\ Kept(t)
      <4> DEFINE r == Session("revoked", w, session[t].anon, session[t].pend)
      <4>1. session'[t] = IF session[t].w = w /\ Live(t) THEN r ELSE session[t]
        BY <1>7 DEF Revoke
      <4>2. w \in 0 .. MaxWallets
        BY TypedFields DEF Users
      <4>3. r \in SessionType
        BY <4>2, SessionTypes, TypedFields
      <4>4. r.state = "revoked" /\ r.w = w /\ r.anon = session[t].anon /\ r.pend = session[t].pend
        BY DEF Session
      <4> HIDE DEF r
      <4>5. CASE session[t].w = w /\ Live(t)
        BY <4>1, <4>3, <4>4, <4>5 DEF Kept, Live
      <4>6. CASE ~(session[t].w = w /\ Live(t))
        BY <4>1, <4>6, TypedFields DEF Kept, Live
      <4> QED BY <4>5, <4>6
    <3>2. session' \in [Tickets -> SessionType]
      <4>1. session' = [t \in Tickets |-> session'[t]]
        BY <1>7 DEF Revoke
      <4> QED BY <3>1, <4>1
    <3> QED BY <3>1, <3>2 DEF SessionsKept
  <2>2. acking' \in [Sockets -> Tickets \cup {None}] /\ \A r \in Sockets : acking'[r] \in {acking[r], None}
    BY <1>7 DEF Revoke, TypeOK
  <2> QED BY <1>7, <2>1, <2>2 DEF Revoke, SocketStep, WriteEffect
<1> QED BY <1>1, <1>2, <1>3, <1>4, <1>5, <1>6, <1>7 DEF SweepStep

\* The steps of bets.
LEMMA BetSteps ==
  ASSUME TypeOK,
         \/ \E s \in Sockets : BetSent(s) \/ BetChecked(s) \/ BetRevoked(s) \/ BetPlaced(s)
         \/ \E w \in Wallets : BetsEnd(w)
  PROVE  BetStep
<1> USE DEF dbVars, gameVars, eraseVars, rest, SetBet
<1>1. ASSUME NEW s \in Sockets, BetSent(s) \/ BetChecked(s) \/ BetRevoked(s) \/ BetPlaced(s) PROVE BetStep
  <2>1. CASE BetSent(s)
    BY <2>1 DEF BetSent, BetStep, BetEffect, Overlaps
  <2>2. CASE BetChecked(s)
    <3>1. bet[s] = "check" /\ open' = open /\ ((Live(sock[s].t) /\ raced' = raced) \/ raced' = TRUE)
      BY <2>2 DEF BetChecked
    <3>2. bet' = [bet EXCEPT ![s] = "none"] \/ bet' = [bet EXCEPT ![s] = "place"]
      BY <2>2 DEF BetChecked
    <3>3. UNCHANGED <<wallet, tokens, session, launch, sock, registered, acking, erase>>
      BY <2>2 DEF BetChecked
    <3> QED BY <3>1, <3>2, <3>3 DEF BetStep, BetEffect
  <2>3. CASE BetRevoked(s)
    BY <2>3 DEF BetRevoked, BetStep, BetEffect
  <2>4. CASE BetPlaced(s)
    BY <2>4 DEF BetPlaced, BetStep, BetEffect
  <2> QED BY <1>1, <2>1, <2>2, <2>3, <2>4
<1>2. ASSUME NEW w \in Wallets, BetsEnd(w) PROVE BetStep
  BY <1>2 DEF BetsEnd, BetStep
<1> QED BY <1>1, <1>2

\* The steps of anonymizePlayer.
LEMMA EraseSteps ==
  ASSUME TypeOK, EraseBegins \/ EraseCountsBets \/ EraseCountsSessions \/ EraseScrubs
  PROVE  EraseStep
<1> USE DEF dbVars, gameVars, eraseVars, rest
<1>1. CASE EraseBegins
  BY <1>1, EmptyFields DEF EraseBegins, EraseStep, BeginEffect
<1>2. CASE EraseCountsBets
  BY <1>2 DEF EraseCountsBets, EraseStep, CountEffect
<1>3. CASE EraseCountsSessions
  BY <1>3 DEF EraseCountsSessions, EraseStep, CountEffect
<1>4. CASE EraseScrubs
  <2>1. ASSUME NEW t \in Tickets
        PROVE  /\ session'[t] \in SessionType
               /\ session'[t].state = session[t].state /\ session'[t].w = session[t].w /\ session'[t].pend = session[t].pend
               /\ session[t].anon => session'[t].anon
               /\ session[t].w \in erase.users => session'[t].anon
               /\ session[t].w \notin erase.users => session'[t] = session[t]
    <3> DEFINE a == session[t].anon \/ session[t].w \in erase.users
               r == Session(session[t].state, session[t].w, a, session[t].pend)
    <3>0. a \in BOOLEAN /\ session[t] \in SessionType /\ (session[t].w \notin erase.users => a = session[t].anon)
      BY TypedFields
    <3>1. r \in SessionType
      BY <3>0, SessionTypes, TypedFields
    <3>2. r.state = session[t].state /\ r.w = session[t].w /\ r.anon = a /\ r.pend = session[t].pend
      BY DEF Session
    <3>3. session'[t] = r
      BY <1>4 DEF EraseScrubs
    <3>4. session[t].w \notin erase.users => r = session[t]
      <4>1. session[t] = [state |-> session[t].state, w |-> session[t].w, anon |-> session[t].anon, pend |-> session[t].pend]
        BY <3>0 DEF SessionType
      <4> QED BY <3>0, <4>1 DEF Session
    <3> QED BY <3>0, <3>1, <3>2, <3>3, <3>4
  <2>2. session' \in [Tickets -> SessionType]
    <3>1. session' = [t \in Tickets |-> session'[t]]
      BY <1>4 DEF EraseScrubs
    <3> QED BY <2>1, <3>1
  <2> QED BY <1>4, <2>1, <2>2 DEF EraseScrubs, EraseStep, ScrubEffect
<1> QED BY <1>1, <1>2, <1>3, <1>4

Effect == (\E c \in Launchers : LaunchStep(c)) \/ SocketStep \/ BetStep \/ EraseStep

\* Every step is one of these.
LEMMA StepEffect ==
  ASSUME TypeOK, SessionsFit, LaunchesFit, SocksFit, [Next]_vars
  PROVE  Effect
<1>1. CASE UNCHANGED vars
  BY <1>1 DEF vars, dbVars, gameVars, eraseVars, Effect, BetStep
<1>2. ASSUME NEW c \in Launchers,
             \/ \E t \in Tickets : Verify(c, t)
             \/ FindWallet(c) \/ CreateUser(c) \/ CreateSession(c) \/ IssueToken(c) \/ LaunchFails(c)
      PROVE  Effect
  BY <1>2, LaunchSteps DEF Effect
<1>3. ASSUME NEW s \in Sockets,
             \/ \E t \in Tickets : Connect(s, t)
             \/ ConnectStep(s) \/ LoadFails(s) \/ Disconnect(s)
      PROVE  Effect
  BY <1>3, ConnectionSteps DEF Effect
<1>4. ASSUME \/ \E s \in Sockets : Ack(s) \/ AckWritten(s)
             \/ SweepStep
             \/ \E w \in Wallets : Revoke(w)
      PROVE  Effect
  BY <1>4, CheckSteps DEF Effect
<1>5. ASSUME \/ \E s \in Sockets : BetSent(s) \/ BetChecked(s) \/ BetRevoked(s) \/ BetPlaced(s)
             \/ \E w \in Wallets : BetsEnd(w)
      PROVE  Effect
  BY <1>5, BetSteps DEF Effect
<1>6. ASSUME EraseBegins \/ EraseCountsBets \/ EraseCountsSessions \/ EraseScrubs
      PROVE  Effect
  BY <1>6, EraseSteps DEF Effect
<1>7. CASE Next
  BY <1>2, <1>3, <1>4, <1>5, <1>6, <1>7 DEF Next, MessageStep
<1> QED BY <1>1, <1>7

-----------------------------------------------------------------------------
(* Types.                                                                  *)

\* The counters and the sweep's own state.
LEMMA RestTyped ==
  ASSUME TypeOK, [Next]_vars
  PROVE  /\ focus' \in {"identity", "play"} /\ faults' \in 0 .. MaxFaults /\ checks' \in 0 .. MaxChecks
         /\ sweep' \in [pc : {"idle", "query", "drop", "scan", "persist"}, socks : SUBSET Sockets, users : SUBSET Users]
<1>1. focus' = focus /\ (faults' = faults \/ Fault)
  BY DEF Next, ConnectStep, MessageStep, SweepStep, Verify, FindWallet, CreateUser, CreateSession, IssueToken,
         LaunchFails, Connect, LiveAnswers, LoadReads, LoadFails, Register, Disconnect, BetSent, BetChecked, BetRevoked,
         BetPlaced, BetsEnd, Ack, AckWritten, SweepBegins, SweepReads, SweepDrops, RgFires, RgPersists, SweepEnds, Revoke,
         EraseBegins, EraseCountsBets, EraseCountsSessions, EraseScrubs, NoFault, rest, sockRest, sweepRest, vars
<1>2. faults' \in 0 .. MaxFaults
  BY <1>1 DEF Fault, TypeOK
<1>3. checks' = checks \/ (\E w \in Users : RgFires(w))
  BY DEF Next, ConnectStep, MessageStep, SweepStep, Verify, FindWallet, CreateUser, CreateSession, IssueToken,
         LaunchFails, Connect, LiveAnswers, LoadReads, LoadFails, Register, Disconnect, BetSent, BetChecked, BetRevoked,
         BetPlaced, BetsEnd, Ack, AckWritten, SweepBegins, SweepReads, SweepDrops, RgPersists, SweepEnds, Revoke,
         EraseBegins, EraseCountsBets, EraseCountsSessions, EraseScrubs, rest, sockRest, sweepRest, vars
<1>4. checks' \in 0 .. MaxChecks
  <2>1. checks' = checks \/ (checks < MaxChecks /\ checks' = checks + 1)
    BY <1>3 DEF RgFires
  <2> QED BY <2>1 DEF TypeOK
<1>5. sweep' = sweep \/ SweepStep
  BY DEF Next, ConnectStep, MessageStep, Verify, FindWallet, CreateUser, CreateSession, IssueToken,
         LaunchFails, Connect, LiveAnswers, LoadReads, LoadFails, Register, Disconnect, BetSent, BetChecked, BetRevoked,
         BetPlaced, BetsEnd, Ack, AckWritten, Revoke,
         EraseBegins, EraseCountsBets, EraseCountsSessions, EraseScrubs, gameVars, sockRest, vars
<1> DEFINE T == [pc : {"idle", "query", "drop", "scan", "persist"}, socks : SUBSET Sockets, users : SUBSET Users]
<1>6. ASSUME NEW pc \in {"idle", "query", "drop", "scan", "persist"}, NEW socks \in SUBSET Sockets,
             NEW users \in SUBSET Users
      PROVE  Sweeping(pc, socks, users) \in T
  BY DEF Sweeping
<1>t. sweep.socks \in SUBSET Sockets /\ sweep.users \in SUBSET Users /\ {} \in SUBSET Sockets /\ {} \in SUBSET Users
  BY TypedFields
<1>7. ASSUME SweepStep PROVE sweep' \in T
  <2>1. CASE SweepBegins
    <3>1. {registered[w] : w \in {u \in Users : Seen(u)}} \in SUBSET Sockets
      BY DEF Seen, TypeOK
    <3>2. sweep' = Sweeping("query", {registered[w] : w \in {u \in Users : Seen(u)}}, Users)
      BY <2>1 DEF SweepBegins
    <3>3. Users \in SUBSET Users
      OBVIOUS
    <3> QED BY <1>6, <3>1, <3>2, <3>3
  <2>2. CASE SweepReads
    <3>1. FindNotLive(sweep.socks) \in SUBSET Sockets
      BY <1>t DEF FindNotLive
    <3> QED BY <1>6, <1>t, <2>2, <3>1 DEF SweepReads
  <2>3. CASE SweepDrops \/ RgPersists
    <3>1. sweep' = Sweeping("scan", {}, sweep.users)
      BY <2>3 DEF SweepDrops, RgPersists
    <3> QED BY <1>6, <1>t, <3>1
  <2>4. CASE SweepEnds
    <3>1. sweep' = Sweeping("idle", {}, {})
      BY <2>4 DEF SweepEnds, NoSweep
    <3> QED BY <1>6, <1>t, <3>1
  <2>5. ASSUME NEW w \in Users, RgFires(w) PROVE sweep' \in T
    <3>1. {registered[w]} \in SUBSET Sockets /\ sweep.users \ {w} \in SUBSET Users
      BY <1>t, <2>5 DEF RgFires, Seen, TypeOK
    <3>2. sweep' = Sweeping("persist", {registered[w]}, sweep.users \ {w})
      BY <2>5 DEF RgFires
    <3> QED BY <1>6, <3>1, <3>2
  <2> QED BY <1>7, <2>1, <2>2, <2>3, <2>4, <2>5 DEF SweepStep
<1>8. sweep' \in T
  BY <1>5, <1>7 DEF TypeOK
<1> QED BY <1>1, <1>2, <1>4, <1>8 DEF TypeOK

\* The sockets.
LEMMA SocketTyped ==
  ASSUME TypeOK, SocketStep
  PROVE  /\ sock' \in [Sockets -> SockType] /\ registered' \in [Users -> Sockets \cup {None}]
         /\ acking' \in [Sockets -> Tickets \cup {None}] /\ bet' \in [Sockets -> {"none", "check", "place"}]
         /\ open' = open /\ session' \in [Tickets -> SessionType]
<1>t. /\ sock \in [Sockets -> SockType] /\ registered \in [Users -> Sockets \cup {None}]
      /\ acking \in [Sockets -> Tickets \cup {None}] /\ bet \in [Sockets -> {"none", "check", "place"}]
      /\ session \in [Tickets -> SessionType]
  BY DEF TypeOK
<1>f. ASSUME sock' = [r \in Sockets |-> sock'[r]], \A r \in Sockets : sock'[r] \in SockType
      PROVE  sock' \in [Sockets -> SockType]
  BY <1>f
<1>1. ASSUME NEW s \in Sockets, ConnectEffect(s)
      PROVE  /\ sock' \in [Sockets -> SockType] /\ UNCHANGED <<registered, acking, bet, open, session>>
  BY <1>1 DEF ConnectEffect, Alone
<1>2. ASSUME NEW s \in Sockets, RegisterEffect(s)
      PROVE  /\ sock' \in [Sockets -> SockType] /\ UNCHANGED <<acking, bet, open, session>>
             /\ registered' \in [Users -> Sockets \cup {None}]
  <2>1. \A r \in Sockets : sock'[r] = Opened(sock[s]) \/ sock'[r] = Closed(sock[r]) \/ sock'[r] = sock[r]
    BY <1>2 DEF RegisterEffect, Registers
  <2>2. \A r \in Sockets : sock'[r] \in SockType
    BY <1>t, <2>1, OpenedFields, ClosedFields
  <2>3. registered' \in [Users -> Sockets \cup {None}]
    BY <1>2, <1>t DEF RegisterEffect, Registers
  <2> QED BY <1>2, <1>f, <2>2, <2>3 DEF RegisterEffect, Registers
<1>3. ASSUME NEW S \in SUBSET Sockets, DropEffect(S)
      PROVE  /\ sock' \in [Sockets -> SockType] /\ UNCHANGED <<acking, bet, open, session>>
             /\ registered' \in [Users -> Sockets \cup {None}]
  <2>1. \A r \in Sockets : sock'[r] = Closed(sock[r]) \/ sock'[r] = sock[r]
    BY <1>3 DEF DropEffect, Drops
  <2>2. \A r \in Sockets : sock'[r] \in SockType
    BY <1>t, <2>1, ClosedFields
  <2>3. registered' \in [Users -> Sockets \cup {None}]
    BY <1>3, <1>t DEF DropEffect, Drops, Forgotten
  <2> QED BY <1>3, <1>f, <2>2, <2>3 DEF DropEffect, Drops
<1>4. ASSUME NEW s \in Sockets, AckEffect(s)
      PROVE  /\ sock' \in [Sockets -> SockType] /\ UNCHANGED <<registered, bet, open, session>>
             /\ acking' \in [Sockets -> Tickets \cup {None}]
  <2>1. ASSUME NEW r \in Sockets PROVE sock'[r] \in SockType
    <3>1. (sock[r].pending /\ r # s) \in BOOLEAN
      OBVIOUS
    <3>2. Sock(sock[r].pc, sock[r].up, sock[r].t, sock[r].pending /\ r # s, sock[r].got, FALSE) \in SockType
      BY <3>1, TypedFields, SockTypes, Zenon
    <3> QED BY <1>4, <1>t, <3>2 DEF AckEffect, Acks
  <2>2. sock[s].t \in Tickets \cup {None}
    BY TypedFields
  <2> QED BY <1>4, <1>f, <1>t, <2>1, <2>2 DEF AckEffect, Acks
<1>5. ASSUME WriteEffect
      PROVE  /\ session' \in [Tickets -> SessionType] /\ UNCHANGED <<sock, registered, bet, open>>
             /\ acking' \in [Sockets -> Tickets \cup {None}]
  BY <1>5 DEF WriteEffect, SessionsKept
<1> QED BY <1>1, <1>2, <1>3, <1>4, <1>5, <1>t DEF SocketStep

\* The list of wallets when one is added.
LEMMA WalletGrows ==
  ASSUME TypeOK, Len(wallet) < MaxWallets, wallet' = Append(wallet, FALSE)
  PROVE  /\ wallet' \in Seq(BOOLEAN) /\ Len(wallet') = Len(wallet) + 1
         /\ Wallets' = Wallets \cup {Len(wallet) + 1} /\ Len(wallet) + 1 \notin Wallets
         /\ \A w \in Wallets : wallet'[w] = wallet[w]
         /\ wallet'[Len(wallet) + 1] = FALSE
<1>1. wallet \in Seq(BOOLEAN) /\ Len(wallet) \in Nat /\ Wallets = 1 .. Len(wallet)
  BY DEF TypeOK, Wallets
<1>2. wallet' \in Seq(BOOLEAN) /\ Len(wallet') = Len(wallet) + 1
  BY <1>1
<1>3. \A w \in 1 .. Len(wallet) : wallet'[w] = wallet[w]
  BY <1>1
<1>4. wallet'[Len(wallet) + 1] = FALSE
  BY <1>1
<1>5. Wallets' = 1 .. Len(wallet) + 1
  BY <1>1, <1>2 DEF Wallets
<1>6. 1 .. Len(wallet) + 1 = (1 .. Len(wallet)) \cup {Len(wallet) + 1} /\ Len(wallet) + 1 \notin 1 .. Len(wallet)
  BY <1>1
<1> QED BY <1>1, <1>2, <1>3, <1>4, <1>5, <1>6

\* And when some are scrubbed.
LEMMA WalletScrubbed ==
  ASSUME TypeOK, wallet' = [w \in Wallets |-> wallet[w] \/ w \in erase.users]
  PROVE  /\ wallet' \in Seq(BOOLEAN) /\ Len(wallet') = Len(wallet) /\ Wallets' = Wallets
         /\ \A w \in Wallets : wallet'[w] <=> (wallet[w] \/ w \in erase.users)
<1>1. wallet \in Seq(BOOLEAN) /\ Len(wallet) \in Nat /\ Wallets = 1 .. Len(wallet)
  BY DEF TypeOK, Wallets
<1>2. wallet' \in [1 .. Len(wallet) -> BOOLEAN]
  BY <1>1
<1>3. wallet' \in Seq(BOOLEAN) /\ Len(wallet') = Len(wallet) /\ DOMAIN wallet' = 1 .. Len(wallet)
  BY <1>1, <1>2
<1>4. \A w \in Wallets : wallet'[w] <=> (wallet[w] \/ w \in erase.users)
  OBVIOUS
<1> QED BY <1>1, <1>3, <1>4 DEF Wallets

\* Types are kept.
LEMMA TypeNext ==
  ASSUME TypeOK, SessionsFit, SocksFit, EraseFits, Effect, [Next]_vars
  PROVE  TypeOK'
<1>r. /\ focus' \in {"identity", "play"} /\ faults' \in 0 .. MaxFaults /\ checks' \in 0 .. MaxChecks
      /\ sweep' \in [pc : {"idle", "query", "drop", "scan", "persist"}, socks : SUBSET Sockets, users : SUBSET Users]
  BY RestTyped
<1>t. /\ wallet \in Seq(BOOLEAN) /\ Len(wallet) \in Nat /\ Len(wallet) <= MaxWallets
      /\ session \in [Tickets -> SessionType] /\ tokens \in [Tickets -> Nat] /\ open \subseteq Wallets
      /\ launch \in [Launchers -> LaunchType] /\ sock \in [Sockets -> SockType]
      /\ registered \in [Users -> Sockets \cup {None}] /\ acking \in [Sockets -> Tickets \cup {None}]
      /\ bet \in [Sockets -> {"none", "check", "place"}]
      /\ erase \in [pc : {"idle", "bets", "sessions", "scrub"}, users : SUBSET Users] /\ raced \in BOOLEAN
  BY DEF TypeOK
<1> DEFINE DbOK == /\ wallet \in Seq(BOOLEAN) /\ Len(wallet) <= MaxWallets
                   /\ session \in [Tickets -> SessionType] /\ tokens \in [Tickets -> Nat] /\ open \subseteq Wallets
           GameOK == /\ sock \in [Sockets -> SockType] /\ registered \in [Users -> Sockets \cup {None}]
                     /\ acking \in [Sockets -> Tickets \cup {None}] /\ bet \in [Sockets -> {"none", "check", "place"}]
           EraseOK == /\ erase \in [pc : {"idle", "bets", "sessions", "scrub"}, users : SUBSET Users]
                      /\ raced \in BOOLEAN
<1>g. UNCHANGED <<sock, registered, acking, bet>> => GameOK'
  BY <1>t
<1>e. erase' = erase /\ raced' \in BOOLEAN => EraseOK'
  BY <1>t
<1>d. UNCHANGED <<wallet, session, tokens>> /\ open' \subseteq Wallets => DbOK'
  BY <1>t DEF Wallets
<1>w. \A s \in Sockets : bet[s] # "none" => User(s) \in Wallets
  BY DEF SocksFit, SessionsFit, Authed, User
<1>p. \A pc \in {"idle", "bets", "sessions", "scrub"}, users \in SUBSET Users :
        Erasing(pc, users) \in [pc : {"idle", "bets", "sessions", "scrub"}, users : SUBSET Users]
  BY DEF Erasing
<1>1. ASSUME NEW c \in Launchers, LaunchStep(c) PROVE TypeOK'
  <2>1. launch' \in [Launchers -> LaunchType] /\ erase' = erase /\ raced' \in BOOLEAN
    BY <1>1, <1>t DEF LaunchStep, VerifyEffect, FindEffect, CreateEffect, ConsumeEffect, IssueEffect, LaunchIs, LaunchEnds
  <2>2. DbOK'
    <3>1. CASE UNCHANGED <<wallet, session, tokens, open>>
      BY <1>d, <1>t, <3>1
    <3>2. CASE CreateEffect(c) /\ session' = session
      BY <1>t, <3>2, WalletGrows DEF CreateEffect
    <3>3. CASE ConsumeEffect(c)
      BY <1>t, <3>3 DEF ConsumeEffect, Wallets
    <3>4. CASE IssueEffect(c) /\ session' = session
      <4>1. tokens' \in [Tickets -> Nat]
        <5>1. tokens' = [tokens EXCEPT ![launch[c].t] = tokens[launch[c].t] + 1]
          BY <3>4 DEF IssueEffect
        <5>2. tokens' = [t \in Tickets |-> tokens'[t]]
              /\ \A t \in Tickets : tokens'[t] = IF t = launch[c].t THEN tokens[t] + 1 ELSE tokens[t]
          BY <1>t, <5>1
        <5>3. \A t \in Tickets : tokens'[t] \in Nat
          BY <1>t, <5>2
        <5> QED BY <5>2, <5>3
      <4> QED BY <1>t, <3>4, <4>1 DEF IssueEffect, Wallets
    <3> QED BY <1>1, <3>1, <3>2, <3>3, <3>4 DEF LaunchStep, VerifyEffect, FindEffect
  <2> QED BY <1>1, <1>r, <1>g, <1>e, <2>1, <2>2 DEF LaunchStep, TypeOK
<1>2. CASE SocketStep
  <2>1. GameOK' /\ open' = open /\ session' \in [Tickets -> SessionType]
    BY <1>2, SocketTyped
  <2>2. DbOK'
    BY <1>2, <1>t, <2>1 DEF SocketStep, Wallets
  <2> QED BY <1>2, <1>r, <1>t, <1>e, <2>1, <2>2 DEF SocketStep, TypeOK
<1>3. CASE BetStep
  <2>1. bet' \in [Sockets -> {"none", "check", "place"}] /\ raced' \in BOOLEAN /\ open' \subseteq Wallets
    <3>1. ASSUME NEW s \in Sockets, BetEffect(s) PROVE bet' \in [Sockets -> {"none", "check", "place"}] /\ raced' \in BOOLEAN
      BY <1>t, <3>1 DEF BetEffect
    <3>2. ASSUME NEW s \in Sockets, BetEffect(s) PROVE open' \subseteq Wallets
      BY <1>t, <1>w, <3>2 DEF BetEffect
    <3> QED BY <1>3, <1>t, <3>1, <3>2 DEF BetStep
  <2>2. DbOK' /\ EraseOK'
    BY <1>3, <1>d, <1>e, <2>1 DEF BetStep
  <2> QED BY <1>3, <1>r, <1>t, <2>1, <2>2 DEF BetStep, TypeOK
<1>4. CASE EraseStep
  <2>1. EraseOK'
    <3>1. CASE BeginEffect
      <4>1. \A t \in Tickets : session[t].anon => session[t].w \in Users
        BY TypedFields, EmptyFields DEF SessionsFit
      <4>2. Tagged \cup {session[t].w : t \in {u \in Tickets : session[u].anon}} \in SUBSET Users
        BY <4>1, TypedFields DEF Tagged
      <4>3. raced' \in BOOLEAN
        BY <3>1 DEF BeginEffect
      <4> QED BY <1>p, <3>1, <4>2, <4>3 DEF BeginEffect
    <3>2. CASE CountEffect \/ ScrubEffect
      <4>1. erase.users \in SUBSET Users /\ {} \in SUBSET Users
        BY TypedFields
      <4>2. raced' = raced /\ (\/ erase' = Erasing("idle", {}) \/ erase' = Erasing("sessions", erase.users)
                               \/ erase' = Erasing("scrub", erase.users))
        BY <3>2 DEF CountEffect, ScrubEffect, NoErase
      <4>3. erase' \in [pc : {"idle", "bets", "sessions", "scrub"}, users : SUBSET Users]
        BY <1>p, <4>1, <4>2
      <4> QED BY <1>t, <4>2, <4>3
    <3> QED BY <1>4, <3>1, <3>2 DEF EraseStep
  <2>2. DbOK'
    <3>1. CASE UNCHANGED <<wallet, session>>
      BY <1>4, <1>d, <1>t, <3>1 DEF EraseStep
    <3>2. CASE ScrubEffect
      BY <1>4, <1>t, <3>2, WalletScrubbed DEF EraseStep, ScrubEffect
    <3> QED BY <1>4, <3>1, <3>2 DEF EraseStep, BeginEffect, CountEffect
  <2> QED BY <1>4, <1>r, <1>g, <1>t, <2>1, <2>2 DEF EraseStep, TypeOK
<1> QED BY <1>1, <1>2, <1>3, <1>4 DEF Effect


-----------------------------------------------------------------------------
(* Sessions, tokens and wallets over any step.                             *)

\* A session is only made by the launch that consumes its ticket.
LEMMA SessionChange ==
  ASSUME TypeOK, SessionsFit, EraseFits, Effect
  PROVE  SessionsKept \/ \E c \in Launchers : LaunchStep(c) /\ ConsumeEffect(c)
<1>1. CASE session' = session
  BY <1>1, UnchangedIsKept
<1>2. CASE WriteEffect
  BY <1>2 DEF WriteEffect
<1>3. CASE ScrubEffect
  <2>1. session' \in [Tickets -> SessionType]
    BY <1>3 DEF ScrubEffect
  <2>2. ASSUME NEW t \in Tickets PROVE Kept(t)
    <3>1. /\ session'[t].state = session[t].state /\ session'[t].w = session[t].w /\ session'[t].pend = session[t].pend
          /\ session[t].anon => session'[t].anon
          /\ session[t].w \notin erase.users => session'[t] = session[t]
      BY <1>3 DEF ScrubEffect
    <3>2. session[t].state = "none" => session[t].w = 0
      BY EmptyFields DEF SessionsFit
    <3>3. 0 \notin erase.users
      BY TypedFields DEF EraseFits, Users
    <3> QED BY <3>1, <3>2, <3>3 DEF Kept, Live
  <2> QED BY <2>1, <2>2 DEF SessionsKept
<1>4. ASSUME NEW c \in Launchers, LaunchStep(c) PROVE session' = session \/ ConsumeEffect(c)
  BY <1>4 DEF LaunchStep
<1>5. SocketStep => session' = session \/ WriteEffect
  BY DEF SocketStep, ConnectEffect, RegisterEffect, DropEffect, AckEffect
<1>6. EraseStep => session' = session \/ ScrubEffect
  BY DEF EraseStep, BeginEffect, CountEffect
<1>7. BetStep => session' = session
  BY DEF BetStep
<1> QED BY <1>1, <1>2, <1>3, <1>4, <1>5, <1>6, <1>7 DEF Effect

\* What a session that exists keeps, whichever of the two it is.
LEMMA SessionLasts ==
  ASSUME TypeOK, SessionsFit, EraseFits, Effect, NEW t \in Tickets, session[t].state # "none"
  PROVE  Kept(t)
<1>1. ASSUME NEW c \in Launchers, ConsumeEffect(c) PROVE Kept(t)
  <2>1. t # launch[c].t
    BY <1>1, EmptyFields DEF ConsumeEffect
  <2>2. session'[t] = session[t]
    BY <1>1, <2>1 DEF ConsumeEffect
  <2> QED BY <2>2 DEF Kept, Live
<1> QED BY <1>1, SessionChange DEF SessionsKept

\* Wallets are added unscrubbed, and scrubbed by the erasure alone.
LEMMA WalletChange ==
  ASSUME TypeOK, Effect
  PROVE  /\ Wallets \subseteq Wallets'
         /\ \/ wallet' = wallet /\ Wallets' = Wallets
            \/ /\ \E c \in Launchers : LaunchStep(c) /\ CreateEffect(c)
               /\ Tagged = {} /\ Wallets' = Wallets \cup {Len(wallet) + 1} /\ Len(wallet) + 1 \notin Wallets
               /\ wallet'[Len(wallet) + 1] = FALSE /\ \A w \in Wallets : wallet'[w] = wallet[w]
            \/ /\ EraseStep /\ ScrubEffect
               /\ Wallets' = Wallets /\ \A w \in Wallets : wallet'[w] <=> (wallet[w] \/ w \in erase.users)
<1>1. CASE wallet' = wallet
  BY <1>1 DEF Wallets
<1>2. ASSUME NEW c \in Launchers, LaunchStep(c) PROVE wallet' = wallet \/ CreateEffect(c)
  BY <1>2 DEF LaunchStep, VerifyEffect, FindEffect, ConsumeEffect, IssueEffect
<1>3. ASSUME NEW c \in Launchers, LaunchStep(c), CreateEffect(c)
      PROVE  /\ Tagged = {} /\ Wallets' = Wallets \cup {Len(wallet) + 1} /\ Len(wallet) + 1 \notin Wallets
             /\ wallet'[Len(wallet) + 1] = FALSE /\ \A w \in Wallets : wallet'[w] = wallet[w]
  BY <1>3, WalletGrows DEF CreateEffect
<1>4. ASSUME EraseStep, ScrubEffect
      PROVE  Wallets' = Wallets /\ \A w \in Wallets : wallet'[w] <=> (wallet[w] \/ w \in erase.users)
  BY <1>4, WalletScrubbed DEF ScrubEffect
<1>5. SocketStep \/ BetStep => wallet' = wallet
  BY DEF SocketStep, BetStep
<1>6. EraseStep => wallet' = wallet \/ ScrubEffect
  BY DEF EraseStep, BeginEffect, CountEffect
<1>7. CASE \E c \in Launchers : LaunchStep(c)
  BY <1>1, <1>2, <1>3, <1>7
<1>8. CASE EraseStep
  BY <1>1, <1>4, <1>6, <1>8
<1> QED BY <1>1, <1>5, <1>7, <1>8 DEF Effect

\* A token is handed out by the launch that consumed the ticket.
LEMMA TokenChange ==
  ASSUME TypeOK, Effect
  PROVE  \/ tokens' = tokens
         \/ \E c \in Launchers :
              /\ LaunchStep(c) /\ IssueEffect(c) /\ session' = session
              /\ \A t \in Tickets : tokens'[t] = IF t = launch[c].t THEN tokens[t] + 1 ELSE tokens[t]
<1>1. ASSUME NEW c \in Launchers, LaunchStep(c) PROVE tokens' = tokens \/ (IssueEffect(c) /\ session' = session)
  BY <1>1 DEF LaunchStep, VerifyEffect, FindEffect, ConsumeEffect, CreateEffect
<1>2. ASSUME NEW c \in Launchers, IssueEffect(c)
      PROVE  \A t \in Tickets : tokens'[t] = IF t = launch[c].t THEN tokens[t] + 1 ELSE tokens[t]
  <2>1. tokens' = [tokens EXCEPT ![launch[c].t] = tokens[launch[c].t] + 1] /\ tokens \in [Tickets -> Nat]
    BY <1>2 DEF IssueEffect, TypeOK
  <2> QED BY <2>1
<1>3. SocketStep \/ BetStep \/ EraseStep => tokens' = tokens
  BY DEF SocketStep, BetStep, EraseStep
<1> QED BY <1>1, <1>2, <1>3 DEF Effect

-----------------------------------------------------------------------------
(* One game per ticket, one wallet per player.                             *)

\* A ticket gives one token.
LEMMA TokensNext ==
  ASSUME TypeOK, LaunchesFit, OneTokenPerTicket, Effect
  PROVE  OneTokenPerTicket'
<1>1. CASE tokens' = tokens
  BY <1>1 DEF OneTokenPerTicket
<1>2. ASSUME NEW c \in Launchers, IssueEffect(c),
             \A t \in Tickets : tokens'[t] = IF t = launch[c].t THEN tokens[t] + 1 ELSE tokens[t]
      PROVE  OneTokenPerTicket'
  <2>1. tokens[launch[c].t] = 0
    BY <1>2 DEF IssueEffect, LaunchesFit
  <2> QED BY <1>2, <2>1 DEF OneTokenPerTicket
<1> QED BY <1>1, <1>2, TokenChange

\* A second wallet is only made when the first is scrubbed.
LEMMA WalletsNext ==
  ASSUME TypeOK, OneWalletPerPlayer, Effect
  PROVE  OneWalletPerPlayer'
<1>1. IsFiniteSet(Tagged)
  <2>1. 1 \in Int /\ Len(wallet) \in Int /\ Wallets = 1 .. Len(wallet)
    BY TypedFields DEF TypeOK
  <2>2. IsFiniteSet(1 .. Len(wallet))
    BY <2>1, FS_Interval
  <2> QED BY <2>1, <2>2, FS_Subset DEF Tagged
<1>2. CASE Tagged' \subseteq Tagged
  <2>1. Cardinality(Tagged') <= Cardinality(Tagged) /\ Cardinality(Tagged) \in Nat /\ Cardinality(Tagged') \in Nat
    BY <1>1, <1>2, FS_Subset, FS_CardinalityType
  <2> QED BY <2>1 DEF OneWalletPerPlayer
<1>3. ASSUME NEW w, Tagged' \subseteq {w} PROVE OneWalletPerPlayer'
  <2>1. IsFiniteSet({w}) /\ Cardinality({w}) = 1
    BY FS_Singleton
  <2>2. Cardinality(Tagged') <= Cardinality({w})
    BY <1>3, <2>1, FS_Subset
  <2> QED BY <2>1, <2>2 DEF OneWalletPerPlayer
<1>4. CASE wallet' = wallet /\ Wallets' = Wallets
  BY <1>2, <1>4 DEF Tagged
<1>5. CASE /\ Tagged = {} /\ Wallets' = Wallets \cup {Len(wallet) + 1}
           /\ \A w \in Wallets : wallet'[w] = wallet[w]
  <2>1. Tagged' \subseteq {Len(wallet) + 1}
    BY <1>5 DEF Tagged
  <2> QED BY <1>3, <2>1
<1>6. CASE Wallets' = Wallets /\ \A w \in Wallets : wallet'[w] <=> (wallet[w] \/ w \in erase.users)
  BY <1>2, <1>6 DEF Tagged
<1> QED BY <1>4, <1>5, <1>6, WalletChange

\* Sessions keep to their tickets and wallets.
LEMMA SessionsNext ==
  ASSUME TypeOK, SessionsFit, LaunchesFit, EraseFits, Effect
  PROVE  SessionsFit'
<1> DEFINE Fit(t) == /\ session[t].state = "none" => session[t] = NoSession /\ tokens[t] = 0
                     /\ session[t].state # "none" => session[t].w \in Wallets
<1>w. Wallets \subseteq Wallets'
  BY WalletChange
<1>1. ASSUME NEW t \in Tickets PROVE Fit(t)'
  <2>1. ASSUME SessionsKept PROVE Fit(t)'
    <3>1. Kept(t) /\ Fit(t)
      BY <2>1 DEF SessionsKept, SessionsFit
    <3>2. session[t].state = "none" => tokens'[t] = tokens[t]
      BY TokenChange DEF IssueEffect, LaunchesFit
    <3> QED BY <1>w, <3>1, <3>2 DEF Kept
  <2>2. ASSUME NEW c \in Launchers, LaunchStep(c), ConsumeEffect(c) PROVE Fit(t)'
    <3>1. tokens' = tokens /\ launch[c].w \in Wallets
      BY <2>2 DEF ConsumeEffect, LaunchesFit
    <3>2. CASE t = launch[c].t
      <4>1. session'[t] = Session("live", launch[c].w, FALSE, FALSE)
        BY <2>2, <3>2 DEF ConsumeEffect
      <4>2. session'[t].state = "live" /\ session'[t].w = launch[c].w
        BY <4>1 DEF Session
      <4> QED BY <1>w, <3>1, <4>2
    <3>3. CASE t # launch[c].t
      <4>1. session'[t] = session[t] /\ Fit(t)
        BY <2>2, <3>3 DEF ConsumeEffect, SessionsFit
      <4> QED BY <1>w, <3>1, <4>1
    <3> QED BY <3>2, <3>3
  <2> QED BY <2>1, <2>2, SessionChange
<1> QED BY <1>1 DEF SessionsFit

\* Launches keep to theirs.
LEMMA LaunchesNext ==
  ASSUME TypeOK, SessionsFit, LaunchesFit, EraseFits, Effect
  PROVE  LaunchesFit'
<1> DEFINE Fit(c) == /\ launch[c].pc = "idle" => launch[c] = NoLaunch
                     /\ launch[c].pc # "idle" => launch[c].t \in Tickets
                     /\ launch[c].pc \in {"session", "token"} => launch[c].w \in Wallets
                     /\ launch[c].pc = "token" => session[launch[c].t].state # "none" /\ tokens[launch[c].t] = 0
           Apart(c, d) == launch[c].pc = "token" /\ launch[d].pc = "token" /\ launch[c].t = launch[d].t => c = d
<1>f. \A d \in Launchers : Fit(d)
  BY DEF LaunchesFit
<1>a. \A c, d \in Launchers : Apart(c, d)
  BY DEF LaunchesFit
<1>w. Wallets \subseteq Wallets'
  BY WalletChange
<1>s. \A t \in Tickets : session[t].state # "none" => session'[t].state # "none"
  BY SessionLasts DEF Kept
\* A launch that no step touches.
<1>k. ASSUME NEW d \in Launchers, launch'[d] = launch[d],
             launch[d].pc = "token" => tokens'[launch[d].t] = tokens[launch[d].t]
      PROVE  Fit(d)'
  BY <1>f, <1>w, <1>s, <1>k
<1>1. ASSUME UNCHANGED <<launch, tokens>> PROVE LaunchesFit'
  BY <1>1, <1>a, <1>k DEF LaunchesFit
<1>2. ASSUME NEW c \in Launchers, LaunchStep(c) PROVE LaunchesFit'
  <2>0. \A d \in Launchers : d # c => launch'[d] = launch[d]
    BY <1>2 DEF LaunchStep, VerifyEffect, FindEffect, CreateEffect, ConsumeEffect, IssueEffect, LaunchIs, LaunchEnds
  <2>1. ASSUME NEW d \in Launchers, d # c PROVE Fit(d)'
    <3>1. ASSUME launch[d].pc = "token" PROVE tokens'[launch[d].t] = tokens[launch[d].t]
      <4>1. CASE tokens' = tokens
        BY <4>1
      <4>2. CASE IssueEffect(c)
        <5>1. launch[c].t # launch[d].t
          BY <1>a, <2>1, <3>1, <4>2 DEF IssueEffect
        <5>2. tokens' = [tokens EXCEPT ![launch[c].t] = tokens[launch[c].t] + 1] /\ tokens \in [Tickets -> Nat]
          BY <4>2 DEF IssueEffect, TypeOK
        <5>3. launch[d].t \in Tickets
          BY <1>f, <3>1
        <5> QED BY <5>1, <5>2, <5>3
      <4> QED BY <1>2, <4>1, <4>2 DEF LaunchStep, VerifyEffect, FindEffect, CreateEffect, ConsumeEffect
    <3> QED BY <1>k, <2>0, <2>1, <3>1
  <2>t. launch[c].pc # "idle" => launch[c].t \in Tickets
    BY <1>f
  <2>2. Fit(c)' /\ (launch'[c].pc = "token" => ConsumeEffect(c))
    <3>1. CASE LaunchEnds(c)
      BY <3>1, EmptyFields DEF LaunchEnds
    <3>2. CASE VerifyEffect(c)
      BY <3>2 DEF VerifyEffect, LaunchIs
    <3>3. ASSUME NEW pc \in {"user", "refind"}, FindEffect(c), LaunchIs(c, pc, launch[c].t, launch[c].w)
          PROVE  Fit(c)' /\ launch'[c].pc # "token"
      BY <2>t, <3>3 DEF FindEffect, LaunchIs
    <3>4. ASSUME NEW w \in Tagged, FindEffect(c), LaunchIs(c, "session", launch[c].t, w)
          PROVE  Fit(c)' /\ launch'[c].pc # "token"
      BY <1>w, <2>t, <3>4 DEF FindEffect, LaunchIs, Tagged
    <3>5. CASE CreateEffect(c)
      <4>1. Len(wallet) + 1 \in Wallets'
        BY <3>5, WalletGrows DEF CreateEffect
      <4> QED BY <2>t, <3>5, <4>1 DEF CreateEffect, LaunchIs
    <3>6. CASE ConsumeEffect(c)
      <4>1. launch'[c].pc = "token" /\ launch'[c].t = launch[c].t /\ launch'[c].w = launch[c].w /\ tokens' = tokens
            /\ launch[c].t \in Tickets /\ launch[c].pc = "session" /\ session[launch[c].t].state = "none"
        BY <3>6, EmptyFields DEF ConsumeEffect, LaunchIs
      <4>2. session'[launch[c].t].state = "live"
        BY <3>6 DEF ConsumeEffect, Session
      <4>3. tokens[launch[c].t] = 0
        BY <4>1 DEF SessionsFit
      <4> QED BY <1>f, <1>w, <3>6, <4>1, <4>2, <4>3
    <3>7. FindEffect(c) => Fit(c)' /\ launch'[c].pc # "token"
      BY <3>1, <3>3, <3>4, EmptyFields DEF FindEffect, LaunchEnds
    <3>8. IssueEffect(c) => LaunchEnds(c)
      BY DEF IssueEffect
    <3> QED BY <1>2, <3>1, <3>2, <3>5, <3>6, <3>7, <3>8 DEF LaunchStep
  <2>3. ASSUME NEW d \in Launchers, d # c, ConsumeEffect(c), launch'[d].pc = "token"
        PROVE  launch'[d].t # launch'[c].t
    <3>1. session[launch[d].t].state # "none" /\ launch[d].t = launch'[d].t
      BY <1>f, <2>0, <2>3
    <3>2. session[launch[c].t].state = "none" /\ launch'[c].t = launch[c].t
      BY <2>3, EmptyFields DEF ConsumeEffect, LaunchIs
    <3> QED BY <3>1, <3>2
  <2>4. \A d, e \in Launchers : Apart(d, e)'
    <3>1. ASSUME NEW d \in Launchers, NEW e \in Launchers, d # c, e # c PROVE Apart(d, e)'
      BY <1>a, <2>0, <3>1
    <3>2. ASSUME NEW d \in Launchers, d # c PROVE Apart(d, c)' /\ Apart(c, d)'
      BY <2>2, <2>3, <3>2
    <3> QED BY <3>1, <3>2
  <2>5. \A d \in Launchers : Fit(d)'
    BY <2>1, <2>2
  <2> QED BY <2>4, <2>5 DEF LaunchesFit
<1>3. SocketStep \/ BetStep \/ EraseStep => UNCHANGED <<launch, tokens>>
  BY DEF SocketStep, BetStep, EraseStep
<1> QED BY <1>1, <1>2, <1>3 DEF Effect

-----------------------------------------------------------------------------
(* Sockets.                                                                *)

\* A socket keeps its identity until it is gone and connects anew.
Stays(s) ==
  /\ sock'[s].t = sock[s].t
  /\ sock[s].pc = "idle" <=> sock'[s].pc = "idle"
  /\ Authed(s) => Authed(s)'
Restarts(s) == /\ ~Authed(s) \/ sock[s].pc = "closed"
               /\ bet[s] = "none" /\ bet' = bet
               /\ sock'[s].pc # "idle" => sock'[s].t \in Tickets /\ tokens[sock'[s].t] > 0

\* Any step does one of the two to it.
LEMMA SocketLife ==
  ASSUME TypeOK, SocksFit, Effect, NEW s \in Sockets
  PROVE  Stays(s) \/ Restarts(s)
<1>t. sock[s] \in SockType /\ sock[s].pc \in {"idle", "live", "load", "loaded", "open", "closed"}
  BY TypedFields
<1>1. CASE sock'[s] = sock[s]
  BY <1>1 DEF Stays, Authed
<1>2. CASE sock'[s] = Closed(sock[s])
  BY <1>2, <1>t, ClosedFields DEF Stays, Authed
<1>3. CASE sock[s].pc = "loaded" /\ sock'[s] = Opened(sock[s])
  BY <1>3, <1>t, OpenedFields DEF Stays, Authed
<1>4. ASSUME NEW r \in Sockets, ConnectEffect(r) PROVE Stays(s) \/ Restarts(s)
  <2>1. CASE r # s
    BY <1>1, <1>4, <2>1 DEF ConnectEffect, Alone
  <2>2. CASE r = s /\ Connects(s)
    <3>1. PICK t \in Tickets : tokens[t] > 0 /\ sock'[s] = Sock("live", TRUE, t, FALSE, FALSE, Owed(t))
      BY <2>2 DEF Connects
    <3>2. sock'[s].t = t /\ sock'[s].pc = "live"
      BY <3>1 DEF Sock
    <3>3. sock[s].pc \in {"idle", "closed"} /\ bet[s] = "none" /\ bet' = bet
      BY <1>4, <2>2 DEF Connects, ConnectEffect
    <3> QED BY <3>1, <3>2, <3>3 DEF Restarts, Authed
  <2>3. CASE r = s /\ Proceeds(s)
    <3>1. CASE sock[s].pc = "live" /\ sock'[s] = NoSock
      <4>1. bet[s] = "none" /\ bet' = bet /\ ~Authed(s)
        BY <1>4, <3>1 DEF SocksFit, Authed, ConnectEffect
      <4> QED BY <3>1, <4>1, EmptyFields DEF Restarts
    <3>2. ASSUME sock[s].pc = "live", sock'[s] = Reaches(sock[s], "load", FALSE) PROVE Stays(s)
      <4>1. sock'[s].pc = "load" /\ sock'[s].t = sock[s].t
        BY <3>2 DEF Reaches, Sock
      <4> QED BY <3>2, <4>1 DEF Stays, Authed
    <3>3. ASSUME NEW got, sock[s].pc = "load", sock'[s] = Reaches(sock[s], "loaded", got) PROVE Stays(s)
      <4>1. sock'[s].pc = "loaded" /\ sock'[s].t = sock[s].t
        BY <3>3 DEF Reaches, Sock
      <4> QED BY <3>3, <4>1 DEF Stays, Authed
    <3> QED BY <2>3, <3>1, <3>2, <3>3 DEF Proceeds
  <2>4. CASE r = s /\ Pauses(s)
    <3>1. sock'[s].pc = "open" /\ sock[s].pc = "open" /\ sock'[s].t = sock[s].t
      BY <2>4 DEF Pauses, Sock
    <3> QED BY <3>1 DEF Stays, Authed
  <2> QED BY <1>4, <2>1, <2>2, <2>3, <2>4 DEF ConnectEffect
<1>5. ASSUME NEW r \in Sockets, RegisterEffect(r) PROVE Stays(s) \/ Restarts(s)
  BY <1>1, <1>2, <1>3, <1>5 DEF RegisterEffect, Registers
<1>6. ASSUME NEW S \in SUBSET Sockets, DropEffect(S) PROVE Stays(s) \/ Restarts(s)
  BY <1>1, <1>2, <1>6 DEF DropEffect, Drops
<1>7. ASSUME NEW r \in Sockets, AckEffect(r) PROVE Stays(s) \/ Restarts(s)
  <2>1. CASE sock[s].t # sock[r].t
    BY <1>1, <1>7, <2>1 DEF AckEffect, Acks
  <2>2. CASE sock[s].t = sock[r].t
    <3>1. sock'[s] = Sock(sock[s].pc, sock[s].up, sock[s].t, sock[s].pending /\ s # r, sock[s].got, FALSE)
      BY <1>7, <2>2 DEF AckEffect, Acks
    <3>2. sock'[s].pc = sock[s].pc /\ sock'[s].t = sock[s].t
      BY <3>1 DEF Sock
    <3> QED BY <3>2 DEF Stays, Authed
  <2> QED BY <2>1, <2>2
<1>8. WriteEffect \/ BetStep \/ EraseStep \/ (\E c \in Launchers : LaunchStep(c)) => sock' = sock
  BY DEF WriteEffect, BetStep, EraseStep, LaunchStep
<1>9. CASE SocketStep
  BY <1>1, <1>4, <1>5, <1>6, <1>7, <1>8, <1>9 DEF SocketStep
<1> QED BY <1>1, <1>8, <1>9 DEF Effect

\* Sockets keep to their sessions.
LEMMA SocketsNext ==
  ASSUME TypeOK, SessionsFit, SocksFit, EraseFits, Effect
  PROVE  SocksFit'
<1>s. \A t \in Tickets : session[t].state # "none" => session'[t].state # "none"
  BY SessionLasts DEF Kept
<1>1. ASSUME NEW s \in Sockets PROVE sock'[s].pc # "idle" => sock'[s].t \in Tickets /\ session'[sock'[s].t].state # "none"
  <2>1. CASE Stays(s)
    BY <1>s, <2>1 DEF Stays, SocksFit
  <2>2. CASE Restarts(s)
    <3>1. ASSUME NEW t \in Tickets, tokens[t] > 0 PROVE session[t].state # "none"
      BY <3>1 DEF SessionsFit
    <3> QED BY <1>s, <2>2, <3>1 DEF Restarts
  <2> QED BY <2>1, <2>2, SocketLife
<1>2. ASSUME NEW s \in Sockets PROVE bet'[s] # "none" => Authed(s)'
  <2>1. CASE bet' = bet
    BY <2>1, SocketLife DEF Stays, Restarts, SocksFit
  <2>2. ASSUME NEW r \in Sockets, BetEffect(r), BetStep PROVE bet'[s] # "none" => Authed(s)'
    <3>1. sock' = sock /\ Authed(r) /\ (s # r => bet'[s] = bet[s])
      BY <2>2 DEF BetStep, BetEffect, SocksFit, TypeOK
    <3> QED BY <3>1 DEF SocksFit, Authed
  <2>3. SocketStep \/ EraseStep \/ (\E c \in Launchers : LaunchStep(c)) => bet' = bet
    BY DEF SocketStep, EraseStep, LaunchStep, ConnectEffect, RegisterEffect, DropEffect, AckEffect, WriteEffect
  <2>4. BetStep => bet' = bet \/ \E r \in Sockets : BetEffect(r)
    BY DEF BetStep
  <2> QED BY <2>1, <2>2, <2>3, <2>4 DEF Effect
<1> QED BY <1>1, <1>2 DEF SocksFit

\* A socket that keeps its identity keeps its user.
LEMMA UserStays ==
  ASSUME TypeOK, SessionsFit, SocksFit, EraseFits, Effect, NEW s \in Sockets, sock[s].pc # "idle", sock'[s].t = sock[s].t
  PROVE  User(s)' = User(s) /\ User(s) \in Wallets /\ User(s) \in Users
<1>1. sock[s].t \in Tickets /\ session[sock[s].t].state # "none"
  BY DEF SocksFit
<1>2. session'[sock[s].t].w = session[sock[s].t].w
  BY <1>1, SessionLasts DEF Kept
<1>3. session[sock[s].t].w \in Wallets
  BY <1>1 DEF SessionsFit
<1> QED BY <1>2, <1>3, TypedFields DEF User

\* The socket that plays is the one of the registry.
LEMMA PlayingNext ==
  ASSUME TypeOK, SessionsFit, SocksFit, EraseFits, PlayingIsRegistered, Effect
  PROVE  PlayingIsRegistered'
<1> SUFFICES ASSUME NEW s \in Sockets, sock'[s].pc = "open" PROVE registered'[User(s)'] = s
  BY DEF PlayingIsRegistered
<1>t. sock[s] \in SockType /\ registered \in [Users -> Sockets \cup {None}]
  BY TypedFields DEF TypeOK
<1>1. ASSUME registered' = registered, sock[s].pc = "open", sock'[s].t = sock[s].t PROVE registered'[User(s)'] = s
  <2>1. User(s)' = User(s)
    BY <1>1, UserStays
  <2> QED BY <1>1, <2>1 DEF PlayingIsRegistered
<1>2. ASSUME NEW r \in Sockets, ConnectEffect(r) PROVE registered'[User(s)'] = s
  <2>0. registered' = registered
    BY <1>2 DEF ConnectEffect, Alone
  <2>1. CASE r # s
    BY <1>1, <1>2, <2>0, <2>1 DEF ConnectEffect, Alone
  <2>2. ~Connects(s)
    <3>1. ASSUME NEW t, NEW o, sock'[s] = Sock("live", TRUE, t, FALSE, FALSE, o) PROVE FALSE
      BY <3>1 DEF Sock
    <3> QED BY <3>1, Zenon DEF Connects
  <2>3. ~Proceeds(s)
    BY EmptyFields DEF Proceeds, Reaches, Sock
  <2>4. CASE r = s /\ Pauses(s)
    <3>1. sock[s].pc = "open" /\ sock'[s].t = sock[s].t
      BY <2>4 DEF Pauses, Sock
    <3> QED BY <1>1, <2>0, <3>1
  <2> QED BY <1>2, <2>1, <2>2, <2>3, <2>4 DEF ConnectEffect
<1>3. ASSUME NEW r \in Sockets, RegisterEffect(r) PROVE registered'[User(s)'] = s
  <2>0. sock[r].pc = "loaded" /\ registered' = [registered EXCEPT ![User(r)] = r]
    BY <1>3 DEF RegisterEffect, Registers
  <2>1. CASE r = s
    <3>1. sock'[s] = Opened(sock[s])
      BY <1>3, <2>1 DEF RegisterEffect, Registers
    <3>2. sock'[s].t = sock[s].t
      BY <1>t, <3>1, OpenedFields
    <3>3. User(s)' = User(s) /\ User(s) \in Users
      BY <2>0, <2>1, <3>2, UserStays
    <3> QED BY <1>t, <2>0, <2>1, <3>3
  <2>2. CASE r # s
    <3>1. sock'[s] = IF s = registered[User(r)] THEN Closed(sock[s]) ELSE sock[s]
      BY <1>3, <2>2 DEF RegisterEffect, Registers
    <3>2. Closed(sock[s]).pc # "open"
      BY <1>t, ClosedFields
    <3>3. sock'[s] = sock[s] /\ s # registered[User(r)]
      BY <3>1, <3>2
    <3>4. User(s)' = User(s) /\ User(s) \in Users /\ registered[User(s)] = s
      BY <3>3, UserStays DEF PlayingIsRegistered
    <3>5. User(s) # User(r)
      BY <3>3, <3>4
    <3> QED BY <1>t, <2>0, <3>4, <3>5
  <2> QED BY <2>1, <2>2
<1>4. ASSUME NEW S \in SUBSET Sockets, DropEffect(S) PROVE registered'[User(s)'] = s
  <2>1. sock'[s] = (IF s \in S THEN Closed(sock[s]) ELSE sock[s]) /\ registered' = Forgotten(S)
    BY <1>4 DEF DropEffect, Drops
  <2>2. Closed(sock[s]).pc # "open"
    BY <1>t, ClosedFields
  <2>3. sock'[s] = sock[s] /\ s \notin S
    BY <2>1, <2>2
  <2>4. User(s)' = User(s) /\ User(s) \in Users /\ registered[User(s)] = s
    BY <2>3, UserStays DEF PlayingIsRegistered
  <2> QED BY <1>t, <2>1, <2>3, <2>4 DEF Forgotten
<1>5. ASSUME NEW r \in Sockets, AckEffect(r) PROVE registered'[User(s)'] = s
  <2>1. CASE sock[s].t # sock[r].t
    BY <1>1, <1>5, <2>1 DEF AckEffect, Acks
  <2>2. CASE sock[s].t = sock[r].t
    <3>1. sock'[s] = Sock(sock[s].pc, sock[s].up, sock[s].t, sock[s].pending /\ s # r, sock[s].got, FALSE)
      BY <1>5, <2>2 DEF AckEffect, Acks
    <3>2. sock'[s].pc = sock[s].pc /\ sock'[s].t = sock[s].t
      BY <3>1 DEF Sock
    <3> QED BY <1>1, <1>5, <3>2 DEF AckEffect
  <2> QED BY <2>1, <2>2
<1>6. WriteEffect \/ BetStep \/ EraseStep \/ (\E c \in Launchers : LaunchStep(c)) => UNCHANGED <<sock, registered>>
  BY DEF WriteEffect, BetStep, EraseStep, LaunchStep
<1>7. CASE SocketStep
  BY <1>1, <1>2, <1>3, <1>4, <1>5, <1>6, <1>7 DEF SocketStep
<1> QED BY <1>1, <1>6, <1>7 DEF Effect

-----------------------------------------------------------------------------
(* Reality checks.                                                         *)

\* A socket on which a check fires, field by field.
LEMMA PausedFields ==
  ASSUME NEW r
  PROVE  LET p == Sock("open", r.up, r.t, TRUE, r.got, r.born)
         IN  p.pc = "open" /\ p.t = r.t /\ p.born = r.born /\ p.pending = TRUE
  BY DEF Sock

\* Owed after the step.
OwedNext(t) == session'[t].pend /\ \A s \in Sockets : acking'[s] # t

\* A check stays owed until it is acknowledged.
LEMMA OwedStays ==
  ASSUME TypeOK, SessionsFit, EraseFits, Effect, NEW t \in Tickets, Owed(t)
  PROVE  OwedNext(t) \/ \E s \in Sockets : AckEffect(s) /\ sock[s].t = t
<1>1. session[t].state # "none" /\ session[t].pend /\ \A s \in Sockets : acking[s] # t
  BY EmptyFields DEF Owed, SessionsFit
<1>2. session'[t].pend
  BY <1>1, SessionLasts DEF Kept
<1>3. None # t
  OBVIOUS
<1>4. CASE \A s \in Sockets : acking'[s] \in {acking[s], None}
  BY <1>1, <1>2, <1>3, <1>4 DEF OwedNext
<1>5. ASSUME NEW s \in Sockets, AckEffect(s), sock[s].t # t PROVE OwedNext(t)
  <2>1. \A r \in Sockets : acking'[r] = acking[r] \/ acking'[r] = sock[s].t
    BY <1>5 DEF AckEffect, Acks, TypeOK
  <2> QED BY <1>1, <1>2, <1>5, <2>1 DEF OwedNext
<1>6. BetStep \/ EraseStep \/ (\E c \in Launchers : LaunchStep(c)) => acking' = acking
  BY DEF BetStep, EraseStep, LaunchStep
<1>7. ASSUME SocketStep
      PROVE  \/ \A s \in Sockets : acking'[s] \in {acking[s], None}
             \/ \E s \in Sockets : AckEffect(s)
  BY <1>7 DEF SocketStep, ConnectEffect, RegisterEffect, DropEffect, WriteEffect
<1> QED BY <1>4, <1>5, <1>6, <1>7 DEF Effect

\* A socket and the pause it was born under, over any step.
LEMMA PauseKept ==
  ASSUME TypeOK, SessionsFit, SocksFit, EraseFits, PauseIsOwed, PauseSurvivesReconnect, Effect,
         NEW s \in Sockets, sock'[s].born
  PROVE  /\ sock'[s].pc # "idle" /\ OwedNext(sock'[s].t)
         /\ sock'[s].pc = "loaded" => sock'[s].got
         /\ sock'[s].pc = "open" => sock'[s].pending
<1> DEFINE Goal == /\ sock'[s].pc # "idle" /\ OwedNext(sock'[s].t)
                   /\ sock'[s].pc = "loaded" => sock'[s].got
                   /\ sock'[s].pc = "open" => sock'[s].pending
<1>t. sock[s] \in SockType
  BY TypedFields
<1>b. ASSUME sock[s].born
      PROVE  /\ sock[s].pc # "idle" /\ sock[s].t \in Tickets /\ Owed(sock[s].t)
             /\ sock[s].pc = "loaded" => sock[s].got
             /\ sock[s].pc = "open" => sock[s].pending
  BY <1>b DEF PauseIsOwed, PauseSurvivesReconnect, SocksFit
\* An acknowledgement ends the pause of every socket of the session.
<1>a. ASSUME NEW r \in Sockets, AckEffect(r) PROVE sock'[s] = sock[s] /\ sock[s].t # sock[r].t
  <2>1. CASE sock[s].t = sock[r].t
    <3>1. sock'[s] = Sock(sock[s].pc, sock[s].up, sock[s].t, sock[s].pending /\ s # r, sock[s].got, FALSE)
      BY <1>a, <2>1 DEF AckEffect, Acks
    <3> QED BY <3>1 DEF Sock
  <2> QED BY <1>a, <2>1 DEF AckEffect, Acks
<1>o. ASSUME sock[s].born, sock'[s].t = sock[s].t PROVE OwedNext(sock'[s].t)
  <2>1. OwedNext(sock[s].t) \/ \E r \in Sockets : AckEffect(r) /\ sock[r].t = sock[s].t
    BY <1>b, <1>o, OwedStays
  <2>2. OwedNext(sock[s].t)
    BY <1>a, <2>1
  <2> QED BY <1>o, <2>2
<1>1. CASE sock'[s] = sock[s]
  BY <1>1, <1>b, <1>o
<1>2. CASE sock'[s] = Closed(sock[s])
  <2>1. sock[s].born /\ sock[s].pc # "open" /\ sock'[s].t = sock[s].t /\ sock'[s].pc = sock[s].pc
        /\ sock'[s].got = sock[s].got
    BY <1>2, <1>t, ClosedFields
  <2> QED BY <1>b, <1>o, <2>1
<1>3. CASE sock[s].pc = "loaded" /\ sock'[s] = Opened(sock[s])
  <2>1. sock[s].born /\ sock'[s].t = sock[s].t /\ sock'[s].pc \in {"open", "closed"} /\ sock'[s].pending = sock[s].got
    BY <1>3, <1>t, OpenedFields
  <2> QED BY <1>3, <1>b, <1>o, <2>1
<1>4. ASSUME NEW r \in Sockets, ConnectEffect(r) PROVE Goal
  <2>1. CASE r # s
    BY <1>1, <1>4, <2>1 DEF ConnectEffect, Alone
  <2>2. CASE r = s /\ Connects(s)
    <3>1. PICK t \in Tickets : sock'[s] = Sock("live", TRUE, t, FALSE, FALSE, Owed(t))
      BY <2>2 DEF Connects
    <3>2. sock'[s].t = t /\ sock'[s].pc = "live" /\ sock'[s].born = Owed(t)
      BY <3>1 DEF Sock
    <3>3. session' = session /\ acking' = acking
      BY <1>4 DEF ConnectEffect
    <3>4. OwedNext(sock'[s].t)
      BY <3>2, <3>3 DEF Owed, OwedNext
    <3> QED BY <3>2, <3>4
  <2>3. CASE r = s /\ Proceeds(s)
    <3>1. sock'[s] # NoSock
      BY EmptyFields
    <3>2. ASSUME sock[s].pc = "live", sock'[s] = Reaches(sock[s], "load", FALSE) PROVE Goal
      <4>1. sock'[s].pc = "load" /\ sock'[s].t = sock[s].t /\ sock'[s].born = sock[s].born
        <5>1. /\ Reaches(sock[s], "load", FALSE).pc = "load" /\ Reaches(sock[s], "load", FALSE).t = sock[s].t
              /\ Reaches(sock[s], "load", FALSE).born = sock[s].born
          BY <1>t, ReachesFields
        <5> QED BY <3>2, <5>1, Zenon
      <4>2. sock[s].born
        BY <4>1, Zenon
      <4>3. OwedNext(sock'[s].t)
        BY <1>o, <4>1, <4>2
      <4> QED BY <4>1, <4>3
    <3>3. ASSUME NEW got, sock[s].pc = "load", sock'[s] = Reaches(sock[s], "loaded", got),
                 got = TRUE \/ got = session[sock[s].t].pend
          PROVE  Goal
      <4>1. sock'[s].pc = "loaded" /\ sock'[s].t = sock[s].t /\ sock'[s].born = sock[s].born /\ sock'[s].got = got
        <5>0. got \in BOOLEAN
          BY <3>3, TypedFields DEF SocksFit
        <5>1. /\ Reaches(sock[s], "loaded", got).pc = "loaded" /\ Reaches(sock[s], "loaded", got).t = sock[s].t
              /\ Reaches(sock[s], "loaded", got).born = sock[s].born /\ Reaches(sock[s], "loaded", got).got = got
          BY <1>t, <5>0, ReachesFields
        <5> QED BY <3>3, <5>1, Zenon
      <4>b. sock[s].born
        BY <4>1, Zenon
      <4>2. OwedNext(sock'[s].t) /\ Owed(sock[s].t)
        BY <1>o, <1>b, <4>1, <4>b
      <4>3. got
        BY <3>3, <4>2 DEF Owed
      <4> QED BY <4>1, <4>2, <4>3
    <3> QED BY <2>3, <3>1, <3>2, <3>3 DEF Proceeds
  <2>4. CASE r = s /\ Pauses(s)
    <3>1. sock'[s].pc = "open" /\ sock'[s].t = sock[s].t /\ sock'[s].born = sock[s].born /\ sock'[s].pending = TRUE
      <4> DEFINE r1 == Sock("open", sock[s].up, sock[s].t, TRUE, sock[s].got, sock[s].born)
      <4>1. r1.pc = "open" /\ r1.t = sock[s].t /\ r1.born = sock[s].born /\ r1.pending = TRUE
        BY PausedFields, Zenon
      <4> QED BY <2>4, <4>1, Zenon DEF Pauses
    <3>2. sock[s].born
      BY <3>1, Zenon
    <3>3. OwedNext(sock'[s].t)
      BY <1>o, <3>1, <3>2
    <3> QED BY <3>1, <3>3
  <2> QED BY <1>4, <2>1, <2>2, <2>3, <2>4 DEF ConnectEffect
<1>5. ASSUME NEW r \in Sockets, RegisterEffect(r) PROVE Goal
  BY <1>1, <1>2, <1>3, <1>5 DEF RegisterEffect, Registers
<1>6. ASSUME NEW S \in SUBSET Sockets, DropEffect(S) PROVE Goal
  BY <1>1, <1>2, <1>6 DEF DropEffect, Drops
<1>7. ASSUME NEW r \in Sockets, AckEffect(r) PROVE Goal
  BY <1>1, <1>a, <1>7
<1>8. WriteEffect \/ BetStep \/ EraseStep \/ (\E c \in Launchers : LaunchStep(c)) => sock' = sock
  BY DEF WriteEffect, BetStep, EraseStep, LaunchStep
<1>9. CASE SocketStep
  BY <1>1, <1>4, <1>5, <1>6, <1>7, <1>8, <1>9 DEF SocketStep
<1> QED BY <1>1, <1>8, <1>9 DEF Effect

\* What is pending at a connect stays so to the open socket.
LEMMA PauseNext ==
  ASSUME TypeOK, SessionsFit, SocksFit, EraseFits, PauseIsOwed, PauseSurvivesReconnect, Effect
  PROVE  PauseIsOwed' /\ PauseSurvivesReconnect'
<1>1. \A s \in Sockets : sock'[s].born =>
         /\ sock'[s].pc # "idle" /\ OwedNext(sock'[s].t)
         /\ sock'[s].pc = "loaded" => sock'[s].got
         /\ sock'[s].pc = "open" => sock'[s].pending
  BY PauseKept
<1>2. PauseSurvivesReconnect'
  BY <1>1 DEF PauseSurvivesReconnect
<1>3. PauseIsOwed'
  BY <1>1 DEF PauseIsOwed, Owed, OwedNext
<1> QED BY <1>2, <1>3

-----------------------------------------------------------------------------
(* Erasure.                                                                *)

\* Once raced, always raced.
LEMMA RacedStays ==
  ASSUME TypeOK, Effect, raced
  PROVE  raced'
<1>0. raced = TRUE
  BY DEF TypeOK
<1>1. (\E c \in Launchers : LaunchStep(c)) => raced'
  BY <1>0 DEF LaunchStep, VerifyEffect, FindEffect, CreateEffect, ConsumeEffect, IssueEffect
<1>2. SocketStep => raced'
  BY <1>0 DEF SocketStep
<1>3. BetStep => raced'
  BY <1>0 DEF BetStep, BetEffect
<1>4. EraseStep => raced'
  BY <1>0 DEF EraseStep, BeginEffect, CountEffect, ScrubEffect
<1> QED BY <1>1, <1>2, <1>3, <1>4 DEF Effect

\* The erasure's own state.
LEMMA EraseUsersNext ==
  ASSUME TypeOK, SessionsFit, EraseFits, Effect
  PROVE  erase'.users \subseteq Wallets' /\ (erase'.pc = "idle" => erase' = NoErase)
<1>w. Wallets \subseteq Wallets'
  BY WalletChange
<1>e. erase.users \subseteq Wallets /\ (erase.pc = "idle" => erase = NoErase)
  BY DEF EraseFits
<1>1. CASE erase' = erase
  BY <1>1, <1>e, <1>w
<1>2. CASE erase' = NoErase
  BY <1>2, EmptyFields
<1>3. ASSUME NEW pc \in {"bets", "sessions", "scrub"}, NEW users \in SUBSET Wallets, erase' = Erasing(pc, users)
      PROVE  erase'.users \subseteq Wallets' /\ (erase'.pc = "idle" => erase' = NoErase)
  <2>1. erase'.pc = pc /\ erase'.users = users
    BY <1>3 DEF Erasing
  <2> QED BY <1>w, <2>1
<1>4. CASE BeginEffect
  <2>1. \A t \in Tickets : session[t].anon => session[t].w \in Wallets
    BY EmptyFields DEF SessionsFit
  <2>2. Tagged \cup {session[t].w : t \in {u \in Tickets : session[u].anon}} \in SUBSET Wallets
    BY <2>1 DEF Tagged
  <2> QED BY <1>3, <1>4, <2>2 DEF BeginEffect
<1>5. CASE CountEffect
  BY <1>2, <1>3, <1>5, <1>e DEF CountEffect
<1>6. ScrubEffect => erase' = NoErase
  BY DEF ScrubEffect
<1>7. SocketStep \/ BetStep \/ (\E c \in Launchers : LaunchStep(c)) => erase' = erase
  BY DEF SocketStep, BetStep, LaunchStep, VerifyEffect, FindEffect, CreateEffect, ConsumeEffect, IssueEffect
<1> QED BY <1>1, <1>2, <1>4, <1>5, <1>6, <1>7 DEF Effect, EraseStep

\* A launch that acts while no erasure is raced does so without one.
LEMMA LaunchesWithoutErasure ==
  ASSUME TypeOK, EraseFits, ~raced', Effect, NEW c \in Launchers, LaunchStep(c)
  PROVE  erase.pc = "idle" /\ erase' = erase /\ ~raced
<1>1. ~raced
  BY RacedStays
<1>2. launch[c].pc # "idle" => erase.pc = "idle"
  BY <1>1, EmptyFields DEF EraseFits
<1>3. VerifyEffect(c) => erase.pc = "idle"
  BY EmptyFields DEF VerifyEffect
<1>4. launch[c].pc # "idle" \/ VerifyEffect(c)
  BY DEF LaunchStep, FindEffect, CreateEffect, ConsumeEffect, IssueEffect
<1>5. erase' = erase
  BY DEF LaunchStep, VerifyEffect, FindEffect, CreateEffect, ConsumeEffect, IssueEffect
<1> QED BY <1>1, <1>2, <1>3, <1>4, <1>5

\* And so does a bet.
LEMMA BetsWithoutErasure ==
  ASSUME TypeOK, EraseFits, ~raced', Effect, NEW s \in Sockets, BetEffect(s), BetStep
  PROVE  erase.pc = "idle" /\ erase' = erase /\ ~raced
<1>1. ~raced
  BY RacedStays
<1>2. bet[s] # "none" => erase.pc = "idle"
  BY <1>1 DEF EraseFits
<1>3. bet[s] # "none" \/ raced' = (raced \/ erase # NoErase)
  BY DEF BetEffect
<1>4. raced' = (raced \/ erase # NoErase) => erase.pc = "idle"
  BY EmptyFields
<1>5. erase' = erase
  BY DEF BetStep
<1> QED BY <1>1, <1>2, <1>3, <1>4, <1>5

\* What the erasure has found stays found.
LEMMA EraseFindsNext ==
  ASSUME TypeOK, SessionsFit, LaunchesFit, EraseFits, Effect, ~raced'
  PROVE  /\ erase'.pc # "idle" => (\A c \in Launchers : launch'[c] = NoLaunch) /\ \A s \in Sockets : bet'[s] = "none"
         /\ erase'.pc \in {"sessions", "scrub"} => erase'.users \cap open' = {}
         /\ erase'.pc = "scrub" => \A t \in Tickets : Live(t)' => session'[t].w \notin erase'.users
<1> DEFINE Goal == /\ erase'.pc # "idle" => (\A c \in Launchers : launch'[c] = NoLaunch) /\ \A s \in Sockets : bet'[s] = "none"
                   /\ erase'.pc \in {"sessions", "scrub"} => erase'.users \cap open' = {}
                   /\ erase'.pc = "scrub" => \A t \in Tickets : Live(t)' => session'[t].w \notin erase'.users
<1>0. ~raced
  BY RacedStays
<1>f. /\ erase.pc # "idle" => (\A c \in Launchers : launch[c] = NoLaunch) /\ \A s \in Sockets : bet[s] = "none"
      /\ erase.pc \in {"sessions", "scrub"} => erase.users \cap open = {}
      /\ erase.pc = "scrub" => \A t \in Tickets : Live(t) => session[t].w \notin erase.users
  BY <1>0 DEF EraseFits
<1>1. CASE erase'.pc = "idle"
  BY <1>1
<1>2. ASSUME NEW c \in Launchers, LaunchStep(c) PROVE Goal
  BY <1>1, <1>2, LaunchesWithoutErasure
<1>3. CASE SocketStep
  <2>1. UNCHANGED <<erase, launch, bet, open>>
    BY <1>3 DEF SocketStep, ConnectEffect, RegisterEffect, DropEffect, AckEffect, WriteEffect
  <2>2. \A t \in Tickets : Live(t)' => Live(t) /\ session'[t].w = session[t].w
    <3>1. CASE session' = session
      BY <3>1 DEF Live
    <3>2. CASE WriteEffect
      BY <3>2 DEF WriteEffect, SessionsKept, Kept
    <3> QED BY <1>3, <3>1, <3>2 DEF SocketStep, ConnectEffect, RegisterEffect, DropEffect, AckEffect
  <2> QED BY <1>f, <2>1, <2>2
<1>4. CASE BetStep
  <2>1. CASE \E s \in Sockets : BetEffect(s)
    BY <1>1, <1>4, <2>1, BetsWithoutErasure
  <2>2. CASE bet' = bet /\ open' \subseteq open
    <3>1. UNCHANGED <<erase, launch, session>>
      BY <1>4 DEF BetStep
    <3> QED BY <1>f, <2>2, <3>1 DEF Live
  <2> QED BY <1>4, <2>1, <2>2 DEF BetStep
<1>5. CASE EraseStep
  <2>0. UNCHANGED <<open, launch, bet>>
    BY <1>5 DEF EraseStep
  <2>1. CASE BeginEffect
    <3>1. erase'.pc = "bets"
      BY <2>1 DEF BeginEffect, Erasing
    <3>2. (\A c \in Launchers : launch[c] = NoLaunch) /\ \A s \in Sockets : bet[s] = "none"
      BY <2>1 DEF BeginEffect
    <3> QED BY <2>0, <3>1, <3>2
  <2>2. CASE CountEffect
    <3>0. session' = session
      BY <2>2 DEF CountEffect
    <3>1. CASE erase' = NoErase
      BY <1>1, <3>1, EmptyFields
    <3>2. CASE erase.pc = "bets" /\ erase.users \cap open = {} /\ erase' = Erasing("sessions", erase.users)
      <4>1. erase'.pc = "sessions" /\ erase'.users = erase.users
        BY <3>2 DEF Erasing
      <4> QED BY <1>f, <2>0, <3>2, <4>1
    <3>3. CASE /\ erase.pc = "sessions" /\ erase' = Erasing("scrub", erase.users)
               /\ \A t \in Tickets : Live(t) => session[t].w \notin erase.users
      <4>1. erase'.pc = "scrub" /\ erase'.users = erase.users
        BY <3>3 DEF Erasing
      <4> QED BY <1>f, <2>0, <3>0, <3>3, <4>1 DEF Live
    <3> QED BY <2>2, <3>1, <3>2, <3>3 DEF CountEffect
  <2>3. CASE ScrubEffect
    BY <1>1, <2>3, EmptyFields DEF ScrubEffect
  <2> QED BY <1>5, <2>1, <2>2, <2>3 DEF EraseStep
<1> QED BY <1>2, <1>3, <1>4, <1>5 DEF Effect

\* A step leaves a wallet as it was, unless the erasure scrubs it; then nobody is at work.
LEMMA UnscrubbedStays ==
  ASSUME TypeOK, EraseFits, Effect, ~raced', NEW w \in Wallets, ~wallet[w],
         \/ \E c \in Launchers : launch[c] # NoLaunch
         \/ \E s \in Sockets : bet[s] # "none"
  PROVE  ~wallet'[w] /\ w \in Wallets'
<1>1. ~raced
  BY RacedStays
<1>2. ~ScrubEffect
  BY <1>1 DEF ScrubEffect, EraseFits
<1> QED BY <1>2, WalletChange

\* A launch has a wallet that is not scrubbed.
LEMMA LaunchWalletNext ==
  ASSUME TypeOK, LaunchesFit, EraseFits, Effect, ~raced', NEW c \in Launchers, launch'[c].pc = "session"
  PROVE  ~wallet'[launch'[c].w]
<1>0. ~raced
  BY RacedStays
<1>1. ASSUME launch'[c] = launch[c] PROVE ~wallet'[launch'[c].w]
  <2>1. launch[c] # NoLaunch /\ launch[c].w \in Wallets /\ ~wallet[launch[c].w]
    BY <1>0, <1>1, EmptyFields DEF LaunchesFit, EraseFits
  <2> QED BY <1>1, <2>1, UnscrubbedStays
<1>2. ASSUME NEW d \in Launchers, LaunchStep(d) PROVE ~wallet'[launch'[c].w]
  <2>1. CASE d # c
    <3>1. launch'[c] = launch[c]
      BY <1>2, <2>1 DEF LaunchStep, VerifyEffect, FindEffect, CreateEffect, ConsumeEffect, IssueEffect, LaunchIs, LaunchEnds
    <3> QED BY <1>1, <3>1
  <2>2. CASE d = c
    <3>1. ~LaunchEnds(c) /\ ~VerifyEffect(c) /\ ~ConsumeEffect(c) /\ ~IssueEffect(c)
      BY EmptyFields DEF LaunchEnds, VerifyEffect, ConsumeEffect, IssueEffect, LaunchIs
    <3>2. CASE FindEffect(c)
      BY <3>1, <3>2 DEF FindEffect, LaunchIs, Tagged
    <3>3. CASE CreateEffect(c)
      BY <3>3, WalletGrows DEF CreateEffect, LaunchIs
    <3> QED BY <1>2, <2>2, <3>1, <3>2, <3>3 DEF LaunchStep
  <2> QED BY <2>1, <2>2
<1>3. SocketStep \/ BetStep \/ EraseStep => launch' = launch
  BY DEF SocketStep, BetStep, EraseStep
<1> QED BY <1>1, <1>2, <1>3 DEF Effect

\* A bet that passed its checks is on a wallet that is not scrubbed.
LEMMA BetWalletNext ==
  ASSUME TypeOK, SessionsFit, SocksFit, EraseFits, ErasedIsSettled, Effect, ~raced', NEW s \in Sockets, bet'[s] = "place"
  PROVE  ~wallet'[User(s)']
<1>0. ~raced
  BY RacedStays
<1>1. ASSUME bet[s] # "none", ~wallet[User(s)] PROVE ~wallet'[User(s)']
  <2>1. Authed(s) /\ sock[s].pc # "idle"
    BY <1>1 DEF SocksFit, Authed
  <2>2. sock'[s].t = sock[s].t
    BY <1>1, <2>1, SocketLife DEF Stays, Restarts
  <2>3. User(s)' = User(s) /\ User(s) \in Wallets
    BY <2>1, <2>2, UserStays
  <2> QED BY <1>1, <2>3, UnscrubbedStays
<1>2. ASSUME bet'[s] = bet[s] PROVE ~wallet'[User(s)']
  BY <1>0, <1>1, <1>2 DEF EraseFits
<1>3. ASSUME NEW r \in Sockets, BetEffect(r) PROVE ~wallet'[User(s)']
  <2>1. CASE r # s
    BY <1>2, <1>3, <2>1 DEF BetEffect, TypeOK
  <2>2. CASE r = s
    <3>1. bet[s] = "check" /\ Live(sock[s].t)
      BY <1>3, <2>2 DEF BetEffect, TypeOK
    <3>2. sock[s].t \in Tickets /\ session[sock[s].t].state # "none"
      BY <3>1 DEF SocksFit, Authed
    <3>3. User(s) \in Wallets
      BY <3>2 DEF SessionsFit, User
    <3>4. ~wallet[User(s)]
      BY <1>0, <3>1, <3>2, <3>3 DEF ErasedIsSettled, User
    <3> QED BY <1>1, <3>1, <3>4
  <2> QED BY <2>1, <2>2
<1>4. SocketStep \/ EraseStep \/ (\E c \in Launchers : LaunchStep(c)) => bet' = bet
  BY DEF SocketStep, EraseStep, LaunchStep, ConnectEffect, RegisterEffect, DropEffect, AckEffect, WriteEffect
<1>5. BetStep => bet' = bet \/ \E r \in Sockets : BetEffect(r)
  BY DEF BetStep
<1> QED BY <1>2, <1>3, <1>4, <1>5 DEF Effect

\* Together.
LEMMA EraseNext ==
  ASSUME TypeOK, SessionsFit, LaunchesFit, SocksFit, EraseFits, ErasedIsSettled, Effect
  PROVE  EraseFits'
<1>1. erase'.users \subseteq Wallets' /\ (erase'.pc = "idle" => erase' = NoErase)
  BY EraseUsersNext
<1>2. ASSUME ~raced'
      PROVE  /\ erase'.pc # "idle" => (\A c \in Launchers : launch'[c] = NoLaunch) /\ \A s \in Sockets : bet'[s] = "none"
             /\ erase'.pc \in {"sessions", "scrub"} => erase'.users \cap open' = {}
             /\ erase'.pc = "scrub" => \A t \in Tickets : Live(t)' => session'[t].w \notin erase'.users
  BY <1>2, EraseFindsNext
<1>3. ASSUME ~raced', NEW c \in Launchers, launch'[c].pc = "session" PROVE ~wallet'[launch'[c].w]
  BY <1>3, LaunchWalletNext
<1>4. ASSUME ~raced', NEW s \in Sockets, bet'[s] = "place" PROVE ~wallet'[User(s)']
  BY <1>4, BetWalletNext
<1> QED BY <1>1, <1>2, <1>3, <1>4 DEF EraseFits, Live, User

\* A scrubbed player stays settled.
LEMMA SettledNext ==
  ASSUME TypeOK, SessionsFit, LaunchesFit, SocksFit, EraseFits, ErasedIsSettled, Effect
  PROVE  ErasedIsSettled'
<1> DEFINE Settled(w) == /\ w \notin open
                         /\ \A t \in Tickets : session[t].w = w => session[t].anon /\ ~Live(t)
<1> SUFFICES ASSUME ~raced', NEW w \in Wallets', wallet'[w] PROVE Settled(w)'
  BY DEF ErasedIsSettled, Live
<1>0. ~raced
  BY RacedStays
<1>s. ASSUME wallet[w], w \in Wallets PROVE Settled(w)
  BY <1>0, <1>s DEF ErasedIsSettled
<1>1. CASE wallet[w] /\ w \in Wallets
  <2>1. w \notin open'
    <3>1. ASSUME NEW s \in Sockets, bet[s] = "place" PROVE User(s) # w
      BY <1>0, <1>1, <3>1 DEF EraseFits
    <3>2. BetStep => open' \subseteq open \/ \E s \in Sockets : bet[s] = "place" /\ open' = open \cup {User(s)}
      BY DEF BetStep, BetEffect
    <3>3. SocketStep \/ EraseStep \/ (\E c \in Launchers : LaunchStep(c)) => open' = open
      BY DEF SocketStep, EraseStep, LaunchStep, ConnectEffect, RegisterEffect, DropEffect, AckEffect, WriteEffect,
             VerifyEffect, FindEffect, CreateEffect, ConsumeEffect, IssueEffect
    <3> QED BY <1>1, <1>s, <3>1, <3>2, <3>3 DEF Effect
  <2>2. ASSUME NEW t \in Tickets, session'[t].w = w PROVE session'[t].anon /\ ~Live(t)'
    <3>1. CASE SessionsKept
      <4>1. Kept(t)
        BY <3>1 DEF SessionsKept
      <4> QED BY <1>1, <1>s, <2>2, <4>1 DEF Kept
    <3>2. ASSUME NEW c \in Launchers, ConsumeEffect(c) PROVE session'[t].anon /\ ~Live(t)'
      <4>1. launch[c].pc = "session" /\ ~wallet[launch[c].w]
        BY <1>0, <3>2 DEF ConsumeEffect, EraseFits
      <4>2. t # launch[c].t
        <5>1. session'[launch[c].t].w = launch[c].w
          BY <3>2 DEF ConsumeEffect, Session
        <5> QED BY <1>1, <2>2, <4>1, <5>1
      <4>3. session'[t] = session[t]
        BY <3>2, <4>2 DEF ConsumeEffect
      <4> QED BY <1>1, <1>s, <2>2, <4>3 DEF Live
    <3> QED BY <3>1, <3>2, SessionChange
  <2> QED BY <2>1, <2>2
<1>2. CASE EraseStep /\ ScrubEffect /\ w \in erase.users
  <2>1. w \notin open'
    BY <1>0, <1>2 DEF EraseStep, ScrubEffect, EraseFits
  <2>2. ASSUME NEW t \in Tickets, session'[t].w = w PROVE session'[t].anon /\ ~Live(t)'
    <3>1. session'[t].anon /\ session[t].w \in erase.users /\ session'[t].state = session[t].state
      BY <1>2, <2>2 DEF ScrubEffect
    <3>2. ~Live(t)
      BY <1>0, <1>2, <3>1 DEF ScrubEffect, EraseFits
    <3> QED BY <3>1, <3>2 DEF Live
  <2> QED BY <2>1, <2>2
<1>3. (wallet[w] /\ w \in Wallets) \/ (EraseStep /\ ScrubEffect /\ w \in erase.users)
  BY WalletChange
<1> QED BY <1>1, <1>2, <1>3

-----------------------------------------------------------------------------
(* The theorems.                                                           *)

\* No session, or the one "play" starts with; nothing else is under way.
LEMMA IdentityInit ==
  ASSUME Init
  PROVE  IdentityInv
<1> DEFINE L == Session("live", 1, FALSE, FALSE)
<1>e. /\ NoSession \in SessionType /\ NoLaunch \in LaunchType /\ NoSock \in SockType
      /\ L \in SessionType
  <2>1. 1 \in 0 .. MaxWallets /\ "live" \in {"none", "live", "revoked"}
    OBVIOUS
  <2>2. L \in SessionType
    BY <2>1 DEF Session, SessionType
  <2> QED BY <2>2, EmptyTypes
<1>f. L.state = "live" /\ L.w = 1 /\ L.anon = FALSE /\ L.pend = FALSE
  BY DEF Session
<1>i. session = [t \in Tickets |-> IF focus = "play" /\ t = FirstTicket THEN L ELSE NoSession]
  BY DEF Init
<1> HIDE DEF L
<1>l. \A c \in Launchers : launch[c] = NoLaunch
  BY DEF Init
<1>k. \A s \in Sockets : sock[s] = NoSock /\ bet[s] = "none" /\ acking[s] = None
  BY DEF Init
<1>0. open = {} /\ erase = NoErase /\ raced = FALSE
  BY DEF Init
<1>w. \/ focus = "play" /\ wallet = <<FALSE>> /\ Wallets = {1} /\ ~wallet[1] /\ Tagged = {1}
      \/ focus = "identity" /\ wallet = << >> /\ Wallets = {} /\ Tagged = {}
  <2>1. CASE focus = "play"
    <3>1. wallet = <<FALSE>>
      BY <2>1 DEF Init
    <3>2. DOMAIN wallet = {1} /\ wallet[1] = FALSE
      BY <3>1
    <3> QED BY <2>1, <3>1, <3>2 DEF Wallets, Tagged
  <2>2. CASE focus = "identity"
    <3>1. wallet = << >>
      BY <2>2 DEF Init
    <3>2. DOMAIN wallet = {}
      BY <3>1
    <3> QED BY <2>2, <3>1, <3>2 DEF Wallets, Tagged
  <2> QED BY <2>1, <2>2 DEF Init
<1>s. \A t \in Tickets : \/ session[t] = NoSession /\ tokens[t] = 0
                         \/ focus = "play" /\ session[t] = L /\ tokens[t] = 1
  <2>1. L # NoSession
    BY <1>f, EmptyFields
  <2> SUFFICES ASSUME NEW t \in Tickets
               PROVE  \/ session[t] = NoSession /\ tokens[t] = 0
                      \/ focus = "play" /\ session[t] = L /\ tokens[t] = 1
    OBVIOUS
  <2>2. session[t] = IF focus = "play" /\ t = FirstTicket THEN L ELSE NoSession
    BY <1>i
  <2>3. tokens[t] = IF session[t] = NoSession THEN 0 ELSE 1
    BY DEF Init
  <2> QED BY <2>1, <2>2, <2>3
<1>1. TypeOK
  <2>1. focus \in {"identity", "play"} /\ faults \in 0 .. MaxFaults /\ checks \in 0 .. MaxChecks /\ raced \in BOOLEAN
    <3>1. focus \in {"identity", "play"} /\ faults = 0 /\ checks = 0
      BY Zenon DEF Init
    <3>2. raced \in BOOLEAN
      BY <1>0
    <3> QED BY <3>1, <3>2
  <2>2. wallet \in Seq(BOOLEAN) /\ Len(wallet) <= MaxWallets /\ open \subseteq Wallets
    <3>1. << >> \in Seq(BOOLEAN) /\ Len(<< >>) = 0 /\ <<FALSE>> \in Seq(BOOLEAN) /\ Len(<<FALSE>>) = 1
      OBVIOUS
    <3>2. wallet = << >> \/ wallet = <<FALSE>>
      BY <1>w
    <3>3. wallet \in Seq(BOOLEAN) /\ (Len(wallet) = 0 \/ Len(wallet) = 1)
      BY <3>1, <3>2, Zenon
    <3>4. open \subseteq Wallets
      BY <1>0
    <3>5. \A n : n = 0 \/ n = 1 => n <= MaxWallets
      OBVIOUS
    <3> QED BY <3>3, <3>4, <3>5, Zenon
  <2>3. session \in [Tickets -> SessionType] /\ tokens \in [Tickets -> Nat]
    <3>1. session = [t \in Tickets |-> session[t]] /\ tokens = [t \in Tickets |-> tokens[t]]
      BY DEF Init
    <3>2. \A t \in Tickets : session[t] \in SessionType /\ tokens[t] \in Nat
      BY <1>e, <1>s
    <3> QED BY <3>1, <3>2
  <2>4. launch \in [Launchers -> LaunchType] /\ sock \in [Sockets -> SockType]
    BY <1>e DEF Init
  <2>5. /\ registered \in [Users -> Sockets \cup {None}] /\ acking \in [Sockets -> Tickets \cup {None}]
        /\ bet \in [Sockets -> {"none", "check", "place"}]
    BY DEF Init
  <2>6. sweep \in [pc : {"idle", "query", "drop", "scan", "persist"}, socks : SUBSET Sockets, users : SUBSET Users]
    BY DEF Init, NoSweep, Sweeping
  <2>7. erase \in [pc : {"idle", "bets", "sessions", "scrub"}, users : SUBSET Users]
    BY DEF Init, NoErase, Erasing
  <2> QED BY <2>1, <2>2, <2>3, <2>4, <2>5, <2>6, <2>7 DEF TypeOK
<1>2. OneTokenPerTicket
  BY <1>s DEF OneTokenPerTicket
<1>3. OneWalletPerPlayer
  <2>1. Cardinality({1}) = 1
    BY FS_Singleton
  <2>2. Cardinality({}) = 0
    BY FS_EmptySet
  <2>3. Tagged = {1} \/ Tagged = {}
    BY <1>w
  <2> QED BY <2>1, <2>2, <2>3 DEF OneWalletPerPlayer
<1>4. SessionsFit
  BY <1>f, <1>s, <1>w, EmptyFields DEF SessionsFit
<1>5. LaunchesFit /\ SocksFit
  BY <1>l, <1>k, EmptyFields DEF LaunchesFit, SocksFit
<1>6. PlayingIsRegistered /\ PauseIsOwed /\ PauseSurvivesReconnect
  BY <1>k, EmptyFields DEF PlayingIsRegistered, PauseIsOwed, PauseSurvivesReconnect
<1>7. EraseFits
  BY <1>0, <1>l, <1>k, EmptyFields DEF EraseFits
<1>8. ErasedIsSettled
  BY <1>w DEF ErasedIsSettled
<1> QED BY <1>1, <1>2, <1>3, <1>4, <1>5, <1>6, <1>7, <1>8 DEF IdentityInv

\* Every step of launchers, sockets, the sweep and the erasure keeps the invariant.
LEMMA IdentityNext ==
  ASSUME IdentityInv, [Next]_vars
  PROVE  IdentityInv'
<1>0. /\ TypeOK /\ OneTokenPerTicket /\ OneWalletPerPlayer /\ SessionsFit /\ LaunchesFit /\ SocksFit
      /\ PlayingIsRegistered /\ PauseIsOwed /\ PauseSurvivesReconnect /\ EraseFits /\ ErasedIsSettled
  BY DEF IdentityInv
<1>1. Effect
  BY <1>0, StepEffect
<1>2. TypeOK'
  BY <1>0, <1>1, TypeNext
<1>3. OneTokenPerTicket' /\ OneWalletPerPlayer'
  BY <1>0, <1>1, TokensNext, WalletsNext
<1>4. SessionsFit' /\ LaunchesFit' /\ SocksFit'
  BY <1>0, <1>1, SessionsNext, LaunchesNext, SocketsNext
<1>5. PlayingIsRegistered'
  BY <1>0, <1>1, PlayingNext
<1>6. PauseIsOwed' /\ PauseSurvivesReconnect'
  BY <1>0, <1>1, PauseNext
<1>7. EraseFits' /\ ErasedIsSettled'
  BY <1>0, <1>1, EraseNext, SettledNext
<1> QED BY <1>2, <1>3, <1>4, <1>5, <1>6, <1>7 DEF IdentityInv

\* The invariant of a player's identity (launch-token.service.ts, game-session.service.ts,
\* game.gateway.ts, data-erasure.service.ts) holds in every behaviour: a ticket starts one
\* game, concurrent launches end on one wallet, and what the theorems below need.
THEOREM IdentityIsSafe == Spec => []IdentityInv
<1>1. Init => IdentityInv
  BY IdentityInit
<1>2. IdentityInv /\ [Next]_vars => IdentityInv'
  BY IdentityNext
<1> QED BY <1>1, <1>2, PTL DEF Spec

\* However connects overlap, sockets are dropped and clients leave (handleConnection,
\* disconnectRevokedSockets): a socket that plays is the one userSockets names.
THEOREM OneGameSocket == Spec => []PlayingIsRegistered
<1>1. IdentityInv => PlayingIsRegistered
  BY DEF IdentityInv
<1> QED BY <1>1, IdentityIsSafe, PTL

\* A reality check that the database had as pending when a socket began to connect still
\* blocks its bets when it plays (loadRealityCheckState, also when it fails), until it is
\* acknowledged.
THEOREM PauseHolds == Spec => []PauseSurvivesReconnect
<1>1. IdentityInv => PauseSurvivesReconnect
  BY DEF IdentityInv
<1> QED BY <1>1, IdentityIsSafe, PTL

\* anonymizePlayer fails closed: without an overlapping launch or bet a scrubbed player has
\* no bet in play, no live session and no session that still names it.
THEOREM ErasureFailsClosed == Spec => []ErasedIsSettled
<1>1. IdentityInv => ErasedIsSettled
  BY DEF IdentityInv
<1> QED BY <1>1, IdentityIsSafe, PTL
=============================================================================
