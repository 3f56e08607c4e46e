------------------------------ MODULE Sessions ------------------------------
(***************************************************************************)
(* An operator's player from launch to erasure: one-time launch tickets    *)
(* and their sessions (launch-token.service.ts, game-session.service.ts),  *)
(* the sockets of one node that play under them (game.gateway.ts) with the *)
(* reality checks of responsible gambling, and the erasure of the player   *)
(* (data-erasure.service.ts).                                              *)
(*                                                                         *)
(* One player in one currency. Every database statement is a step of its   *)
(* own, erasure's final transaction one step. Messages of a socket are     *)
(* handled while handleConnection still waits for the database.            *)
(*                                                                         *)
(* focus, fixed for a behaviour, bounds what happens together:             *)
(*   "identity"  launches, revocations and erasure, bets on one socket;    *)
(*   "play"      the sockets of a launched session, its reality checks and *)
(*               its revocation.                                           *)
(***************************************************************************)
EXTENDS Naturals, Sequences, FiniteSets

CONSTANTS
  Tickets, FirstTicket,     \* jti of the launch tokens; the one used first
  Launchers,                \* openFromToken calls in flight together
  Sockets, FirstSocket,     \* client connections; the one "identity" uses
  None,
  MaxWallets,               \* bound on the user rows made for the player
  MaxChecks,                \* bound on the reality checks that fall due
  MaxFaults                 \* bound on failed statements and dead calls

ASSUME SessionsAssumption ==
  /\ FirstTicket \in Tickets /\ FirstSocket \in Sockets /\ None \notin Tickets \cup Sockets
  /\ MaxWallets \in Nat \ {0} /\ MaxChecks \in Nat /\ MaxFaults \in Nat

VARIABLES
  focus, faults, checks,
  wallet,        \* users of the player with their wallet, by number: anonymizedAt is set
  session,       \* game_sessions by launchJti: [state, w, anon, pend]; pend: a reality
                 \* check awaits its acknowledgement (realityCheckPendingAt)
  tokens,        \* per ticket: play tokens handed out
  launch,        \* per call: [pc, t, w]
  sock,          \* per socket: [pc, up, t, pending, got, born]; born: the check that was
                 \* pending when it began to connect is still not acknowledged
  registered,    \* userSockets, per user
  acking,        \* per socket: the session whose acknowledgement is being written
  bet, open,     \* per socket: a place_bet in flight; the wallets with a bet in play
  sweep,         \* runRgSweep: [pc, socks, users]
  erase, raced   \* anonymizePlayer: [pc, users]; a launch or a bet overlapped with it,
                 \* or a failed isLive let a bet of a revoked session through

dbVars == <<wallet, session, tokens, open>>
gameVars == <<sock, registered, acking, bet, sweep>>
eraseVars == <<erase, raced>>
vars == <<focus, faults, checks, dbVars, launch, gameVars, eraseVars>>
rest == <<focus, checks>>

Users == 1 .. MaxWallets
Session(state, w, anon, pend) == [state |-> state, w |-> w, anon |-> anon, pend |-> pend]
SessionType ==
  [state : {"none", "live", "revoked"}, w : 0 .. MaxWallets, anon : BOOLEAN, pend : BOOLEAN]
NoSession == Session("none", 0, FALSE, FALSE)
Launch(pc, t, w) == [pc |-> pc, t |-> t, w |-> w]
LaunchType == [pc : {"idle", "find", "user", "refind", "session", "token"},
               t : Tickets \cup {None}, w : 0 .. MaxWallets]
NoLaunch == Launch("idle", None, 0)
Sock(pc, up, t, pending, got, born) ==
  [pc |-> pc, up |-> up, t |-> t, pending |-> pending, got |-> got, born |-> born]
SockType == [pc : {"idle", "live", "load", "loaded", "open", "closed"}, up : BOOLEAN,
             t : Tickets \cup {None}, pending : BOOLEAN, got : BOOLEAN, born : BOOLEAN]
NoSock == Sock("idle", FALSE, None, FALSE, FALSE, FALSE)
Sweeping(pc, socks, users) == [pc |-> pc, socks |-> socks, users |-> users]
NoSweep == Sweeping("idle", {}, {})
Erasing(pc, users) == [pc |-> pc, users |-> users]
NoErase == Erasing("idle", {})
Wallets == DOMAIN wallet
Tagged == {w \in Wallets : ~wallet[w]}
Live(t) == session[t].state = "live"
User(s) == session[sock[s].t].w

TypeOK ==
  /\ focus \in {"identity", "play"} /\ faults \in 0 .. MaxFaults /\ checks \in 0 .. MaxChecks
  /\ wallet \in Seq(BOOLEAN) /\ Len(wallet) <= MaxWallets
  /\ session \in [Tickets -> SessionType]
  /\ tokens \in [Tickets -> Nat] /\ open \subseteq Wallets
  /\ launch \in [Launchers -> LaunchType]
  /\ sock \in [Sockets -> SockType]
  /\ registered \in [Users -> Sockets \cup {None}]
  /\ acking \in [Sockets -> Tickets \cup {None}]
  /\ bet \in [Sockets -> {"none", "check", "place"}]
  /\ sweep \in [pc : {"idle", "query", "drop", "scan", "persist"},
                socks : SUBSET Sockets, users : SUBSET Users]
  /\ erase \in [pc : {"idle", "bets", "sessions", "scrub"}, users : SUBSET Users]
  /\ raced \in BOOLEAN

Init ==
  /\ focus \in {"identity", "play"} /\ faults = 0 /\ checks = 0
  /\ wallet = IF focus = "play" THEN <<FALSE>> ELSE << >>
  /\ session = [t \in Tickets |-> IF focus = "play" /\ t = FirstTicket
                                  THEN Session("live", 1, FALSE, FALSE) ELSE NoSession]
  /\ tokens = [t \in Tickets |-> IF session[t] = NoSession THEN 0 ELSE 1]
  /\ launch = [c \in Launchers |-> NoLaunch]
  /\ sock = [s \in Sockets |-> NoSock] /\ registered = [w \in Users |-> None]
  /\ acking = [s \in Sockets |-> None] /\ bet = [s \in Sockets |-> "none"] /\ open = {}
  /\ sweep = NoSweep /\ erase = NoErase /\ raced = FALSE

Fault == faults < MaxFaults /\ faults' = faults + 1
NoFault == faults' = faults

(* ---------------------------------------------- verify, openFromToken *)

Takes(c, pc, w) == launch' = [launch EXCEPT ![c] = Launch(pc, @.t, w)]
Goes(c, pc) == Takes(c, pc, launch[c].w)
Ends(c) == launch' = [launch EXCEPT ![c] = NoLaunch]
Overlaps == raced' = (raced \/ erase # NoErase)

\* Calls and tickets are interchangeable: the first idle call, the first ticket first.
InOrder(c, t) ==
  /\ c = CHOOSE d \in Launchers : launch[d] = NoLaunch
  /\ \/ t = FirstTicket \/ session[FirstTicket] # NoSession
     \/ \E d \in Launchers : launch[d].t = FirstTicket

\* The ticket is genuine and no session has used it yet.
Verify(c, t) ==
  /\ focus = "identity" /\ launch[c] = NoLaunch /\ session[t] = NoSession /\ InOrder(c, t)
  /\ launch' = [launch EXCEPT ![c] = Launch("find", t, 0)]
  /\ Overlaps
  /\ NoFault /\ UNCHANGED <<rest, dbVars, gameVars, erase>>

\* The wallet of the player, found by the username tag, also after a lost race.
FindWallet(c) ==
  /\ launch[c].pc \in {"find", "refind"}
  /\ IF Tagged # {}
     THEN \E w \in Tagged : Takes(c, "session", w)
     ELSE IF launch[c].pc = "find" THEN Goes(c, "user") ELSE Ends(c)
  /\ NoFault /\ UNCHANGED <<rest, dbVars, gameVars, eraseVars>>

\* user.create: the username is unique; the loser of a race looks again.
CreateUser(c) ==
  /\ launch[c].pc = "user"
  /\ IF Tagged # {} THEN Goes(c, "refind") /\ UNCHANGED wallet
     ELSE /\ Len(wallet) < MaxWallets
          /\ wallet' = Append(wallet, FALSE)
          /\ Takes(c, "session", Len(wallet) + 1)
  /\ NoFault /\ UNCHANGED <<rest, session, tokens, open, gameVars, eraseVars>>

\* Mutant: launchJti is not unique; the look of verify is the only check.
CreateSessionTwice(c) ==
  /\ launch[c].pc = "session"
  /\ session' = [session EXCEPT ![launch[c].t] = Session("live", launch[c].w, FALSE, FALSE)]
  /\ Goes(c, "token")
  /\ NoFault /\ UNCHANGED <<rest, wallet, tokens, open, gameVars, eraseVars>>

\* gameSession.create consumes the ticket; the loser of a race is turned away.
CreateSession(c) ==
  LET t == launch[c].t IN
  /\ launch[c].pc = "session"
  /\ IF session[t] # NoSession THEN Ends(c) /\ UNCHANGED session
     ELSE /\ session' = [session EXCEPT ![t] = Session("live", launch[c].w, FALSE, FALSE)]
          /\ Goes(c, "token")
  /\ NoFault /\ UNCHANGED <<rest, wallet, tokens, open, gameVars, eraseVars>>

\* The demo bankroll is reset if it is one, and the play token is signed.
IssueToken(c) ==
  /\ launch[c].pc = "token"
  /\ tokens' = [tokens EXCEPT ![launch[c].t] = @ + 1]
  /\ Ends(c)
  /\ NoFault /\ UNCHANGED <<rest, wallet, session, open, gameVars, eraseVars>>

\* A statement of the launch fails; a consumed ticket stays consumed.
LaunchFails(c) ==
  /\ launch[c] # NoLaunch
  /\ Fault
  /\ Ends(c)
  /\ UNCHANGED <<rest, dbVars, gameVars, eraseVars>>

(* ------------------------------------------------------- handleConnection *)

\* The acknowledgement of a pending check is neither given nor on its way.
Owed(t) == session[t].pend /\ \A s \in Sockets : acking[s] # t
\* client.data holds the identity; it stays when the connection is gone.
Authed(s) == sock[s].pc \in {"load", "loaded", "open", "closed"}
SetSock(s, r) == sock' = [sock EXCEPT ![s] = r]
Reaches(r, pc, got) == Sock(pc, r.up, r.t, r.pending, got, r.born)
sockRest == <<rest, dbVars, launch, registered, acking, bet, sweep, eraseVars>>

\* The play token is genuine; isLive is asked.
Connect(s, t) ==
  /\ sock[s].pc \in {"idle", "closed"} /\ bet[s] = "none" /\ acking[s] = None
  /\ s \notin {registered[w] : w \in Users} \cup sweep.socks
  /\ tokens[t] > 0 /\ (focus = "identity" => s = FirstSocket /\ t = FirstTicket)
  /\ SetSock(s, Sock("live", TRUE, t, FALSE, FALSE, Owed(t)))
  /\ NoFault /\ UNCHANGED sockRest

\* A dead session makes the socket read-only; else the identity is set and the
\* reality-check state is asked for. An error counts as dead.
LiveAnswers(s) ==
  /\ sock[s].pc = "live"
  /\ \/ Live(sock[s].t) /\ NoFault /\ SetSock(s, Reaches(sock[s], "load", FALSE))
     \/ ~Live(sock[s].t) /\ NoFault /\ SetSock(s, NoSock)
     \/ focus = "play" /\ Fault /\ SetSock(s, NoSock)
  /\ UNCHANGED sockRest

\* loadRealityCheckState reads the row.
LoadReads(s) ==
  /\ sock[s].pc = "load"
  /\ SetSock(s, Reaches(sock[s], "loaded", session[sock[s].t].pend))
  /\ NoFault /\ UNCHANGED sockRest

\* Mutant: without an answer there is no pause.
LoadFailsOpen(s) ==
  /\ focus = "play" /\ sock[s].pc = "load"
  /\ Fault
  /\ SetSock(s, Reaches(sock[s], "loaded", FALSE))
  /\ UNCHANGED sockRest

\* A failed read counts as pending.
LoadFails(s) ==
  /\ focus = "play" /\ sock[s].pc = "load"
  /\ Fault
  /\ SetSock(s, Reaches(sock[s], "loaded", TRUE))
  /\ UNCHANGED sockRest

\* disconnect(true) with handleDisconnect; a connect in flight goes on.
Closed(r) ==
  IF r.pc = "open" THEN Sock("closed", FALSE, r.t, r.pending, r.got, FALSE)
  ELSE Sock(r.pc, FALSE, r.t, r.pending, r.got, r.born)
Dropped(S) == [s \in Sockets |-> IF s \in S THEN Closed(sock[s]) ELSE sock[s]]
Forgotten(S) == [w \in Users |-> IF registered[w] \in S THEN None ELSE registered[w]]
\* The connect ends: the pause is restored.
Opened(r) ==
  IF r.up THEN Sock("open", TRUE, r.t, r.got, FALSE, r.born)
  ELSE Sock("closed", FALSE, r.t, r.got, FALSE, FALSE)

\* Mutant: the previous socket of the user stays.
RegisterBeside(s) ==
  /\ sock[s].pc = "loaded"
  /\ registered' = [registered EXCEPT ![User(s)] = s]
  /\ SetSock(s, Opened(sock[s]))
  /\ NoFault /\ UNCHANGED <<rest, dbVars, launch, acking, bet, sweep, eraseVars>>

\* The previous socket of the user is dropped and this one takes its place, also
\* if it was closed meanwhile.
Register(s) ==
  LET prev == registered[User(s)] IN
  /\ sock[s].pc = "loaded"
  /\ registered' = [registered EXCEPT ![User(s)] = s]
  /\ sock' = [Dropped({prev}) EXCEPT ![s] = Opened(sock[s])]
  /\ NoFault /\ UNCHANGED <<rest, dbVars, launch, acking, bet, sweep, eraseVars>>

\* The client goes away.
Disconnect(s) ==
  /\ focus = "play" /\ sock[s].up
  /\ sock' = Dropped({s}) /\ registered' = Forgotten({s})
  /\ NoFault /\ UNCHANGED <<rest, dbVars, launch, acking, bet, sweep, eraseVars>>

(* -------------------------------------------- place_bet, reality_check_ack *)

SetBet(s, pc) == bet' = [bet EXCEPT ![s] = pc]

BetSent(s) ==
  /\ focus = "identity" /\ Authed(s) /\ sock[s].up /\ bet[s] = "none"
  /\ SetBet(s, "check")
  /\ Overlaps
  /\ NoFault /\ UNCHANGED <<rest, dbVars, launch, sock, registered, acking, sweep, erase>>

\* isLive answers, or fails and counts as live; then rgPending is read.
BetChecked(s) ==
  /\ bet[s] = "check"
  /\ \/ Live(sock[s].t) /\ NoFault /\ UNCHANGED raced
     \/ ~Live(sock[s].t) /\ Fault /\ raced' = TRUE
  /\ SetBet(s, IF sock[s].pending THEN "none" ELSE "place")
  /\ UNCHANGED <<rest, dbVars, launch, sock, registered, acking, sweep, erase>>

BetRevoked(s) ==
  /\ bet[s] = "check" /\ ~Live(sock[s].t)
  /\ SetBet(s, "none")
  /\ NoFault /\ UNCHANGED <<rest, dbVars, launch, sock, registered, acking, sweep, eraseVars>>

\* placeBet reserves the bet on the wallet of the token.
BetPlaced(s) ==
  /\ bet[s] = "place"
  /\ open' = open \cup {User(s)}
  /\ SetBet(s, "none")
  /\ NoFault /\ UNCHANGED <<rest, wallet, session, tokens, launch, sock, registered, acking, sweep, eraseVars>>

\* The bets of a wallet have all come to a terminal status.
BetsEnd(w) ==
  /\ w \in open /\ open' = open \ {w}
  /\ NoFault /\ UNCHANGED <<rest, wallet, session, tokens, launch, gameVars, eraseVars>>

\* The player acknowledges, whether or not a check is pending.
Ack(s) ==
  /\ focus = "play" /\ Authed(s) /\ sock[s].up /\ acking[s] = None
  /\ sock' = [r \in Sockets |-> IF sock[r].t # sock[s].t THEN sock[r]
                ELSE Sock(sock[r].pc, sock[r].up, sock[r].t, sock[r].pending /\ r # s, sock[r].got, FALSE)]
  /\ acking' = [acking EXCEPT ![s] = sock[s].t]
  /\ NoFault /\ UNCHANGED <<rest, dbVars, launch, registered, bet, sweep, eraseVars>>

\* realityCheckPendingAt of a session is set or cleared.
SetPend(t, pend) ==
  session' = [session EXCEPT ![t] = Session(@.state, @.w, @.anon, pend)]

\* ackRealityCheck, on a live session; a failed write is only logged.
AckWritten(s) ==
  /\ acking[s] # None
  /\ \/ Live(acking[s]) /\ NoFault /\ SetPend(acking[s], FALSE)
     \/ ~Live(acking[s]) /\ NoFault /\ UNCHANGED session
     \/ Fault /\ UNCHANGED session
  /\ acking' = [acking EXCEPT ![s] = None]
  /\ UNCHANGED <<rest, wallet, tokens, open, launch, sock, registered, bet, sweep, eraseVars>>

(* ------------------------------------------------------------- runRgSweep *)

\* The user's socket as the sweep sees it: registered and still connected.
Seen(w) == registered[w] # None /\ sock[registered[w]].pc = "open"
sweepRest == <<focus, dbVars, launch, acking, bet, eraseVars>>

\* disconnectRevokedSockets asks about the sessions of the registered sockets ...
SweepBegins ==
  LET socks == {registered[w] : w \in {u \in Users : Seen(u)}} IN
  /\ focus = "play" /\ sweep = NoSweep /\ socks # {}
  /\ sweep' = Sweeping("query", socks, Users)
  /\ NoFault /\ UNCHANGED <<checks, sweepRest, sock, registered>>

\* Mutant: only sessions without a row count as dead.
FindNotLiveRemoved(socks) == {s \in socks : session[sock[s].t] = NoSession}

FindNotLive(socks) == {s \in socks : ~Live(sock[s].t)}

SweepReads ==
  /\ sweep.pc = "query"
  /\ sweep' = Sweeping("drop", FindNotLive(sweep.socks), sweep.users)
  /\ NoFault /\ UNCHANGED <<checks, sweepRest, sock, registered>>

\* ... and drops those that are not live.
SweepDrops ==
  /\ sweep.pc = "drop"
  /\ sock' = Dropped(sweep.socks) /\ registered' = Forgotten(sweep.socks)
  /\ sweep' = Sweeping("scan", {}, sweep.users)
  /\ NoFault /\ UNCHANGED <<checks, sweepRest>>

\* rgEvaluate: a check is due. The pause holds in memory at once, the marker is
\* written when the accounting has answered. An interval outlasts an ack's write.
RgFires(w) ==
  LET s == registered[w] IN
  /\ sweep.pc = "scan" /\ w \in sweep.users /\ Seen(w)
  /\ checks < MaxChecks /\ \A r \in Sockets : acking[r] # sock[s].t
  /\ checks' = checks + 1
  /\ SetSock(s, Sock("open", sock[s].up, sock[s].t, TRUE, sock[s].got, sock[s].born))
  /\ sweep' = Sweeping("persist", {s}, sweep.users \ {w})
  /\ NoFault /\ UNCHANGED <<sweepRest, registered>>

\* markRealityCheckPending, on a live session; a failed write is only logged.
RgPersists ==
  /\ sweep.pc = "persist"
  /\ \/ /\ NoFault
        /\ \E s \in sweep.socks : \/ Live(sock[s].t) /\ SetPend(sock[s].t, TRUE)
                                  \/ ~Live(sock[s].t) /\ UNCHANGED session
     \/ Fault /\ UNCHANGED session
  /\ sweep' = Sweeping("scan", {}, sweep.users)
  /\ UNCHANGED <<rest, wallet, tokens, open, launch, sock, registered, acking, bet, eraseVars>>

\* No other check is due, or the query failed: the next interval starts afresh.
SweepEnds ==
  /\ \/ sweep.pc = "scan" /\ NoFault
     \/ sweep.pc = "query" /\ Fault
  /\ sweep' = NoSweep
  /\ UNCHANGED <<checks, sweepRest, sock, registered>>

(* --------------------------------- revokeForWallet, revokeForOperatorPlayer *)

Revoke(w) ==
  /\ session' = [t \in Tickets |->
                   IF session[t].w = w /\ Live(t)
                   THEN Session("revoked", w, session[t].anon, session[t].pend) ELSE session[t]]
  /\ session' # session
  /\ NoFault /\ UNCHANGED <<rest, wallet, tokens, open, launch, gameVars, eraseVars>>

(* --------------------------------------------------------- anonymizePlayer *)

\* Users found by the tag, and by sessions that carry the tombstone.
EraseBegins ==
  LET users == Tagged \cup {session[t].w : t \in {u \in Tickets : session[u].anon}} IN
  /\ focus = "identity" /\ erase = NoErase
  /\ users \cap Tagged # {}
  /\ erase' = Erasing("bets", users)
  /\ raced' = (raced \/ (\E c \in Launchers : launch[c] # NoLaunch) \/ \E s \in Sockets : bet[s] # "none")
  /\ NoFault /\ UNCHANGED <<rest, dbVars, launch, gameVars>>

\* Fail closed on a bet in play ...
EraseCountsBets ==
  /\ erase.pc = "bets"
  /\ erase' = IF erase.users \cap open = {} THEN Erasing("sessions", erase.users) ELSE NoErase
  /\ NoFault /\ UNCHANGED <<rest, dbVars, launch, gameVars, raced>>

\* Mutant: a live session does not stop the erasure.
EraseCountsNothing ==
  /\ erase.pc = "sessions"
  /\ erase' = Erasing("scrub", erase.users)
  /\ NoFault /\ UNCHANGED <<rest, dbVars, launch, gameVars, raced>>

\* ... and on a live session.
EraseCountsSessions ==
  /\ erase.pc = "sessions"
  /\ erase' = IF \E t \in Tickets : Live(t) /\ session[t].w \in erase.users THEN NoErase
              ELSE Erasing("scrub", erase.users)
  /\ NoFault /\ UNCHANGED <<rest, dbVars, launch, gameVars, raced>>

\* One transaction scrubs the users and the sessions of their wallets.
EraseScrubs ==
  /\ erase.pc = "scrub"
  /\ wallet' = [w \in Wallets |-> wallet[w] \/ w \in erase.users]
  /\ session' = [t \in Tickets |->
                   Session(session[t].state, session[t].w, session[t].anon \/ session[t].w \in erase.users,
                           session[t].pend)]
  /\ erase' = NoErase
  /\ NoFault /\ UNCHANGED <<rest, tokens, open, launch, gameVars, raced>>

(* --------------------------------------------------------- specification *)

ConnectStep(s) == LiveAnswers(s) \/ LoadReads(s) \/ Register(s)
MessageStep(s) == BetChecked(s) \/ BetRevoked(s) \/ BetPlaced(s) \/ AckWritten(s)
SweepStep ==
  SweepBegins \/ SweepReads \/ SweepDrops \/ RgPersists \/ SweepEnds \/ \E w \in Users : RgFires(w)

Next ==
  \/ \E c \in Launchers : \/ \E t \in Tickets : Verify(c, t)
                          \/ FindWallet(c) \/ CreateUser(c) \/ CreateSession(c)
                          \/ IssueToken(c) \/ LaunchFails(c)
  \/ \E s \in Sockets : \/ \E t \in Tickets : Connect(s, t)
                        \/ ConnectStep(s) \/ LoadFails(s) \/ Disconnect(s)
                        \/ BetSent(s) \/ MessageStep(s) \/ Ack(s)
  \/ \E w \in Wallets : BetsEnd(w) \/ Revoke(w)
  \/ SweepStep
  \/ EraseBegins \/ EraseCountsBets \/ EraseCountsSessions \/ EraseScrubs

Spec == Init /\ [][Next]_vars

\* Statements return and the sweep's interval fires; users need not act.
Fairness == WF_vars(SweepStep) /\ \A s \in Sockets : WF_vars(ConnectStep(s))
FairSpec == Spec /\ Fairness

(* ------------------------------------------------------------ properties *)

\* A launch ticket starts the game once, although two submissions of it pass the
\* first look together.
OneTokenPerTicket == \A t \in Tickets : tokens[t] <= 1

\* Concurrent first launches end on one wallet: the player's money is not split,
\* and the sessions of a wallet agree on whose it is.
OneWalletPerPlayer == Cardinality(Tagged) <= 1

\* One game socket per user: whichever connects overlap or end after their client
\* went away, a socket that plays is the one userSockets names, which is the only
\* one the sweep looks at.
PlayingIsRegistered ==
  \A s \in Sockets : sock[s].pc = "open" => registered[User(s)] = s

\* "the hard-pause survives a reconnect": a check that the database had as pending
\* when a socket began to connect, and that was not acknowledged since, blocks the
\* bets of that socket once it is connected, also when the reload failed. A check
\* that has fired on another socket and is still being written (runRgSweep,
\* game.gateway.ts:305-341) does not count.
PauseSurvivesReconnect ==
  \A s \in Sockets : sock[s].pc = "open" /\ sock[s].born => sock[s].pending

\* Erasure fails closed: a scrubbed player has no bet in play, no live session and
\* no session that still names it, unless a launch or a bet overlapped the erasure
\* or a failed isLive let one through.
ErasedIsSettled ==
  ~raced => \A w \in Wallets : wallet[w] =>
    /\ w \notin open
    /\ \A t \in Tickets : session[t].w = w => session[t].anon /\ ~Live(t)

\* "we never scrub identity off an in-flight obligation", whatever overlaps.
NeverScrubsInFlight ==
  \A t \in Tickets : session[t].anon => ~Live(t) /\ session[t].w \notin open

\* A ticket is consumed by its session, which keeps the wallet it was made for.
SessionsFit ==
  \A t \in Tickets :
    /\ session[t].state = "none" => session[t] = NoSession /\ tokens[t] = 0
    /\ session[t].state # "none" => session[t].w \in Wallets

\* A launch holds its ticket and, once found, a wallet; the one that consumed the ticket
\* is the only one that will hand out a token for it.
LaunchesFit ==
  /\ \A c \in Launchers :
       /\ launch[c].pc = "idle" => launch[c] = NoLaunch
       /\ launch[c].pc # "idle" => launch[c].t \in Tickets
       /\ launch[c].pc \in {"session", "token"} => launch[c].w \in Wallets
       /\ launch[c].pc = "token" => session[launch[c].t].state # "none" /\ tokens[launch[c].t] = 0
  /\ \A c, d \in Launchers :
       launch[c].pc = "token" /\ launch[d].pc = "token" /\ launch[c].t = launch[d].t => c = d

\* A socket has the session of its play token, and bets only with an identity.
SocksFit ==
  \A s \in Sockets :
    /\ sock[s].pc # "idle" => sock[s].t \in Tickets /\ session[sock[s].t].state # "none"
    /\ bet[s] # "none" => Authed(s)

\* What was pending when a socket began to connect is still owed, and read as such.
PauseIsOwed ==
  \A s \in Sockets : sock[s].born =>
    /\ sock[s].pc # "idle" /\ Owed(sock[s].t)
    /\ sock[s].pc = "loaded" => sock[s].got

\* What an erasure that nothing overlaps has found stays so to its transaction, and
\* neither a launch nor a bet is left that could act on a scrubbed wallet.
EraseFits ==
  /\ erase.users \subseteq Wallets /\ (erase.pc = "idle" => erase = NoErase)
  /\ ~raced =>
       /\ erase.pc # "idle" => (\A c \in Launchers : launch[c] = NoLaunch) /\ \A s \in Sockets : bet[s] = "none"
       /\ erase.pc \in {"sessions", "scrub"} => erase.users \cap open = {}
       /\ erase.pc = "scrub" => \A t \in Tickets : Live(t) => session[t].w \notin erase.users
       /\ \A c \in Launchers : launch[c].pc = "session" => ~wallet[launch[c].w]
       /\ \A s \in Sockets : bet[s] = "place" => ~wallet[User(s)]

\* The invariant of a player's identity: one game per ticket, one wallet per player, one
\* registered socket, a pause that holds, an erasure that fails closed, and what keeps them.
IdentityInv ==
  /\ TypeOK /\ OneTokenPerTicket /\ OneWalletPerPlayer
  /\ SessionsFit /\ LaunchesFit /\ SocksFit
  /\ PlayingIsRegistered /\ PauseIsOwed /\ PauseSurvivesReconnect /\ EraseFits /\ ErasedIsSettled

\* A revoked session is cut off: each socket that plays under it is dropped by the
\* sweep, also one whose connect passed isLive just before.
RevokedIsDropped ==
  \A s \in Sockets, t \in Tickets :
    focus = "play" /\ session[t].state = "revoked" /\ sock[s].pc = "open" /\ sock[s].t = t
      ~> ~(sock[s].pc = "open" /\ sock[s].t = t)
=============================================================================
