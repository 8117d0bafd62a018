-------------------------------- MODULE Arcade --------------------------------
(***************************************************************************)
(* The games of one player, which grant hash rate: Hash Tap Sprint over    *)
(* HTTP, whose sessions are rows, and the memory and match-3 games over    *)
(* sockets, whose rounds and cooldowns are in memory.                      *)
(*                                                                         *)
(* A request of the former takes its time before it has the player's row   *)
(* locked, and then does all it does in one transaction.  A start of the   *)
(* latter checks the cooldown, waits for the database and puts a round at  *)
(* its socket, whatever has happened there meanwhile; everything else is   *)
(* done at once.  The player plays one of the three in a behaviour; each    *)
(* has a cooldown of its own.                                              *)
(*                                                                         *)
(* Left out: the boards (a pair or a swap is good or not, and brings the   *)
(* end nearer), and how long a reward lasts.                               *)
(***************************************************************************)
EXTENDS Integers

CONSTANTS
  Hands,       \* requests in progress
  MaxTick,     \* bound on the clock
  Rest,        \* MINIGAME_COOLDOWN_MS, GAME_COOLDOWN_MS
  Duration,    \* MINIGAME_DURATION_MS,
  Early,       \*   MINIGAME_COMPLETE_EARLY_MS
  Late,        \*   and MINIGAME_COMPLETE_LATE_MS
  MaxRounds,   \* bound on the rows of minigame_sessions
  Sockets,     \* connections of the player
  Goal,        \* pairs of the memory game; what a match-3 game asks for
  MinPlay      \* the 15 seconds that a win must have taken

ASSUME ArcadeAssumption ==
  /\ MaxTick \in Nat /\ Rest \in Nat /\ Duration \in Nat /\ Early \in 0 .. Duration
  /\ Sockets \cap Hands = {}
  /\ Late \in Nat /\ MaxRounds \in Nat /\ Goal \in Nat \ {0} /\ MinPlay \in Nat

VARIABLES
  booth,       \* what is played: Hash Tap Sprint, or a game over sockets
  tick,
  hand,        \* requests in progress
  session,     \* minigame_sessions: status, endsAt, completedAt
  tapped,      \* how often each session was rewarded
  online,      \* sockets that are connected
  desk,        \* GAME_SESSIONS
  lastFinish,  \* LAST_GAME_FINISH of the game
  lastWin,     \* history: when a win was rewarded last
  hasty,       \* history: two wins were rewarded within a cooldown
  doubled,     \* history: two rounds were under way at a time, or the server restarted
  odd          \* history: sockets with a start during a round, or closed during a start

taps == <<session, tapped>>
wins == <<lastWin, hasty>>
cards == <<online, desk, lastFinish, wins>>
arcadeVars == <<booth, tick, hand, taps, cards, doubled, odd>>

Unset == -1
NoRound == [begun |-> 0, left |-> 0, flipped |-> 0, timer |-> FALSE]
IdleHand == [kind |-> "none", at |-> 0, round |-> 0]
Rounds == 1 .. MaxRounds

ArcadeInit ==
  /\ booth \in {"tap", "crypto-memory", "crypto-match-3"}
  /\ tick = 0
  /\ hand = [r \in Hands |-> IdleHand]
  /\ session = [n \in Rounds |-> [status |-> "none", ends |-> 0, completed |-> Unset]]
  /\ tapped = [n \in Rounds |-> 0]
  /\ online = Sockets
  /\ desk = [s \in Sockets |-> NoRound]
  /\ lastFinish = Unset /\ lastWin = Unset
  /\ hasty = FALSE /\ doubled = FALSE /\ odd = {}

PassTime ==
  /\ tick < MaxTick
  /\ tick' = tick + 1
  /\ UNCHANGED <<hand, taps, cards>>

Free(r) == hand[r] = IdleHand
LetGo(r) == hand' = [hand EXCEPT ![r] = IdleHand]

-----------------------------------------------------------------------------
(* getMinigameStatus, startMinigameSession, completeMinigameSession        *)

\* n is the session that is completed.
Request(r, kind, n) ==
  /\ Free(r)
  /\ kind = "complete" => session[n].status # "none"
  /\ hand' = [hand EXCEPT ![r] = [kind |-> kind, at |-> tick, round |-> n]]
  /\ UNCHANGED <<tick, taps, cards>>

\* mutant: a rewarded session does not count
Rested(t) == TRUE

\* computeCooldownEndsAt of the last rewarded session.
Recovered(t) == \A n \in Rounds : session[n].completed = Unset \/ session[n].completed + Rest <= t

\* expireStaleActiveSessions
WithExpired(t) ==
  [n \in Rounds |->
     IF session[n].status = "ACTIVE" /\ session[n].ends <= t - Late
       THEN [session[n] EXCEPT !.status = "EXPIRED"] ELSE session[n]]

MinigameStatus(r) ==
  /\ hand[r].kind = "status"
  /\ session' = WithExpired(hand[r].at)
  /\ LetGo(r)
  /\ UNCHANGED <<tick, tapped, cards>>

\* A session that is active is given again.
StartSession(r) ==
  LET t == hand[r].at
      rows == WithExpired(t)
  IN /\ hand[r].kind = "start"
     /\ \/ /\ ~Recovered(t) \/ \E n \in Rounds : rows[n].status = "ACTIVE"
           /\ session' = rows
        \/ /\ Recovered(t) /\ \A n \in Rounds : rows[n].status # "ACTIVE"
           /\ \E n \in Rounds :
                /\ \A m \in Rounds : rows[m].status = "none" <=> m >= n
                /\ session' = [rows EXCEPT ![n] = [status |-> "ACTIVE", ends |-> t + Duration,
                                                   completed |-> Unset]]
     /\ LetGo(r)
     /\ UNCHANGED <<tick, tapped, cards>>

\* isWithinCompleteWindow
Within(ends, t) == t >= ends - Early /\ t <= ends + Late

\* A session that was rewarded is only told so again.
CompleteSession(r) ==
  LET t == hand[r].at
      n == hand[r].round
      rows == WithExpired(t)
      active == rows[n].status = "ACTIVE"
  IN /\ hand[r].kind = "complete"
     /\ \/ /\ active /\ Within(rows[n].ends, t)
           /\ tapped' = [tapped EXCEPT ![n] = @ + 1]
           /\ session' = [rows EXCEPT ![n].status = "COMPLETED", ![n].completed = t]
        \/ /\ ~active \/ t < rows[n].ends - Early
           /\ session' = rows
           /\ UNCHANGED tapped
        \/ /\ active /\ t > rows[n].ends + Late
           /\ session' = [rows EXCEPT ![n].status = "EXPIRED"]
           /\ UNCHANGED tapped
     /\ LetGo(r)
     /\ UNCHANGED <<tick, cards>>

\* The transaction fails.
LoseHand(r) == ~Free(r) /\ LetGo(r) /\ UNCHANGED <<tick, taps, cards>>

-----------------------------------------------------------------------------
(* registerGamesSocketHandlers                                             *)

Cooled == lastFinish = Unset \/ tick - lastFinish >= Rest

\* "game:start" up to the await.  The timer of the socket's round is cleared
\* first, though the start may be refused (in a cooldown, or as the game is
\* paused or the session over).
ReadGame(r, s) ==
  /\ s \in online /\ Free(r)
  /\ desk' = [desk EXCEPT ![s].timer = FALSE]
  /\ \/ Cooled /\ hand' = [hand EXCEPT ![r] = [kind |-> "game", at |-> 0, round |-> s]]
     \/ UNCHANGED hand
  /\ UNCHANGED <<tick, taps, online, lastFinish, wins>>

\* Another round of the socket is replaced.
SetGame(r) ==
  /\ hand[r].kind = "game"
  /\ desk' = [desk EXCEPT ![hand[r].round] =
       [begun |-> tick, left |-> Goal, flipped |-> 0, timer |-> FALSE]]
  /\ LetGo(r)
  /\ UNCHANGED <<tick, taps, online, lastFinish, wins>>

Playing(s) == s \in online /\ desk[s] # NoRound

\* finishGame.  A win that took long enough is rewarded, unless a query fails.
FinishGame(s, success) ==
  /\ desk' = [desk EXCEPT ![s] = NoRound]
  /\ lastFinish' = tick
  /\ \/ /\ success /\ tick - desk[s].begun >= MinPlay
        /\ lastWin' = tick
        /\ hasty' = (hasty \/ (lastWin # Unset /\ tick - lastWin < Rest))
     \/ UNCHANGED wins

Flip(s) ==
  /\ booth = "crypto-memory" /\ Playing(s) /\ desk[s].flipped < 2
  /\ \/ /\ desk[s].flipped = 0
        /\ desk' = [desk EXCEPT ![s].flipped = 1]
        /\ UNCHANGED <<lastFinish, wins>>
     \/ /\ desk[s].flipped = 1
        /\ desk' = [desk EXCEPT ![s].flipped = 2, ![s].timer = TRUE]
        /\ UNCHANGED <<lastFinish, wins>>
     \/ /\ desk[s].flipped = 1
        /\ IF desk[s].left = 1 THEN FinishGame(s, TRUE)
           ELSE /\ desk' = [desk EXCEPT ![s].flipped = 0, ![s].left = @ - 1]
                /\ UNCHANGED <<lastFinish, wins>>
  /\ UNCHANGED <<tick, hand, taps, online>>

\* The timer of a mismatch.
FlipBack(s) ==
  /\ desk[s].timer
  /\ desk' = [desk EXCEPT ![s].timer = FALSE, ![s].flipped = 0]
  /\ UNCHANGED <<tick, hand, taps, online, lastFinish, wins>>

\* handleMatch3Swap, of a swap that makes a match
Swap(s) ==
  /\ booth = "crypto-match-3" /\ Playing(s)
  /\ \E points \in 1 .. desk[s].left :
       IF points = desk[s].left THEN FinishGame(s, TRUE)
       ELSE desk' = [desk EXCEPT ![s].left = @ - points] /\ UNCHANGED <<lastFinish, wins>>
  /\ UNCHANGED <<tick, hand, taps, online>>

EndGame(s) ==
  /\ Playing(s)
  /\ FinishGame(s, FALSE)
  /\ UNCHANGED <<tick, hand, taps, online>>

Disconnect(s) ==
  /\ s \in online
  /\ online' = online \ {s}
  /\ desk' = [desk EXCEPT ![s] = NoRound]
  /\ UNCHANGED <<tick, hand, taps, lastFinish, wins>>

\* The server starts again; a socket that stays online is connected anew.
RestartGames ==
  /\ hand' = [r \in Hands |-> IdleHand]
  /\ desk' = [s \in Sockets |-> NoRound]
  /\ lastFinish' = Unset
  /\ \E gone \in SUBSET online : gone # {} /\ online' = online \ gone
  /\ UNCHANGED <<tick, taps, wins>>

-----------------------------------------------------------------------------
TapRequest(r) ==
  \/ Request(r, "status", 0) \/ Request(r, "start", 0)
  \/ \E n \in Rounds : Request(r, "complete", n)
  \/ MinigameStatus(r) \/ StartSession(r) \/ CompleteSession(r)

Play(s) ==
  \/ Flip(s) \/ FlipBack(s) \/ Swap(s) \/ EndGame(s) \/ Disconnect(s)
  \/ \E r \in Hands : ReadGame(r, s)

Asked(s) == {r \in Hands : hand[r].kind = "game" /\ hand[r].round = s}

\* Rounds that are played, and starts on their way.
UnderWay == {s \in Sockets : Playing(s)} \cup {r \in Hands : hand[r].kind = "game"}

Several == \E x, y \in UnderWay : x # y

ArcadeNext ==
  /\ \/ PassTime
     \/ \E r \in Hands : LoseHand(r)
     \/ booth = "tap" /\ \E r \in Hands : TapRequest(r)
     \/ booth # "tap" /\ ((\E s \in Sockets : Play(s)) \/ (\E r \in Hands : SetGame(r)))
     \/ booth # "tap" /\ RestartGames
  /\ doubled' = (doubled \/ (lastFinish # Unset /\ lastFinish' = Unset) \/ Several')
  /\ odd' = odd \cup
       {s \in Sockets : \/ desk[s].timer /\ ~desk'[s].timer /\ desk'[s].flipped = 2
                        \/ s \notin online' /\ Asked(s)' # {}}
  /\ UNCHANGED booth

ArcadeSpec == ArcadeInit /\ [][ArcadeNext]_arcadeVars

-----------------------------------------------------------------------------
\* "COOLDOWN_ACTIVE", "SESSION_NOT_ACTIVE": whatever the order in which the
\* requests of a player are served, a session of Hash Tap Sprint is rewarded
\* at most once and in its window, and two of them are a cooldown apart.
\* The wins of a game over sockets are so unless two of its rounds were
\* under way at a time, or the server has forgotten them; the round of a
\* socket ends with it, and two cards that do not match will be turned back,
\* unless a start came between.
GamesPaced ==
  /\ \A n \in Rounds :
       /\ tapped[n] = IF session[n].status = "COMPLETED" THEN 1 ELSE 0
       /\ tapped[n] = 1 => Within(session[n].ends, session[n].completed)
       /\ \A m \in Rounds \ {n} :
            tapped[n] = 1 /\ tapped[m] = 1 =>
              session[n].completed - session[m].completed \notin -Rest + 1 .. Rest - 1
  /\ hasty => doubled
  /\ \A s \in Sockets \ odd :
       /\ desk[s] # NoRound => s \in online
       /\ desk[s].flipped = 2 => desk[s].timer

=============================================================================
