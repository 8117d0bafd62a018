---------------------------- MODULE Rewards_proofs ----------------------------
(***************************************************************************)
(* Proofs about what players are rewarded for: the games, the errands, the *)
(* campaigns, the missions with the pass, and the check-in.  They hold for *)
(* any requests, players, rows, limits, costs and bounds.                  *)
(*                                                                         *)
(* The handlers check, and write later.  So each invariant says of a       *)
(* request that is in progress, and that none of its kind has met, what it *)
(* may still rely on when it writes; the history variables of the modules  *)
(* say which have met.                                                     *)
(***************************************************************************)
EXTENDS Credits, Engagement, Sums_proofs, TLAPS

(***************************************************************************)
(* The games                                                               *)
(*                                                                         *)
(* Hash Tap Sprint (Tapped): there is at most one active session, and it   *)
(* was started a cooldown after every rewarded one; it is rewarded no      *)
(* earlier than it was started, so the order in which the lock is taken    *)
(* does not matter.  The games over sockets (Carded): as long as no two    *)
(* rounds were under way at a time, one that is under way began a cooldown *)
(* after the last finish, and no win is later than that.                   *)
(***************************************************************************)

Statuses == {"none", "ACTIVE", "COMPLETED", "EXPIRED"}
SessionRecord == [status : Statuses, ends : Nat, completed : Nat \cup {Unset}]
HandRecord == [kind : {"none", "status", "start", "complete", "game"}, at : Nat,
               round : Rounds \cup {0} \cup Sockets]
DeskRecord == [begun : Nat, left : Nat, flipped : 0 .. 2, timer : BOOLEAN]

ArcadeTypeOK ==
  /\ tick \in Nat
  /\ hand \in [Hands -> HandRecord]
  /\ \A r \in Hands : /\ hand[r].kind = "game" => hand[r].round \in Sockets
                      /\ hand[r].kind = "complete" => hand[r].round \in Rounds
  /\ session \in [Rounds -> SessionRecord]
  /\ tapped \in [Rounds -> Nat]
  /\ online \subseteq Sockets
  /\ desk \in [Sockets -> DeskRecord]
  /\ \A s \in Sockets : desk[s] # NoRound => desk[s].left >= 1
  /\ lastFinish \in Nat \cup {Unset} /\ lastFinish <= tick
  /\ lastWin \in Nat \cup {Unset} /\ lastWin <= tick
  /\ hasty \in BOOLEAN /\ doubled \in BOOLEAN

Done(n) == session[n].status = "COMPLETED"
Active(n) == session[n].status = "ACTIVE"

\* A session is rewarded once if it is completed, and in its window.
Rewarded(n) ==
  /\ tapped[n] = IF Done(n) THEN 1 ELSE 0
  /\ Done(n) <=> session[n].completed # Unset
  /\ Done(n) => Within(session[n].ends, session[n].completed)

\* An active session was started a cooldown after each completed one, and
\* there is no other; two completed ones are a cooldown apart.
Spaced(n, m) ==
  /\ Active(n) => ~Active(m)
  /\ Active(n) /\ Done(m) => session[m].completed + Rest <= session[n].ends - Duration
  /\ Done(n) /\ Done(m) => \/ session[n].completed + Rest <= session[m].completed
                           \/ session[m].completed + Rest <= session[n].completed

Tapped ==
  /\ \A n \in Rounds : Rewarded(n)
  /\ \A n, m \in Rounds : n # m => Spaced(n, m)

SinceFinish == lastFinish = Unset \/ tick - lastFinish >= Rest

Carded ==
  /\ hasty => doubled
  /\ ~doubled =>
       /\ ~Several
       /\ UnderWay # {} => SinceFinish
       /\ lastWin # Unset => lastFinish # Unset /\ lastWin <= lastFinish

\* The round of a socket, its timer and the starts on their way to it.
Kept(s) ==
  /\ desk[s] # NoRound => s \in online
  /\ desk[s].flipped = 2 => desk[s].timer
  /\ s \notin online => Asked(s) = {}

ArcadeInv ==
  /\ ArcadeTypeOK /\ Tapped /\ Carded
  /\ \A s \in Sockets \ odd : Kept(s)

-----------------------------------------------------------------------------
(* Types                                                                   *)

LEMMA Constants ==
  /\ IdleHand \in HandRecord /\ NoRound \in DeskRecord
  /\ \A n \in Rounds : n \in Nat
BY DEF IdleHand, HandRecord, NoRound, DeskRecord, Rounds

\* The sessions whose time is over have no other status or time.
LEMMA Expiry ==
  ASSUME session \in [Rounds -> SessionRecord], NEW t \in Nat
  PROVE  /\ WithExpired(t) \in [Rounds -> SessionRecord]
         /\ \A n \in Rounds :
              /\ WithExpired(t)[n].ends = session[n].ends
              /\ WithExpired(t)[n].completed = session[n].completed
              /\ WithExpired(t)[n].status = "COMPLETED" <=> Done(n)
              /\ WithExpired(t)[n].status = "ACTIVE" => Active(n)
              /\ WithExpired(t)[n].status = "none" <=> session[n].status = "none"
<1>1. ASSUME NEW n \in Rounds
      PROVE  /\ WithExpired(t)[n] \in SessionRecord
             /\ WithExpired(t)[n].ends = session[n].ends
             /\ WithExpired(t)[n].completed = session[n].completed
             /\ WithExpired(t)[n].status = "COMPLETED" <=> Done(n)
             /\ WithExpired(t)[n].status = "ACTIVE" => Active(n)
             /\ WithExpired(t)[n].status = "none" <=> session[n].status = "none"
  <2>1. session[n] \in SessionRecord
    BY <1>1
  <2>2. CASE ~(Active(n) /\ session[n].ends <= t - Late)
    <3>1. WithExpired(t)[n] = session[n]
      BY <2>2 DEF WithExpired, Active
    <3> QED
      BY <2>1, <3>1 DEF SessionRecord, Statuses, Done, Active
  <2>3. CASE Active(n) /\ session[n].ends <= t - Late
    <3>1. WithExpired(t)[n] = [session[n] EXCEPT !.status = "EXPIRED"]
      BY <2>3 DEF WithExpired, Active
    <3>2. [session[n] EXCEPT !.status = "EXPIRED"] \in SessionRecord
      BY <2>1 DEF SessionRecord, Statuses
    <3>3. /\ WithExpired(t)[n].status = "EXPIRED"
          /\ WithExpired(t)[n].ends = session[n].ends
          /\ WithExpired(t)[n].completed = session[n].completed
      BY <2>1, <3>1 DEF SessionRecord
    <3> QED
      BY <2>3, <3>1, <3>2, <3>3 DEF Done, Active
  <2> QED
    BY <2>2, <2>3
<1>2. WithExpired(t) = [n \in Rounds |-> WithExpired(t)[n]]
  BY DEF WithExpired
<1> QED
  BY <1>1, <1>2

\* A finish leaves the rounds, the cooldown and the wins in their types.
LEMMA FinishType ==
  ASSUME ArcadeTypeOK, NEW s \in Sockets, NEW success \in BOOLEAN, FinishGame(s, success)
  PROVE  /\ desk' = [desk EXCEPT ![s] = NoRound]
         /\ desk' \in [Sockets -> DeskRecord]
         /\ \A z \in Sockets : desk'[z] # NoRound => desk'[z].left >= 1
         /\ lastFinish' = tick /\ lastFinish' \in Nat
         /\ lastWin' \in Nat \cup {Unset} /\ lastWin' <= tick
         /\ hasty' \in BOOLEAN
<1>1. /\ desk' = [desk EXCEPT ![s] = NoRound] /\ lastFinish' = tick
  BY DEF FinishGame
<1>2. desk' \in [Sockets -> DeskRecord]
  BY <1>1, Constants DEF ArcadeTypeOK
<1>3. \A z \in Sockets : desk'[z] # NoRound => desk'[z].left >= 1
  BY <1>1 DEF ArcadeTypeOK
<1>4. lastWin' \in Nat \cup {Unset} /\ lastWin' <= tick
  BY DEF FinishGame, ArcadeTypeOK, wins
<1>5. hasty' \in BOOLEAN
  <2>1. hasty' = hasty \/ hasty' = (hasty \/ (lastWin # Unset /\ tick - lastWin < Rest))
    BY DEF FinishGame, wins
  <2> QED
    BY <2>1 DEF ArcadeTypeOK
<1> QED
  BY <1>1, <1>2, <1>3, <1>4, <1>5 DEF ArcadeTypeOK

\* A request, or the end of one, in the types of the hands.
LEMMA HandType ==
  ASSUME ArcadeTypeOK, NEW r \in Hands,
         NEW k \in {"none", "status", "start", "complete", "game"}, NEW t \in Nat,
         NEW x \in Rounds \cup {0} \cup Sockets,
         k = "game" => x \in Sockets, k = "complete" => x \in Rounds,
         hand' = [hand EXCEPT ![r] = [kind |-> k, at |-> t, round |-> x]]
  PROVE  /\ hand' \in [Hands -> HandRecord]
         /\ \A q \in Hands : /\ hand'[q].kind = "game" => hand'[q].round \in Sockets
                             /\ hand'[q].kind = "complete" => hand'[q].round \in Rounds
<1>1. [kind |-> k, at |-> t, round |-> x] \in HandRecord
  BY DEF HandRecord
<1>2. hand' \in [Hands -> HandRecord]
  BY <1>1 DEF ArcadeTypeOK
<1>3. \A q \in Hands : hand'[q] = IF q = r THEN [kind |-> k, at |-> t, round |-> x] ELSE hand[q]
  BY DEF ArcadeTypeOK
<1> QED
  BY <1>2, <1>3 DEF ArcadeTypeOK

LEMMA LetGoType ==
  ASSUME ArcadeTypeOK, NEW r \in Hands, LetGo(r)
  PROVE  /\ hand' \in [Hands -> HandRecord]
         /\ \A q \in Hands : /\ hand'[q].kind = "game" => hand'[q].round \in Sockets
                             /\ hand'[q].kind = "complete" => hand'[q].round \in Rounds
BY HandType DEF LetGo, IdleHand

\* The time of a request and the session it completes.
LEMMA HandOf ==
  ASSUME ArcadeTypeOK, NEW r \in Hands
  PROVE  /\ hand[r].at \in Nat
         /\ hand[r].kind = "complete" => hand[r].round \in Rounds
         /\ hand[r].kind = "game" => hand[r].round \in Sockets
<1>1. hand[r] \in HandRecord
  BY DEF ArcadeTypeOK
<1> QED
  BY <1>1 DEF HandRecord, ArcadeTypeOK

\* Two cards that do not match, and that are turned back.
LEMMA RoundType ==
  ASSUME NEW d \in DeskRecord
  PROVE  /\ [d EXCEPT !.timer = FALSE, !.flipped = 0] \in DeskRecord
         /\ [d EXCEPT !.flipped = 2, !.timer = TRUE] \in DeskRecord
<1> DEFINE y == [d EXCEPT !.timer = FALSE]
           z == [d EXCEPT !.flipped = 2]
<1>1. y \in DeskRecord
  BY DEF DeskRecord
<1>a. z \in DeskRecord
  BY DEF DeskRecord
<1>2. [d EXCEPT !.timer = FALSE, !.flipped = 0] = [y EXCEPT !.flipped = 0]
  OBVIOUS
<1>3. [d EXCEPT !.flipped = 2, !.timer = TRUE] = [z EXCEPT !.timer = TRUE]
  OBVIOUS
<1> HIDE DEF y, z
<1>4. [y EXCEPT !.flipped = 0] \in DeskRecord
  BY <1>1 DEF DeskRecord
<1>5. [z EXCEPT !.timer = TRUE] \in DeskRecord
  BY <1>a DEF DeskRecord
<1>6. [d EXCEPT !.timer = FALSE, !.flipped = 0] \in DeskRecord
  BY <1>2, <1>4
<1>7. [d EXCEPT !.flipped = 2, !.timer = TRUE] \in DeskRecord
  BY <1>3, <1>5
<1> QED
  BY <1>6, <1>7

LEMMA TypeNext ==
  ASSUME ArcadeTypeOK, ArcadeNext
  PROVE  ArcadeTypeOK'
<1>0. Rest \in Nat /\ Duration \in Nat /\ Goal \in Nat /\ Goal >= 1
  BY ArcadeAssumption
<1>a. doubled' \in BOOLEAN
  BY DEF ArcadeNext
<1>1. CASE PassTime
  BY <1>1, <1>a DEF PassTime, taps, cards, wins, ArcadeTypeOK
<1>2. ASSUME NEW r \in Hands, LoseHand(r) PROVE ArcadeTypeOK'
  BY <1>2, <1>a, LetGoType DEF LoseHand, taps, cards, wins, ArcadeTypeOK
<1>3. ASSUME NEW r \in Hands, TapRequest(r) PROVE ArcadeTypeOK'
  <2>1. ASSUME NEW k \in {"status", "start", "complete"}, NEW n \in Rounds \cup {0},
               k = "complete" => n \in Rounds, Request(r, k, n)
        PROVE  ArcadeTypeOK'
    <3>1. hand' = [hand EXCEPT ![r] = [kind |-> k, at |-> tick, round |-> n]]
      BY <2>1 DEF Request
    <3>2. tick \in Nat
      BY DEF ArcadeTypeOK
    <3>3. /\ hand' \in [Hands -> HandRecord]
          /\ \A q \in Hands : /\ hand'[q].kind = "game" => hand'[q].round \in Sockets
                              /\ hand'[q].kind = "complete" => hand'[q].round \in Rounds
      BY <2>1, <3>1, <3>2, HandType
    <3> QED
      BY <2>1, <3>3, <1>a DEF Request, taps, cards, wins, ArcadeTypeOK
  <2>2. CASE MinigameStatus(r)
    <3>1. session' \in [Rounds -> SessionRecord]
      BY <2>2, HandOf, Expiry DEF MinigameStatus, ArcadeTypeOK
    <3> QED
      BY <2>2, <3>1, <1>a, LetGoType DEF MinigameStatus, cards, wins, ArcadeTypeOK
  <2>3. CASE StartSession(r)
    <3>1. session' \in [Rounds -> SessionRecord]
      <4> DEFINE rows == WithExpired(hand[r].at)
                 new == [status |-> "ACTIVE", ends |-> hand[r].at + Duration, completed |-> Unset]
      <4>1. rows \in [Rounds -> SessionRecord] /\ hand[r].at \in Nat
        BY HandOf, Expiry DEF ArcadeTypeOK
      <4>2. new \in SessionRecord
        BY <1>0, <4>1 DEF SessionRecord, Statuses
      <4>3. session' = rows \/ \E n \in Rounds : session' = [rows EXCEPT ![n] = new]
        BY <2>3 DEF StartSession
      <4> HIDE DEF rows, new
      <4> QED
        BY <4>1, <4>2, <4>3
    <3> QED
      BY <2>3, <3>1, <1>a, LetGoType DEF StartSession, cards, wins, ArcadeTypeOK
  <2>4. CASE CompleteSession(r)
    <3> DEFINE rows == WithExpired(hand[r].at)
               n == hand[r].round
    <3>1. rows \in [Rounds -> SessionRecord] /\ hand[r].at \in Nat /\ n \in Rounds
      BY <2>4, HandOf, Expiry DEF ArcadeTypeOK, CompleteSession
    <3>2. rows[n] \in SessionRecord
      BY <3>1
    <3>3. \/ session' = rows
          \/ session' = [rows EXCEPT ![n] = [rows[n] EXCEPT !.status = "EXPIRED"]]
          \/ session' = [rows EXCEPT ![n].status = "COMPLETED", ![n].completed = hand[r].at]
      BY <2>4 DEF CompleteSession
    <3>4. session' = rows \/ \E x \in SessionRecord : session' = [rows EXCEPT ![n] = x]
      <4>1. [rows[n] EXCEPT !.status = "EXPIRED"] \in SessionRecord
        BY <3>2 DEF SessionRecord, Statuses
      <4>2. ASSUME session' = [rows EXCEPT ![n].status = "COMPLETED", ![n].completed = hand[r].at]
            PROVE  session' = [rows EXCEPT ![n] = [status |-> "COMPLETED", ends |-> rows[n].ends,
                                                   completed |-> hand[r].at]]
        BY <4>2, <3>1, <3>2 DEF SessionRecord
      <4>3. [status |-> "COMPLETED", ends |-> rows[n].ends, completed |-> hand[r].at] \in SessionRecord
        BY <3>1, <3>2 DEF SessionRecord, Statuses
      <4> QED
        BY <3>3, <4>1, <4>2, <4>3
    <3>5. session' \in [Rounds -> SessionRecord]
      <4> HIDE DEF rows, n
      <4> QED
        BY <3>1, <3>4
    <3>6. tapped' \in [Rounds -> Nat]
      <4>1. tapped' = tapped \/ tapped' = [tapped EXCEPT ![n] = @ + 1]
        BY <2>4 DEF CompleteSession
      <4> QED
        BY <3>1, <4>1 DEF ArcadeTypeOK
    <3> QED
      BY <2>4, <3>5, <3>6, <1>a, LetGoType DEF CompleteSession, cards, wins, ArcadeTypeOK
  <2> QED
    BY <1>3, <2>1, <2>2, <2>3, <2>4 DEF TapRequest
<1>4. ASSUME NEW r \in Hands, SetGame(r) PROVE ArcadeTypeOK'
  <2> DEFINE new == [begun |-> tick, left |-> Goal, flipped |-> 0, timer |-> FALSE]
  <2>1. hand[r].round \in Sockets
    BY <1>4, HandOf DEF SetGame
  <2>2. new \in DeskRecord /\ new.left >= 1
    BY <1>0 DEF DeskRecord, ArcadeTypeOK
  <2>3. desk' = [desk EXCEPT ![hand[r].round] = new]
    BY <1>4 DEF SetGame
  <2>4. /\ desk' \in [Sockets -> DeskRecord]
        /\ \A s \in Sockets : desk'[s] # NoRound => desk'[s].left >= 1
    <3> HIDE DEF new
    <3> QED
      BY <2>1, <2>2, <2>3 DEF ArcadeTypeOK
  <2> QED
    BY <1>4, <1>a, <2>4, LetGoType DEF SetGame, taps, wins, ArcadeTypeOK
<1>5. ASSUME NEW s \in Sockets, Play(s) PROVE ArcadeTypeOK'
  <2>0. /\ desk \in [Sockets -> DeskRecord]
        /\ desk[s] \in DeskRecord /\ (desk[s] # NoRound => desk[s].left >= 1)
    BY <1>5 DEF ArcadeTypeOK
  <2>a. ASSUME NEW x \in DeskRecord, desk' = [desk EXCEPT ![s] = x], x # NoRound => x.left >= 1
        PROVE  /\ desk' \in [Sockets -> DeskRecord]
               /\ \A z \in Sockets : desk'[z] # NoRound => desk'[z].left >= 1
    BY <2>a DEF ArcadeTypeOK
  <2>1. CASE Flip(s)
    <3>1. CASE FinishGame(s, TRUE)
      <4>1. /\ desk' \in [Sockets -> DeskRecord]
            /\ \A z \in Sockets : desk'[z] # NoRound => desk'[z].left >= 1
            /\ lastFinish' = tick /\ lastFinish' \in Nat
            /\ lastWin' \in Nat \cup {Unset} /\ lastWin' <= tick
            /\ hasty' \in BOOLEAN
        BY <3>1, FinishType
      <4> QED
        BY <2>1, <4>1, <1>a DEF Flip, taps, ArcadeTypeOK
    <3>2. CASE UNCHANGED <<lastFinish, wins>> /\ ~FinishGame(s, TRUE)
      <4>1. \E x \in DeskRecord : desk' = [desk EXCEPT ![s] = x] /\ (x # NoRound => x.left >= 1)
        <5>0. desk[s] # NoRound /\ desk[s].left >= 1
          BY <2>0, <2>1 DEF Flip, Playing
        <5>1. CASE desk' = [desk EXCEPT ![s].flipped = 1]
          <6>1. [desk[s] EXCEPT !.flipped = 1] \in DeskRecord
            BY <2>0 DEF DeskRecord
          <6>2. [desk[s] EXCEPT !.flipped = 1].left >= 1
            BY <2>0, <5>0 DEF DeskRecord
          <6> QED
            BY <5>1, <6>1, <6>2
        <5>2. CASE desk' = [desk EXCEPT ![s].flipped = 2, ![s].timer = TRUE]
          <6> DEFINE x == [desk[s] EXCEPT !.flipped = 2, !.timer = TRUE]
          <6>1. desk' = [desk EXCEPT ![s] = x]
            BY <5>2, <2>0
          <6>2. x \in DeskRecord
            BY <2>0, RoundType
          <6>3. x.left = desk[s].left
            BY <2>0 DEF DeskRecord
          <6> QED
            BY <5>0, <6>1, <6>2, <6>3
        <5>3. CASE desk[s].left # 1 /\ desk' = [desk EXCEPT ![s].flipped = 0, ![s].left = @ - 1]
          <6> DEFINE x == [begun |-> desk[s].begun, left |-> desk[s].left - 1, flipped |-> 0,
                           timer |-> desk[s].timer]
          <6>1. desk' = [desk EXCEPT ![s] = x]
            BY <5>3, <2>0 DEF DeskRecord
          <6>2. x \in DeskRecord /\ x.left >= 1
            BY <2>0, <5>0, <5>3 DEF DeskRecord
          <6> QED
            BY <6>1, <6>2
        <5> QED
          BY <2>1, <3>2, <5>1, <5>2, <5>3 DEF Flip
      <4> QED
        BY <2>1, <3>2, <4>1, <2>a, <1>a DEF Flip, taps, wins, ArcadeTypeOK
    <3> QED
      BY <2>1, <3>1, <3>2 DEF Flip
  <2>2. CASE FlipBack(s)
    <3> DEFINE x == [desk[s] EXCEPT !.timer = FALSE, !.flipped = 0]
    <3>1. desk' = [desk EXCEPT ![s] = x]
      BY <2>2, <2>0 DEF FlipBack
    <3>2. x \in DeskRecord /\ x.left >= 1
      <4>1. desk[s] # NoRound
        BY <2>2 DEF FlipBack, NoRound
      <4>2. x \in DeskRecord
        BY <2>0, RoundType
      <4>3. x.left = desk[s].left
        BY <2>0 DEF DeskRecord
      <4> QED
        BY <2>0, <4>1, <4>2, <4>3
    <3> HIDE DEF x
    <3> QED
      BY <2>2, <3>1, <3>2, <2>a, <1>a DEF FlipBack, taps, wins, ArcadeTypeOK
  <2>3. CASE Swap(s)
    <3>1. PICK points \in 1 .. desk[s].left :
            IF points = desk[s].left THEN FinishGame(s, TRUE)
            ELSE desk' = [desk EXCEPT ![s].left = @ - points] /\ UNCHANGED <<lastFinish, wins>>
      BY <2>3 DEF Swap
    <3>2. CASE points = desk[s].left
      <4>1. FinishGame(s, TRUE)
        BY <3>1, <3>2
      <4>2. /\ desk' \in [Sockets -> DeskRecord]
            /\ \A z \in Sockets : desk'[z] # NoRound => desk'[z].left >= 1
            /\ lastFinish' = tick /\ lastFinish' \in Nat
            /\ lastWin' \in Nat \cup {Unset} /\ lastWin' <= tick
            /\ hasty' \in BOOLEAN
        BY <4>1, FinishType
      <4> QED
        BY <2>3, <4>2, <1>a DEF Swap, taps, ArcadeTypeOK
    <3>3. CASE points # desk[s].left
      <4> DEFINE x == [desk[s] EXCEPT !.left = desk[s].left - points]
      <4>1. desk' = [desk EXCEPT ![s] = x] /\ UNCHANGED <<lastFinish, wins>>
        BY <3>1, <3>3
      <4>2. x \in DeskRecord /\ x.left >= 1
        BY <3>3, <2>0 DEF DeskRecord
      <4> HIDE DEF x
      <4> QED
        BY <2>3, <4>1, <4>2, <2>a, <1>a DEF Swap, taps, wins, ArcadeTypeOK
    <3> QED
      BY <3>2, <3>3
  <2>4. CASE EndGame(s)
    <3>1. /\ desk' \in [Sockets -> DeskRecord]
          /\ \A z \in Sockets : desk'[z] # NoRound => desk'[z].left >= 1
          /\ lastFinish' = tick /\ lastFinish' \in Nat
          /\ lastWin' \in Nat \cup {Unset} /\ lastWin' <= tick
          /\ hasty' \in BOOLEAN
      BY <2>4, FinishType DEF EndGame
    <3> QED
      BY <2>4, <3>1, <1>a DEF EndGame, taps, ArcadeTypeOK
  <2>5. CASE Disconnect(s)
    <3>1. desk' = [desk EXCEPT ![s] = NoRound] /\ online' \subseteq Sockets
      BY <2>5 DEF Disconnect, ArcadeTypeOK
    <3> QED
      BY <2>5, <3>1, <2>a, <1>a, Constants DEF Disconnect, taps, wins, ArcadeTypeOK
  <2>6. ASSUME NEW r \in Hands, ReadGame(r, s) PROVE ArcadeTypeOK'
    <3> DEFINE x == [desk[s] EXCEPT !.timer = FALSE]
    <3>1. desk' = [desk EXCEPT ![s] = x]
      BY <2>6 DEF ReadGame
    <3>2. x \in DeskRecord
      BY <2>0 DEF DeskRecord
    <3>3. x # NoRound => x.left >= 1
      <4>1. ASSUME desk[s] = NoRound PROVE x = NoRound
        <5>1. NoRound.timer = FALSE
          BY DEF NoRound
        <5>2. [NoRound EXCEPT !.timer = NoRound.timer] = NoRound
          BY DEF NoRound
        <5> QED
          BY <4>1, <5>1, <5>2
      <4>2. x.left = desk[s].left
        BY <2>0 DEF DeskRecord
      <4> QED
        BY <2>0, <4>1, <4>2
    <3>4. /\ hand' \in [Hands -> HandRecord]
          /\ \A q \in Hands : /\ hand'[q].kind = "game" => hand'[q].round \in Sockets
                              /\ hand'[q].kind = "complete" => hand'[q].round \in Rounds
      <4>1. \/ hand' = [hand EXCEPT ![r] = [kind |-> "game", at |-> 0, round |-> s]]
            \/ hand' = hand
        BY <2>6 DEF ReadGame
      <4> QED
        BY <1>5, <4>1, HandType DEF ArcadeTypeOK
    <3> HIDE DEF x
    <3> QED
      BY <2>6, <3>1, <3>2, <3>3, <3>4, <2>a, <1>a DEF ReadGame, taps, wins, ArcadeTypeOK
  <2> QED
    BY <1>5, <2>1, <2>2, <2>3, <2>4, <2>5, <2>6 DEF Play
<1>6. CASE RestartGames
  <2>1. hand' \in [Hands -> HandRecord] /\ \A r \in Hands : hand'[r] = IdleHand
    BY <1>6, Constants DEF RestartGames
  <2>2. desk' \in [Sockets -> DeskRecord] /\ \A s \in Sockets : desk'[s] = NoRound
    BY <1>6, Constants DEF RestartGames
  <2>3. lastFinish' = Unset /\ Unset <= tick
    BY <1>6 DEF RestartGames, Unset, ArcadeTypeOK
  <2> QED
    BY <1>6, <2>1, <2>2, <2>3, <1>a DEF RestartGames, IdleHand, taps, wins, ArcadeTypeOK
<1> QED
  BY <1>1, <1>2, <1>3, <1>4, <1>5, <1>6 DEF ArcadeNext

LEMMA TypeInit == ArcadeInit => ArcadeTypeOK
<1> SUFFICES ASSUME ArcadeInit PROVE ArcadeTypeOK
  OBVIOUS
<1>1. [status |-> "none", ends |-> 0, completed |-> Unset] \in SessionRecord
  BY DEF SessionRecord, Statuses
<1>2. /\ session \in [Rounds -> SessionRecord] /\ hand \in [Hands -> HandRecord]
      /\ desk \in [Sockets -> DeskRecord]
  BY <1>1, Constants DEF ArcadeInit
<1>3. /\ \A r \in Hands : hand[r] = IdleHand
      /\ \A s \in Sockets : desk[s] = NoRound
      /\ tapped \in [Rounds -> Nat] /\ online \subseteq Sockets
  BY DEF ArcadeInit
<1>4. tick = 0 /\ lastFinish = Unset /\ lastWin = Unset
  BY DEF ArcadeInit
<1>5. hasty \in BOOLEAN /\ doubled \in BOOLEAN
  BY DEF ArcadeInit
<1>6. tick \in Nat /\ Unset <= tick
  BY <1>4 DEF Unset
<1> QED
  BY <1>2, <1>3, <1>4, <1>5, <1>6 DEF ArcadeTypeOK, IdleHand

-----------------------------------------------------------------------------
(* Hash Tap Sprint                                                         *)

\* Sessions that only end are rewarded and spaced as before.
LEMMA Ended ==
  ASSUME Tapped, tapped' = tapped,
         \A n \in Rounds : /\ session'[n].ends = session[n].ends
                           /\ session'[n].completed = session[n].completed
                           /\ session'[n].status = "COMPLETED" <=> Done(n)
                           /\ session'[n].status = "ACTIVE" => Active(n)
  PROVE  Tapped'
<1>1. ASSUME NEW n \in Rounds PROVE Rewarded(n)'
  <2>1. Rewarded(n)
    BY DEF Tapped
  <2> QED
    BY <2>1 DEF Rewarded, Done, Within
<1>2. ASSUME NEW n \in Rounds, NEW m \in Rounds, n # m PROVE Spaced(n, m)'
  <2>1. Spaced(n, m)
    BY <1>2 DEF Tapped
  <2> QED
    BY <2>1 DEF Spaced, Done, Active
<1> QED
  BY <1>1, <1>2 DEF Tapped

\* A session begins a cooldown after the completed ones, with no other active.
LEMMA Started ==
  ASSUME ArcadeTypeOK, Tapped, NEW r \in Hands, StartSession(r)
  PROVE  Tapped'
<1> DEFINE t == hand[r].at
           rows == WithExpired(t)
<1>1. /\ t \in Nat /\ rows \in [Rounds -> SessionRecord]
      /\ \A n \in Rounds : /\ rows[n].ends = session[n].ends
                           /\ rows[n].completed = session[n].completed
                           /\ rows[n].status = "COMPLETED" <=> Done(n)
                           /\ rows[n].status = "ACTIVE" => Active(n)
                           /\ rows[n].status = "none" <=> session[n].status = "none"
  BY HandOf, Expiry DEF ArcadeTypeOK
<1>2. tapped' = tapped
  BY DEF StartSession
<1>3. CASE session' = rows
  BY <1>1, <1>2, <1>3, Ended
<1>4. ASSUME NEW n \in Rounds, Recovered(t), \A m \in Rounds : rows[m].status # "ACTIVE",
             \A m \in Rounds : rows[m].status = "none" <=> m >= n,
             session' = [rows EXCEPT ![n] = [status |-> "ACTIVE", ends |-> t + Duration,
                                             completed |-> Unset]]
      PROVE  Tapped'
  <2>1. session[n].status = "none"
    BY <1>1, <1>4, Constants
  <2>2. /\ session'[n].status = "ACTIVE" /\ session'[n].ends = t + Duration
        /\ session'[n].completed = Unset
    BY <1>1, <1>4
  <2>3. ASSUME NEW m \in Rounds, m # n PROVE session'[m] = rows[m]
    BY <1>1, <1>4, <2>3
  <2>4. ASSUME NEW m \in Rounds PROVE Rewarded(m)'
    <3>1. Rewarded(m)
      BY DEF Tapped
    <3>2. CASE m = n
      BY <1>2, <2>1, <2>2, <3>1, <3>2 DEF Rewarded, Done
    <3>3. CASE m # n
      BY <1>1, <1>2, <2>3, <3>1, <3>3 DEF Rewarded, Done, Within
    <3> QED
      BY <3>2, <3>3
  <2>5. ASSUME NEW k \in Rounds, NEW m \in Rounds, k # m PROVE Spaced(k, m)'
    <3>1. Spaced(k, m) /\ Rewarded(m)
      BY <2>5 DEF Tapped
    <3>2. CASE k = n
      <4>1. ASSUME Done(m) PROVE session[m].completed + Rest <= t
        BY <1>4, <3>1, <4>1 DEF Recovered, Rewarded
      <4>2. session'[m] = rows[m] /\ session'[k].ends = t + Duration
        BY <2>2, <2>3, <2>5, <3>2
      <4>3. session'[k].ends - Duration = t /\ session'[k].status = "ACTIVE"
        <5>1. session'[k].ends = t + Duration /\ session'[k].status = "ACTIVE"
          BY <2>2, <3>2
        <5>2. t \in Int /\ Duration \in Int
          BY <1>1, ArcadeAssumption
        <5> HIDE DEF t, rows
        <5> QED
          BY <5>1, <5>2
      <4>4. /\ session'[m].status # "ACTIVE" /\ session'[m].completed = session[m].completed
            /\ session'[m].status = "COMPLETED" => Done(m)
        <5>1. rows[m].status # "ACTIVE"
          BY <1>4
        <5> HIDE DEF t, rows
        <5> QED
          BY <1>1, <4>2, <5>1
      <4> HIDE DEF t, rows
      <4> QED
        BY <4>1, <4>3, <4>4 DEF Spaced, Done, Active
    <3>3. CASE k # n
      <4>1. session'[k] = rows[k] /\ (m # n => session'[m] = rows[m])
        BY <2>3, <3>3
      <4> HIDE DEF t, rows
      <4> QED
        BY <1>1, <1>4, <2>2, <3>1, <4>1 DEF Spaced, Done, Active
    <3> QED
      BY <3>2, <3>3
  <2> QED
    BY <2>4, <2>5 DEF Tapped
<1> QED
  BY <1>3, <1>4 DEF StartSession

\* A session is rewarded when it is nearly over at least, which is a cooldown
\* after every other.
LEMMA Completed ==
  ASSUME ArcadeTypeOK, Tapped, NEW r \in Hands, CompleteSession(r)
  PROVE  Tapped'
<1> DEFINE t == hand[r].at
           n == hand[r].round
           rows == WithExpired(t)
<1>1. /\ t \in Nat /\ n \in Rounds /\ rows \in [Rounds -> SessionRecord]
      /\ \A m \in Rounds : /\ rows[m].ends = session[m].ends
                           /\ rows[m].completed = session[m].completed
                           /\ rows[m].status = "COMPLETED" <=> Done(m)
                           /\ rows[m].status = "ACTIVE" => Active(m)
                           /\ rows[m].status = "none" <=> session[m].status = "none"
  BY HandOf, Expiry DEF ArcadeTypeOK, CompleteSession
<1>0. rows[n] \in SessionRecord /\ rows[n].ends \in Nat
  <2> HIDE DEF rows, n, t
  <2>1. rows[n] \in SessionRecord
    BY <1>1
  <2> QED
    BY <2>1 DEF SessionRecord
<1>2. CASE session' = rows /\ tapped' = tapped
  BY <1>1, <1>2, Ended
<1>3. CASE /\ tapped' = tapped /\ rows[n].status = "ACTIVE"
           /\ session' = [rows EXCEPT ![n].status = "EXPIRED"]
  <2>1. ASSUME NEW m \in Rounds, m # n PROVE session'[m] = rows[m]
    BY <1>1, <1>3, <2>1
  <2>2. session'[n] = [rows[n] EXCEPT !.status = "EXPIRED"]
    BY <1>1, <1>3
  <2>3. /\ session'[n].ends = rows[n].ends /\ session'[n].completed = rows[n].completed
        /\ session'[n].status = "EXPIRED"
    <3> HIDE DEF rows, n, t
    <3> QED
      BY <1>0, <2>2 DEF SessionRecord
  <2>4. \A m \in Rounds : /\ session'[m].ends = session[m].ends
                          /\ session'[m].completed = session[m].completed
                          /\ session'[m].status = "COMPLETED" <=> Done(m)
                          /\ session'[m].status = "ACTIVE" => Active(m)
    <3> HIDE DEF rows, n, t
    <3> QED
      BY <1>1, <1>3, <2>1, <2>3
  <2> QED
    BY <1>3, <2>4, Ended
<1>4. CASE /\ rows[n].status = "ACTIVE" /\ Within(rows[n].ends, t)
           /\ tapped' = [tapped EXCEPT ![n] = @ + 1]
           /\ session' = [rows EXCEPT ![n].status = "COMPLETED", ![n].completed = t]
  <2>1. ASSUME NEW m \in Rounds, m # n PROVE session'[m] = rows[m] /\ tapped'[m] = tapped[m]
    BY <1>1, <1>4, <2>1 DEF ArcadeTypeOK
  <2>2. session'[n] = [rows[n] EXCEPT !.status = "COMPLETED", !.completed = t]
    BY <1>1, <1>4
  <2>3. /\ session'[n].ends = rows[n].ends /\ session'[n].completed = t
        /\ session'[n].status = "COMPLETED"
    <3> HIDE DEF rows, n, t
    <3> QED
      BY <1>0, <2>2 DEF SessionRecord
  <2>4. Active(n) /\ ~Done(n) /\ tapped[n] = 0
    <3>1. Rewarded(n) /\ Active(n)
      BY <1>1, <1>4 DEF Tapped
    <3> QED
      BY <3>1 DEF Rewarded, Done, Active
  <2>5. tapped'[n] = 1
    BY <1>1, <1>4, <2>4 DEF ArcadeTypeOK
  <2>6. t >= session[n].ends - Early /\ session[n].ends \in Nat
    BY <1>0, <1>1, <1>4 DEF Within
  <2>7. session[n].ends - Duration <= t
    <3>1. Early \in Nat /\ Duration \in Nat /\ Early <= Duration
      BY ArcadeAssumption
    <3> HIDE DEF t, n
    <3> QED
      BY <1>1, <2>6, <3>1
  <2>8. ASSUME NEW m \in Rounds PROVE Rewarded(m)'
    <3>1. Rewarded(m)
      BY DEF Tapped
    <3>2. CASE m = n
      <4>1. t # Unset
        BY <1>1 DEF Unset
      <4> HIDE DEF rows, n, t
      <4> QED
        BY <1>4, <2>3, <2>5, <3>2, <4>1 DEF Rewarded, Done
    <3>3. CASE m # n
      <4>1. session'[m] = rows[m] /\ tapped'[m] = tapped[m]
        BY <2>1, <3>3
      <4> HIDE DEF rows, n, t
      <4> QED
        BY <1>1, <3>1, <4>1 DEF Rewarded, Done, Within
    <3> QED
      BY <3>2, <3>3
  <2>9. ASSUME NEW m \in Rounds, m # n, Done(m) PROVE session[m].completed + Rest <= t
    <3>1. session[m].completed + Rest <= session[n].ends - Duration
      BY <1>1, <2>4, <2>9 DEF Tapped, Spaced
    <3>2. session[m].completed \in Int
      BY DEF ArcadeTypeOK, SessionRecord, Unset
    <3>3. Rest \in Nat /\ Duration \in Nat
      BY ArcadeAssumption
    <3> HIDE DEF t, n
    <3> QED
      BY <1>1, <2>6, <2>7, <3>1, <3>2, <3>3
  <2>10. ASSUME NEW k \in Rounds, NEW m \in Rounds, k # m PROVE Spaced(k, m)'
    <3>1. Spaced(k, m) /\ Spaced(m, k)
      BY <2>10 DEF Tapped
    <3>2. CASE k = n
      <4>1. session'[m] = rows[m]
        BY <2>1, <2>10, <3>2
      <4>2. Done(m) => session[m].completed + Rest <= t
        BY <2>9, <2>10, <3>2
      <4> HIDE DEF t, n, rows
      <4> QED
        BY <1>1, <2>3, <3>2, <4>1, <4>2 DEF Spaced, Done, Active
    <3>3. CASE m = n
      <4>1. session'[k] = rows[k]
        BY <2>1, <2>10, <3>3
      <4>2. Done(k) => session[k].completed + Rest <= t
        BY <2>9, <2>10, <3>3
      <4>3. ~Active(k)
        BY <2>4, <3>1, <3>3 DEF Spaced
      <4> HIDE DEF t, n, rows
      <4> QED
        BY <1>1, <2>3, <3>3, <4>1, <4>2, <4>3 DEF Spaced, Done, Active
    <3>4. CASE k # n /\ m # n
      <4>1. session'[k] = rows[k] /\ session'[m] = rows[m]
        BY <2>1, <3>4
      <4> HIDE DEF t, n, rows
      <4> QED
        BY <1>1, <3>1, <4>1 DEF Spaced, Done, Active
    <3> QED
      BY <3>2, <3>3, <3>4
  <2> QED
    BY <2>8, <2>10 DEF Tapped
<1> QED
  BY <1>2, <1>3, <1>4 DEF CompleteSession

LEMMA TappedNext ==
  ASSUME ArcadeTypeOK, Tapped, ArcadeNext
  PROVE  Tapped'
<1>1. CASE UNCHANGED <<session, tapped>>
  BY <1>1 DEF Tapped, Rewarded, Spaced, Done, Active, Within
<1>2. ASSUME NEW r \in Hands, MinigameStatus(r) PROVE Tapped'
  <2>1. /\ session' = WithExpired(hand[r].at) /\ tapped' = tapped /\ hand[r].at \in Nat
    BY <1>2, HandOf DEF MinigameStatus
  <2> QED
    BY <2>1, Expiry, Ended DEF ArcadeTypeOK
<1>3. ASSUME NEW r \in Hands, TapRequest(r) PROVE Tapped'
  <2>1. CASE MinigameStatus(r) \/ StartSession(r) \/ CompleteSession(r)
    BY <1>2, <2>1, Started, Completed
  <2>2. CASE UNCHANGED taps
    BY <1>1, <2>2 DEF taps
  <2> QED
    BY <1>3, <2>1, <2>2 DEF TapRequest, Request
<1>4. ASSUME NEW s \in Sockets, Play(s) PROVE UNCHANGED taps
  BY <1>4 DEF Play, Flip, FlipBack, Swap, EndGame, Disconnect, ReadGame
<1> QED
  BY <1>1, <1>3, <1>4 DEF ArcadeNext, PassTime, LoseHand, SetGame, RestartGames, taps

-----------------------------------------------------------------------------
(* The games over sockets                                                  *)

\* What an event of a socket does to its round.
LEMMA RoundMoves ==
  ASSUME ArcadeTypeOK, NEW s \in Sockets, Play(s)
  PROVE  /\ \A z \in Sockets \ {s} : desk'[z] = desk[z]
         /\ desk[s] = NoRound => desk'[s] = NoRound
         /\ desk'[s].flipped = 2 /\ ~desk'[s].timer => desk[s].flipped = 2
         /\ online' = online \/ (online' = online \ {s} /\ desk'[s] = NoRound)
<1>0. desk \in [Sockets -> DeskRecord] /\ desk[s] \in DeskRecord
  BY DEF ArcadeTypeOK
<1>a. NoRound.timer = FALSE
  BY DEF NoRound
<1>f. NoRound.flipped = 0
  BY DEF NoRound
<1>b. ASSUME desk' = [desk EXCEPT ![s] = NoRound], online' = online \/ online' = online \ {s}
      PROVE  /\ \A z \in Sockets \ {s} : desk'[z] = desk[z]
             /\ desk[s] = NoRound => desk'[s] = NoRound
             /\ desk'[s].flipped = 2 /\ ~desk'[s].timer => desk[s].flipped = 2
             /\ online' = online \/ (online' = online \ {s} /\ desk'[s] = NoRound)
  BY <1>b, <1>0, <1>f
<1>1. CASE Flip(s)
  <2>0. online' = online /\ desk[s] # NoRound
    BY <1>1 DEF Flip, Playing
  <2>1. \/ FinishGame(s, TRUE)
        \/ desk' = [desk EXCEPT ![s] = [desk[s] EXCEPT !.flipped = 1]]
        \/ desk' = [desk EXCEPT ![s] = [desk[s] EXCEPT !.flipped = 2, !.timer = TRUE]]
        \/ desk' = [desk EXCEPT ![s] = [desk[s] EXCEPT !.flipped = 0, !.left = @ - 1]]
    BY <1>1 DEF Flip
  <2>2. CASE FinishGame(s, TRUE)
    BY <1>b, <2>0, <2>2 DEF FinishGame
  <2>3. ASSUME NEW x, desk' = [desk EXCEPT ![s] = x], x.flipped # 2 \/ x.timer
        PROVE  /\ \A z \in Sockets \ {s} : desk'[z] = desk[z]
               /\ desk'[s].flipped = 2 /\ ~desk'[s].timer => desk[s].flipped = 2
    <3>1. desk'[s] = x
      BY <1>0, <2>3
    <3> QED
      BY <1>0, <2>3, <3>1
  <2>4. [desk[s] EXCEPT !.flipped = 1].flipped # 2
    BY <1>0 DEF DeskRecord
  <2>5. [desk[s] EXCEPT !.flipped = 2, !.timer = TRUE].timer
    BY <1>0 DEF DeskRecord
  <2>6. [desk[s] EXCEPT !.flipped = 0, !.left = @ - 1].flipped # 2
    BY <1>0 DEF DeskRecord
  <2> QED
    BY <2>0, <2>1, <2>2, <2>3, <2>4, <2>5, <2>6
<1>2. CASE FlipBack(s)
  <2>1. /\ online' = online /\ desk[s] # NoRound
        /\ desk' = [desk EXCEPT ![s] = [desk[s] EXCEPT !.timer = FALSE, !.flipped = 0]]
    BY <1>2, <1>a DEF FlipBack
  <2>2. [desk[s] EXCEPT !.timer = FALSE, !.flipped = 0].flipped # 2
    BY <1>0 DEF DeskRecord
  <2> QED
    BY <1>0, <2>1, <2>2
<1>3. CASE Swap(s)
  <2>1. online' = online /\ desk[s] # NoRound
    BY <1>3 DEF Swap, Playing
  <2>2. PICK points \in 1 .. desk[s].left :
          \/ FinishGame(s, TRUE)
          \/ desk' = [desk EXCEPT ![s] = [desk[s] EXCEPT !.left = @ - points]]
    BY <1>3 DEF Swap
  <2>3. CASE FinishGame(s, TRUE)
    BY <1>b, <2>1, <2>3 DEF FinishGame
  <2>4. CASE desk' = [desk EXCEPT ![s] = [desk[s] EXCEPT !.left = @ - points]]
    <3>1. [desk[s] EXCEPT !.left = @ - points].flipped = desk[s].flipped
      BY <1>0 DEF DeskRecord
    <3> QED
      BY <1>0, <2>1, <2>4, <3>1
  <2> QED
    BY <2>2, <2>3, <2>4
<1>4. CASE EndGame(s)
  BY <1>b, <1>4 DEF EndGame, FinishGame
<1>5. CASE Disconnect(s)
  BY <1>b, <1>5 DEF Disconnect
<1>6. ASSUME NEW r \in Hands, ReadGame(r, s)
      PROVE  /\ \A z \in Sockets \ {s} : desk'[z] = desk[z]
             /\ desk[s] = NoRound => desk'[s] = NoRound
             /\ desk'[s].flipped = 2 /\ ~desk'[s].timer => desk[s].flipped = 2
             /\ online' = online \/ (online' = online \ {s} /\ desk'[s] = NoRound)
  <2> DEFINE x == [desk[s] EXCEPT !.timer = FALSE]
  <2>1. online' = online /\ desk' = [desk EXCEPT ![s] = x]
    BY <1>6 DEF ReadGame
  <2>2. x.flipped = desk[s].flipped
    BY <1>0 DEF DeskRecord
  <2>3. ASSUME desk[s] = NoRound PROVE x = NoRound
    <3>1. [NoRound EXCEPT !.timer = NoRound.timer] = NoRound
      BY DEF NoRound
    <3> QED
      BY <1>a, <2>3, <3>1
  <2>4. desk'[s] = x
    BY <1>0, <2>1
  <2>5. \A z \in Sockets \ {s} : desk'[z] = desk[z]
    BY <1>0, <2>1
  <2> HIDE DEF x
  <2> QED
    BY <2>1, <2>2, <2>3, <2>4, <2>5
<1> QED
  BY <1>1, <1>2, <1>3, <1>4, <1>5, <1>6 DEF Play

\* A round, its timer and the starts are kept, but at a socket that is odd.
LEMMA KeptNext ==
  ASSUME ArcadeTypeOK, NEW s \in Sockets, s \in odd \/ Kept(s), ArcadeNext, s \notin odd'
  PROVE  Kept(s)'
<1>1. /\ Kept(s)
      /\ desk[s].timer /\ ~desk'[s].timer => desk'[s].flipped # 2
      /\ s \notin online' => Asked(s)' = {}
  BY DEF ArcadeNext
<1>2. CASE UNCHANGED <<online, desk>>
  BY <1>1, <1>2 DEF Kept
<1>3. ASSUME NEW r \in Hands, SetGame(r) PROVE Kept(s)'
  <2> DEFINE new == [begun |-> tick, left |-> Goal, flipped |-> 0, timer |-> FALSE]
  <2>1. /\ desk' = [desk EXCEPT ![hand[r].round] = new] /\ online' = online
        /\ hand[r].kind = "game"
    BY <1>3 DEF SetGame
  <2>2. CASE s # hand[r].round
    <3>1. desk'[s] = desk[s]
      BY <2>1, <2>2 DEF ArcadeTypeOK
    <3> QED
      BY <1>1, <2>1, <3>1 DEF Kept
  <2>3. CASE s = hand[r].round
    <3>1. s \in online
      BY <1>1, <2>1, <2>3 DEF Kept, Asked
    <3>2. desk'[s].flipped = 0
      BY <2>1, <2>3 DEF ArcadeTypeOK
    <3> QED
      BY <1>1, <2>1, <3>1, <3>2 DEF Kept
  <2> QED
    BY <2>2, <2>3
<1>4. ASSUME NEW z \in Sockets, Play(z) PROVE Kept(s)'
  <2>1. /\ \A y \in Sockets \ {z} : desk'[y] = desk[y]
        /\ desk[z] = NoRound => desk'[z] = NoRound
        /\ desk'[z].flipped = 2 /\ ~desk'[z].timer => desk[z].flipped = 2
        /\ online' = online \/ (online' = online \ {z} /\ desk'[z] = NoRound)
    BY <1>4, RoundMoves
  <2>2. desk'[s] # NoRound => s \in online'
    BY <1>1, <2>1 DEF Kept
  <2>3. desk'[s].flipped = 2 => desk'[s].timer
    BY <1>1, <2>1 DEF Kept
  <2> QED
    BY <1>1, <2>2, <2>3 DEF Kept
<1>5. CASE RestartGames
  <2>1. desk'[s] = NoRound
    BY <1>5 DEF RestartGames
  <2>2. NoRound.flipped = 0
    BY DEF NoRound
  <2> QED
    BY <1>1, <2>1, <2>2 DEF Kept
<1>6. ASSUME NEW r \in Hands, TapRequest(r) PROVE UNCHANGED <<online, desk>>
  BY <1>6 DEF TapRequest, Request, MinigameStatus, StartSession, CompleteSession, cards
<1> QED
  BY <1>2, <1>3, <1>4, <1>5, <1>6 DEF ArcadeNext, PassTime, LoseHand, cards

\* A cooldown that is over stays over.
LEMMA Later ==
  ASSUME tick \in Int, lastFinish \in Int, Rest \in Int, lastFinish' = lastFinish,
         tick' = tick \/ tick' = tick + 1, SinceFinish
  PROVE  SinceFinish'
<1>1. CASE lastFinish = Unset
  BY <1>1 DEF SinceFinish
<1>2. CASE tick' = tick
  BY <1>2 DEF SinceFinish
<1>3. CASE tick' = tick + 1 /\ lastFinish # Unset
  <2>1. tick' - lastFinish >= Rest
    BY <1>3 DEF SinceFinish
  <2> QED
    BY <2>1 DEF SinceFinish
<1> QED
  BY <1>1, <1>2, <1>3

\* A step that leaves the finishes and the wins alone, and begins no round
\* but one that has cooled down.
LEMMA Unfinished ==
  ASSUME ArcadeTypeOK, Carded, ArcadeNext, UNCHANGED <<lastFinish, wins>>,
         tick' = tick \/ tick' = tick + 1, UnderWay' # {} => UnderWay # {} \/ SinceFinish
  PROVE  Carded'
<1>1. Rest \in Nat /\ tick \in Nat /\ lastFinish \in Int
  BY ArcadeAssumption DEF ArcadeTypeOK, Unset
<1>2. hasty' = hasty /\ lastWin' = lastWin /\ lastFinish' = lastFinish
  BY DEF wins
<1>3. doubled => doubled'
  BY DEF ArcadeNext
<1>4. ~doubled' => ~Several'
  BY DEF ArcadeNext
<1>5. SinceFinish => SinceFinish'
  BY <1>1, <1>2, Later
<1>6. CASE doubled'
  BY <1>6 DEF Carded
<1>7. CASE ~doubled'
  <2>1. /\ ~doubled /\ ~hasty
        /\ UnderWay # {} => SinceFinish
        /\ lastWin # Unset => lastFinish # Unset /\ lastWin <= lastFinish
    BY <1>3, <1>7 DEF Carded
  <2> QED
    BY <1>2, <1>4, <1>5, <1>7, <2>1 DEF Carded
<1> QED
  BY <1>6, <1>7

\* The finish of the only round that is under way.
LEMMA Finished ==
  ASSUME ArcadeTypeOK, Carded, ArcadeNext, NEW s \in Sockets, NEW success \in BOOLEAN,
         Playing(s), FinishGame(s, success), UNCHANGED <<tick, hand, online>>
  PROVE  Carded'
<1>1. /\ Rest \in Nat /\ tick \in Nat /\ lastFinish \in Int /\ lastWin \in Int
  BY ArcadeAssumption DEF ArcadeTypeOK, Unset
<1>2. doubled => doubled'
  BY DEF ArcadeNext
<1>3. ~doubled' => ~Several'
  BY DEF ArcadeNext
<1>4. CASE doubled'
  BY <1>4 DEF Carded
<1>5. CASE ~doubled'
  <2>1. /\ ~hasty /\ ~Several /\ (UnderWay # {} => SinceFinish)
        /\ lastWin # Unset => lastFinish # Unset /\ lastWin <= lastFinish
    BY <1>2, <1>5 DEF Carded
  <2>2. s \in UnderWay
    BY DEF UnderWay
  <2>3. SinceFinish
    BY <2>1, <2>2
  <2>4. UnderWay' = {}
    <3>1. desk' = [desk EXCEPT ![s] = NoRound] /\ hand' = hand /\ online' = online
      BY DEF FinishGame
    <3>2. s \notin UnderWay'
      BY <3>1, ArcadeAssumption DEF UnderWay, Playing, ArcadeTypeOK
    <3>3. ASSUME NEW x \in UnderWay' PROVE x \in UnderWay
      BY <3>1, <3>2 DEF UnderWay, Playing, ArcadeTypeOK
    <3> QED
      BY <2>1, <2>2, <3>2, <3>3 DEF Several
  <2>5. lastFinish' = tick /\ lastFinish' # Unset
    BY <1>1 DEF FinishGame, Unset
  <2>6. ~(lastWin # Unset /\ tick - lastWin < Rest)
    <3> SUFFICES ASSUME lastWin # Unset PROVE ~(tick - lastWin < Rest)
      OBVIOUS
    <3>1. lastFinish # Unset /\ lastWin <= lastFinish
      BY <2>1
    <3>2. tick - lastFinish >= Rest
      BY <2>3, <3>1 DEF SinceFinish
    <3> QED
      BY <1>1, <3>1, <3>2
  <2>7. ~hasty'
    <3>1. hasty' = hasty \/ hasty' = (hasty \/ (lastWin # Unset /\ tick - lastWin < Rest))
      BY DEF FinishGame, wins
    <3> QED
      BY <2>1, <2>6, <3>1
  <2>8. lastWin' # Unset => lastWin' <= lastFinish'
    <3>1. lastWin' = tick \/ lastWin' = lastWin
      BY DEF FinishGame, wins
    <3>2. lastWin <= tick
      BY DEF ArcadeTypeOK
    <3> QED
      BY <1>1, <2>5, <3>1, <3>2
  <2> QED
    BY <1>3, <1>5, <2>4, <2>5, <2>7, <2>8 DEF Carded
<1> QED
  BY <1>4, <1>5

LEMMA CardedNext ==
  ASSUME ArcadeTypeOK, Carded, ArcadeNext
  PROVE  Carded'
<1>0. tick \in Nat /\ desk \in [Sockets -> DeskRecord] /\ hand \in [Hands -> HandRecord]
  BY DEF ArcadeTypeOK
<1>a. IdleHand.kind = "none"
  BY DEF IdleHand
<1>1. CASE PassTime
  <2>1. tick' = tick + 1 /\ UNCHANGED <<hand, online, desk, lastFinish, wins>>
    BY <1>1 DEF PassTime, cards
  <2>2. UnderWay' = UnderWay
    BY <2>1 DEF UnderWay, Playing
  <2> QED
    BY <2>1, <2>2, Unfinished
<1>2. ASSUME NEW r \in Hands, UNCHANGED <<tick, cards>>,
             \A q \in Hands : hand'[q] = hand[q] \/ hand'[q].kind # "game"
      PROVE  Carded'
  <2>1. UNCHANGED <<tick, online, desk, lastFinish, wins>>
    BY <1>2 DEF cards
  <2>2. ASSUME NEW x \in UnderWay' PROVE x \in UnderWay
    BY <1>2, <2>1 DEF UnderWay, Playing
  <2> QED
    BY <2>1, <2>2, Unfinished
<1>3. ASSUME NEW r \in Hands, LoseHand(r) PROVE Carded'
  <2>1. \A q \in Hands : hand'[q] = hand[q] \/ hand'[q].kind # "game"
    BY <1>0, <1>3, <1>a DEF LoseHand, LetGo
  <2> QED
    BY <1>2, <1>3, <2>1 DEF LoseHand
<1>4. ASSUME NEW r \in Hands, TapRequest(r) PROVE Carded'
  <2>1. \A q \in Hands : hand'[q] = hand[q] \/ hand'[q].kind # "game"
    <3>1. CASE LetGo(r)
      BY <1>0, <1>a, <3>1 DEF LetGo
    <3>2. ASSUME NEW k \in {"status", "start", "complete"}, NEW n \in Rounds \cup {0},
                 Request(r, k, n)
          PROVE  \A q \in Hands : hand'[q] = hand[q] \/ hand'[q].kind # "game"
      BY <1>0, <3>2 DEF Request
    <3> QED
      BY <1>4, <3>1, <3>2 DEF TapRequest, MinigameStatus, StartSession, CompleteSession
  <2>2. UNCHANGED <<tick, cards>>
    BY <1>4 DEF TapRequest, Request, MinigameStatus, StartSession, CompleteSession
  <2> QED
    BY <1>2, <2>1, <2>2
<1>5. ASSUME NEW r \in Hands, SetGame(r) PROVE Carded'
  <2>1. r \in UnderWay
    BY <1>5 DEF SetGame, UnderWay
  <2>2. UNCHANGED <<tick, lastFinish, wins>>
    BY <1>5 DEF SetGame
  <2> QED
    BY <2>1, <2>2, Unfinished
<1>6. ASSUME NEW s \in Sockets, Play(s) PROVE Carded'
  <2>1. CASE EndGame(s) \/ (Playing(s) /\ FinishGame(s, TRUE) /\ (Flip(s) \/ Swap(s)))
    BY <1>6, <2>1, Finished DEF EndGame, Flip, Swap
  <2>2. ASSUME UNCHANGED <<tick, lastFinish, wins>>,
               UnderWay # {} \/ SinceFinish \/ hand' = hand
        PROVE  Carded'
    <3>1. UnderWay' # {} => UnderWay # {} \/ SinceFinish
      <4>1. CASE hand' = hand
        <5>1. /\ \A z \in Sockets \ {s} : desk'[z] = desk[z]
              /\ desk[s] = NoRound => desk'[s] = NoRound
              /\ online' = online \/ (online' = online \ {s} /\ desk'[s] = NoRound)
          BY <1>6, RoundMoves
        <5>2. ASSUME NEW x \in UnderWay' PROVE x \in UnderWay
          BY <4>1, <5>1 DEF UnderWay, Playing
        <5> QED
          BY <5>2
      <4> QED
        BY <2>2, <4>1
    <3> QED
      BY <2>2, <3>1, Unfinished
  <2>3. CASE Flip(s) /\ ~FinishGame(s, TRUE)
    BY <2>2, <2>3 DEF Flip
  <2>4. CASE Swap(s) /\ ~FinishGame(s, TRUE)
    BY <2>2, <2>4 DEF Swap
  <2>5. CASE FlipBack(s)
    BY <2>2, <2>5 DEF FlipBack
  <2>6. CASE Disconnect(s)
    BY <2>2, <2>6 DEF Disconnect
  <2>7. ASSUME NEW r \in Hands, ReadGame(r, s) PROVE Carded'
    BY <2>2, <2>7 DEF ReadGame, Cooled, SinceFinish
  <2>8. Flip(s) \/ Swap(s) => Playing(s)
    BY DEF Flip, Swap
  <2> QED
    BY <1>6, <2>1, <2>3, <2>4, <2>5, <2>6, <2>7, <2>8 DEF Play
<1>7. CASE RestartGames
  <2>1. CASE doubled'
    BY <2>1 DEF Carded
  <2>2. CASE ~doubled'
    <3>1. ~doubled /\ lastFinish = Unset /\ ~Several'
      BY <1>7, <2>2 DEF ArcadeNext, RestartGames
    <3>2. lastWin = Unset /\ ~hasty
      BY <3>1 DEF Carded
    <3>3. lastWin' = Unset /\ ~hasty' /\ lastFinish' = Unset
      BY <1>7, <3>2 DEF RestartGames, wins
    <3> QED
      BY <3>1, <3>3, <2>2 DEF Carded, SinceFinish
  <2> QED
    BY <2>1, <2>2
<1> QED
  BY <1>1, <1>3, <1>4, <1>5, <1>6, <1>7 DEF ArcadeNext

-----------------------------------------------------------------------------
LEMMA ArcadeInvInit == ArcadeInit => ArcadeInv
<1> SUFFICES ASSUME ArcadeInit PROVE ArcadeInv
  OBVIOUS
<1>1. ArcadeTypeOK
  BY TypeInit
<1>2. Tapped
  BY DEF ArcadeInit, Tapped, Rewarded, Spaced, Done, Active
<1>3. /\ \A r \in Hands : hand[r].kind = "none"
      /\ \A s \in Sockets : desk[s] = NoRound
  BY DEF ArcadeInit, IdleHand
<1>4. Carded
  <2>1. UnderWay = {}
    BY <1>3 DEF UnderWay, Playing
  <2> QED
    BY <2>1 DEF Carded, Several, ArcadeInit
<1>5. \A s \in Sockets : Kept(s)
  <2>1. NoRound.flipped = 0
    BY DEF NoRound
  <2> QED
    BY <1>3, <2>1 DEF Kept, Asked
<1> QED
  BY <1>1, <1>2, <1>4, <1>5 DEF ArcadeInv

LEMMA ArcadeInvNext == ArcadeInv /\ [ArcadeNext]_arcadeVars => ArcadeInv'
<1> SUFFICES ASSUME ArcadeInv, [ArcadeNext]_arcadeVars PROVE ArcadeInv'
  OBVIOUS
<1>1. CASE ArcadeNext
  <2>1. \A s \in Sockets \ odd : Kept(s)
    BY DEF ArcadeInv
  <2>2. ArcadeTypeOK' /\ Tapped' /\ Carded'
    BY <1>1, TypeNext, TappedNext, CardedNext DEF ArcadeInv
  <2>3. ASSUME NEW s \in Sockets, s \notin odd' PROVE Kept(s)'
    BY <1>1, <2>1, <2>3, KeptNext DEF ArcadeInv
  <2> QED
    BY <2>2, <2>3 DEF ArcadeInv
<1>2. CASE UNCHANGED arcadeVars
  <2>1. /\ UNCHANGED <<tick, hand, session, tapped, online, desk, lastFinish, lastWin>>
        /\ UNCHANGED <<hasty, doubled, odd>>
    BY <1>2 DEF arcadeVars, taps, cards, wins
  <2>2. ArcadeTypeOK'
    BY <2>1 DEF ArcadeInv, ArcadeTypeOK
  <2>3. Tapped'
    BY <2>1 DEF ArcadeInv, Tapped, Rewarded, Spaced, Done, Active, Within
  <2>4. Carded'
    BY <2>1 DEF ArcadeInv, Carded, Several, UnderWay, Playing, SinceFinish
  <2>5. \A s \in Sockets \ odd' : Kept(s)'
    BY <2>1 DEF ArcadeInv, Kept, Asked
  <2> QED
    BY <2>2, <2>3, <2>4, <2>5 DEF ArcadeInv
<1> QED
  BY <1>1, <1>2

LEMMA ArcadeInvPaced == ArcadeInv => GamesPaced
<1> SUFFICES ASSUME ArcadeInv PROVE GamesPaced
  OBVIOUS
<1>0. Rest \in Nat
  BY ArcadeAssumption
<1>1. ASSUME NEW n \in Rounds
      PROVE  /\ tapped[n] = IF session[n].status = "COMPLETED" THEN 1 ELSE 0
             /\ tapped[n] = 1 => Within(session[n].ends, session[n].completed)
  <2>1. Rewarded(n)
    BY DEF ArcadeInv, Tapped
  <2> QED
    BY <2>1 DEF Rewarded, Done
<1>2. ASSUME NEW n \in Rounds, NEW m \in Rounds \ {n}, tapped[n] = 1, tapped[m] = 1
      PROVE  session[n].completed - session[m].completed \notin -Rest + 1 .. Rest - 1
  <2>1. Done(n) /\ Done(m)
    BY <1>1, <1>2 DEF Done
  <2>2. Spaced(n, m)
    BY <1>2 DEF ArcadeInv, Tapped
  <2>3. \/ session[n].completed + Rest <= session[m].completed
        \/ session[m].completed + Rest <= session[n].completed
    BY <2>1, <2>2 DEF Spaced
  <2>4. session[n].completed \in Int /\ session[m].completed \in Int
    BY DEF ArcadeInv, ArcadeTypeOK, SessionRecord, Unset
  <2> QED
    BY <1>0, <2>3, <2>4
<1>3. hasty => doubled
  BY DEF ArcadeInv, Carded
<1>4. \A s \in Sockets \ odd : /\ desk[s] # NoRound => s \in online
                               /\ desk[s].flipped = 2 => desk[s].timer
  BY DEF ArcadeInv, Kept
<1> QED
  BY <1>1, <1>2, <1>3, <1>4 DEF GamesPaced

\* "COOLDOWN_ACTIVE", "SESSION_NOT_ACTIVE": a session of Hash Tap Sprint is
\* rewarded at most once, in its window and a cooldown after the other ones,
\* in whatever order the requests take the lock; and the wins of a game over
\* sockets are so as long as no two of its rounds were under way at a time.
THEOREM GamesArePaced == ArcadeSpec => []GamesPaced
<1>1. ArcadeInit => ArcadeInv
  BY ArcadeInvInit
<1>2. ArcadeInv /\ [ArcadeNext]_arcadeVars => ArcadeInv'
  BY ArcadeInvNext
<1>3. ArcadeInv => GamesPaced
  BY ArcadeInvPaced
<1> QED
  BY <1>1, <1>2, <1>3, PTL DEF ArcadeSpec

-----------------------------------------------------------------------------
(***************************************************************************)
(* The errands                                                             *)
(***************************************************************************)

Past == Times \cup {Before}
PacedKinds == {"watch", "gpu", "faucet", "link"}
ErrandRecord ==
  [kind : GrantKinds \cup {"none"}, pc : {"idle", "open", "read", "write"}, at : Times,
   gpu : Gpus \cup {0}]

ErrandTypeOK ==
  /\ moment \in Times
  /\ seconds \in [{"youtube", "auto-mining"} -> Int]
  /\ link \in [runs : Nat, completed : Past, started : Past]
  /\ faucet \in Past
  /\ gpu \in [Gpus -> {"none", "available", "claimed"}]
  /\ errand \in [Errand -> ErrandRecord]
  /\ \A r \in Errand : errand[r].at <= moment
  /\ grants \in [GrantKinds \X Times -> Nat]

\* The requests of a kind that are in progress.
Busy(kind) == {r \in Errand : errand[r].kind = kind /\ errand[r].pc # "idle"}
AloneUnlessTwice == \A k \in PacedKinds \ twice : \A q, r \in Busy(k) : q = r

\* The times of the grants of a kind.
GrantedAt(kind) == {u \in Times : grants[<<kind, u>>] # 0}

\* What was read is still so when the grant is written: the seconds are
\* there, and no grant is later than the read.
WatchHeld ==
  "watch" \notin twice =>
    /\ seconds["youtube"] >= 0
    /\ \A t \in Times : Granted("watch", t, DayTicks) <= WatchLimit
    /\ \A u \in GrantedAt("watch") : u <= moment
    /\ \A r \in Busy("watch") :
         /\ seconds["youtube"] >= WatchCost
         /\ \A u \in GrantedAt("watch") : u <= errand[r].at
         /\ \A s \in Times : s = errand[r].at => Granted("watch", s - DayTicks + 1, DayTicks) < WatchLimit

Claimed == {g \in Gpus : gpu[g] = "claimed"}

\* The same of the GPUs, and the one that is claimed is available.
GpuHeld ==
  "gpu" \notin twice =>
    /\ seconds["auto-mining"] >= 0
    /\ \A t \in Times : Granted("gpu", t, DayTicks) <= GpuLimit
    /\ IsFiniteSet(Claimed) /\ Granted("gpu", 0, MaxTime + 1) = Cardinality(Claimed)
    /\ \A u \in GrantedAt("gpu") : u <= moment
    /\ \A r \in Busy("gpu") :
         /\ seconds["auto-mining"] >= GpuCost
         /\ errand[r].gpu \in Gpus /\ gpu[errand[r].gpu] = "available"
         /\ \A u \in GrantedAt("gpu") : u <= errand[r].at
         /\ \A s \in Times : s = errand[r].at => Granted("gpu", s - DayTicks + 1, DayTicks) < GpuLimit

\* The row holds the last claim.
FaucetHeld ==
  "faucet" \notin twice =>
    /\ \A t \in Times : Granted("faucet", t, Cooldown) <= 1
    /\ \A u \in GrantedAt("faucet") : u <= faucet
    /\ \A r \in Busy("faucet") : faucet = Before \/ faucet + Cooldown <= errand[r].at

\* The row holds the last run; whoever has a session has no run of that day.
LinkHeld ==
  "link" \notin twice =>
    /\ \A t \in Times : t % DayTicks = 0 => Granted("link", t, DayTicks) <= 1
    /\ \A u \in GrantedAt("link") : u <= link.completed
    /\ link.runs = 0 /\ link.completed # Before => DayOf(link.completed) < DayOf(moment)
    /\ link.started # Before /\ link.completed # Before => DayOf(link.completed) < DayOf(link.started)
    /\ \A r \in Busy("link") : errand[r].pc = "open" => link.runs = 0
    /\ \A r \in Busy("link") : errand[r].pc = "write" => link.started # Before /\ link.started < errand[r].at

ErrandInv == ErrandTypeOK /\ AloneUnlessTwice /\ WatchHeld /\ GpuHeld /\ FaucetHeld /\ LinkHeld

-----------------------------------------------------------------------------
(* The grants of a kind in some ticks                                      *)

Span(kind, t, n) == {kind} \X {u \in Times : t <= u /\ u < t + n}

LEMMA SpanIs ==
  ASSUME NEW kind \in GrantKinds, NEW t, NEW n
  PROVE  /\ IsFiniteSet(Span(kind, t, n)) /\ Span(kind, t, n) \subseteq GrantKinds \X Times
         /\ \A x \in Span(kind, t, n) : \E u \in Times : x = <<kind, u>> /\ t <= u /\ u < t + n
         /\ \A u \in Times : t <= u /\ u < t + n => <<kind, u>> \in Span(kind, t, n)
<1>1. IsFiniteSet(Times) /\ IsFiniteSet({kind})
  <2>1. MaxTime \in Int /\ 0 \in Int
    BY ErrandAssumption
  <2> QED
    BY <2>1, FS_Interval, FS_Singleton DEF Times
<1>2. IsFiniteSet({u \in Times : t <= u /\ u < t + n})
  BY <1>1, FS_Subset
<1>3. IsFiniteSet(Span(kind, t, n))
  BY <1>1, <1>2, FS_Product DEF Span
<1> QED
  BY <1>3 DEF Span

LEMMA GrantedType ==
  ASSUME grants \in [GrantKinds \X Times -> Nat], NEW kind \in GrantKinds, NEW t, NEW n
  PROVE  Granted(kind, t, n) \in Int
<1>1. PICK f \in [GrantKinds \X Times -> Nat] : f = grants
  OBVIOUS
<1>2. Total(f, Span(kind, t, n)) \in Int
  <2>1. \A x \in Span(kind, t, n) : f[x] \in Int
    BY <1>1, SpanIs
  <2> QED
    BY <2>1, SpanIs, TotalType
<1> QED
  BY <1>1, <1>2 DEF Granted, Span

\* Ticks in which nothing was granted.
LEMMA GrantedNone ==
  ASSUME NEW kind \in GrantKinds, NEW t, NEW n, grants \in [GrantKinds \X Times -> Nat],
         \A u \in GrantedAt(kind) : ~(t <= u /\ u < t + n)
  PROVE  Granted(kind, t, n) = 0
<1>1. \A x \in Span(kind, t, n) : grants[x] = 0
  BY SpanIs DEF GrantedAt
<1>2. PICK f : f = grants /\ \A x \in Span(kind, t, n) : f[x] = IF x \in {} THEN 1 ELSE 0
  BY <1>1
<1>3. Total(f, Span(kind, t, n)) = Cardinality({})
  BY <1>2, SpanIs, TotalCounts
<1> QED
  BY <1>2, <1>3, FS_EmptySet DEF Granted, Span

\* Ticks whose grants are among those of others.
LEMMA GrantedAmong ==
  ASSUME NEW kind \in GrantKinds, NEW t, NEW n, NEW s, NEW m, grants \in [GrantKinds \X Times -> Nat],
         \A u \in GrantedAt(kind) : t <= u /\ u < t + n => s <= u /\ u < s + m
  PROVE  Granted(kind, t, n) <= Granted(kind, s, m)
<1>0. PICK f \in [GrantKinds \X Times -> Nat] : f = grants
  OBVIOUS
<1> DEFINE S == Span(kind, t, n)
           R == Span(kind, s, m)
<1>1. IsFiniteSet(S) /\ IsFiniteSet(R) /\ S \subseteq GrantKinds \X Times /\ R \subseteq GrantKinds \X Times
  BY SpanIs
<1>2. \A x \in S \ R : f[x] = 0
  BY <1>0, SpanIs DEF GrantedAt
<1> HIDE DEF S, R
<1>3. Total(f, S) = Total(f, S \cap R)
  <2>1. S \cap R \in SUBSET S /\ (\A x \in S : f[x] \in Nat) /\ (\A x \in S \ (S \cap R) : f[x] = 0)
    BY <1>1, <1>2
  <2> QED
    BY <1>1, <2>1, TotalOfRest
<1>4. Total(f, S \cap R) <= Total(f, R)
  <2>1. S \cap R \in SUBSET R /\ (\A x \in R : f[x] \in Nat)
    BY <1>1
  <2> QED
    BY <1>1, <2>1, TotalPart
<1> QED
  BY <1>0, <1>3, <1>4 DEF Granted, Span, S, R

\* One more grant.
LEMMA GrantedMore ==
  ASSUME grants \in [GrantKinds \X Times -> Nat], NEW kind \in GrantKinds, NEW at \in Times,
         Grant(kind, at)
  PROVE  /\ grants' \in [GrantKinds \X Times -> Nat]
         /\ \A k \in GrantKinds : k # kind => GrantedAt(k)' = GrantedAt(k)
         /\ \A k \in GrantKinds : \A t, n : k # kind => Granted(k, t, n)' = Granted(k, t, n)
         /\ GrantedAt(kind)' = GrantedAt(kind) \cup {at}
         /\ \A t, n : Granted(kind, t, n)' =
              IF t <= at /\ at < t + n THEN Granted(kind, t, n) + 1 ELSE Granted(kind, t, n)
<1>1. PICK f \in [GrantKinds \X Times -> Nat] : f = grants
  OBVIOUS
<1>2. PICK g : g = grants'
  OBVIOUS
<1>3. g = [f EXCEPT ![<<kind, at>>] = @ + 1] /\ <<kind, at>> \in GrantKinds \X Times
  BY <1>1, <1>2 DEF Grant
<1>4. /\ g \in [GrantKinds \X Times -> Nat]
      /\ g[<<kind, at>>] = f[<<kind, at>>] + 1
      /\ \A x \in GrantKinds \X Times : x # <<kind, at>> => g[x] = f[x]
  BY <1>3
<1>5. \A k \in GrantKinds : GrantedAt(k)' = IF k = kind THEN GrantedAt(k) \cup {at} ELSE GrantedAt(k)
  <2>1. \A k \in GrantKinds, u \in Times : <<k, u>> \in GrantKinds \X Times
    OBVIOUS
  <2>2. \A k \in GrantKinds : GrantedAt(k)' = {u \in Times : g[<<k, u>>] # 0}
    BY <1>2 DEF GrantedAt
  <2>3. \A k \in GrantKinds : GrantedAt(k) = {u \in Times : f[<<k, u>>] # 0}
    BY <1>1 DEF GrantedAt
  <2>4. \A k \in GrantKinds, u \in Times :
          g[<<k, u>>] # 0 <=> (f[<<k, u>>] # 0 \/ (k = kind /\ u = at))
    <3> SUFFICES ASSUME NEW k \in GrantKinds, NEW u \in Times
                 PROVE  g[<<k, u>>] # 0 <=> (f[<<k, u>>] # 0 \/ (k = kind /\ u = at))
      OBVIOUS
    <3>1. f[<<k, u>>] \in Nat
      BY <1>1, <2>1
    <3>2. CASE k = kind /\ u = at
      BY <1>4, <3>1, <3>2
    <3>3. CASE ~(k = kind /\ u = at)
      <4>1. <<k, u>> # <<kind, at>>
        BY <3>3
      <4> QED
        BY <1>4, <2>1, <3>3, <4>1
    <3> QED
      BY <3>2, <3>3
  <2> TAKE k \in GrantKinds
  <2>5. CASE k = kind
    <3>1. \A u \in Times : u \in GrantedAt(k)' <=> u \in GrantedAt(k) \/ u = at
      BY <2>2, <2>3, <2>4, <2>5
    <3>2. GrantedAt(k)' \subseteq Times /\ GrantedAt(k) \subseteq Times
      BY <2>2, <2>3
    <3> QED
      BY <2>5, <3>1, <3>2
  <2>6. CASE k # kind
    BY <2>2, <2>3, <2>4, <2>6
  <2> QED
    BY <2>5, <2>6
<1>6. ASSUME NEW k \in GrantKinds, NEW t, NEW n
      PROVE  Total(g, Span(k, t, n)) =
               IF k = kind /\ t <= at /\ at < t + n THEN Total(f, Span(k, t, n)) + 1 ELSE Total(f, Span(k, t, n))
  <2>0. PICK S : S = Span(k, t, n)
    OBVIOUS
  <2>1. /\ IsFiniteSet(S) /\ S \subseteq GrantKinds \X Times
        /\ <<kind, at>> \in S <=> k = kind /\ t <= at /\ at < t + n
    <3>1. <<kind, at>> \in S => k = kind /\ t <= at /\ at < t + n
      BY <2>0 DEF Span
    <3>2. k = kind /\ t <= at /\ at < t + n => <<kind, at>> \in S
      BY <2>0 DEF Span
    <3> QED
      BY <2>0, <3>1, <3>2, SpanIs
  <2>2. \A x \in S : f[x] \in Int /\ g[x] \in Int
    BY <1>1, <1>4, <2>1
  <2>3. Total(f, S) \in Int
    BY <2>1, <2>2, TotalType
  <2>4. CASE <<kind, at>> \in S
    <3>1. \A y \in S \ {<<kind, at>>} : g[y] = f[y]
      BY <1>4, <2>1
    <3>2. Total(g, S) = Total(f, S) - f[<<kind, at>>] + g[<<kind, at>>]
      BY <2>1, <2>2, <2>4, <3>1, TotalChange
    <3>3. PICK m \in Int : m = f[<<kind, at>>]
      BY <2>2, <2>4
    <3>4. Total(g, S) = Total(f, S) - m + (m + 1)
      BY <1>4, <3>2, <3>3
    <3>5. Total(g, S) = Total(f, S) + 1
      BY <2>3, <3>4
    <3> QED
      BY <2>0, <2>1, <2>4, <3>5
  <2>5. CASE <<kind, at>> \notin S
    <3>1. \A y \in S : f[y] \in Int /\ f[y] = g[y]
      BY <1>4, <2>1, <2>2, <2>5
    <3>2. Total(f, S) = Total(g, S)
      BY <2>1, <3>1, TotalSame
    <3> QED
      BY <2>0, <2>1, <2>5, <3>2
  <2> QED
    BY <2>4, <2>5
<1>7. \A k, t, n : /\ Granted(k, t, n) = Total(f, Span(k, t, n))
                   /\ Granted(k, t, n)' = Total(g, Span(k, t, n))
  BY <1>1, <1>2 DEF Granted, Span
<1> QED
  BY <1>2, <1>4, <1>5, <1>6, <1>7

-----------------------------------------------------------------------------
LEMMA ErrandInitial == ErrandInit => ErrandInv
<1> SUFFICES ASSUME ErrandInit PROVE ErrandInv
  OBVIOUS
<1>0. /\ 0 \in Times /\ Before \in Past /\ MaxTime \in Nat /\ DayTicks \in Nat
      /\ WatchLimit \in Nat /\ GpuLimit \in Nat
  BY ErrandAssumption DEF Times, Past
<1>1. /\ errand \in [Errand -> ErrandRecord]
      /\ \A r \in Errand : errand[r].pc = "idle" /\ errand[r].at = 0
  BY <1>0 DEF ErrandInit, ErrandRecord, IdleErrand
<1>2. grants \in [GrantKinds \X Times -> Nat] /\ \A k \in GrantKinds : GrantedAt(k) = {}
  BY DEF ErrandInit, GrantedAt
<1>3. /\ moment = 0 /\ seconds["youtube"] = 0 /\ seconds["auto-mining"] = 0
      /\ seconds \in [{"youtube", "auto-mining"} -> Int]
      /\ link \in [runs : Nat, completed : Past, started : Past]
      /\ link.runs = 0 /\ link.completed = Before /\ link.started = Before
      /\ faucet = Before /\ gpu = [g \in Gpus |-> "none"]
  BY <1>0 DEF ErrandInit
<1>4. ErrandTypeOK
  BY <1>0, <1>1, <1>2, <1>3 DEF ErrandTypeOK
<1>5. \A k : Busy(k) = {}
  BY <1>1 DEF Busy
<1>6. \A k \in PacedKinds : \A t, n : Granted(k, t, n) = 0 /\ k \in GrantKinds
  <2>1. PacedKinds \subseteq GrantKinds
    BY DEF PacedKinds, GrantKinds
  <2> QED
    BY <1>2, <2>1, GrantedNone
<1>7. Claimed = {}
  BY <1>3 DEF Claimed
<1>8. WatchHeld
  BY <1>0, <1>2, <1>3, <1>5, <1>6 DEF WatchHeld, PacedKinds
<1>9. GpuHeld
  BY <1>0, <1>2, <1>3, <1>5, <1>6, <1>7, FS_EmptySet DEF GpuHeld, PacedKinds
<1>10. FaucetHeld
  BY <1>2, <1>5, <1>6 DEF FaucetHeld, PacedKinds
<1>11. LinkHeld
  BY <1>2, <1>3, <1>5, <1>6 DEF LinkHeld, PacedKinds
<1> QED
  BY <1>4, <1>5, <1>8, <1>9, <1>10, <1>11 DEF ErrandInv, AloneUnlessTwice

-----------------------------------------------------------------------------
(* What a step does to the requests                                        *)

\* One request moves.
Advanced(r) ==
  /\ errand' \in [Errand -> ErrandRecord]
  /\ \A q \in Errand \ {r} : errand'[q] = errand[q]

LEMMA WasTaken ==
  ASSUME ErrandTypeOK, NEW r \in Errand, NEW kind \in GrantKinds,
         NEW pc \in {"open", "read", "write"}, NEW g \in Gpus \cup {0}, Take(r, kind, pc, g)
  PROVE  /\ Advanced(r) /\ errand[r].pc = "idle"
         /\ errand'[r].kind = kind /\ errand'[r].pc = pc /\ errand'[r].at = moment /\ errand'[r].gpu = g
<1>1. /\ errand \in [Errand -> ErrandRecord] /\ moment \in Times
      /\ errand' = [errand EXCEPT ![r] = [kind |-> kind, pc |-> pc, at |-> moment, gpu |-> g]]
  BY DEF Take, ErrandTypeOK
<1>2. [kind |-> kind, pc |-> pc, at |-> moment, gpu |-> g] \in ErrandRecord
  BY <1>1 DEF ErrandRecord
<1> QED
  BY <1>1, <1>2 DEF Advanced, Take

LEMMA WentOn ==
  ASSUME ErrandTypeOK, NEW r \in Errand, GoOn(r, "write")
  PROVE  /\ Advanced(r) /\ errand'[r].pc = "write" /\ errand'[r].kind = errand[r].kind
         /\ errand'[r].at = errand[r].at
<1>1. /\ errand \in [Errand -> ErrandRecord] /\ errand' = [errand EXCEPT ![r].pc = "write"]
  BY DEF GoOn, ErrandTypeOK
<1>2. errand' \in [Errand -> ErrandRecord]
  BY <1>1 DEF ErrandRecord
<1> QED
  BY <1>1, <1>2 DEF Advanced, ErrandRecord

LEMMA HasEnded ==
  ASSUME ErrandTypeOK, NEW r \in Errand, End(r)
  PROVE  Advanced(r) /\ errand'[r] = IdleErrand /\ errand'[r].pc = "idle" /\ errand'[r].at = 0
<1>1. /\ errand \in [Errand -> ErrandRecord] /\ errand' = [errand EXCEPT ![r] = IdleErrand]
      /\ IdleErrand.pc = "idle" /\ IdleErrand.at = 0
  BY DEF End, ErrandTypeOK, IdleErrand
<1>2. IdleErrand \in ErrandRecord
  BY ErrandAssumption DEF IdleErrand, ErrandRecord, Times
<1> QED
  BY <1>1, <1>2 DEF Advanced

\* The seconds of a kind grow by a beat and shrink by a claim.
LEMMA Spent ==
  ASSUME seconds \in [{"youtube", "auto-mining"} -> Int],
         NEW type \in {"youtube", "auto-mining"}, NEW n \in Int,
         seconds' = [seconds EXCEPT ![type] = @ + n]
  PROVE  /\ seconds' \in [{"youtube", "auto-mining"} -> Int]
         /\ seconds'[type] = seconds[type] + n
         /\ \A x \in {"youtube", "auto-mining"} \ {type} : seconds'[x] = seconds[x]
  OBVIOUS

\* A page and each handler first set yesterday's runs to nothing.
LEMMA WasReset ==
  ASSUME ErrandTypeOK, ResetDaily
  PROVE  /\ link' \in [runs : Nat, completed : Past, started : Past]
         /\ link'.completed = link.completed /\ link'.started = link.started
         /\ link'.runs = IF Stale THEN 0 ELSE link.runs
<1>1. link \in [runs : Nat, completed : Past, started : Past]
  BY DEF ErrandTypeOK
<1> QED
  BY <1>1 DEF ResetDaily

ErrandStep == GoBy \/ Browse \/ \E r \in Errand : Run(r)

LEMMA ErrandTypeNext ==
  ASSUME ErrandTypeOK, ErrandStep
  PROVE  ErrandTypeOK'
<1>0. /\ moment \in Times /\ seconds \in [{"youtube", "auto-mining"} -> Int]
      /\ link \in [runs : Nat, completed : Past, started : Past]
      /\ faucet \in Past /\ gpu \in [Gpus -> {"none", "available", "claimed"}]
      /\ errand \in [Errand -> ErrandRecord] /\ grants \in [GrantKinds \X Times -> Nat]
      /\ \A r \in Errand : errand[r].at <= moment
      /\ WatchCost \in Int /\ GpuCost \in Int /\ Times \subseteq Nat /\ 0 \in Times
      /\ Times \subseteq Past /\ Before \in Past
  BY ErrandAssumption DEF ErrandTypeOK, Times, Past
<1> DEFINE ClockOK == /\ moment' \in Times /\ errand' \in [Errand -> ErrandRecord]
                      /\ \A r \in Errand : errand'[r].at <= moment'
           WalletOK == seconds' \in [{"youtube", "auto-mining"} -> Int]
           LinkOK == link' \in [runs : Nat, completed : Past, started : Past]
           FaucetOK == faucet' \in Past
           GpuOK == gpu' \in [Gpus -> {"none", "available", "claimed"}]
           GrantsOK == grants' \in [GrantKinds \X Times -> Nat]
<1>1. GoBy \/ Browse => ClockOK /\ WalletOK /\ FaucetOK /\ GpuOK /\ GrantsOK
  <2>1. GoBy => ClockOK
    <3> SUFFICES ASSUME GoBy PROVE ClockOK
      OBVIOUS
    <3>1. moment' = moment + 1 /\ moment' \in Times /\ UNCHANGED errand
      BY <1>0, ErrandAssumption DEF GoBy, Times
    <3>2. \A r \in Errand : errand[r].at \in Nat
      BY <1>0 DEF ErrandRecord
    <3> QED
      BY <1>0, <3>1, <3>2
  <2>2. Browse => ClockOK
    BY <1>0 DEF Browse, startPartnerVisit, getShortlinkStatus
  <2> QED
    BY <1>0, <2>1, <2>2 DEF GoBy, Browse, startPartnerVisit, getShortlinkStatus, wallet, machines
<1>2. GoBy \/ Browse => LinkOK
  BY <1>0, WasReset DEF GoBy, Browse, startPartnerVisit, getShortlinkStatus
<1>3. ASSUME NEW r \in Errand, UNCHANGED moment, End(r) PROVE ClockOK
  <2>1. Advanced(r) /\ errand'[r].at = 0
    BY <1>3, HasEnded
  <2> QED
    BY <1>0, <1>3, <2>1 DEF Advanced
<1>4. ASSUME NEW r \in Errand, UNCHANGED moment, NEW kind \in GrantKinds,
             NEW pc \in {"open", "read", "write"}, NEW g \in Gpus \cup {0}, Take(r, kind, pc, g)
      PROVE  ClockOK
  <2>1. Advanced(r) /\ errand'[r].at = moment
    BY <1>4, WasTaken
  <2> QED
    BY <1>0, <1>4, <2>1 DEF Advanced
<1>5. ASSUME NEW r \in Errand, Run(r)
      PROVE  ClockOK /\ WalletOK /\ LinkOK /\ FaucetOK /\ GpuOK /\ GrantsOK
  <2>0. errand[r].at \in Times
    BY <1>0 DEF ErrandRecord
  <2>1. CASE \/ \E type \in {"youtube", "auto-mining"} : ReadBeat(r, type)
             \/ ReadWatch(r) \/ ReadRelease(r) \/ ReadFaucet(r) \/ BeginLink(r) \/ (\E g \in Gpus : ReadGpu(r, g))
    <3>1. /\ \E kind \in GrantKinds, pc \in {"open", "read", "write"}, g \in Gpus \cup {0} : Take(r, kind, pc, g)
          /\ UNCHANGED <<moment, wallet, link, faucet, visited, machines, grants>>
      BY <2>1 DEF ReadBeat, ReadWatch, ReadRelease, ReadFaucet, BeginLink, ReadGpu, GrantKinds
    <3> QED
      BY <1>0, <1>4, <3>1 DEF wallet, machines
  <2>2. CASE ReadStart(r)
    <3>1. LinkOK
      BY <2>2, WasReset DEF ReadStart
    <3>2. ClockOK
      BY <1>4, <2>2 DEF ReadStart, GrantKinds
    <3> QED
      BY <1>0, <2>2, <3>1, <3>2 DEF ReadStart, wallet, machines
  <2>3. CASE WriteBeat(r)
    <3>1. WalletOK
      BY <1>0, <2>3 DEF WriteBeat
    <3>2. ClockOK
      BY <1>3, <2>3 DEF WriteBeat
    <3> QED
      BY <1>0, <2>3, <3>1, <3>2 DEF WriteBeat, machines
  <2>4. CASE WriteWatch(r)
    <3>1. WalletOK
      BY <1>0, <2>4 DEF WriteWatch
    <3>2. ClockOK
      BY <1>3, <2>4 DEF WriteWatch
    <3>3. GrantsOK
      BY <1>0, <2>4, GrantedMore DEF WriteWatch, GrantKinds
    <3> QED
      BY <1>0, <2>4, <3>1, <3>2, <3>3 DEF WriteWatch, machines
  <2>5. CASE WriteRelease(r)
    <3>1. GpuOK
      BY <1>0, <2>5 DEF WriteRelease
    <3>2. ClockOK
      BY <1>3, <2>5 DEF WriteRelease
    <3> QED
      BY <1>0, <2>5, <3>1, <3>2 DEF WriteRelease, wallet
  <2>6. CASE WriteGpu(r)
    <3>1. GpuOK
      BY <1>0, <2>6 DEF WriteGpu
    <3>2. WalletOK
      BY <1>0, <2>6 DEF WriteGpu
    <3>3. ClockOK
      BY <1>3, <2>6 DEF WriteGpu
    <3>4. GrantsOK
      BY <1>0, <2>0, <2>6, GrantedMore DEF WriteGpu, GrantKinds
    <3> QED
      BY <1>0, <2>6, <3>1, <3>2, <3>3, <3>4 DEF WriteGpu
  <2>7. CASE WriteFaucet(r)
    <3>1. ClockOK
      BY <1>3, <2>7 DEF WriteFaucet
    <3>2. GrantsOK
      BY <1>0, <2>0, <2>7, GrantedMore DEF WriteFaucet, GrantKinds
    <3> QED
      BY <1>0, <2>0, <2>7, <3>1, <3>2 DEF WriteFaucet, wallet, machines
  <2>8. CASE OpenSession(r) \/ WriteStep(r)
    <3>1. PICK t \in Times : link' = [link EXCEPT !.started = t]
      BY <1>0, <2>0, <2>8 DEF OpenSession, WriteStep
    <3>2. LinkOK
      BY <1>0, <3>1
    <3>3. ClockOK
      BY <1>3, <2>8 DEF OpenSession, WriteStep
    <3> QED
      BY <1>0, <2>8, <3>2, <3>3 DEF OpenSession, WriteStep, wallet, machines
  <2>9. CASE ReadLink(r)
    <3>1. LinkOK
      BY <2>9, WasReset DEF ReadLink
    <3>2. CASE GoOn(r, "write")
      <4>1. Advanced(r) /\ errand'[r].at = errand[r].at
        BY <3>2, WentOn
      <4>2. ClockOK
        BY <1>0, <2>9, <4>1 DEF Advanced, ReadLink
      <4> QED
        BY <1>0, <2>9, <3>1, <4>2 DEF ReadLink, wallet, machines
    <3>3. CASE End(r)
      <4>1. ClockOK
        BY <1>3, <2>9, <3>3 DEF ReadLink
      <4> QED
        BY <1>0, <2>9, <3>1, <4>1 DEF ReadLink, wallet, machines
    <3> QED
      BY <2>9, <3>2, <3>3 DEF ReadLink
  <2>10. CASE WriteLastStep(r)
    <3>1. link.runs + 1 \in Nat
      BY <1>0
    <3>2. LinkOK
      BY <1>0, <2>0, <2>10, <3>1 DEF WriteLastStep
    <3>3. ClockOK
      BY <1>3, <2>10 DEF WriteLastStep
    <3>4. GrantsOK
      BY <1>0, <2>0, <2>10, GrantedMore DEF WriteLastStep, GrantKinds
    <3> QED
      BY <1>0, <2>10, <3>2, <3>3, <3>4 DEF WriteLastStep, wallet, machines
  <2>11. CASE Stumble(r)
    <3>1. ClockOK
      BY <1>3, <2>11 DEF Stumble
    <3> QED
      BY <1>0, <2>11, <3>1 DEF Stumble, wallet, machines
  <2> HIDE DEF ClockOK, WalletOK, LinkOK, FaucetOK, GpuOK, GrantsOK
  <2> QED
    BY <1>5, <2>1, <2>2, <2>3, <2>4, <2>5, <2>6, <2>7, <2>8, <2>9, <2>10, <2>11 DEF Run
<1>6. ClockOK /\ WalletOK /\ LinkOK /\ FaucetOK /\ GpuOK /\ GrantsOK
  <2> HIDE DEF ClockOK, WalletOK, LinkOK, FaucetOK, GpuOK, GrantsOK
  <2> QED
    BY <1>1, <1>2, <1>5 DEF ErrandStep
<1> QED
  BY <1>6 DEF ErrandTypeOK

\* A step that does nothing to the requests and the grants of a kind, but
\* that it may end one of them.
Elsewhere(k) ==
  /\ moment <= moment'
  /\ \A r \in Busy(k)' : r \in Busy(k) /\ errand'[r] = errand[r]
  /\ GrantedAt(k)' = GrantedAt(k)
  /\ \A t, n : Granted(k, t, n)' = Granted(k, t, n)

Own(k) ==
  \E r \in Errand :
    \/ k = "watch" /\ (ReadWatch(r) \/ WriteWatch(r))
    \/ k = "gpu" /\ ((\E g \in Gpus : ReadGpu(r, g)) \/ WriteGpu(r))
    \/ k = "faucet" /\ (ReadFaucet(r) \/ WriteFaucet(r))
    \/ k = "link" /\ (ReadStart(r) \/ BeginLink(r) \/ ReadLink(r) \/ WriteLastStep(r))

LEMMA Apart ==
  ASSUME ErrandTypeOK, NEW k \in PacedKinds, ErrandStep
  PROVE  Elsewhere(k) \/ Own(k)
<1>0. /\ moment \in Times /\ Times \subseteq Nat /\ grants \in [GrantKinds \X Times -> Nat]
      /\ k \in GrantKinds /\ \A r \in Errand : errand[r].at \in Times
  BY ErrandAssumption DEF ErrandTypeOK, Times, PacedKinds, GrantKinds, ErrandRecord
<1>1. ASSUME UNCHANGED grants
      PROVE  /\ GrantedAt(k)' = GrantedAt(k)
             /\ \A t, n : Granted(k, t, n)' = Granted(k, t, n)
  <2>1. PICK f : f = grants /\ f = grants'
    BY <1>1
  <2> QED
    BY <2>1 DEF GrantedAt, Granted
<1>2. ASSUME NEW r \in Errand, End(r)
      PROVE  \A q \in Busy(k)' : q \in Busy(k) /\ errand'[q] = errand[q]
  <2>1. Advanced(r) /\ errand'[r].pc = "idle"
    BY <1>2, HasEnded
  <2> QED
    BY <2>1 DEF Advanced, Busy
<1>3. ASSUME NEW r \in Errand, NEW kind \in GrantKinds \ {k},
             NEW pc \in {"open", "read", "write"}, NEW g \in Gpus \cup {0}, Take(r, kind, pc, g)
      PROVE  \A q \in Busy(k)' : q \in Busy(k) /\ errand'[q] = errand[q]
  <2>1. Advanced(r) /\ errand'[r].kind = kind
    BY <1>3, WasTaken
  <2> QED
    BY <2>1 DEF Advanced, Busy
<1>4. GoBy \/ Browse => Elsewhere(k)
  <2>1. GoBy \/ Browse => moment <= moment' /\ UNCHANGED <<errand, grants>>
    BY <1>0 DEF GoBy, Browse, startPartnerVisit, getShortlinkStatus
  <2>2. ASSUME UNCHANGED errand PROVE Busy(k)' = Busy(k) /\ \A q \in Busy(k) : errand'[q] = errand[q]
    BY <2>2 DEF Busy
  <2> QED
    BY <1>1, <2>1, <2>2 DEF Elsewhere
<1>5. ASSUME NEW r \in Errand, Run(r)
      PROVE  Elsewhere(k) \/ Own(k)
  <2>0. moment <= moment
    BY <1>0
  <2>1. CASE \E type \in {"youtube", "auto-mining"} : ReadBeat(r, type)
    <3>1. \E type \in {"youtube", "auto-mining"} : Take(r, type, "write", 0) /\ UNCHANGED <<moment, grants>>
      BY <2>1 DEF ReadBeat
    <3>2. {"youtube", "auto-mining"} \subseteq GrantKinds \ {k}
      BY DEF GrantKinds, PacedKinds
    <3> QED
      BY <1>1, <1>3, <2>0, <3>1, <3>2 DEF Elsewhere
  <2>2. CASE ReadRelease(r)
    <3>1. Take(r, "release", "write", 0) /\ UNCHANGED <<moment, grants>> /\ "release" \in GrantKinds \ {k}
      BY <2>2 DEF ReadRelease, GrantKinds, PacedKinds
    <3> QED
      BY <1>1, <1>3, <2>0, <3>1 DEF Elsewhere
  <2>3. ASSUME NEW kind \in PacedKinds, NEW pc \in {"open", "read", "write"}, NEW g \in Gpus \cup {0},
               Take(r, kind, pc, g), UNCHANGED <<moment, grants>>
        PROVE  Elsewhere(k) \/ k = kind
    <3>1. kind \in GrantKinds
      BY DEF PacedKinds, GrantKinds
    <3> QED
      BY <1>1, <1>3, <2>0, <2>3, <3>1 DEF Elsewhere
  <2>4. CASE ReadWatch(r)
    <3>1. Elsewhere(k) \/ k = "watch"
      BY <2>3, <2>4 DEF ReadWatch, PacedKinds
    <3> QED
      BY <2>4, <3>1 DEF Own
  <2>5. ASSUME NEW g \in Gpus, ReadGpu(r, g) PROVE Elsewhere(k) \/ Own(k)
    <3>1. Elsewhere(k) \/ k = "gpu"
      BY <2>3, <2>5 DEF ReadGpu, PacedKinds
    <3> QED
      BY <2>5, <3>1 DEF Own
  <2>6. CASE ReadFaucet(r)
    <3>1. Elsewhere(k) \/ k = "faucet"
      BY <2>3, <2>6 DEF ReadFaucet, PacedKinds
    <3> QED
      BY <2>6, <3>1 DEF Own
  <2>7. CASE ReadStart(r) \/ BeginLink(r)
    <3>1. Elsewhere(k) \/ k = "link"
      BY <2>3, <2>7 DEF ReadStart, BeginLink, PacedKinds
    <3> QED
      BY <2>7, <3>1 DEF Own
  <2>8. CASE WriteBeat(r) \/ WriteRelease(r) \/ OpenSession(r) \/ WriteStep(r) \/ Stumble(r)
    <3>1. End(r) /\ UNCHANGED <<moment, grants>>
      BY <2>8 DEF WriteBeat, WriteRelease, OpenSession, WriteStep, Stumble
    <3> QED
      BY <1>1, <1>2, <2>0, <3>1 DEF Elsewhere
  <2>9. ASSUME NEW kind \in PacedKinds, NEW t \in Times, Grant(kind, t), End(r), UNCHANGED moment
        PROVE  Elsewhere(k) \/ k = kind
    <3>1. kind \in GrantKinds
      BY DEF PacedKinds, GrantKinds
    <3> QED
      BY <1>0, <1>2, <2>0, <2>9, <3>1, GrantedMore DEF Elsewhere
  <2>10. CASE WriteWatch(r)
    <3>1. Elsewhere(k) \/ k = "watch"
      BY <1>0, <2>9, <2>10 DEF WriteWatch, PacedKinds
    <3> QED
      BY <2>10, <3>1 DEF Own
  <2>11. CASE WriteGpu(r)
    <3>1. Elsewhere(k) \/ k = "gpu"
      BY <1>0, <2>9, <2>11 DEF WriteGpu, PacedKinds
    <3> QED
      BY <2>11, <3>1 DEF Own
  <2>12. CASE WriteFaucet(r)
    <3>1. Elsewhere(k) \/ k = "faucet"
      BY <1>0, <2>9, <2>12 DEF WriteFaucet, PacedKinds
    <3> QED
      BY <2>12, <3>1 DEF Own
  <2>13. CASE WriteLastStep(r)
    <3>1. Elsewhere(k) \/ k = "link"
      BY <1>0, <2>9, <2>13 DEF WriteLastStep, PacedKinds
    <3> QED
      BY <2>13, <3>1 DEF Own
  <2>14. CASE ReadLink(r)
    <3>1. CASE GoOn(r, "write")
      <4>1. Advanced(r) /\ errand'[r].kind = "link"
        BY <2>14, <3>1, WentOn DEF ReadLink, At
      <4>2. k # "link" => \A q \in Busy(k)' : q \in Busy(k) /\ errand'[q] = errand[q]
        BY <4>1 DEF Advanced, Busy
      <4> QED
        BY <1>1, <2>0, <2>14, <4>2 DEF Elsewhere, Own, ReadLink
    <3>2. CASE End(r)
      BY <1>1, <1>2, <2>0, <2>14, <3>2 DEF Elsewhere, ReadLink
    <3> QED
      BY <2>14, <3>1, <3>2 DEF ReadLink
  <2> QED
    BY <1>5, <2>1, <2>2, <2>4, <2>5, <2>6, <2>7, <2>8, <2>10, <2>11, <2>12, <2>13, <2>14 DEF Run
<1> QED
  BY <1>4, <1>5 DEF ErrandStep

LEMMA Unspent ==
  ASSUME ErrandTypeOK, ErrandStep
  PROVE  /\ seconds'["youtube"] >= seconds["youtube"] \/ \E r \in Errand : WriteWatch(r)
         /\ seconds'["auto-mining"] >= seconds["auto-mining"] \/ \E r \in Errand : WriteGpu(r)
         /\ UNCHANGED gpu \/ \E r \in Errand : WriteRelease(r) \/ WriteGpu(r)
         /\ UNCHANGED faucet \/ \E r \in Errand : WriteFaucet(r)
<1>0. seconds \in [{"youtube", "auto-mining"} -> Int] /\ GpuCost \in Int /\ WatchCost \in Int
  BY ErrandAssumption DEF ErrandTypeOK
<1>1. UNCHANGED seconds => \A type \in {"youtube", "auto-mining"} : seconds'[type] >= seconds[type]
  BY <1>0
<1>2. ASSUME NEW r \in Errand, WriteBeat(r)
      PROVE  \A type \in {"youtube", "auto-mining"} : seconds'[type] >= seconds[type]
  BY <1>0, <1>2 DEF WriteBeat
<1>3. ASSUME NEW r \in Errand, WriteWatch(r)
      PROVE  seconds'["auto-mining"] >= seconds["auto-mining"]
  BY <1>0, <1>3 DEF WriteWatch
<1>4. ASSUME NEW r \in Errand, WriteGpu(r)
      PROVE  seconds'["youtube"] >= seconds["youtube"]
  BY <1>0, <1>4 DEF WriteGpu
<1>5. UNCHANGED seconds \/ \E r \in Errand : WriteBeat(r) \/ WriteWatch(r) \/ WriteGpu(r)
  <2>1. GoBy \/ Browse => UNCHANGED seconds
    BY DEF GoBy, Browse, startPartnerVisit, getShortlinkStatus, wallet
  <2>2. ASSUME NEW r \in Errand, Run(r)
        PROVE  UNCHANGED seconds \/ WriteBeat(r) \/ WriteWatch(r) \/ WriteGpu(r)
    BY <2>2 DEF Run, ReadBeat, ReadWatch, ReadRelease, ReadGpu, ReadFaucet, ReadStart, BeginLink,
         WriteRelease, WriteFaucet, OpenSession, ReadLink, WriteStep, WriteLastStep, Stumble, wallet
  <2> QED
    BY <2>1, <2>2 DEF ErrandStep
<1>6. UNCHANGED gpu \/ \E r \in Errand : WriteRelease(r) \/ WriteGpu(r)
  <2>1. GoBy \/ Browse => UNCHANGED gpu
    BY DEF GoBy, Browse, startPartnerVisit, getShortlinkStatus, machines
  <2>2. ASSUME NEW r \in Errand, Run(r)
        PROVE  UNCHANGED gpu \/ WriteRelease(r) \/ WriteGpu(r)
    BY <2>2 DEF Run, ReadBeat, WriteBeat, ReadWatch, WriteWatch, ReadRelease, ReadGpu, ReadFaucet, ReadStart,
         BeginLink, WriteFaucet, OpenSession, ReadLink, WriteStep, WriteLastStep, Stumble, machines
  <2> QED
    BY <2>1, <2>2 DEF ErrandStep
<1>7. UNCHANGED faucet \/ \E r \in Errand : WriteFaucet(r)
  <2>1. GoBy \/ Browse => UNCHANGED faucet
    BY DEF GoBy, Browse, startPartnerVisit, getShortlinkStatus
  <2>2. ASSUME NEW r \in Errand, Run(r)
        PROVE  UNCHANGED faucet \/ WriteFaucet(r)
    BY <2>2 DEF Run, ReadBeat, WriteBeat, ReadWatch, WriteWatch, ReadRelease, WriteRelease, ReadGpu, WriteGpu,
         ReadFaucet, ReadStart, BeginLink, OpenSession, ReadLink, WriteStep, WriteLastStep, Stumble
  <2> QED
    BY <2>1, <2>2 DEF ErrandStep
<1> QED
  BY <1>1, <1>2, <1>3, <1>4, <1>5, <1>6, <1>7

\* Who is in progress alone, unless the history says otherwise.
LEMMA AloneNext ==
  ASSUME ErrandNext
  PROVE  /\ twice \subseteq twice' /\ AloneUnlessTwice'
         /\ ErrandStep
<1>1. twice' = twice \cup Together'
  BY DEF ErrandNext
<1>2. AloneUnlessTwice'
  BY <1>1 DEF AloneUnlessTwice, Together, Busy, PacedKinds
<1> QED
  BY <1>1, <1>2 DEF ErrandNext, ErrandStep

\* A limited kind: with the grants that a window had when it was read, none
\* of them later, one more at a later time exceeds the limit of no window.
LEMMA WindowKept ==
  ASSUME ErrandTypeOK, NEW kind \in GrantKinds, NEW limit \in Nat, NEW s \in Times, NEW at \in Times, s <= at,
         \A t \in Times : Granted(kind, t, DayTicks) <= limit,
         \A u \in GrantedAt(kind) : u <= s,
         Granted(kind, s - DayTicks + 1, DayTicks) < limit,
         Grant(kind, at)
  PROVE  \A t \in Times : Granted(kind, t, DayTicks)' <= limit
<1> SUFFICES ASSUME NEW t \in Times PROVE Granted(kind, t, DayTicks)' <= limit
  OBVIOUS
<1>0. /\ grants \in [GrantKinds \X Times -> Nat] /\ DayTicks \in Nat /\ Times \subseteq Nat
  BY ErrandAssumption DEF ErrandTypeOK, Times
<1>1. Granted(kind, t, DayTicks)' =
        IF t <= at /\ at < t + DayTicks THEN Granted(kind, t, DayTicks) + 1 ELSE Granted(kind, t, DayTicks)
  BY <1>0, GrantedMore
<1>2. Granted(kind, t, DayTicks) <= limit /\ Granted(kind, t, DayTicks) \in Int
      /\ Granted(kind, s - DayTicks + 1, DayTicks) \in Int
  BY <1>0, GrantedType
<1>3. CASE t <= at /\ at < t + DayTicks
  <2>1. \A u \in GrantedAt(kind) : u \in Nat
    BY <1>0 DEF GrantedAt
  <2>2. \A u \in GrantedAt(kind) : t <= u /\ u < t + DayTicks =>
          s - DayTicks + 1 <= u /\ u < (s - DayTicks + 1) + DayTicks
    BY <1>0, <1>3, <2>1
  <2>3. Granted(kind, t, DayTicks) <= Granted(kind, s - DayTicks + 1, DayTicks)
    BY <1>0, <2>2, GrantedAmong
  <2> QED
    BY <1>1, <1>2, <1>3, <2>3
<1> QED
  BY <1>1, <1>2, <1>3

LEMMA WatchNext ==
  ASSUME ErrandInv, ErrandTypeOK', ErrandNext
  PROVE  WatchHeld'
<1> DEFINE StillHeld ==
             /\ seconds'["youtube"] >= 0
             /\ \A t \in Times : Granted("watch", t, DayTicks)' <= WatchLimit
             /\ \A u \in GrantedAt("watch")' : u <= moment'
             /\ \A r \in Busy("watch")' :
                  /\ seconds'["youtube"] >= WatchCost
                  /\ \A u \in GrantedAt("watch")' : u <= errand'[r].at
                  /\ \A s \in Times : s = errand'[r].at => Granted("watch", s - DayTicks + 1, DayTicks)' < WatchLimit
<1> SUFFICES ASSUME "watch" \notin twice' PROVE StillHeld
  BY DEF WatchHeld
<1>0. /\ ErrandTypeOK /\ seconds \in [{"youtube", "auto-mining"} -> Int] /\ moment \in Times /\ moment' \in Times
      /\ grants \in [GrantKinds \X Times -> Nat] /\ errand \in [Errand -> ErrandRecord]
      /\ seconds' \in [{"youtube", "auto-mining"} -> Int]
      /\ WatchCost \in Nat /\ WatchLimit \in Nat /\ DayTicks \in Nat /\ Times \subseteq Nat
      /\ "watch" \in PacedKinds /\ "watch" \in GrantKinds
      /\ \A r \in Errand : errand[r].at \in Times /\ errand[r].at <= moment
  BY ErrandAssumption DEF ErrandInv, ErrandTypeOK, Times, PacedKinds, GrantKinds, ErrandRecord
<1>1. ErrandStep /\ "watch" \notin twice /\ AloneUnlessTwice'
  BY AloneNext
<1>2. /\ seconds["youtube"] >= 0
      /\ \A t \in Times : Granted("watch", t, DayTicks) <= WatchLimit
      /\ \A u \in GrantedAt("watch") : u <= moment
      /\ \A r \in Busy("watch") :
           /\ seconds["youtube"] >= WatchCost
           /\ \A u \in GrantedAt("watch") : u <= errand[r].at
           /\ \A s \in Times : s = errand[r].at => Granted("watch", s - DayTicks + 1, DayTicks) < WatchLimit
  BY <1>1 DEF ErrandInv, WatchHeld
<1>3. GrantedAt("watch") \subseteq Nat
  BY <1>0 DEF GrantedAt
<1>4. ASSUME Elsewhere("watch"), seconds'["youtube"] >= seconds["youtube"]
      PROVE  StillHeld
  <2>1. /\ moment <= moment' /\ GrantedAt("watch")' = GrantedAt("watch")
        /\ \A t, n : Granted("watch", t, n)' = Granted("watch", t, n)
        /\ \A r \in Busy("watch")' : r \in Busy("watch") /\ errand'[r] = errand[r]
    BY <1>4 DEF Elsewhere
  <2>2. PICK x \in Int, y \in Int : x = seconds["youtube"] /\ y = seconds'["youtube"]
    BY <1>0
  <2>3. y >= 0 /\ (Busy("watch") # {} => y >= WatchCost)
    BY <1>0, <1>2, <1>4, <2>2
  <2>4. \A u \in GrantedAt("watch") : u <= moment'
    BY <1>0, <1>2, <1>3, <2>1
  <2> QED
    BY <1>2, <2>1, <2>2, <2>3, <2>4
<1>5. ASSUME NEW r \in Errand, ReadWatch(r)
      PROVE  StillHeld
  <2>1. /\ seconds["youtube"] >= WatchCost /\ Recent("watch") < WatchLimit
        /\ Take(r, "watch", "write", 0) /\ UNCHANGED <<moment, seconds, grants>>
    BY <1>5 DEF ReadWatch, Enough, wallet
  <2>2. /\ errand'[r].at = moment /\ errand'[r].kind = "watch" /\ errand'[r].pc = "write"
        /\ Advanced(r) /\ r \in Busy("watch")'
    BY <1>0, <2>1, WasTaken DEF Busy
  <2>3. \A q \in Busy("watch")' : q = r
    BY <1>0, <1>1, <2>2 DEF AloneUnlessTwice
  <2>4. /\ GrantedAt("watch")' = GrantedAt("watch")
        /\ \A t, n : Granted("watch", t, n)' = Granted("watch", t, n)
    BY <2>1 DEF GrantedAt, Granted
  <2>5. \A s \in Times : s = moment => Granted("watch", s - DayTicks + 1, DayTicks) < WatchLimit
    BY <2>1 DEF Recent
  <2> QED
    BY <1>2, <2>1, <2>2, <2>3, <2>4, <2>5
<1>6. ASSUME NEW r \in Errand, WriteWatch(r)
      PROVE  StillHeld
  <2>1. /\ errand[r].kind = "watch" /\ errand[r].pc = "write" /\ Grant("watch", moment) /\ End(r)
        /\ seconds' = [seconds EXCEPT !["youtube"] = @ - WatchCost] /\ UNCHANGED moment
    BY <1>6 DEF WriteWatch, At
  <2>2. r \in Busy("watch") /\ Advanced(r) /\ errand'[r].pc = "idle"
    BY <1>0, <2>1, HasEnded DEF Busy
  <2>3. Busy("watch")' = {}
    <3>1. \A q \in Busy("watch") : q = r
      BY <1>0, <1>1, <2>2 DEF ErrandInv, AloneUnlessTwice
    <3> QED
      BY <2>2, <3>1 DEF Busy, Advanced
  <2>4. seconds["youtube"] >= WatchCost /\ seconds'["youtube"] = seconds["youtube"] - WatchCost
    BY <1>0, <1>2, <2>1, <2>2
  <2>5. seconds'["youtube"] >= 0
    <3>1. PICK x \in Int : x = seconds["youtube"]
      BY <1>0
    <3> QED
      BY <1>0, <2>4, <3>1
  <2>6. GrantedAt("watch")' = GrantedAt("watch") \cup {moment}
    BY <1>0, <2>1, GrantedMore
  <2>7. PICK s \in Times : s = errand[r].at
    BY <1>0
  <2>8. s <= moment /\ (\A u \in GrantedAt("watch") : u <= s)
        /\ Granted("watch", s - DayTicks + 1, DayTicks) < WatchLimit
    BY <1>0, <1>2, <2>2, <2>7
  <2>9. \A t \in Times : Granted("watch", t, DayTicks)' <= WatchLimit
    BY <1>0, <1>2, <2>1, <2>8, WindowKept
  <2>10. moment <= moment
    BY <1>0
  <2> QED
    BY <1>2, <2>1, <2>3, <2>5, <2>6, <2>9, <2>10
<1> HIDE DEF StillHeld
<1>7. Own("watch") => \E r \in Errand : ReadWatch(r) \/ WriteWatch(r)
  BY DEF Own
<1>8. Elsewhere("watch") \/ Own("watch")
  BY <1>0, <1>1, Apart
<1>9. seconds'["youtube"] >= seconds["youtube"] \/ \E r \in Errand : WriteWatch(r)
  BY <1>0, <1>1, Unspent
<1>10. CASE \E r \in Errand : WriteWatch(r)
  BY <1>6, <1>10
<1>11. CASE \E r \in Errand : ReadWatch(r)
  BY <1>5, <1>11
<1>12. CASE Elsewhere("watch") /\ seconds'["youtube"] >= seconds["youtube"]
  BY <1>4, <1>12
<1> QED
  BY <1>7, <1>8, <1>9, <1>10, <1>11, <1>12

LEMMA GpuNext ==
  ASSUME ErrandInv, ErrandTypeOK', ErrandNext
  PROVE  GpuHeld'
<1> DEFINE StillHeld ==
             /\ seconds'["auto-mining"] >= 0
             /\ \A t \in Times : Granted("gpu", t, DayTicks)' <= GpuLimit
             /\ IsFiniteSet(Claimed') /\ Granted("gpu", 0, MaxTime + 1)' = Cardinality(Claimed')
             /\ \A u \in GrantedAt("gpu")' : u <= moment'
             /\ \A r \in Busy("gpu")' :
                  /\ seconds'["auto-mining"] >= GpuCost
                  /\ errand'[r].gpu \in Gpus /\ gpu'[errand'[r].gpu] = "available"
                  /\ \A u \in GrantedAt("gpu")' : u <= errand'[r].at
                  /\ \A s \in Times : s = errand'[r].at => Granted("gpu", s - DayTicks + 1, DayTicks)' < GpuLimit
<1> SUFFICES ASSUME "gpu" \notin twice' PROVE StillHeld
  BY DEF GpuHeld
<1>0. /\ ErrandTypeOK /\ seconds \in [{"youtube", "auto-mining"} -> Int] /\ moment \in Times /\ moment' \in Times
      /\ grants \in [GrantKinds \X Times -> Nat] /\ errand \in [Errand -> ErrandRecord]
      /\ seconds' \in [{"youtube", "auto-mining"} -> Int]
      /\ gpu \in [Gpus -> {"none", "available", "claimed"}]
      /\ GpuCost \in Nat /\ GpuLimit \in Nat /\ DayTicks \in Nat /\ MaxTime \in Nat /\ Times = 0 .. MaxTime
      /\ "gpu" \in PacedKinds /\ "gpu" \in GrantKinds
      /\ \A r \in Errand : errand[r].at \in Times /\ errand[r].at <= moment
  BY ErrandAssumption DEF ErrandInv, ErrandTypeOK, Times, PacedKinds, GrantKinds, ErrandRecord
<1>1. ErrandStep /\ "gpu" \notin twice /\ AloneUnlessTwice'
  BY AloneNext
<1>2. /\ seconds["auto-mining"] >= 0
      /\ \A t \in Times : Granted("gpu", t, DayTicks) <= GpuLimit
      /\ IsFiniteSet(Claimed) /\ Granted("gpu", 0, MaxTime + 1) = Cardinality(Claimed)
      /\ \A u \in GrantedAt("gpu") : u <= moment
      /\ \A r \in Busy("gpu") :
           /\ seconds["auto-mining"] >= GpuCost
           /\ errand[r].gpu \in Gpus /\ gpu[errand[r].gpu] = "available"
           /\ \A u \in GrantedAt("gpu") : u <= errand[r].at
           /\ \A s \in Times : s = errand[r].at => Granted("gpu", s - DayTicks + 1, DayTicks) < GpuLimit
  BY <1>1 DEF ErrandInv, GpuHeld
<1>3. GrantedAt("gpu") \subseteq Nat
  BY <1>0 DEF GrantedAt
<1>4. ASSUME Elsewhere("gpu"), seconds'["auto-mining"] >= seconds["auto-mining"],
             Claimed' = Claimed, \A g \in Gpus : gpu[g] = "available" => gpu'[g] = "available"
      PROVE  StillHeld
  <2>1. /\ moment <= moment' /\ GrantedAt("gpu")' = GrantedAt("gpu")
        /\ \A t, n : Granted("gpu", t, n)' = Granted("gpu", t, n)
        /\ \A r \in Busy("gpu")' : r \in Busy("gpu") /\ errand'[r] = errand[r]
    BY <1>4 DEF Elsewhere
  <2>2. PICK x \in Int, y \in Int : x = seconds["auto-mining"] /\ y = seconds'["auto-mining"]
    BY <1>0
  <2>3. y >= 0 /\ (Busy("gpu") # {} => y >= GpuCost)
    BY <1>0, <1>2, <1>4, <2>2
  <2>4. \A u \in GrantedAt("gpu") : u <= moment'
    BY <1>0, <1>2, <1>3, <2>1
  <2>5. IsFiniteSet(Claimed') /\ Granted("gpu", 0, MaxTime + 1)' = Cardinality(Claimed')
    BY <1>2, <1>4, <2>1
  <2>6. \A t \in Times : Granted("gpu", t, DayTicks)' <= GpuLimit
    BY <1>2, <2>1
  <2>7. ASSUME NEW r \in Busy("gpu")'
        PROVE  /\ y >= GpuCost
               /\ errand'[r].gpu \in Gpus /\ gpu'[errand'[r].gpu] = "available"
               /\ \A u \in GrantedAt("gpu")' : u <= errand'[r].at
               /\ \A s \in Times : s = errand'[r].at => Granted("gpu", s - DayTicks + 1, DayTicks)' < GpuLimit
    BY <1>2, <1>4, <2>1, <2>3, <2>7
  <2> QED
    BY <2>1, <2>2, <2>3, <2>4, <2>5, <2>6, <2>7
<1>5. ASSUME NEW r \in Errand, NEW g \in Gpus, ReadGpu(r, g)
      PROVE  StillHeld
  <2>1. /\ gpu[g] = "available" /\ seconds["auto-mining"] >= GpuCost /\ Recent("gpu") < GpuLimit
        /\ Take(r, "gpu", "write", g) /\ UNCHANGED <<moment, seconds, gpu, grants>>
    BY <1>5 DEF ReadGpu, Enough, wallet, machines
  <2>2. /\ errand'[r].at = moment /\ errand'[r].kind = "gpu" /\ errand'[r].pc = "write" /\ errand'[r].gpu = g
        /\ Advanced(r) /\ r \in Busy("gpu")'
    BY <1>0, <2>1, WasTaken DEF Busy
  <2>3. \A q \in Busy("gpu")' : q = r
    BY <1>0, <1>1, <2>2 DEF AloneUnlessTwice
  <2>4. /\ GrantedAt("gpu")' = GrantedAt("gpu") /\ Claimed' = Claimed
        /\ \A t, n : Granted("gpu", t, n)' = Granted("gpu", t, n)
    BY <2>1 DEF GrantedAt, Granted, Claimed
  <2>5. \A s \in Times : s = moment => Granted("gpu", s - DayTicks + 1, DayTicks) < GpuLimit
    BY <2>1 DEF Recent
  <2> QED
    BY <1>2, <2>1, <2>2, <2>3, <2>4, <2>5
<1>6. ASSUME NEW r \in Errand, WriteGpu(r)
      PROVE  StillHeld
  <2>1. /\ errand[r].kind = "gpu" /\ errand[r].pc = "write" /\ End(r)
        /\ seconds' = [seconds EXCEPT !["auto-mining"] = @ - GpuCost] /\ UNCHANGED moment
    BY <1>6 DEF WriteGpu, At
  <2>2. r \in Busy("gpu") /\ Advanced(r) /\ errand'[r].pc = "idle"
    BY <1>0, <2>1, HasEnded DEF Busy
  <2>3. Busy("gpu")' = {}
    <3>1. \A q \in Busy("gpu") : q = r
      BY <1>0, <1>1, <2>2 DEF ErrandInv, AloneUnlessTwice
    <3> QED
      BY <2>2, <3>1 DEF Busy, Advanced
  <2>4. seconds["auto-mining"] >= GpuCost /\ seconds'["auto-mining"] = seconds["auto-mining"] - GpuCost
    BY <1>0, <1>2, <2>1, <2>2
  <2>5. seconds'["auto-mining"] >= 0
    <3>1. PICK x \in Int : x = seconds["auto-mining"]
      BY <1>0
    <3> QED
      BY <1>0, <2>4, <3>1
  <2>6. PICK s \in Times, g \in Gpus : s = errand[r].at /\ g = errand[r].gpu
    BY <1>0, <1>2, <2>2
  <2>7. Grant("gpu", s) /\ gpu' = [gpu EXCEPT ![g] = "claimed"]
    BY <1>6, <2>6 DEF WriteGpu
  <2>8. /\ s <= moment /\ (\A u \in GrantedAt("gpu") : u <= s)
        /\ Granted("gpu", s - DayTicks + 1, DayTicks) < GpuLimit /\ gpu[g] = "available"
    BY <1>0, <1>2, <2>2, <2>6
  <2>9. \A t \in Times : Granted("gpu", t, DayTicks)' <= GpuLimit
    <3>1. s <= s
      BY <1>0
    <3> QED
      BY <1>0, <1>2, <2>7, <2>8, <3>1, WindowKept
  <2>10. GrantedAt("gpu")' = GrantedAt("gpu") \cup {s}
    BY <1>0, <2>7, GrantedMore
  <2>11. Claimed' = Claimed \cup {g} /\ g \notin Claimed
    BY <1>0, <2>7, <2>8 DEF Claimed
  <2>12. IsFiniteSet(Claimed') /\ Cardinality(Claimed') = Cardinality(Claimed) + 1
    BY <1>2, <2>11, FS_AddElement
  <2>13. Granted("gpu", 0, MaxTime + 1)' = Granted("gpu", 0, MaxTime + 1) + 1
    <3>1. 0 <= s /\ s < 0 + (MaxTime + 1)
      BY <1>0
    <3> QED
      BY <1>0, <2>7, <3>1, GrantedMore
  <2> QED
    BY <1>2, <2>1, <2>3, <2>5, <2>8, <2>9, <2>10, <2>12, <2>13
<1>7. ASSUME UNCHANGED gpu \/ \E r \in Errand : WriteRelease(r)
      PROVE  Claimed' = Claimed /\ \A g \in Gpus : gpu[g] = "available" => gpu'[g] = "available"
  <2>1. CASE UNCHANGED gpu
    BY <2>1 DEF Claimed
  <2>2. CASE \E r \in Errand : WriteRelease(r)
    <3>1. PICK g \in Gpus : gpu[g] = "none" /\ gpu' = [gpu EXCEPT ![g] = "available"]
      BY <2>2 DEF WriteRelease
    <3>2. /\ gpu'[g] = "available" /\ \A x \in Gpus \ {g} : gpu'[x] = gpu[x]
      BY <1>0, <3>1
    <3> QED
      BY <3>1, <3>2 DEF Claimed
  <2> QED
    BY <1>7, <2>1, <2>2
<1> HIDE DEF StillHeld
<1>8. Own("gpu") => \E r \in Errand : (\E g \in Gpus : ReadGpu(r, g)) \/ WriteGpu(r)
  BY DEF Own
<1>9. Elsewhere("gpu") \/ Own("gpu")
  BY <1>0, <1>1, Apart
<1>10. /\ seconds'["auto-mining"] >= seconds["auto-mining"] \/ \E r \in Errand : WriteGpu(r)
       /\ UNCHANGED gpu \/ (\E r \in Errand : WriteRelease(r)) \/ \E r \in Errand : WriteGpu(r)
  BY <1>0, <1>1, Unspent
<1>11. CASE \E r \in Errand : WriteGpu(r)
  BY <1>6, <1>11
<1>12. CASE \E r \in Errand, g \in Gpus : ReadGpu(r, g)
  BY <1>5, <1>12
<1>13. CASE Elsewhere("gpu") /\ ~\E r \in Errand : WriteGpu(r)
  BY <1>4, <1>7, <1>10, <1>13
<1> QED
  BY <1>8, <1>9, <1>11, <1>12, <1>13

LEMMA FaucetNext ==
  ASSUME ErrandInv, ErrandTypeOK', ErrandNext
  PROVE  FaucetHeld'
<1> DEFINE StillHeld ==
             /\ \A t \in Times : Granted("faucet", t, Cooldown)' <= 1
             /\ \A u \in GrantedAt("faucet")' : u <= faucet'
             /\ \A r \in Busy("faucet")' : faucet' = Before \/ faucet' + Cooldown <= errand'[r].at
<1> SUFFICES ASSUME "faucet" \notin twice' PROVE StillHeld
  BY DEF FaucetHeld
<1>0. /\ ErrandTypeOK /\ moment \in Times /\ faucet \in Past
      /\ grants \in [GrantKinds \X Times -> Nat] /\ errand \in [Errand -> ErrandRecord]
      /\ Cooldown \in Nat /\ Times \subseteq Nat /\ Before = -1 /\ Past \subseteq Int
      /\ \A x \in Past : x = Before \/ x \in Nat
      /\ "faucet" \in PacedKinds /\ "faucet" \in GrantKinds
      /\ \A r \in Errand : errand[r].at \in Times
  BY ErrandAssumption DEF ErrandInv, ErrandTypeOK, Times, Past, Before, PacedKinds, GrantKinds, ErrandRecord
<1>1. ErrandStep /\ "faucet" \notin twice /\ AloneUnlessTwice'
  BY AloneNext
<1>2. /\ \A t \in Times : Granted("faucet", t, Cooldown) <= 1
      /\ \A u \in GrantedAt("faucet") : u <= faucet
      /\ \A r \in Busy("faucet") : faucet = Before \/ faucet + Cooldown <= errand[r].at
  BY <1>1 DEF ErrandInv, FaucetHeld
<1>3. GrantedAt("faucet") \subseteq Nat
  BY <1>0 DEF GrantedAt
<1>4. ASSUME Elsewhere("faucet"), UNCHANGED faucet
      PROVE  StillHeld
  BY <1>2, <1>4 DEF Elsewhere
<1>5. ASSUME NEW r \in Errand, ReadFaucet(r)
      PROVE  StillHeld
  <2>1. /\ CooledDown /\ Take(r, "faucet", "write", 0) /\ UNCHANGED <<moment, faucet, grants>>
    BY <1>5 DEF ReadFaucet
  <2>2. /\ errand'[r].at = moment /\ errand'[r].kind = "faucet" /\ errand'[r].pc = "write"
        /\ Advanced(r) /\ r \in Busy("faucet")'
    BY <1>0, <2>1, WasTaken DEF Busy
  <2>3. \A q \in Busy("faucet")' : q = r
    BY <1>0, <1>1, <2>2 DEF AloneUnlessTwice
  <2>4. /\ GrantedAt("faucet")' = GrantedAt("faucet")
        /\ \A t, n : Granted("faucet", t, n)' = Granted("faucet", t, n)
    BY <2>1 DEF GrantedAt, Granted
  <2> QED
    BY <1>2, <2>1, <2>2, <2>3, <2>4 DEF CooledDown
<1>6. ASSUME NEW r \in Errand, WriteFaucet(r)
      PROVE  StillHeld
  <2>1. PICK s \in Times : s = errand[r].at
    BY <1>0
  <2>2. /\ errand[r].kind = "faucet" /\ errand[r].pc = "write" /\ End(r)
        /\ Grant("faucet", s) /\ faucet' = s
    BY <1>6, <2>1 DEF WriteFaucet, At
  <2>3. r \in Busy("faucet") /\ Advanced(r) /\ errand'[r].pc = "idle"
    BY <1>0, <2>2, HasEnded DEF Busy
  <2>4. Busy("faucet")' = {}
    <3>1. \A q \in Busy("faucet") : q = r
      BY <1>0, <1>1, <2>3 DEF ErrandInv, AloneUnlessTwice
    <3> QED
      BY <2>3, <3>1 DEF Busy, Advanced
  <2>5. /\ GrantedAt("faucet")' = GrantedAt("faucet") \cup {s}
        /\ \A t, n : Granted("faucet", t, n)' =
             IF t <= s /\ s < t + n THEN Granted("faucet", t, n) + 1 ELSE Granted("faucet", t, n)
    BY <1>0, <2>2, GrantedMore
  <2>6. \A u \in GrantedAt("faucet") : u + Cooldown <= s
    BY <1>0, <1>2, <1>3, <2>1, <2>3
  <2>7. \A u \in GrantedAt("faucet")' : u <= faucet'
    BY <1>0, <1>3, <2>2, <2>5, <2>6
  <2>8. ASSUME NEW t \in Times PROVE Granted("faucet", t, Cooldown)' <= 1
    <3>1. CASE t <= s /\ s < t + Cooldown
      <4>1. \A u \in GrantedAt("faucet") : ~(t <= u /\ u < t + Cooldown)
        BY <1>0, <1>3, <2>6, <3>1
      <4>2. Granted("faucet", t, Cooldown) = 0
        BY <1>0, <4>1, GrantedNone
      <4> QED
        BY <2>5, <3>1, <4>2
    <3> QED
      BY <1>2, <2>5, <3>1
  <2> QED
    BY <2>4, <2>7, <2>8
<1> HIDE DEF StillHeld
<1>7. Own("faucet") => \E r \in Errand : ReadFaucet(r) \/ WriteFaucet(r)
  BY DEF Own
<1>8. Elsewhere("faucet") \/ Own("faucet")
  BY <1>0, <1>1, Apart
<1>9. UNCHANGED faucet \/ \E r \in Errand : WriteFaucet(r)
  BY <1>0, <1>1, Unspent
<1> QED
  BY <1>4, <1>5, <1>6, <1>7, <1>8, <1>9

-----------------------------------------------------------------------------
(* The days of the short link                                              *)

LEMMA DayIs ==
  ASSUME NEW n \in Nat, NEW d \in Nat \ {0}
  PROVE  /\ n \div d \in Nat /\ d * (n \div d) <= n /\ n < d * (n \div d) + d
         /\ n % d = 0 => n = d * (n \div d)
  OBVIOUS

LEMMA DaysGrow ==
  ASSUME NEW m \in Nat, NEW n \in Nat, m <= n
  PROVE  DayOf(m) <= DayOf(n) /\ DayOf(m) \in Nat /\ DayOf(n) \in Nat
<1>0. DayTicks \in Nat \ {0}
  BY ErrandAssumption
<1>1. PICK x \in Nat, y \in Nat : x = m \div DayTicks /\ y = n \div DayTicks
  BY <1>0, DayIs
<1>2. DayTicks * x <= m /\ n < DayTicks * y + DayTicks
  BY <1>0, <1>1, DayIs
<1>3. x <= y
  <2> SUFFICES ASSUME ~(x <= y) PROVE FALSE
    OBVIOUS
  <2>1. x >= y + 1
    BY <1>1
  <2>2. DayTicks * x >= DayTicks * (y + 1) /\ DayTicks * (y + 1) = DayTicks * y + DayTicks
    BY <1>0, <1>1, <2>1
  <2>3. PICK a \in Nat, b \in Nat : a = DayTicks * x /\ b = DayTicks * y
    BY <1>0, <1>1
  <2> QED
    BY <1>0, <1>2, <2>2, <2>3
<1> QED
  BY <1>1, <1>3 DEF DayOf

\* The ticks of a day are those that belong to it.
LEMMA SameDay ==
  ASSUME NEW t \in Nat, NEW u \in Nat, t % DayTicks = 0, t <= u, u < t + DayTicks
  PROVE  DayOf(u) = DayOf(t)
<1>0. DayTicks \in Nat \ {0}
  BY ErrandAssumption
<1>1. PICK x \in Nat, y \in Nat : x = t \div DayTicks /\ y = u \div DayTicks
  BY <1>0, DayIs
<1>2. t = DayTicks * x /\ DayTicks * y <= u
  BY <1>0, <1>1, DayIs
<1>3. x <= y
  BY <1>1, DaysGrow DEF DayOf
<1>4. y <= x
  <2> SUFFICES ASSUME ~(y <= x) PROVE FALSE
    OBVIOUS
  <2>1. y >= x + 1
    BY <1>1
  <2>2. DayTicks * y >= DayTicks * (x + 1) /\ DayTicks * (x + 1) = DayTicks * x + DayTicks
    BY <1>0, <1>1, <2>1
  <2>3. PICK a \in Nat, b \in Nat : a = DayTicks * x /\ b = DayTicks * y
    BY <1>0, <1>1
  <2> QED
    BY <1>0, <1>2, <2>2, <2>3
<1> QED
  BY <1>1, <1>3, <1>4 DEF DayOf

LEMMA LinkNext ==
  ASSUME ErrandInv, ErrandTypeOK', ErrandNext
  PROVE  LinkHeld'
<1> DEFINE StillHeld ==
             /\ \A t \in Times : t % DayTicks = 0 => Granted("link", t, DayTicks)' <= 1
             /\ \A u \in GrantedAt("link")' : u <= link'.completed
             /\ link'.runs = 0 /\ link'.completed # Before => DayOf(link'.completed) < DayOf(moment')
             /\ link'.started # Before /\ link'.completed # Before => DayOf(link'.completed) < DayOf(link'.started)
             /\ \A r \in Busy("link")' : errand'[r].pc = "open" => link'.runs = 0
             /\ \A r \in Busy("link")' : errand'[r].pc = "write" =>
                  link'.started # Before /\ link'.started < errand'[r].at
<1> SUFFICES ASSUME "link" \notin twice' PROVE StillHeld
  BY DEF LinkHeld, DayOf
<1>0. /\ ErrandTypeOK /\ moment \in Times /\ moment' \in Times
      /\ grants \in [GrantKinds \X Times -> Nat] /\ errand \in [Errand -> ErrandRecord]
      /\ link \in [runs : Nat, completed : Past, started : Past]
      /\ link' \in [runs : Nat, completed : Past, started : Past]
      /\ DayTicks \in Nat \ {0} /\ Times \subseteq Nat /\ Before = -1
      /\ \A x \in Past : x = Before \/ x \in Nat
      /\ "link" \in PacedKinds /\ "link" \in GrantKinds
      /\ \A r \in Errand : errand[r].at \in Times /\ errand[r].at <= moment
  BY ErrandAssumption DEF ErrandInv, ErrandTypeOK, Times, Past, Before, PacedKinds, GrantKinds, ErrandRecord
<1>1. ErrandStep /\ "link" \notin twice /\ AloneUnlessTwice'
  BY AloneNext
<1>2. /\ \A t \in Times : t % DayTicks = 0 => Granted("link", t, DayTicks) <= 1
      /\ \A u \in GrantedAt("link") : u <= link.completed
      /\ link.runs = 0 /\ link.completed # Before => DayOf(link.completed) < DayOf(moment)
      /\ link.started # Before /\ link.completed # Before => DayOf(link.completed) < DayOf(link.started)
      /\ \A r \in Busy("link") : errand[r].pc = "open" => link.runs = 0
      /\ \A r \in Busy("link") : errand[r].pc = "write" => link.started # Before /\ link.started < errand[r].at
  BY <1>1 DEF ErrandInv, LinkHeld
<1>3. GrantedAt("link") \subseteq Nat
  BY <1>0 DEF GrantedAt
<1>4. ASSUME moment <= moment', GrantedAt("link")' = GrantedAt("link"),
             \A t, n : Granted("link", t, n)' = Granted("link", t, n),
             link'.completed = link.completed, link'.started = link.started,
             link'.runs = link.runs \/ (link'.runs = 0 /\ Stale),
             \A r \in Busy("link")' :
                \/ r \in Busy("link") /\ errand'[r] = errand[r]
                \/ errand'[r].pc = "open" /\ link'.runs = 0
                \/ errand'[r].pc = "read"
                \/ errand'[r].pc = "write" /\ link.started # Before /\ link.started < errand'[r].at
      PROVE  StillHeld
  <2>1. \A u \in GrantedAt("link")' : u <= link'.completed
    BY <1>2, <1>4
  <2>2. ASSUME link'.runs = 0, link'.completed # Before
        PROVE  DayOf(link'.completed) < DayOf(moment')
    <3>1. PICK c \in Nat : c = link.completed
      BY <1>0, <1>4, <2>2
    <3>2. DayOf(c) < DayOf(moment)
      BY <1>2, <1>4, <2>2, <3>1 DEF Stale
    <3>3. DayOf(moment) <= DayOf(moment') /\ DayOf(moment) \in Nat /\ DayOf(moment') \in Nat
      BY <1>0, <1>4, DaysGrow
    <3>4. DayOf(c) \in Nat
      <4>1. c <= c
        BY <3>1
      <4> QED
        BY <4>1, DaysGrow
    <3> QED
      BY <1>4, <3>1, <3>2, <3>3, <3>4
  <2>3. link'.started # Before /\ link'.completed # Before => DayOf(link'.completed) < DayOf(link'.started)
    BY <1>2, <1>4
  <2>4. \A r \in Busy("link")' : errand'[r].pc = "open" => link'.runs = 0
    BY <1>2, <1>4
  <2>5. \A r \in Busy("link")' : errand'[r].pc = "write" => link'.started # Before /\ link'.started < errand'[r].at
    BY <1>2, <1>4
  <2> QED
    BY <1>2, <1>4, <2>1, <2>2, <2>3, <2>4, <2>5
<1>5. moment <= moment
  BY <1>0
<1>6. ASSUME UNCHANGED grants
      PROVE  /\ GrantedAt("link")' = GrantedAt("link")
             /\ \A t, n : Granted("link", t, n)' = Granted("link", t, n)
  BY <1>6 DEF GrantedAt, Granted
<1>7. ASSUME ResetDaily
      PROVE  /\ link'.completed = link.completed /\ link'.started = link.started
             /\ link'.runs = link.runs \/ (link'.runs = 0 /\ Stale)
             /\ LeftToday => link'.runs = 0
  BY <1>0, <1>7, WasReset DEF LeftToday
<1>8. ASSUME Elsewhere("link"), UNCHANGED link PROVE StillHeld
  <2> HIDE DEF StillHeld
  <2> QED
    BY <1>4, <1>8 DEF Elsewhere
<1>9. ASSUME getShortlinkStatus PROVE StillHeld
  <2>1. ResetDaily /\ UNCHANGED <<moment, errand, grants>>
    BY <1>9 DEF getShortlinkStatus
  <2>2. \A r \in Busy("link")' : r \in Busy("link") /\ errand'[r] = errand[r]
    BY <2>1 DEF Busy
  <2> HIDE DEF StillHeld
  <2> QED
    BY <1>4, <1>5, <1>6, <1>7, <2>1, <2>2
<1>10. ASSUME NEW r \in Errand, ReadStart(r) \/ BeginLink(r) PROVE StillHeld
  <2>1. PICK pc \in {"open", "read"} : Take(r, "link", pc, 0) /\ (pc = "open" => LeftToday /\ ResetDaily)
    BY <1>10 DEF ReadStart, BeginLink
  <2>2. ResetDaily \/ UNCHANGED link
    BY <1>10 DEF ReadStart, BeginLink
  <2>3. UNCHANGED <<moment, grants>>
    BY <1>10 DEF ReadStart, BeginLink
  <2>4. Advanced(r) /\ errand'[r].pc = pc
    BY <1>0, <2>1, WasTaken
  <2>5. \A q \in Busy("link")' : q = r \/ (q \in Busy("link") /\ errand'[q] = errand[q])
    BY <2>4 DEF Busy, Advanced
  <2>6. /\ link'.completed = link.completed /\ link'.started = link.started
        /\ link'.runs = link.runs \/ (link'.runs = 0 /\ Stale)
    BY <1>7, <2>2
  <2>7. pc = "open" => link'.runs = 0
    BY <1>7, <2>1
  <2> HIDE DEF StillHeld
  <2> QED
    BY <1>4, <1>5, <1>6, <2>1, <2>3, <2>4, <2>5, <2>6, <2>7
<1>11. ASSUME NEW r \in Errand, ReadLink(r) PROVE StillHeld
  <2>1. /\ ResetDaily /\ UNCHANGED <<moment, grants>> /\ link.started # Before
        /\ (GoOn(r, "write") /\ link.started < errand[r].at) \/ End(r)
    BY <1>11 DEF ReadLink
  <2>2. /\ Advanced(r)
        /\ \/ errand'[r].pc = "idle"
           \/ errand'[r].pc = "write" /\ link.started < errand'[r].at
    BY <1>0, <2>1, WentOn, HasEnded
  <2>3. \A q \in Busy("link")' : \/ q \in Busy("link") /\ errand'[q] = errand[q]
                                 \/ errand'[q].pc = "write" /\ link.started < errand'[q].at
    BY <2>2 DEF Busy, Advanced
  <2> HIDE DEF StillHeld
  <2> QED
    BY <1>4, <1>5, <1>6, <1>7, <2>1, <2>3
<1>12. ASSUME NEW r \in Errand, OpenSession(r) \/ WriteStep(r) \/ WriteLastStep(r)
       PROVE  /\ r \in Busy("link") /\ Busy("link")' = {} /\ UNCHANGED moment
              /\ errand[r].pc = IF OpenSession(r) THEN "open" ELSE "write"
  <2>1. /\ errand[r].kind = "link" /\ errand[r].pc \in {"open", "write"} /\ End(r) /\ UNCHANGED moment
        /\ errand[r].pc = IF OpenSession(r) THEN "open" ELSE "write"
    BY <1>12 DEF OpenSession, WriteStep, WriteLastStep, At
  <2>2. r \in Busy("link") /\ Advanced(r) /\ errand'[r].pc = "idle"
    BY <1>0, <2>1, HasEnded DEF Busy
  <2>3. \A q \in Busy("link") : q = r
    BY <1>0, <1>1, <2>2 DEF ErrandInv, AloneUnlessTwice
  <2>4. Busy("link")' = {}
    BY <2>2, <2>3 DEF Busy, Advanced
  <2> QED
    BY <2>1, <2>2, <2>4
<1>13. ASSUME NEW r \in Errand, OpenSession(r) \/ WriteStep(r) PROVE StillHeld
  <2>1. r \in Busy("link") /\ Busy("link")' = {} /\ UNCHANGED <<moment, grants>>
        /\ errand[r].pc = IF OpenSession(r) THEN "open" ELSE "write"
    BY <1>12, <1>13 DEF OpenSession, WriteStep
  <2>2. PICK s \in Times : /\ link' = [link EXCEPT !.started = s]
                           /\ s = IF OpenSession(r) THEN moment ELSE errand[r].at
    BY <1>0, <1>13 DEF OpenSession, WriteStep
  <2>3. link'.started = s /\ link'.completed = link.completed /\ link'.runs = link.runs
    BY <1>0, <2>2
  <2>4. ASSUME link.completed # Before PROVE DayOf(link.completed) < DayOf(s)
    <3>1. CASE OpenSession(r)
      BY <1>2, <2>1, <2>2, <2>4, <3>1
    <3>2. CASE ~OpenSession(r)
      <4>1. link.started # Before /\ link.started < s
        BY <1>2, <2>1, <2>2, <3>2
      <4>2. PICK c \in Nat, a \in Nat : c = link.completed /\ a = link.started
        BY <1>0, <2>4, <4>1
      <4>3. DayOf(c) < DayOf(a) /\ a < s /\ s \in Nat
        BY <1>0, <1>2, <2>4, <4>1, <4>2
      <4>4. DayOf(a) <= DayOf(s) /\ DayOf(a) \in Nat /\ DayOf(s) \in Nat
        BY <4>2, <4>3, DaysGrow
      <4>5. DayOf(c) \in Nat
        <5>1. c <= c
          BY <4>2
        <5> QED
          BY <5>1, DaysGrow
      <4> QED
        BY <4>2, <4>3, <4>4, <4>5
    <3> QED
      BY <3>1, <3>2
  <2>5. link'.started # Before /\ link'.completed # Before => DayOf(link'.completed) < DayOf(link'.started)
    BY <2>3, <2>4
  <2>6. link'.runs = 0 /\ link'.completed # Before => DayOf(link'.completed) < DayOf(moment')
    BY <1>2, <2>1, <2>3
  <2> QED
    BY <1>2, <1>6, <2>1, <2>3, <2>5, <2>6
<1>14. ASSUME NEW r \in Errand, WriteLastStep(r) PROVE StillHeld
  <2>1. r \in Busy("link") /\ Busy("link")' = {} /\ UNCHANGED moment /\ errand[r].pc = "write"
    <3>1. ~OpenSession(r)
      BY <1>14 DEF OpenSession, WriteLastStep, At
    <3> QED
      BY <1>12, <1>14, <3>1
  <2>2. PICK s \in Times : s = errand[r].at
    BY <1>0
  <2>3. link' = [runs |-> link.runs + 1, completed |-> s, started |-> Before] /\ Grant("link", s)
    BY <1>14, <2>2 DEF WriteLastStep
  <2>4. link'.completed = s /\ link'.started = Before /\ link'.runs # 0
    BY <1>0, <2>3
  <2>5. link.started # Before /\ link.started < s
    BY <1>2, <2>1, <2>2
  <2>6. PICK a \in Nat : a = link.started
    BY <1>0, <2>5
  <2>7. DayOf(a) <= DayOf(s) /\ DayOf(a) \in Nat /\ DayOf(s) \in Nat /\ s \in Nat
    <3>1. s \in Nat /\ a <= s
      BY <1>0, <2>5, <2>6
    <3> QED
      BY <3>1, DaysGrow
  <2>8. ASSUME NEW u \in GrantedAt("link") PROVE DayOf(u) < DayOf(s) /\ u <= s
    <3>1. u \in Nat /\ u <= link.completed
      BY <1>2, <1>3
    <3>2. PICK c \in Nat : c = link.completed
      BY <1>0, <3>1
    <3>3. DayOf(u) <= DayOf(c) /\ DayOf(u) \in Nat /\ DayOf(c) \in Nat
      BY <3>1, <3>2, DaysGrow
    <3>4. DayOf(c) < DayOf(a)
      BY <1>0, <1>2, <2>5, <2>6, <3>2
    <3>5. DayOf(u) < DayOf(s)
      BY <2>7, <3>3, <3>4
    <3>6. ~(s <= u)
      <4> SUFFICES ASSUME s <= u PROVE FALSE
        OBVIOUS
      <4>1. DayOf(s) <= DayOf(u)
        BY <2>7, <3>1, DaysGrow
      <4> QED
        BY <2>7, <3>3, <3>5, <4>1
    <3> QED
      BY <2>7, <3>1, <3>5, <3>6
  <2>9. /\ GrantedAt("link")' = GrantedAt("link") \cup {s}
        /\ \A t, n : Granted("link", t, n)' =
             IF t <= s /\ s < t + n THEN Granted("link", t, n) + 1 ELSE Granted("link", t, n)
    BY <1>0, <2>3, GrantedMore
  <2>10. \A u \in GrantedAt("link")' : u <= link'.completed
    BY <2>4, <2>7, <2>8, <2>9
  <2>11. ASSUME NEW t \in Times, t % DayTicks = 0 PROVE Granted("link", t, DayTicks)' <= 1
    <3>1. CASE t <= s /\ s < t + DayTicks
      <4>1. t \in Nat /\ DayOf(s) = DayOf(t)
        BY <1>0, <2>7, <2>11, <3>1, SameDay
      <4>2. ASSUME NEW u \in GrantedAt("link"), t <= u, u < t + DayTicks PROVE FALSE
        <5>1. u \in Nat /\ DayOf(u) = DayOf(t)
          BY <1>3, <2>11, <4>1, <4>2, SameDay
        <5>2. DayOf(u) < DayOf(s)
          BY <2>8
        <5> QED
          BY <2>7, <4>1, <5>1, <5>2
      <4>3. Granted("link", t, DayTicks) = 0
        BY <1>0, <4>2, GrantedNone
      <4> QED
        BY <2>9, <3>1, <4>3
    <3> QED
      BY <1>2, <2>9, <2>11, <3>1
  <2> QED
    BY <2>1, <2>4, <2>10, <2>11
<1>15. \/ UNCHANGED link \/ getShortlinkStatus
       \/ \E r \in Errand : ReadStart(r) \/ OpenSession(r) \/ ReadLink(r) \/ WriteStep(r) \/ WriteLastStep(r)
  <2>1. GoBy \/ Browse => UNCHANGED link \/ getShortlinkStatus
    BY DEF GoBy, Browse, startPartnerVisit
  <2>2. ASSUME NEW r \in Errand, Run(r)
        PROVE  UNCHANGED link \/ ReadStart(r) \/ OpenSession(r) \/ ReadLink(r) \/ WriteStep(r) \/ WriteLastStep(r)
    BY <2>2 DEF Run, ReadBeat, WriteBeat, ReadWatch, WriteWatch, ReadRelease, WriteRelease, ReadGpu, WriteGpu,
         ReadFaucet, WriteFaucet, BeginLink, Stumble
  <2> QED
    BY <1>1, <2>1, <2>2 DEF ErrandStep
<1> HIDE DEF StillHeld
<1>16. Own("link") => \E r \in Errand : ReadStart(r) \/ BeginLink(r) \/ ReadLink(r) \/ WriteLastStep(r)
  BY DEF Own
<1>17. Elsewhere("link") \/ Own("link")
  BY <1>0, <1>1, Apart
<1> QED
  BY <1>8, <1>9, <1>10, <1>11, <1>13, <1>14, <1>15, <1>16, <1>17

-----------------------------------------------------------------------------
LEMMA ErrandInvNext ==
  ASSUME ErrandInv, [ErrandNext]_eVars
  PROVE  ErrandInv'
<1>1. CASE ErrandNext
  <2>1. AloneUnlessTwice' /\ ErrandStep
    BY <1>1, AloneNext
  <2>2. ErrandTypeOK'
    BY <2>1, ErrandTypeNext DEF ErrandInv
  <2> QED
    BY <1>1, <2>1, <2>2, WatchNext, GpuNext, FaucetNext, LinkNext DEF ErrandInv
<1>2. CASE UNCHANGED eVars
  <2>1. UNCHANGED <<moment, seconds, link, faucet, gpu, errand, grants, twice>>
    BY <1>2 DEF eVars, wallet, machines
  <2>2. /\ \A k : Busy(k)' = Busy(k) /\ GrantedAt(k)' = GrantedAt(k)
        /\ \A k, t, n : Granted(k, t, n)' = Granted(k, t, n)
        /\ Claimed' = Claimed
    BY <2>1 DEF Busy, GrantedAt, Granted, Claimed
  <2>3. ErrandTypeOK' /\ AloneUnlessTwice'
    BY <2>1, <2>2 DEF ErrandInv, ErrandTypeOK, AloneUnlessTwice
  <2>4. WatchHeld'
    BY <2>1, <2>2 DEF ErrandInv, WatchHeld
  <2>5. GpuHeld'
    BY <2>1, <2>2 DEF ErrandInv, GpuHeld
  <2>6. FaucetHeld'
    BY <2>1, <2>2 DEF ErrandInv, FaucetHeld
  <2>7. LinkHeld'
    BY <2>1, <2>2 DEF ErrandInv, LinkHeld, DayOf
  <2> QED
    BY <2>3, <2>4, <2>5, <2>6, <2>7 DEF ErrandInv
<1> QED
  BY <1>1, <1>2

\* Seconds are spent only if they were earned and a GPU for one grant, no
\* limit of a day and no cooldown is passed, unless two requests of a kind
\* were in progress at a time (the controllers of the short link, the
\* faucet, YouTube and the first auto mining).
THEOREM PacedErrands == ErrandSpec => []ErrandsPaced
<1>1. ErrandInit => ErrandInv
  BY ErrandInitial
<1>2. ErrandInv /\ [ErrandNext]_eVars => ErrandInv'
  BY ErrandInvNext
<1>3. ErrandInv => ErrandsPaced
  BY DEF ErrandInv, ErrandsPaced, WatchHeld, GpuHeld, FaucetHeld, LinkHeld, Claimed
<1> QED
  BY <1>1, <1>2, <1>3, PTL DEF ErrandSpec

-----------------------------------------------------------------------------
(***************************************************************************)
(* The campaigns                                                           *)
(***************************************************************************)

AttemptStatus == {"none", "STARTED", "PENDING_REVIEW", "COMPLETED", "REJECTED", "deleted"}
Decisions == {"review", "claim", "approve", "grant", "reject"}
DemandRecord ==
  [pc : Decisions \cup {"idle", "check", "redeem", "delete", "find", "create"},
   of : Readers \cup Attempts \cup {0}, period : Nat]

CampaignTypeOK ==
  /\ wall \in {"read", "offers"}
  /\ demand \in [Demand -> DemandRecord]
  /\ \A r \in Demand : /\ demand[r].pc \in {"check", "redeem"} => demand[r].of \in Readers
                       /\ demand[r].pc \in Decisions => demand[r].of \in Attempts
  /\ campaign \in [exists : BOOLEAN, live : BOOLEAN, max : Nat]
  /\ redeemed \subseteq Readers /\ redeemPaid \in [Readers -> Nat]
  /\ wallOffer \in [active : BOOLEAN, mode : Completions, limit : Nat]
  /\ attempt \in [Attempts -> [status : AttemptStatus, period : Nat]]
  /\ period \in Nat /\ paid \in [Attempts -> Nat]
  /\ most \in Nat

\* The highest limit so far is no lower than the one in force.
MostSoFar == IF wall = "read" THEN campaign.max <= most ELSE wallOffer.limit <= most

\* Of the rows of a campaign that exists each is paid once; what was paid for
\* the rows that went with a deleted campaign stays within the limit.
ReadPaid ==
  /\ campaign.exists => \A u \in Readers : redeemPaid[u] = IF u \in redeemed THEN 1 ELSE 0
  /\ \A u \in Readers : redeemPaid[u] <= 1
  /\ ~campaign.exists => redeemed = {}
  /\ wall = "read" /\ ~rush =>
       /\ Total(redeemPaid, Readers) <= most
       /\ \A r \in Demand : demand[r].pc = "redeem" /\ campaign.exists => Cardinality(redeemed) < most
       /\ \A q, r \in Demand : demand[q].pc = "redeem" /\ demand[r].pc = "redeem" => q = r

\* Whoever decides about an attempt alone finds it as it was read, or deleted.
Decided ==
  /\ \A a \in Attempts \ met : paid[a] = IF attempt[a].status = "COMPLETED" THEN 1 ELSE 0
  /\ \A a \in Attempts \ met : \A q, r \in Deciding(a) : q = r
  /\ \A a \in Attempts \ met : Deciding(a) # {} => attempt[a].status \in OpenStatuses \cup {"deleted"}
  /\ \A a \in Attempts : a \in met \/ Deciding(a) # {} => attempt[a].status # "none"

\* The attempts of a day that are completed, or may be.
Counting(d) == Having(OpenStatuses \cup {"COMPLETED"}, d)
Today(d) == {a \in Attempts : attempt[a].period = d}

\* A start that is in progress alone has counted what there is.
DayLimited ==
  wall = "offers" =>
    /\ \A d \in Nat \ crowded : Today(d) \cap met = {} => Cardinality(Counting(d)) <= most
    /\ \A r \in Beginning : demand[r].period \notin crowded =>
         /\ \A q \in Waiting : q = r
         /\ IF demand[r].pc = "find"
              THEN Cardinality(Having({"COMPLETED"}, demand[r].period)) < most
              ELSE Cardinality(Counting(demand[r].period)) < most

CampaignInv == CampaignTypeOK /\ MostSoFar /\ ReadPaid /\ Decided /\ DayLimited

-----------------------------------------------------------------------------
LEMMA CampaignInitial == CampaignInit => CampaignInv
<1> SUFFICES ASSUME CampaignInit PROVE CampaignInv
  OBVIOUS
<1>0. /\ campaign.max \in Nat /\ wallOffer.limit \in Nat
      /\ campaign = [exists |-> TRUE, live |-> FALSE, max |-> campaign.max]
      /\ wallOffer = [active |-> FALSE, mode |-> "USER_SELF_CLAIM", limit |-> wallOffer.limit]
  <2>1. (CHOOSE m \in Maxima : TRUE) \in Nat /\ (CHOOSE m \in Limits : TRUE) \in Nat
    BY CampaignAssumption
  <2> QED
    BY <2>1 DEF CampaignInit
<1>1. /\ \A r \in Demand : demand[r].pc = "idle"
      /\ demand \in [Demand -> DemandRecord]
  BY DEF CampaignInit, IdleDemand, DemandRecord
<1>2. /\ attempt \in [Attempts -> [status : AttemptStatus, period : Nat]]
      /\ \A a \in Attempts : attempt[a].status = "none" /\ paid[a] = 0
  BY DEF CampaignInit, AttemptStatus
<1>3. CampaignTypeOK
  BY <1>0, <1>1, <1>2 DEF CampaignTypeOK, CampaignInit, Decisions, Completions
<1>4. MostSoFar
  BY <1>0 DEF MostSoFar, CampaignInit
<1>5. ReadPaid
  <2>1. \A u \in Readers : redeemPaid[u] = 0
    BY DEF CampaignInit
  <2>2. Total(redeemPaid, Readers) = Cardinality({})
    BY <2>1, CampaignAssumption, TotalCounts
  <2>3. Total(redeemPaid, Readers) <= most
    BY <1>3, <2>2, FS_EmptySet DEF CampaignTypeOK
  <2> QED
    BY <1>1, <2>1, <2>3 DEF ReadPaid, CampaignInit
<1>6. Decided
  BY <1>1, <1>2 DEF Decided, Deciding, CampaignInit
<1>7. DayLimited
  <2>1. \A d : Counting(d) = {}
    BY <1>2 DEF Counting, Having, OpenStatuses
  <2>2. Beginning = {}
    BY <1>1 DEF Beginning
  <2>3. most >= 0
    BY <1>3 DEF CampaignTypeOK
  <2> QED
    BY <2>1, <2>2, <2>3, FS_EmptySet DEF DayLimited
<1> QED
  BY <1>3, <1>4, <1>5, <1>6, <1>7 DEF CampaignInv

-----------------------------------------------------------------------------
(* What a request in progress does to the requests                         *)

\* A request begins, goes on or ends, and the others stay.
Stepped(r) ==
  /\ demand' \in [Demand -> DemandRecord]
  /\ \A q \in Demand \ {r} : demand'[q] = demand[q]

LEMMA Turned ==
  ASSUME CampaignTypeOK, NEW r \in Demand, NEW from, NEW to \in {"redeem", "create", "grant"},
         Turn(r, from, to)
  PROVE  /\ Stepped(r) /\ demand[r].pc = from /\ demand'[r].pc = to
         /\ demand'[r].of = demand[r].of /\ demand'[r].period = demand[r].period
<1>1. demand[r].pc = from /\ demand' = [demand EXCEPT ![r].pc = to] /\ demand \in [Demand -> DemandRecord]
  BY DEF Turn, CampaignTypeOK
<1>2. to \in Decisions \cup {"idle", "check", "redeem", "delete", "find", "create"}
  BY DEF Decisions
<1>3. demand' \in [Demand -> DemandRecord]
  BY <1>1, <1>2 DEF DemandRecord
<1> QED
  BY <1>1, <1>3 DEF Stepped, DemandRecord

LEMMA AskedFor ==
  ASSUME CampaignTypeOK, NEW r \in Demand,
         NEW pc \in Decisions \cup {"check", "delete", "find"},
         NEW x \in Readers \cup Attempts \cup {0}, Ask(r, pc, x)
  PROVE  /\ Stepped(r) /\ demand[r].pc = "idle" /\ demand'[r].pc = pc /\ demand'[r].of = x
         /\ pc = "find" => demand'[r].period = period
<1>1. /\ demand[r].pc = "idle" /\ demand \in [Demand -> DemandRecord] /\ period \in Nat
      /\ demand' = [demand EXCEPT ![r] = [pc |-> pc, of |-> x, period |-> IF pc = "find" THEN period ELSE 0]]
  BY DEF Ask, CampaignTypeOK
<1>2. PICK n \in Nat : n = IF pc = "find" THEN period ELSE 0
  BY <1>1
<1>3. [pc |-> pc, of |-> x, period |-> n] \in DemandRecord
  BY DEF DemandRecord
<1>4. demand' = [demand EXCEPT ![r] = [pc |-> pc, of |-> x, period |-> n]]
  BY <1>1, <1>2
<1>5. demand' \in [Demand -> DemandRecord]
  BY <1>1, <1>3, <1>4
<1> QED
  BY <1>1, <1>2, <1>4, <1>5 DEF Stepped

LEMMA Answered ==
  ASSUME CampaignTypeOK, NEW r \in Demand, Answer(r)
  PROVE  Stepped(r) /\ demand'[r].pc = "idle"
<1>1. /\ demand' = [demand EXCEPT ![r] = IdleDemand] /\ demand \in [Demand -> DemandRecord]
      /\ IdleDemand \in DemandRecord /\ IdleDemand.pc = "idle"
  BY DEF Answer, CampaignTypeOK, IdleDemand, DemandRecord
<1> QED
  BY <1>1 DEF Stepped

\* An attempt that is there gets another status.
Changed(a, from, to) ==
  /\ attempt[a].status \in from /\ attempt'[a].status = to
  /\ \A b \in Attempts : attempt'[b].period = attempt[b].period
  /\ \A b \in Attempts \ {a} : attempt'[b] = attempt[b]
  /\ attempt' \in [Attempts -> [status : AttemptStatus, period : Nat]]

LEMMA Updated ==
  ASSUME CampaignTypeOK, NEW r \in Demand, demand[r].of \in Attempts,
         NEW status \in AttemptStatus, Update(r, status)
  PROVE  Changed(demand[r].of, AttemptStatus \ {"deleted"}, status)
<1>1. PICK a \in Attempts : a = demand[r].of
  OBVIOUS
<1>2. /\ attempt[a].status # "deleted" /\ attempt' = [attempt EXCEPT ![a].status = status]
      /\ attempt \in [Attempts -> [status : AttemptStatus, period : Nat]]
  BY <1>1 DEF Update, Row, CampaignTypeOK
<1>3. attempt' \in [Attempts -> [status : AttemptStatus, period : Nat]]
  BY <1>2
<1> QED
  BY <1>1, <1>2, <1>3 DEF Changed

-----------------------------------------------------------------------------
\* What can be said of each step before its effect: the action, the requests
\* after it, and the attempts.
LEMMA CampaignTypeNext ==
  ASSUME CampaignTypeOK, [CampaignNext]_campaignVars
  PROVE  CampaignTypeOK'
<1>0. /\ demand \in [Demand -> DemandRecord] /\ wall \in {"read", "offers"}
      /\ campaign \in [exists : BOOLEAN, live : BOOLEAN, max : Nat]
      /\ redeemed \subseteq Readers /\ redeemPaid \in [Readers -> Nat]
      /\ wallOffer \in [active : BOOLEAN, mode : Completions, limit : Nat]
      /\ attempt \in [Attempts -> [status : AttemptStatus, period : Nat]]
      /\ period \in Nat /\ paid \in [Attempts -> Nat] /\ most \in Nat
      /\ Maxima \subseteq Nat /\ Limits \subseteq Nat
  BY CampaignAssumption DEF CampaignTypeOK
<1> DEFINE DemandOK == /\ demand' \in [Demand -> DemandRecord]
                       /\ \A r \in Demand : /\ demand'[r].pc \in {"check", "redeem"} => demand'[r].of \in Readers
                                            /\ demand'[r].pc \in Decisions => demand'[r].of \in Attempts
           ReadOK == /\ campaign' \in [exists : BOOLEAN, live : BOOLEAN, max : Nat]
                     /\ redeemed' \subseteq Readers /\ redeemPaid' \in [Readers -> Nat]
           OffersOK == /\ wallOffer' \in [active : BOOLEAN, mode : Completions, limit : Nat]
                       /\ attempt' \in [Attempts -> [status : AttemptStatus, period : Nat]]
                       /\ period' \in Nat /\ paid' \in [Attempts -> Nat]
<1>a. ASSUME NEW r \in Demand, Stepped(r),
             demand'[r].pc \in {"check", "redeem"} => demand'[r].of \in Readers,
             demand'[r].pc \in Decisions => demand'[r].of \in Attempts
      PROVE  DemandOK
  BY <1>a DEF Stepped, CampaignTypeOK
<1>b. ASSUME NEW r \in Demand, Answer(r) PROVE DemandOK
  BY <1>a, <1>b, Answered DEF Decisions
<1>c. \A r \in Demand : demand[r].pc \in {"check", "redeem"} => demand[r].of \in Readers
  BY DEF CampaignTypeOK
<1>d. \A r \in Demand : demand[r].pc \in Decisions => demand[r].of \in Attempts
  BY DEF CampaignTypeOK
<1>e. UNCHANGED demand => DemandOK
  BY DEF CampaignTypeOK
<1>f. UNCHANGED readEarn => ReadOK
  BY <1>0 DEF readEarn
<1>g. UNCHANGED offerwall => OffersOK
  BY <1>0 DEF offerwall
<1>1. CASE CampaignNext
  <2>1. adminUpdateReadEarnCampaign => ReadOK /\ DemandOK /\ OffersOK
    BY <1>0, <1>e, <1>g DEF adminUpdateReadEarnCampaign
  <2>2. ASSUME NEW r \in Demand, Read(r) \/ Decline(r)
        PROVE  ReadOK /\ DemandOK /\ OffersOK
    <3>1. CASE \E u \in Readers : Preview(r, u)
      BY <1>a, <1>f, <1>g, <3>1, AskedFor DEF Preview, Decisions
    <3>2. CASE CheckRedeem(r)
      BY <1>a, <1>c, <1>f, <1>g, <3>2, Turned DEF CheckRedeem, Decisions
    <3>3. CASE WriteRedeem(r)
      <4>1. demand[r].of \in Readers
        BY <1>c, <3>3 DEF WriteRedeem
      <4> QED
        BY <1>0, <1>b, <1>g, <3>3, <4>1 DEF WriteRedeem
    <3>4. CASE ReadDelete(r)
      BY <1>a, <1>f, <1>g, <3>4, AskedFor DEF ReadDelete, Decisions
    <3>5. CASE WriteDelete(r)
      BY <1>0, <1>b, <1>g, <3>5 DEF WriteDelete
    <3>6. CASE Decline(r)
      BY <1>b, <1>f, <1>g, <3>6 DEF Decline
    <3> QED
      BY <2>2, <3>1, <3>2, <3>3, <3>4, <3>5, <3>6 DEF Read
  <2>3. patchOffer => ReadOK /\ DemandOK /\ OffersOK
    BY <1>0, <1>e, <1>f DEF patchOffer
  <2>4. NextPeriod => ReadOK /\ DemandOK /\ OffersOK
    BY <1>0, <1>e, <1>f DEF NextPeriod
  <2>5. ASSUME NEW a \in Attempts, Abandon(a)
        PROVE  ReadOK /\ DemandOK /\ OffersOK
    BY <1>0, <1>e, <1>f, <2>5 DEF Abandon, AttemptStatus
  <2>6. ASSUME NEW r \in Demand, Offer(r)
        PROVE  ReadOK /\ DemandOK /\ OffersOK
    <3>1. CASE ReadCount(r)
      BY <1>a, <1>f, <1>g, <3>1, AskedFor DEF ReadCount, Decisions
    <3>2. CASE FindOpen(r)
      BY <1>a, <1>f, <1>g, <3>2, Turned DEF FindOpen, Decisions
    <3>3. CASE CreateAttempt(r)
      <4>1. PICK a \in Attempts : attempt' = [attempt EXCEPT ![a] = [status |-> "STARTED", period |-> demand[r].period]]
        BY <3>3 DEF CreateAttempt
      <4>2. demand[r].period \in Nat
        BY <1>0 DEF DemandRecord
      <4>3. attempt' \in [Attempts -> [status : AttemptStatus, period : Nat]]
        BY <1>0, <4>1, <4>2 DEF AttemptStatus
      <4> QED
        BY <1>0, <1>b, <1>f, <3>3, <4>3 DEF CreateAttempt
    <3>4. ASSUME NEW a \in Attempts, ReadSubmit(r, a) \/ ReadApprove(r, a) \/ ReadReject(r, a)
          PROVE  ReadOK /\ DemandOK /\ OffersOK
      <4>1. /\ \E pc \in Decisions : Ask(r, pc, a)
            /\ UNCHANGED <<readEarn, offerwall>>
        BY <3>4 DEF ReadSubmit, ReadApprove, ReadReject, Decisions
      <4> QED
        BY <1>a, <1>f, <1>g, <4>1, AskedFor DEF Decisions
    <3>5. CASE Recheck(r)
      <4>1. \E from \in {"claim", "approve"} : Turn(r, from, "grant")
        BY <3>5 DEF Recheck
      <4> QED
        BY <1>a, <1>d, <1>f, <1>g, <3>5, <4>1, Turned DEF Recheck, Decisions
    <3>6. CASE WriteReview(r) \/ WriteGrant(r) \/ WriteReject(r)
      <4>1. PICK status \in AttemptStatus : Update(r, status)
        BY <3>6 DEF WriteReview, WriteGrant, WriteReject, AttemptStatus
      <4>2. demand[r].of \in Attempts
        BY <1>d, <3>6 DEF WriteReview, WriteGrant, WriteReject, Decisions
      <4>3. attempt' \in [Attempts -> [status : AttemptStatus, period : Nat]]
        BY <4>1, <4>2, Updated DEF Changed
      <4>4. paid' \in [Attempts -> Nat]
        BY <1>0, <3>6, <4>2 DEF WriteReview, WriteGrant, WriteReject
      <4> QED
        BY <1>0, <1>b, <1>f, <3>6, <4>3, <4>4 DEF WriteReview, WriteGrant, WriteReject
    <3> QED
      BY <2>6, <3>1, <3>2, <3>3, <3>4, <3>5, <3>6 DEF Offer
  <2>7. ReadOK /\ DemandOK /\ OffersOK
    <3> HIDE DEF ReadOK, DemandOK, OffersOK
    <3> QED
      BY <1>1, <2>1, <2>2, <2>3, <2>4, <2>5, <2>6 DEF CampaignNext
  <2>8. most' \in Nat /\ UNCHANGED wall
    BY <1>0, <1>1, <2>7 DEF CampaignNext
  <2> QED
    BY <1>0, <2>7, <2>8 DEF CampaignTypeOK
<1>2. CASE UNCHANGED campaignVars
  BY <1>2 DEF campaignVars, readEarn, offerwall, CampaignTypeOK
<1> QED
  BY <1>1, <1>2

\* What the history notes of a step, whatever the step is.
LEMMA Noted ==
  ASSUME CampaignTypeOK, CampaignTypeOK', CampaignNext
  PROVE  /\ wall' = wall /\ most' >= most /\ MostSoFar'
         /\ rush => rush'
         /\ ~rush' => \A q, r \in Demand : demand'[q].pc = "redeem" /\ demand'[r].pc = "redeem" => q = r
         /\ met \subseteq met'
         /\ \A a \in Attempts \ met' : \A q, r \in Deciding(a)' : q = r
         /\ \A a \in met' \ met : Deciding(a)' # {}
         /\ crowded \subseteq crowded'
         /\ \A r \in Beginning' : demand'[r].period \notin crowded' => \A q \in Waiting' : q = r
<1>1. /\ most \in Nat /\ campaign'.max \in Nat /\ wallOffer'.limit \in Nat
      /\ most' = LET now == IF wall = "read" THEN campaign'.max ELSE wallOffer'.limit
                 IN IF now > most THEN now ELSE most
      /\ wall' = wall
  BY DEF CampaignNext, CampaignTypeOK
<1>2. most' >= most /\ MostSoFar'
  BY <1>1 DEF MostSoFar
<1>3. /\ rush => rush'
      /\ ~rush' => \A q, r \in Demand : demand'[q].pc = "redeem" /\ demand'[r].pc = "redeem" => q = r
  BY DEF CampaignNext
<1>4. met' = met \cup {a \in Attempts : \E q, r \in Deciding(a)' : q # r}
  BY DEF CampaignNext
<1>5. /\ met \subseteq met'
      /\ \A a \in Attempts \ met' : \A q, r \in Deciding(a)' : q = r
      /\ \A a \in met' \ met : Deciding(a)' # {}
  BY <1>4
<1>6. crowded' = crowded \cup
         (IF \E q, r \in Waiting' : q # r THEN {demand'[r].period : r \in Beginning'} ELSE {})
  BY DEF CampaignNext
<1>7. Beginning' \subseteq Waiting'
  BY DEF Beginning, Waiting
<1>8. /\ crowded \subseteq crowded'
      /\ \A r \in Beginning' : demand'[r].period \notin crowded' => \A q \in Waiting' : q = r
  BY <1>6, <1>7
<1> QED
  BY <1>1, <1>2, <1>3, <1>5, <1>8

-----------------------------------------------------------------------------
(* Read & Earn                                                             *)

LEMMA ReadPaidNext ==
  ASSUME CampaignInv, CampaignTypeOK', CampaignNext
  PROVE  ReadPaid'
<1>0. /\ redeemPaid \in [Readers -> Nat] /\ redeemed \subseteq Readers /\ IsFiniteSet(Readers)
      /\ most \in Nat /\ most' \in Nat /\ campaign.max \in Nat
      /\ campaign \in [exists : BOOLEAN, live : BOOLEAN, max : Nat]
      /\ CampaignTypeOK
  BY CampaignAssumption DEF CampaignInv, CampaignTypeOK
<1>1. /\ wall' = wall /\ most' >= most /\ (rush => rush')
      /\ ~rush' => \A q, r \in Demand : demand'[q].pc = "redeem" /\ demand'[r].pc = "redeem" => q = r
  BY <1>0, Noted
<1>2. IsFiniteSet(redeemed) /\ Cardinality(redeemed) \in Nat /\ Total(redeemPaid, Readers) \in Int
  BY <1>0, FS_Subset, FS_CardinalityType, TotalType
<1>3. ASSUME UNCHANGED <<redeemed, redeemPaid>>, campaign'.exists = campaign.exists,
             \A r \in Demand : demand'[r].pc = "redeem" =>
                \/ demand[r].pc = "redeem"
                \/ wall = "read" => Cardinality(redeemed) < most
      PROVE  ReadPaid'
  <2>1. wall' = "read" /\ ~rush' =>
          /\ Total(redeemPaid', Readers) <= most'
          /\ \A r \in Demand : demand'[r].pc = "redeem" /\ campaign'.exists => Cardinality(redeemed') < most'
    BY <1>0, <1>1, <1>2, <1>3 DEF CampaignInv, ReadPaid
  <2> QED
    BY <1>1, <1>3, <2>1 DEF CampaignInv, ReadPaid
<1>4. ASSUME NEW r \in Demand, UNCHANGED readEarn, Stepped(r), demand'[r].pc # "redeem"
      PROVE  ReadPaid'
  BY <1>3, <1>4 DEF readEarn, Stepped
<1>5. ASSUME NEW r \in Demand, UNCHANGED readEarn, Answer(r)
      PROVE  ReadPaid'
  BY <1>0, <1>4, <1>5, Answered
<1>6. ASSUME NEW r \in Demand, NEW pc \in Decisions \cup {"check", "delete", "find"},
             NEW x \in Readers \cup Attempts \cup {0}, UNCHANGED readEarn, Ask(r, pc, x)
      PROVE  ReadPaid'
  BY <1>0, <1>4, <1>6, AskedFor DEF Decisions
<1>7. ASSUME adminUpdateReadEarnCampaign PROVE ReadPaid'
  BY <1>3, <1>7 DEF adminUpdateReadEarnCampaign
<1>8. ASSUME NEW r \in Demand, wall = "read", Read(r)
      PROVE  ReadPaid'
  <2>1. ASSUME NEW u \in Readers, Preview(r, u) PROVE ReadPaid'
    BY <1>6, <2>1 DEF Preview
  <2>2. CASE CheckRedeem(r)
    <3>1. /\ Turn(r, "check", "redeem") /\ Cardinality(redeemed) < campaign.max /\ UNCHANGED readEarn
      BY <2>2 DEF CheckRedeem
    <3>2. Cardinality(redeemed) < most
      BY <1>0, <1>2, <1>8, <3>1 DEF CampaignInv, MostSoFar
    <3>3. Stepped(r)
      BY <1>0, <3>1, Turned
    <3> QED
      BY <1>3, <3>1, <3>2, <3>3 DEF Stepped, readEarn
  <2>3. CASE WriteRedeem(r)
    <3>0. PICK u \in Readers : u = demand[r].of
      BY <1>0, <2>3 DEF CampaignTypeOK, WriteRedeem
    <3>1. /\ demand[r].pc = "redeem" /\ campaign.exists /\ u \notin redeemed
          /\ redeemed' = redeemed \cup {u}
          /\ redeemPaid' = [redeemPaid EXCEPT ![u] = @ + 1]
          /\ Answer(r) /\ UNCHANGED campaign
      BY <2>3, <3>0 DEF WriteRedeem, Unredeemed
    <3>2. \A x \in Readers : redeemPaid[x] = IF x \in redeemed THEN 1 ELSE 0
      BY <3>1 DEF CampaignInv, ReadPaid
    <3>3. \A x \in Readers : redeemPaid'[x] = IF x \in redeemed' THEN 1 ELSE 0
      BY <1>0, <3>0, <3>1, <3>2
    <3>4. redeemed' \subseteq Readers /\ Cardinality(redeemed') = Cardinality(redeemed) + 1
      BY <1>0, <1>2, <3>1, FS_AddElement
    <3>5. Total(redeemPaid', Readers) = Cardinality(redeemed')
      BY <1>0, <3>3, <3>4, TotalCounts
    <3>6. Stepped(r) /\ demand'[r].pc = "idle"
      BY <1>0, <3>1, Answered
    <3>7. ASSUME ~rush'
          PROVE  /\ Total(redeemPaid', Readers) <= most'
                 /\ \A q \in Demand : demand'[q].pc # "redeem"
      <4>1. ~rush
        BY <1>1, <3>7
      <4>2. Cardinality(redeemed) < most
        BY <1>8, <3>1, <4>1 DEF CampaignInv, ReadPaid
      <4>3. \A q \in Demand : demand[q].pc = "redeem" => q = r
        BY <1>8, <3>1, <4>1 DEF CampaignInv, ReadPaid
      <4> QED
        BY <1>0, <1>1, <1>2, <3>4, <3>5, <3>6, <4>2, <4>3 DEF Stepped
    <3> QED
      BY <1>1, <3>1, <3>3, <3>7 DEF ReadPaid
  <2>4. CASE ReadDelete(r)
    BY <1>6, <2>4 DEF ReadDelete
  <2>5. CASE WriteDelete(r)
    <3>1. /\ campaign' = [campaign EXCEPT !.exists = FALSE, !.live = FALSE]
          /\ redeemed' = {} /\ UNCHANGED redeemPaid
      BY <2>5 DEF WriteDelete
    <3>2. campaign'.exists = FALSE
      BY <1>0, <3>1
    <3>3. wall' = "read" /\ ~rush' => Total(redeemPaid', Readers) <= most'
      BY <1>0, <1>1, <1>2, <3>1 DEF CampaignInv, ReadPaid
    <3> QED
      BY <1>1, <3>1, <3>2, <3>3 DEF CampaignInv, ReadPaid
  <2> QED
    BY <1>8, <2>1, <2>2, <2>3, <2>4, <2>5 DEF Read
<1>9. ASSUME UNCHANGED <<demand, readEarn>> PROVE ReadPaid'
  BY <1>3, <1>9 DEF readEarn
<1>10. ASSUME NEW r \in Demand, Offer(r) \/ Decline(r)
       PROVE  ReadPaid'
  <2>1. CASE ReadCount(r)
    BY <1>6, <2>1 DEF ReadCount
  <2>2. CASE FindOpen(r) \/ Recheck(r)
    <3>1. PICK from \in {"find", "claim", "approve"}, to \in {"create", "grant"} : Turn(r, from, to)
      BY <2>2 DEF FindOpen, Recheck
    <3>2. Stepped(r) /\ demand'[r].pc # "redeem"
      BY <1>0, <3>1, Turned
    <3> QED
      BY <1>4, <2>2, <3>2 DEF FindOpen, Recheck
  <2>3. ASSUME NEW a \in Attempts, ReadSubmit(r, a) \/ ReadApprove(r, a) \/ ReadReject(r, a)
        PROVE  ReadPaid'
    <3>1. PICK pc \in Decisions : Ask(r, pc, a)
      BY <2>3 DEF ReadSubmit, ReadApprove, ReadReject, Decisions
    <3> QED
      BY <1>6, <2>3, <3>1 DEF ReadSubmit, ReadApprove, ReadReject
  <2>4. CASE CreateAttempt(r) \/ WriteReview(r) \/ WriteGrant(r) \/ WriteReject(r) \/ Decline(r)
    BY <1>5, <2>4 DEF CreateAttempt, WriteReview, WriteGrant, WriteReject, Decline
  <2> QED
    BY <1>10, <2>1, <2>2, <2>3, <2>4 DEF Offer
<1>11. patchOffer \/ NextPeriod \/ (\E a \in Attempts : Abandon(a)) => ReadPaid'
  BY <1>9 DEF patchOffer, NextPeriod, Abandon
<1> QED
  BY <1>7, <1>8, <1>10, <1>11 DEF CampaignNext

-----------------------------------------------------------------------------
(* The offerwall: who decides                                              *)

LEMMA DecidedNext ==
  ASSUME CampaignInv, CampaignTypeOK', CampaignNext
  PROVE  Decided'
<1>0. /\ CampaignTypeOK /\ demand \in [Demand -> DemandRecord] /\ paid \in [Attempts -> Nat]
      /\ attempt \in [Attempts -> [status : AttemptStatus, period : Nat]]
  BY DEF CampaignInv, CampaignTypeOK
<1>1. /\ met \subseteq met'
      /\ \A a \in Attempts \ met' : \A q, r \in Deciding(a)' : q = r
      /\ \A a \in met' \ met : Deciding(a)' # {}
  BY <1>0, Noted
<1>2. ASSUME UNCHANGED <<attempt, paid>>,
             \A a \in Attempts : \A r \in Deciding(a)' : r \in Deciding(a) \/ attempt[a].status \in OpenStatuses
      PROVE  Decided'
  <2>1. \A a \in Attempts \ met' :
          Deciding(a)' # {} => attempt'[a].status \in OpenStatuses \cup {"deleted"}
    BY <1>1, <1>2 DEF CampaignInv, Decided
  <2>2. \A a \in Attempts : Deciding(a)' # {} => attempt'[a].status # "none"
    BY <1>2 DEF CampaignInv, Decided, OpenStatuses
  <2>3. \A a \in Attempts : a \in met' => attempt'[a].status # "none"
    BY <1>1, <1>2, <2>2 DEF CampaignInv, Decided
  <2> QED
    BY <1>1, <1>2, <2>1, <2>2, <2>3 DEF CampaignInv, Decided
<1>3. ASSUME NEW r \in Demand, Stepped(r), UNCHANGED <<attempt, paid>>,
             demand'[r].pc \notin Decisions
      PROVE  Decided'
  BY <1>2, <1>3 DEF Stepped, Deciding, Decisions
<1>4. ASSUME NEW r \in Demand, Answer(r), UNCHANGED <<attempt, paid>>
      PROVE  Decided'
  BY <1>0, <1>3, <1>4, Answered DEF Decisions
<1>5. ASSUME NEW r \in Demand, NEW pc \in {"check", "delete", "find"},
             NEW x \in Readers \cup {0}, UNCHANGED <<attempt, paid>>, Ask(r, pc, x)
      PROVE  Decided'
  BY <1>0, <1>3, <1>5, AskedFor DEF Decisions
<1>6. ASSUME UNCHANGED <<demand, attempt, paid>> PROVE Decided'
  BY <1>2, <1>6 DEF Deciding
<1>7. ASSUME NEW r \in Demand, Read(r) \/ Decline(r)
      PROVE  Decided'
  <2>1. ASSUME NEW u \in Readers, Preview(r, u) PROVE Decided'
    BY <1>5, <2>1 DEF Preview, offerwall
  <2>2. CASE CheckRedeem(r)
    BY <1>0, <1>3, <2>2, Turned DEF CheckRedeem, offerwall, Decisions
  <2>3. CASE WriteRedeem(r) \/ WriteDelete(r) \/ Decline(r)
    BY <1>4, <2>3 DEF WriteRedeem, WriteDelete, Decline, offerwall
  <2>4. CASE ReadDelete(r)
    BY <1>5, <2>4 DEF ReadDelete, offerwall
  <2> QED
    BY <1>7, <2>1, <2>2, <2>3, <2>4 DEF Read
<1>8. ASSUME NEW a \in Attempts, Abandon(a) PROVE Decided'
  <2>1. /\ attempt[a].status = "STARTED" /\ attempt' = [attempt EXCEPT ![a].status = "deleted"]
        /\ UNCHANGED <<demand, paid>>
    BY <1>8 DEF Abandon
  <2>2. attempt'[a].status = "deleted" /\ \A b \in Attempts \ {a} : attempt'[b] = attempt[b]
    BY <1>0, <2>1
  <2>3. \A b \in Attempts : Deciding(b)' = Deciding(b)
    BY <2>1 DEF Deciding
  <2> QED
    BY <1>1, <2>1, <2>2, <2>3 DEF CampaignInv, Decided
<1>9. ASSUME NEW r \in Demand, Offer(r)
      PROVE  Decided'
  <2>1. CASE ReadCount(r)
    BY <1>5, <2>1 DEF ReadCount, offerwall
  <2>2. CASE FindOpen(r)
    BY <1>0, <1>3, <2>2, Turned DEF FindOpen, offerwall, Decisions
  <2>3. CASE CreateAttempt(r)
    <3>1. PICK a \in Attempts :
            /\ attempt[a].status = "none"
            /\ attempt' = [attempt EXCEPT ![a] = [status |-> "STARTED", period |-> demand[r].period]]
      <4>1. \A n \in Attempts : n >= n
        BY CampaignAssumption DEF Attempts
      <4> QED
        BY <2>3, <4>1 DEF CreateAttempt
    <3>2. Answer(r) /\ demand[r].pc = "create" /\ UNCHANGED paid
      BY <2>3 DEF CreateAttempt
    <3>3. attempt'[a].status = "STARTED" /\ \A b \in Attempts \ {a} : attempt'[b] = attempt[b]
      BY <1>0, <3>1
    <3>4. \A b \in Attempts : Deciding(b)' \subseteq Deciding(b)
      BY <1>0, <3>2, Answered DEF Stepped, Deciding
    <3>5. a \notin met /\ Deciding(a) = {} /\ Deciding(a)' = {} /\ a \notin met' /\ paid[a] = 0
      <4>1. a \notin met /\ Deciding(a) = {}
        BY <3>1 DEF CampaignInv, Decided
      <4>2. Deciding(a)' = {} /\ a \notin met'
        BY <1>1, <3>4, <4>1
      <4> QED
        BY <3>1, <4>1, <4>2 DEF CampaignInv, Decided
    <3>6. \A b \in Attempts \ {a} : b \in met' \/ Deciding(b)' # {} => attempt[b].status # "none"
      BY <1>1, <3>4 DEF CampaignInv, Decided
    <3>7. \A b \in Attempts \ met' : paid'[b] = IF attempt'[b].status = "COMPLETED" THEN 1 ELSE 0
      BY <1>1, <3>2, <3>3, <3>5 DEF CampaignInv, Decided
    <3>8. \A b \in Attempts \ met' : Deciding(b)' # {} => attempt'[b].status \in OpenStatuses \cup {"deleted"}
      BY <1>1, <3>3, <3>4, <3>5 DEF CampaignInv, Decided
    <3> QED
      BY <1>1, <3>3, <3>6, <3>7, <3>8 DEF Decided
  <2>4. ASSUME NEW a \in Attempts, ReadSubmit(r, a) \/ ReadApprove(r, a) \/ ReadReject(r, a)
        PROVE  Decided'
    <3>1. PICK pc \in Decisions : Ask(r, pc, a)
      BY <2>4 DEF ReadSubmit, ReadApprove, ReadReject, Decisions
    <3>2. attempt[a].status \in OpenStatuses /\ UNCHANGED <<attempt, paid>>
      BY <2>4 DEF ReadSubmit, ReadApprove, ReadReject, OpenStatuses, offerwall
    <3>3. Stepped(r) /\ demand'[r].of = a
      BY <1>0, <3>1, AskedFor
    <3> QED
      BY <1>2, <3>2, <3>3 DEF Stepped, Deciding
  <2>5. CASE Recheck(r)
    <3>1. PICK from \in {"claim", "approve"} : Turn(r, from, "grant")
      BY <2>5 DEF Recheck
    <3>2. Stepped(r) /\ demand[r].pc = from /\ demand'[r].of = demand[r].of
      BY <1>0, <3>1, Turned
    <3> QED
      BY <1>2, <2>5, <3>2 DEF Stepped, Deciding, Recheck, offerwall
  <2>6. CASE WriteReview(r) \/ WriteGrant(r) \/ WriteReject(r)
    <3>0. demand[r].pc \in {"review", "grant", "reject"} /\ demand[r].of \in Attempts
      BY <1>0, <2>6 DEF WriteReview, WriteGrant, WriteReject, CampaignTypeOK, Decisions
    <3>1. PICK a \in Attempts : a = demand[r].of
      BY <3>0
    <3>2. PICK status \in {"PENDING_REVIEW", "COMPLETED", "REJECTED"} :
            /\ Update(r, status) /\ Answer(r)
            /\ paid' = IF status = "COMPLETED" THEN [paid EXCEPT ![a] = @ + 1] ELSE paid
      BY <2>6, <3>1 DEF WriteReview, WriteGrant, WriteReject
    <3>3. Changed(a, AttemptStatus \ {"deleted"}, status)
      BY <1>0, <3>0, <3>1, <3>2, Updated DEF AttemptStatus
    <3>4. Stepped(r) /\ demand'[r].pc = "idle"
      BY <1>0, <3>2, Answered
    <3>5. r \in Deciding(a) /\ r \notin Deciding(a)' /\ \A b \in Attempts : Deciding(b)' \subseteq Deciding(b)
      BY <3>0, <3>1, <3>4 DEF Stepped, Deciding
    <3>6. attempt'[a].status = status /\ attempt[a].status # "deleted" /\ \A b \in Attempts \ {a} : attempt'[b] = attempt[b]
      BY <3>3 DEF Changed
    <3>7. ASSUME a \notin met'
          PROVE  /\ Deciding(a)' = {}
                 /\ paid'[a] = IF status = "COMPLETED" THEN 1 ELSE 0
      <4>1. a \notin met
        BY <1>1, <3>7
      <4>2. Deciding(a)' = {}
        BY <3>5, <4>1 DEF CampaignInv, Decided
      <4>3. attempt[a].status # "COMPLETED"
        BY <3>5, <3>6, <4>1 DEF CampaignInv, Decided, OpenStatuses
      <4>4. paid[a] = 0
        BY <4>1, <4>3 DEF CampaignInv, Decided
      <4> QED
        BY <1>0, <3>2, <4>2, <4>4
    <3>8. \A b \in Attempts \ {a} : paid'[b] = paid[b]
      BY <1>0, <3>2
    <3>9. \A b \in Attempts \ met' : paid'[b] = IF attempt'[b].status = "COMPLETED" THEN 1 ELSE 0
      BY <1>1, <3>6, <3>7, <3>8 DEF CampaignInv, Decided
    <3>10. \A b \in Attempts \ met' : Deciding(b)' # {} => attempt'[b].status \in OpenStatuses \cup {"deleted"}
      BY <1>1, <3>5, <3>6, <3>7 DEF CampaignInv, Decided
    <3>11. \A b \in Attempts : b \in met' \/ Deciding(b)' # {} => attempt'[b].status # "none"
      BY <1>1, <3>5, <3>6 DEF CampaignInv, Decided
    <3> QED
      BY <1>1, <3>9, <3>10, <3>11 DEF Decided
  <2> QED
    BY <1>9, <2>1, <2>2, <2>3, <2>4, <2>5, <2>6 DEF Offer
<1>10. adminUpdateReadEarnCampaign \/ patchOffer \/ NextPeriod => Decided'
  BY <1>6 DEF adminUpdateReadEarnCampaign, patchOffer, NextPeriod, offerwall
<1> QED
  BY <1>7, <1>8, <1>9, <1>10 DEF CampaignNext

-----------------------------------------------------------------------------
(* The offerwall: the limit of a day                                       *)

LEMMA HavingFinite ==
  ASSUME CampaignTypeOK
  PROVE  /\ \A statuses, d : IsFiniteSet(Having(statuses, d)) /\ Cardinality(Having(statuses, d)) \in Nat
         /\ \A statuses, more, d : statuses \subseteq more =>
              Cardinality(Having(statuses, d)) <= Cardinality(Having(more, d))
<1>1. IsFiniteSet(Attempts)
  BY CampaignAssumption, FS_Interval DEF Attempts
<1>2. \A statuses, d : Having(statuses, d) \subseteq Attempts
  BY DEF Having
<1>3. \A statuses, d : IsFiniteSet(Having(statuses, d)) /\ Cardinality(Having(statuses, d)) \in Nat
  BY <1>1, <1>2, FS_Subset, FS_CardinalityType
<1>4. \A statuses, more, d : statuses \subseteq more => Having(statuses, d) \subseteq Having(more, d)
  BY DEF Having
<1> QED
  BY <1>3, <1>4, FS_Subset

LEMMA DayLimitedNext ==
  ASSUME CampaignInv, CampaignTypeOK', CampaignNext, wall = "offers"
  PROVE  DayLimited'
<1>0. /\ CampaignTypeOK /\ demand \in [Demand -> DemandRecord] /\ demand' \in [Demand -> DemandRecord]
      /\ attempt \in [Attempts -> [status : AttemptStatus, period : Nat]]
      /\ attempt' \in [Attempts -> [status : AttemptStatus, period : Nat]]
      /\ most \in Nat /\ most' \in Nat /\ wallOffer.limit \in Nat /\ wallOffer.limit <= most
      /\ "read" # "offers"
  BY DEF CampaignInv, CampaignTypeOK, MostSoFar
<1>1. /\ most' >= most /\ met \subseteq met' /\ crowded \subseteq crowded'
      /\ \A r \in Beginning' : demand'[r].period \notin crowded' => \A q \in Waiting' : q = r
  BY <1>0, Noted
<1>2. \A statuses, d : /\ IsFiniteSet(Having(statuses, d)) /\ Cardinality(Having(statuses, d)) \in Nat
                       /\ IsFiniteSet(Having(statuses, d)') /\ Cardinality(Having(statuses, d)') \in Nat
  <2>1. \A statuses, d : Having(statuses, d) \subseteq Attempts /\ Having(statuses, d)' \subseteq Attempts
    BY DEF Having
  <2>2. IsFiniteSet(Attempts)
    BY CampaignAssumption, FS_Interval DEF Attempts
  <2> QED
    BY <2>1, <2>2, FS_Subset, FS_CardinalityType
<1> DEFINE DaysKept == \A d \in Nat \ crowded' : Today(d)' \cap met' = {} => Cardinality(Counting(d)') <= most'
           Allowed(r) == r \in Beginning' => \A d \in {demand'[r].period} \ crowded' :
             IF demand'[r].pc = "find"
               THEN Cardinality(Having({"COMPLETED"}, d)') < most'
               ELSE Cardinality(Counting(d)') < most'
           AllAllowed == \A r \in Demand : Allowed(r)
<1>3. ASSUME \A d \in Nat \ crowded' : Today(d)' \cap met' = {} =>
                /\ Counting(d)' \subseteq Counting(d)
                /\ Today(d)' = Today(d)
      PROVE  DaysKept
  <2> SUFFICES ASSUME NEW d \in Nat \ crowded', Today(d)' \cap met' = {}
               PROVE  Cardinality(Counting(d)') <= most'
    OBVIOUS
  <2>1. d \notin crowded /\ Today(d) \cap met = {} /\ Counting(d)' \subseteq Counting(d)
    BY <1>1, <1>3
  <2>2. Cardinality(Counting(d)) <= most
    BY <1>0, <2>1 DEF CampaignInv, DayLimited
  <2>3. /\ IsFiniteSet(Counting(d)) /\ Cardinality(Counting(d)) \in Nat
        /\ Cardinality(Counting(d)') \in Nat
    BY <1>2 DEF Counting
  <2>4. Cardinality(Counting(d)') <= Cardinality(Counting(d))
    BY <2>1, <2>3, FS_Subset
  <2> QED
    BY <1>0, <1>1, <2>2, <2>3, <2>4
<1>4. ASSUME UNCHANGED attempt
      PROVE  /\ \A d : Counting(d)' = Counting(d) /\ Today(d)' = Today(d)
             /\ \A statuses, d : Having(statuses, d)' = Having(statuses, d)
  BY <1>4 DEF Counting, Having, Today
<1>5. ASSUME UNCHANGED attempt PROVE DaysKept
  BY <1>3, <1>4, <1>5
<1>6. ASSUME NEW r \in Demand, demand'[r] = demand[r], NEW d, d = demand[r].period,
             Counting(d)' \subseteq Counting(d),
             Having({"COMPLETED"}, d)' \subseteq Having({"COMPLETED"}, d)
      PROVE  Allowed(r)
  <2> SUFFICES ASSUME r \in Beginning', d \notin crowded'
               PROVE  IF demand'[r].pc = "find"
                        THEN Cardinality(Having({"COMPLETED"}, d)') < most'
                        ELSE Cardinality(Counting(d)') < most'
    BY <1>6
  <2>1. r \in Beginning /\ d \notin crowded
    BY <1>1, <1>6 DEF Beginning
  <2>2. IF demand[r].pc = "find"
          THEN Cardinality(Having({"COMPLETED"}, d)) < most
          ELSE Cardinality(Counting(d)) < most
    BY <1>0, <1>6, <2>1 DEF CampaignInv, DayLimited
  <2>3. /\ Cardinality(Having({"COMPLETED"}, d)') <= Cardinality(Having({"COMPLETED"}, d))
        /\ Cardinality(Counting(d)') <= Cardinality(Counting(d))
    BY <1>2, <1>6, FS_Subset DEF Counting
  <2>4. /\ Cardinality(Having({"COMPLETED"}, d)) \in Nat /\ Cardinality(Having({"COMPLETED"}, d)') \in Nat
        /\ Cardinality(Counting(d)) \in Nat /\ Cardinality(Counting(d)') \in Nat
    BY <1>2 DEF Counting
  <2> QED
    BY <1>0, <1>1, <1>6, <2>2, <2>3, <2>4
<1>7. ASSUME NEW r \in Demand, Stepped(r), UNCHANGED attempt, Allowed(r)
      PROVE  DaysKept /\ AllAllowed
  <2>1. \A q \in Demand \ {r} : Allowed(q)
    <3> HIDE DEF Allowed
    <3> QED
      BY <1>4, <1>6, <1>7 DEF Stepped
  <2> HIDE DEF DaysKept, Allowed
  <2> QED
    BY <1>5, <1>7, <2>1
<1>8. ASSUME NEW r \in Demand, r \in Waiting, Stepped(r), demand'[r].pc = "idle"
      PROVE  AllAllowed
  <2> SUFFICES ASSUME NEW q \in Demand, q \in Beginning', demand'[q].period \notin crowded'
               PROVE  FALSE
    OBVIOUS
  <2>1. q # r
    BY <1>8 DEF Beginning
  <2>2. q \in Beginning /\ demand[q].period \notin crowded
    BY <1>1, <1>8, <2>1 DEF Stepped, Beginning
  <2> QED
    BY <1>0, <1>8, <2>1, <2>2 DEF CampaignInv, DayLimited
<1>9. ASSUME UNCHANGED <<demand, attempt>> PROVE DaysKept /\ AllAllowed
  <2> HIDE DEF DaysKept, Allowed
  <2> QED
    BY <1>4, <1>5, <1>6, <1>9
<1>10. ASSUME NEW a \in Attempts, Abandon(a) PROVE DaysKept /\ AllAllowed
  <2>1. /\ attempt' = [attempt EXCEPT ![a].status = "deleted"] /\ UNCHANGED demand
    BY <1>10 DEF Abandon
  <2>2. /\ attempt'[a].status = "deleted"
        /\ \A b \in Attempts : attempt'[b].period = attempt[b].period
        /\ \A b \in Attempts \ {a} : attempt'[b] = attempt[b]
    BY <1>0, <2>1
  <2>3. \A d : /\ Counting(d)' \subseteq Counting(d) /\ Today(d)' = Today(d)
               /\ Having({"COMPLETED"}, d)' \subseteq Having({"COMPLETED"}, d)
    BY <2>2 DEF Counting, Having, Today, OpenStatuses
  <2> HIDE DEF DaysKept, Allowed
  <2> QED
    BY <1>3, <1>6, <2>1, <2>3
<1>11. ASSUME NEW r \in Demand, Offer(r) \/ Decline(r)
       PROVE  DaysKept /\ AllAllowed
  <2>1. CASE ReadCount(r)
    <3>1. /\ Ask(r, "find", 0) /\ UNCHANGED attempt
          /\ Cardinality(Having({"COMPLETED"}, period)) < wallOffer.limit
      BY <2>1 DEF ReadCount, offerwall
    <3>2. Stepped(r) /\ demand'[r].pc = "find" /\ demand'[r].period = period
      BY <1>0, <3>1, AskedFor
    <3>4. PICK d : d = period
      OBVIOUS
    <3>5. /\ Cardinality(Having({"COMPLETED"}, d)) < wallOffer.limit
          /\ demand'[r].period = d
      BY <3>1, <3>2, <3>4
    <3>6. Cardinality(Having({"COMPLETED"}, d)') < most'
      BY <1>0, <1>1, <1>2, <1>4, <3>1, <3>5
    <3>7. Allowed(r)
      BY <3>2, <3>5, <3>6
    <3> HIDE DEF DaysKept, Allowed
    <3> QED
      BY <1>7, <3>1, <3>2, <3>7
  <2>2. CASE FindOpen(r)
    <3>1. Turn(r, "find", "create") /\ UNCHANGED attempt /\ Having(OpenStatuses, demand[r].period) = {}
      BY <2>2 DEF FindOpen, offerwall
    <3>2. Stepped(r) /\ demand[r].pc = "find" /\ demand'[r].pc = "create" /\ demand'[r].period = demand[r].period
      BY <1>0, <3>1, Turned
    <3>3. PICK d : d = demand[r].period
      OBVIOUS
    <3>4. Counting(d) = Having({"COMPLETED"}, d)
      BY <3>1, <3>3 DEF Counting, Having
    <3>5. Allowed(r)
      <4> SUFFICES ASSUME d \notin crowded'
                   PROVE  Cardinality(Counting(d)') < most'
        BY <3>2, <3>3
      <4>1. r \in Beginning /\ d \notin crowded
        BY <1>1, <3>2 DEF Beginning
      <4>2. Cardinality(Having({"COMPLETED"}, d)) < most
        BY <1>0, <3>2, <3>3, <4>1 DEF CampaignInv, DayLimited
      <4> QED
        BY <1>0, <1>1, <1>2, <1>4, <3>1, <3>4, <4>2
    <3> HIDE DEF DaysKept, Allowed
    <3> QED
      BY <1>7, <3>1, <3>2, <3>5
  <2>3. CASE Recheck(r) \/ (\E a \in Attempts : ReadSubmit(r, a) \/ ReadApprove(r, a) \/ ReadReject(r, a)) \/ Decline(r)
    <3>1. CASE Recheck(r)
      <4>1. PICK from \in {"claim", "approve"} : Turn(r, from, "grant")
        BY <3>1 DEF Recheck
      <4>2. Stepped(r) /\ demand'[r].pc = "grant" /\ UNCHANGED attempt
        BY <1>0, <3>1, <4>1, Turned DEF Recheck, offerwall
      <4>3. Allowed(r)
        BY <4>2 DEF Beginning
      <4> HIDE DEF DaysKept, Allowed
      <4> QED
        BY <1>7, <4>2, <4>3
    <3>2. ASSUME NEW a \in Attempts, ReadSubmit(r, a) \/ ReadApprove(r, a) \/ ReadReject(r, a)
          PROVE  DaysKept /\ AllAllowed
      <4>1. PICK pc \in Decisions : Ask(r, pc, a) /\ UNCHANGED attempt
        BY <3>2 DEF ReadSubmit, ReadApprove, ReadReject, Decisions, offerwall
      <4>2. Stepped(r) /\ demand'[r].pc = pc /\ UNCHANGED attempt
        BY <1>0, <4>1, AskedFor
      <4>3. Allowed(r)
        BY <4>2 DEF Beginning, Decisions
      <4> HIDE DEF DaysKept, Allowed
      <4> QED
        BY <1>7, <4>2, <4>3
    <3>3. CASE Decline(r)
      <4>1. Stepped(r) /\ demand'[r].pc = "idle" /\ UNCHANGED attempt
        BY <1>0, <3>3, Answered DEF Decline, offerwall
      <4>2. Allowed(r)
        BY <4>1 DEF Beginning
      <4> HIDE DEF DaysKept, Allowed
      <4> QED
        BY <1>7, <4>1, <4>2
    <3> HIDE DEF DaysKept, AllAllowed
    <3> QED
      BY <2>3, <3>1, <3>2, <3>3
  <2>4. CASE CreateAttempt(r)
    <3>1. PICK a \in Attempts :
            /\ attempt[a].status = "none"
            /\ attempt' = [attempt EXCEPT ![a] = [status |-> "STARTED", period |-> demand[r].period]]
      <4>1. \A n \in Attempts : n >= n
        BY CampaignAssumption DEF Attempts
      <4> QED
        BY <2>4, <4>1 DEF CreateAttempt
    <3>2. Answer(r) /\ demand[r].pc = "create"
      BY <2>4 DEF CreateAttempt
    <3>3. PICK e : e = demand[r].period
      OBVIOUS
    <3>4. /\ attempt'[a].status = "STARTED" /\ attempt'[a].period = e
          /\ \A b \in Attempts \ {a} : attempt'[b] = attempt[b]
      BY <1>0, <3>1, <3>3
    <3>5. Stepped(r) /\ demand'[r].pc = "idle" /\ r \in Waiting /\ r \in Beginning
      BY <1>0, <3>2, Answered DEF Waiting, Beginning
    <3>6. AllAllowed
      <4> HIDE DEF AllAllowed
      <4> QED
        BY <1>8, <3>5
    <3>7. a \notin met
      BY <3>1 DEF CampaignInv, Decided
    <3>8. /\ \A d : Counting(d)' \subseteq Counting(d) \cup {a} /\ Today(d)' \subseteq Today(d) \cup {a}
          /\ \A d : Today(d) \subseteq Today(d)' \cup {a}
          /\ \A d : d # e => Counting(d)' \subseteq Counting(d)
          /\ a \notin Counting(e)
      BY <3>1, <3>4 DEF Counting, Having, Today, OpenStatuses
    <3>9. DaysKept
      <4> SUFFICES ASSUME NEW d \in Nat \ crowded', Today(d)' \cap met' = {}
                   PROVE  Cardinality(Counting(d)') <= most'
        OBVIOUS
      <4>1. d \notin crowded /\ Today(d) \cap met = {}
        BY <1>1, <3>7, <3>8
      <4>2. IF d = e THEN Cardinality(Counting(d)) < most ELSE Cardinality(Counting(d)) <= most
        BY <1>0, <3>2, <3>3, <3>5, <4>1 DEF CampaignInv, DayLimited
      <4>3. /\ IsFiniteSet(Counting(d)) /\ Cardinality(Counting(d)) \in Nat
            /\ Cardinality(Counting(d)') \in Nat
        BY <1>2 DEF Counting
      <4>4. CASE d = e
        <5>1. IsFiniteSet(Counting(d) \cup {a}) /\ Cardinality(Counting(d) \cup {a}) = Cardinality(Counting(d)) + 1
          BY <3>8, <4>3, <4>4, FS_AddElement
        <5>2. Cardinality(Counting(d)') <= Cardinality(Counting(d) \cup {a})
          BY <3>8, <5>1, FS_Subset
        <5> QED
          BY <1>0, <1>1, <4>2, <4>3, <4>4, <5>1, <5>2
      <4>5. CASE d # e
        <5>1. Cardinality(Counting(d)') <= Cardinality(Counting(d))
          BY <3>8, <4>3, <4>5, FS_Subset
        <5> QED
          BY <1>0, <1>1, <4>2, <4>3, <4>5, <5>1
      <4> QED
        BY <4>4, <4>5
    <3> QED
      BY <3>6, <3>9
  <2>5. CASE WriteReview(r) \/ WriteGrant(r) \/ WriteReject(r)
    <3>0. demand[r].pc \in {"review", "grant", "reject"} /\ demand[r].of \in Attempts
      BY <1>0, <2>5 DEF WriteReview, WriteGrant, WriteReject, CampaignTypeOK, Decisions
    <3>1. PICK a \in Attempts : a = demand[r].of
      BY <3>0
    <3>2. PICK status \in {"PENDING_REVIEW", "COMPLETED", "REJECTED"} : Update(r, status) /\ Answer(r)
      BY <2>5 DEF WriteReview, WriteGrant, WriteReject
    <3>3. Changed(a, AttemptStatus \ {"deleted"}, status)
      BY <1>0, <3>0, <3>1, <3>2, Updated DEF AttemptStatus
    <3>4. Stepped(r) /\ demand'[r].pc = "idle" /\ r \in Waiting /\ r \in Deciding(a)
      BY <1>0, <3>0, <3>1, <3>2, Answered DEF Waiting, Deciding
    <3>5. AllAllowed
      <4> HIDE DEF AllAllowed
      <4> QED
        BY <1>8, <3>4
    <3>6. /\ attempt[a].status # "deleted"
          /\ \A b \in Attempts : attempt'[b].period = attempt[b].period
          /\ \A b \in Attempts \ {a} : attempt'[b] = attempt[b]
      BY <3>3 DEF Changed
    <3>7. a \notin met => attempt[a].status \in OpenStatuses
      BY <3>4, <3>6 DEF CampaignInv, Decided
    <3>8. \A d : Today(d)' = Today(d)
      BY <3>6 DEF Today
    <3>9. ASSUME NEW d \in Nat \ crowded', Today(d)' \cap met' = {}
          PROVE  Counting(d)' \subseteq Counting(d)
      BY <1>1, <3>6, <3>7, <3>9 DEF Counting, Having, Today
    <3>10. DaysKept
      <4> HIDE DEF DaysKept
      <4> QED
        BY <1>3, <3>8, <3>9
    <3> QED
      BY <3>5, <3>10
  <2> HIDE DEF DaysKept, AllAllowed
  <2> QED
    BY <1>11, <2>1, <2>2, <2>3, <2>4, <2>5 DEF Offer
<1>12. DaysKept /\ AllAllowed
  <2> HIDE DEF DaysKept, AllAllowed
  <2>1. patchOffer \/ NextPeriod => DaysKept /\ AllAllowed
    BY <1>9 DEF patchOffer, NextPeriod
  <2> QED
    BY <1>0, <1>10, <1>11, <2>1 DEF CampaignNext
<1>13. Beginning' \subseteq Demand
  BY DEF Beginning
<1>14. ASSUME NEW r \in Demand, r \in Beginning', demand'[r].period \notin crowded'
       PROVE  IF demand'[r].pc = "find"
                THEN Cardinality(Having({"COMPLETED"}, demand[r].period))' < most'
                ELSE Cardinality(Counting(demand[r].period))' < most'
  <2>1. PICK d : d = demand'[r].period
    OBVIOUS
  <2>2. IF demand'[r].pc = "find"
          THEN Cardinality(Having({"COMPLETED"}, d)') < most'
          ELSE Cardinality(Counting(d)') < most'
    BY <1>12, <1>14, <2>1
  <2>3. /\ Having({"COMPLETED"}, demand[r].period)' = Having({"COMPLETED"}, d)'
        /\ Counting(demand[r].period)' = Counting(d)'
    BY <2>1 DEF Having, Counting
  <2> QED
    BY <2>2, <2>3
<1>15. \A d \in Nat \ crowded' : (Today(d) \cap met = {} => Cardinality(Counting(d)) <= most)'
  BY <1>12
<1> QED
  BY <1>1, <1>13, <1>14, <1>15 DEF DayLimited

-----------------------------------------------------------------------------
LEMMA CampaignNextInv ==
  ASSUME CampaignInv, [CampaignNext]_campaignVars
  PROVE  CampaignInv'
<1>1. CampaignTypeOK'
  BY CampaignTypeNext DEF CampaignInv
<1>2. CASE CampaignNext
  <2>1. MostSoFar' /\ wall' = wall
    BY <1>1, <1>2, Noted DEF CampaignInv
  <2>2. ReadPaid' /\ Decided'
    BY <1>1, <1>2, ReadPaidNext, DecidedNext
  <2>3. DayLimited'
    BY <1>1, <1>2, <2>1, DayLimitedNext DEF DayLimited
  <2> QED
    BY <1>1, <2>1, <2>2, <2>3 DEF CampaignInv
<1>3. CASE UNCHANGED campaignVars
  <2>1. /\ UNCHANGED <<wall, demand, campaign, redeemed, redeemPaid, wallOffer, attempt, period, paid>>
        /\ UNCHANGED <<most, rush, met, crowded>>
    BY <1>3 DEF campaignVars, readEarn, offerwall
  <2>2. MostSoFar' /\ ReadPaid'
    BY <2>1 DEF CampaignInv, MostSoFar, ReadPaid
  <2>3. Decided'
    BY <2>1 DEF CampaignInv, Decided, Deciding
  <2>4. DayLimited'
    <3>1. \A d : Today(d)' = Today(d) /\ Counting(d)' = Counting(d)
      BY <2>1 DEF Today, Counting, Having
    <3>2. Beginning' = Beginning /\ Waiting' = Waiting
      BY <2>1 DEF Beginning, Waiting
    <3>3. \A r \in Demand : /\ Having({"COMPLETED"}, demand[r].period)' = Having({"COMPLETED"}, demand[r].period)
                            /\ Counting(demand[r].period)' = Counting(demand[r].period)
      BY <2>1 DEF Counting, Having
    <3>4. Beginning \subseteq Demand
      BY DEF Beginning
    <3>5. DayLimited
      BY DEF CampaignInv
    <3> QED
      BY <2>1, <3>1, <3>2, <3>3, <3>4, <3>5 DEF DayLimited
  <2> QED
    BY <1>1, <2>2, <2>3, <2>4 DEF CampaignInv
<1> QED
  BY <1>2, <1>3

\* What the invariant says of the paid attempts of a day.
LEMMA CampaignInvPays ==
  ASSUME CampaignInv
  PROVE  CampaignsPaid
<1>0. /\ CampaignTypeOK /\ paid \in [Attempts -> Nat] /\ most \in Nat
  BY DEF CampaignInv, CampaignTypeOK
<1>1. ASSUME NEW d \in (0 .. MaxPeriod) \ crowded, wall = "offers", Today(d) \cap met = {}
      PROVE  Total(paid, Today(d)) <= most
  <2>1. \A a \in Today(d) : paid[a] = IF a \in Having({"COMPLETED"}, d) THEN 1 ELSE 0
    BY <1>1 DEF CampaignInv, Decided, Today, Having
  <2>2. IsFiniteSet(Today(d)) /\ Having({"COMPLETED"}, d) \subseteq Today(d)
    <3>1. Today(d) \subseteq Attempts /\ IsFiniteSet(Attempts)
      BY CampaignAssumption, FS_Interval DEF Attempts, Today
    <3> QED
      BY <3>1, FS_Subset DEF Today, Having
  <2>3. Total(paid, Today(d)) = Cardinality(Having({"COMPLETED"}, d))
    BY <2>1, <2>2, TotalCounts
  <2>4. Cardinality(Having({"COMPLETED"}, d)) <= Cardinality(Counting(d))
    BY <1>0, HavingFinite DEF Counting
  <2>5. d \in Nat /\ Cardinality(Counting(d)) \in Nat /\ Cardinality(Having({"COMPLETED"}, d)) \in Nat
    BY <1>0, CampaignAssumption, HavingFinite DEF Counting
  <2>6. Cardinality(Counting(d)) <= most
    BY <1>1, <2>5 DEF CampaignInv, DayLimited
  <2> QED
    BY <1>0, <2>3, <2>4, <2>5, <2>6
<1>2. \A d \in (0 .. MaxPeriod) \ crowded :
        LET ofDay == {a \in Attempts : attempt[a].period = d}
        IN wall = "offers" /\ ofDay \cap met = {} => Total(paid, ofDay) <= most
  BY <1>1 DEF Today
<1>3. /\ \A u \in Readers : redeemPaid[u] <= 1 /\ (u \in redeemed => redeemPaid[u] = 1)
      /\ wall = "read" /\ ~rush => Total(redeemPaid, Readers) <= most
  BY DEF CampaignInv, ReadPaid
<1>4. \A a \in Attempts \ met : paid[a] = IF attempt[a].status = "COMPLETED" THEN 1 ELSE 0
  BY DEF CampaignInv, Decided
<1> QED
  BY <1>2, <1>3, <1>4 DEF CampaignsPaid

\* A code is paid once to a player and, unless two were compared at a time,
\* no more often than the campaign allows; an attempt is paid exactly if it
\* is completed, and a day has no more paid attempts than the offer allows,
\* except for the races that CampaignsPaid names (readEarnService.js and
\* internalOfferwallService.js).
THEOREM PaidAsOffered == CampaignSpec => []CampaignsPaid
<1>1. CampaignInit => CampaignInv
  BY CampaignInitial
<1>2. CampaignInv /\ [CampaignNext]_campaignVars => CampaignInv'
  BY CampaignNextInv
<1>3. CampaignInv => CampaignsPaid
  BY CampaignInvPays
<1> QED
  BY <1>1, <1>2, <1>3, PTL DEF CampaignSpec

-----------------------------------------------------------------------------
(***************************************************************************)
(* The missions and the pass                                               *)
(***************************************************************************)

MTypeOK ==
  /\ today \in Days
  /\ counted \subseteq Signal \X Days /\ dropped \subseteq Signal \X Days
  /\ value \in [Players \X Goals \X Days -> Nat]
  /\ done \subseteq Players \X Goals \X Days
  /\ xpOwner \in [Missions \X Days -> Players \cup {NoPlayer}]
  /\ bought \in [Players -> Nat] /\ totalXp \in [Players -> Nat]
  /\ pol \in [Players -> Int]
  /\ buy \in [Buyers -> [pc : {"idle", "commit"}, player : Players \cup {NoPlayer}, xp : Nat, price : Nat]]
  /\ \A b \in Buyers : buy[b].pc = "commit" <=> buy[b].player # NoPlayer

XpFinite == \A p \in Players : IsFiniteSet(XpRows(p))

\* The dedupe rows are those of the signals that counted, of which there are
\* finitely many.
TicksCounted ==
  /\ IsFiniteSet(counted)
  /\ ticks = {Tick(s) : s \in Heard}

\* A purchase that is about to be committed was covered when it was chosen,
\* and still is unless its player got XP or paid since.
BuyCovered ==
  \A b \in Buyers :
    buy[b].pc = "commit" /\ buy[b].player \notin overtaken =>
      /\ pol[buy[b].player] >= buy[b].price
      /\ totalXp[buy[b].player] + buy[b].xp <= Cap

MissionInv ==
  /\ MTypeOK
  /\ XpFinite /\ XpAgrees
  /\ TicksCounted /\ SignalsCounted
  /\ BuyCovered

-----------------------------------------------------------------------------
LEMMA MissionInit == MInit => MissionInv
<1> SUFFICES ASSUME MInit PROVE MissionInv
  OBVIOUS
<1>0. NoPlayer \notin Players /\ 1 \in Days
  BY PlayerAssumption, SeasonAssumption DEF Days
<1>1. MTypeOK
  <2>1. /\ today \in Days
        /\ counted \subseteq Signal \X Days /\ dropped \subseteq Signal \X Days
        /\ value \in [Players \X Goals \X Days -> Nat]
        /\ done \subseteq Players \X Goals \X Days
        /\ bought \in [Players -> Nat] /\ totalXp \in [Players -> Nat]
    BY <1>0 DEF MInit
  <2>2. pol \in [Players -> Int]
    BY SeasonAssumption DEF MInit
  <2>3. /\ buy \in [Buyers -> [pc : {"idle", "commit"}, player : Players \cup {NoPlayer}, xp : Nat, price : Nat]]
        /\ \A b \in Buyers : buy[b].pc = "commit" <=> buy[b].player # NoPlayer
    BY DEF MInit, IdleBuy
  <2>4. xpOwner \in [Missions \X Days -> Players \cup {NoPlayer}]
    BY DEF MInit
  <2> QED
    BY <2>1, <2>2, <2>3, <2>4 DEF MTypeOK
<1>2. \A r \in Missions \X Days : xpOwner[r] = NoPlayer
  BY DEF MInit
<1>3. XpFinite /\ XpAgrees
  <2>1. \A p \in Players : XpRows(p) = {}
    BY <1>0, <1>2 DEF XpRows
  <2>2. \A p \in Players : IsFiniteSet(XpRows(p)) /\ Cardinality(XpRows(p)) = 0
    BY <2>1, FS_EmptySet
  <2>3. \A p \in Players : totalXp[p] = bought[p] + MissionXp * Cardinality(XpRows(p))
    BY <2>2, SeasonAssumption DEF MInit
  <2> QED
    BY <1>0, <1>2, <2>2, <2>3 DEF XpFinite, XpAgrees, MInit
<1>4. TicksCounted /\ SignalsCounted
  <2>1. counted = {} /\ ticks = {} /\ dropped = {} /\ Heard = {}
    BY DEF MInit, Heard
  <2>2. \A spot \in Players \X Goals \X Days : value[spot] = 0 /\ CountedAt(spot) = {}
    BY <2>1 DEF MInit, CountedAt
  <2> QED
    BY <2>1, <2>2, FS_EmptySet DEF TicksCounted, SignalsCounted
<1>5. BuyCovered
  BY DEF MInit, BuyCovered, IdleBuy
<1> QED
  BY <1>1, <1>3, <1>4, <1>5 DEF MissionInv

\* What a signal is told to is of its record's type.
LEMMA SignalType ==
  ASSUME MTypeOK, NEW s \in Signal
  PROVE  s.player \in Players /\ s.goal \in Goals /\ Spot(s) \in Players \X Goals \X Days
BY DEF MTypeOK, Signal, Spot

LEMMA MissionTypeNext ==
  ASSUME MTypeOK, [MNext]_mVars
  PROVE  MTypeOK'
<1>0. /\ NoPlayer \notin Players /\ MissionXp \in Nat /\ LevelReward \in Nat
      /\ LevelPrice \in Nat /\ PassPrice \in Nat /\ XpPerLevel \in Nat /\ Cap \in Int
  BY PlayerAssumption, SeasonAssumption DEF Cap
<1> DEFINE Buys == [pc : {"idle", "commit"}, player : Players \cup {NoPlayer}, xp : Nat, price : Nat]
<1>a. \A p \in Players, n \in Nat : TotalAfter(p, n) \in [Players -> Nat]
  BY DEF MTypeOK, TotalAfter
<1>b. \A p \in Players : Reward(p) => pol' \in [Players -> Int]
  BY <1>0 DEF MTypeOK, Reward
<1>1. CASE NextDay
  <2>1. today' \in Days
    BY <1>1, SeasonAssumption DEF NextDay, MTypeOK, Days
  <2> QED
    BY <1>1, <2>1 DEF NextDay, MTypeOK, signals, progress, pass
<1>2. CASE EndSeason \/ UNCHANGED mVars
  BY <1>2 DEF EndSeason, MTypeOK, mVars, signals, progress, pass
<1>3. CASE \E s \in Signal : Sent(s) /\ Hear(s)
  <2>0. PICK s \in Signal : Hear(s)
    BY <1>3
  <2>1. s.player \in Players /\ s.goal \in Goals /\ Spot(s) \in Players \X Goals \X Days
    BY SignalType DEF Spot
  <2>2. <<s, today>> \in Signal \X Days
    BY DEF MTypeOK
  <2>3. CASE HearTwice(s) \/ CompleteDuplicate(s)
    BY <2>2, <2>3 DEF HearTwice, CompleteDuplicate, Undo, Drop, MTypeOK, progress, pass
  <2>a. ASSUME Bump(s)
        PROVE  counted' \subseteq Signal \X Days /\ value' \in [Players \X Goals \X Days -> Nat]
    <3>1. counted' = counted \cup {<<s, today>>} /\ value' = [value EXCEPT ![Spot(s)] = @ + 1]
      BY <2>a DEF Bump
    <3> QED
      BY <2>1, <2>2, <3>1 DEF MTypeOK
  <2>4. CASE Advance(s)
    BY <2>4, <2>a DEF Advance, MTypeOK, pass
  <2>5. CASE CompleteTask(s)
    BY <2>1, <2>5, <2>a DEF CompleteTask, MTypeOK, pass
  <2>6. CASE CompleteMission(s)
    <3>1. /\ Bump(s) /\ done' = done \cup {Spot(s)}
          /\ xpOwner' = [xpOwner EXCEPT ![<<s.goal, today>>] = s.player]
          /\ totalXp' = TotalAfter(s.player, MissionXp)
          /\ UNCHANGED <<today, dropped, bought, pol, buy>>
      BY <2>6 DEF CompleteMission
    <3>2. xpOwner' \in [Missions \X Days -> Players \cup {NoPlayer}]
      BY <2>1, <3>1 DEF MTypeOK
    <3>3. totalXp' \in [Players -> Nat]
      BY <1>0, <1>a, <2>1, <3>1
    <3> QED
      BY <2>1, <2>a, <3>1, <3>2, <3>3 DEF MTypeOK
  <2> QED
    BY <2>0, <2>3, <2>4, <2>5, <2>6 DEF Hear
<1>4. CASE \E p \in Players, t \in Tasks : ClaimTask(p, t)
  BY <1>4, <1>b DEF ClaimTask, MTypeOK, signals, progress, pass
<1>5. CASE \E p \in Players, l \in RewardLevels : ClaimLevel(p, l)
  BY <1>5, <1>b DEF ClaimLevel, MTypeOK, signals, progress, pass
<1>6. CASE \E b \in Buyers : Purchase(b)
  <2>0. PICK b \in Buyers : Purchase(b)
    BY <1>6
  <2>1. ASSUME NEW p \in Players, ChooseLevel(b, p) \/ ChoosePass(b, p)
        PROVE  MTypeOK'
    <3>1. Remaining(totalXp[p]) \in Nat /\ LevelXp(totalXp[p]) \in Nat
      BY <1>0 DEF MTypeOK, Remaining, LevelXp
    <3>2. PICK xp \in Nat, price \in Nat : Choose(b, p, xp, price)
      BY <1>0, <2>1, <3>1 DEF ChooseLevel, ChoosePass
    <3>3. /\ buy' = [buy EXCEPT ![b] = [pc |-> "commit", player |-> p, xp |-> xp, price |-> price]]
          /\ UNCHANGED <<today, counted, dropped, value, done, xpOwner, bought, totalXp, pol>>
      BY <3>2 DEF Choose, signals, progress, pass
    <3>4. buy' \in [Buyers -> Buys]
      BY <3>3 DEF MTypeOK
    <3>5. \A x \in Buyers : buy'[x].pc = "commit" <=> buy'[x].player # NoPlayer
      BY <1>0, <3>3 DEF MTypeOK
    <3> QED
      BY <3>3, <3>4, <3>5 DEF MTypeOK
  <2>2. CASE CommitBuy(b)
    <3>0. buy[b] \in Buys /\ buy[b].player \in Players
      BY <2>2 DEF MTypeOK, CommitBuy
    <3>1. PICK p \in Players : p = buy[b].player
      BY <3>0
    <3>2. /\ pol' = [pol EXCEPT ![p] = @ - buy[b].price]
          /\ bought' = [bought EXCEPT ![p] = @ + buy[b].xp]
          /\ totalXp' = TotalAfter(p, buy[b].xp)
          /\ buy' = [buy EXCEPT ![b] = IdleBuy]
          /\ UNCHANGED <<today, counted, dropped, value, done, xpOwner>>
      BY <2>2, <3>1 DEF CommitBuy, signals, progress
    <3>3. buy[b].xp \in Nat /\ buy[b].price \in Nat
      BY <3>0
    <3>4. pol' \in [Players -> Int] /\ bought' \in [Players -> Nat] /\ totalXp' \in [Players -> Nat]
      BY <1>a, <3>2, <3>3 DEF MTypeOK
    <3>5. /\ buy' \in [Buyers -> Buys]
          /\ \A x \in Buyers : buy'[x].pc = "commit" <=> buy'[x].player # NoPlayer
      BY <3>2 DEF MTypeOK, IdleBuy
    <3> QED
      BY <3>2, <3>4, <3>5 DEF MTypeOK
  <2>3. CASE FailBuy(b)
    BY <2>3 DEF FailBuy, MTypeOK, IdleBuy, signals, progress, pass
  <2> QED
    BY <2>0, <2>1, <2>2, <2>3 DEF Purchase
<1> QED
  BY <1>1, <1>2, <1>3, <1>4, <1>5, <1>6 DEF MNext

-----------------------------------------------------------------------------
(* The ledger of XP                                                        *)

\* A mission that is completed is one more row, of the player who completed it.
LEMMA XpOfMission ==
  ASSUME MissionInv, NEW s \in Signal, CompleteMission(s)
  PROVE  XpFinite' /\ XpAgrees'
<1> DEFINE w == <<s.goal, today>>
<1>0. /\ s.player \in Players /\ s.goal \in Missions /\ today \in Days /\ w \in Missions \X Days
      /\ NoPlayer \notin Players /\ MissionXp \in Nat
  BY SignalType, PlayerAssumption, SeasonAssumption DEF MissionInv, MTypeOK, CompleteMission
<1>1. /\ xpOwner[w] = NoPlayer /\ Spot(s) \notin done
      /\ done' = done \cup {Spot(s)}
      /\ xpOwner' = [xpOwner EXCEPT ![w] = s.player]
      /\ totalXp' = [totalXp EXCEPT ![s.player] = @ + MissionXp]
      /\ UNCHANGED bought
  BY DEF CompleteMission, Reaches, TotalAfter
<1>2. /\ xpOwner \in [Missions \X Days -> Players \cup {NoPlayer}]
      /\ bought \in [Players -> Nat] /\ totalXp \in [Players -> Nat]
  BY DEF MissionInv, MTypeOK
<1>3. /\ xpOwner'[w] = s.player
      /\ \A r \in (Missions \X Days) \ {w} : xpOwner'[r] = xpOwner[r]
  BY <1>0, <1>1, <1>2
<1>4. \A p \in Players \ {s.player} : XpRows(p)' = XpRows(p)
  BY <1>0, <1>1, <1>3 DEF XpRows
<1>5. XpRows(s.player)' = XpRows(s.player) \cup {w} /\ w \notin XpRows(s.player)
  BY <1>0, <1>1, <1>3 DEF XpRows
<1>6. \A p \in Players : IsFiniteSet(XpRows(p)) /\ Cardinality(XpRows(p)) \in Nat
  BY FS_CardinalityType DEF MissionInv, XpFinite
<1>7. /\ IsFiniteSet(XpRows(s.player)')
      /\ Cardinality(XpRows(s.player)') = Cardinality(XpRows(s.player)) + 1
  BY <1>0, <1>5, <1>6, FS_AddElement
<1>8. XpFinite'
  BY <1>4, <1>6, <1>7 DEF XpFinite
<1>9. \A p \in Players : totalXp'[p] = bought'[p] + MissionXp * Cardinality(XpRows(p)')
  <2> TAKE p \in Players
  <2>1. totalXp[p] = bought[p] + MissionXp * Cardinality(XpRows(p))
    BY DEF MissionInv, XpAgrees
  <2>2. CASE p = s.player
    <3>1. totalXp'[p] = totalXp[p] + MissionXp
      BY <1>1, <1>2, <2>2
    <3>2. MissionXp * (Cardinality(XpRows(p)) + 1) = MissionXp * Cardinality(XpRows(p)) + MissionXp
      BY <1>0, <1>6
    <3>3. Cardinality(XpRows(p)') = Cardinality(XpRows(p)) + 1
      BY <1>7, <2>2
    <3>4. MissionXp * Cardinality(XpRows(p)) \in Nat
      BY <1>0, <1>6
    <3> QED
      BY <1>0, <1>1, <1>2, <2>1, <3>1, <3>2, <3>3, <3>4
  <2>3. CASE p # s.player
    BY <1>1, <1>2, <1>4, <2>1, <2>3
  <2> QED
    BY <2>2, <2>3
<1>10. \A p \in Players, m \in Missions, d \in Days : <<p, m, d>> \in done' <=> xpOwner'[<<m, d>>] = p
  <2> TAKE p \in Players, m \in Missions, d \in Days
  <2>1. <<p, m, d>> \in done <=> xpOwner[<<m, d>>] = p
    BY DEF MissionInv, XpAgrees
  <2>2. <<m, d>> \in Missions \X Days /\ (<<m, d>> = w <=> m = s.goal /\ d = today)
    OBVIOUS
  <2>3. Spot(s) = <<s.player, s.goal, today>>
    BY DEF Spot
  <2>4. CASE <<m, d>> = w
    BY <1>0, <1>1, <1>3, <2>1, <2>2, <2>3, <2>4
  <2>5. CASE <<m, d>> # w
    <3>1. <<p, m, d>> # Spot(s)
      BY <2>2, <2>3, <2>5
    <3>2. xpOwner'[<<m, d>>] = xpOwner[<<m, d>>]
      BY <1>3, <2>2, <2>5
    <3> QED
      BY <1>1, <2>1, <3>1, <3>2
  <2> QED
    BY <2>4, <2>5
<1> QED
  BY <1>8, <1>9, <1>10 DEF XpAgrees

LEMMA XpNext ==
  ASSUME MissionInv, [MNext]_mVars
  PROVE  XpFinite' /\ XpAgrees'
<1>0. Missions \cap Tasks = {}
  BY GoalAssumption
<1>1. ASSUME UNCHANGED <<done, xpOwner, bought, totalXp>>
      PROVE  XpFinite' /\ XpAgrees'
  BY <1>1 DEF MissionInv, XpFinite, XpAgrees, XpRows
<1>2. CASE \E s \in Signal : Sent(s) /\ Hear(s)
  <2>0. PICK s \in Signal : Hear(s)
    BY <1>2
  <2>1. CASE HearTwice(s) \/ CompleteDuplicate(s) \/ Advance(s)
    BY <1>1, <2>1 DEF HearTwice, CompleteDuplicate, Undo, Drop, Advance, progress, pass
  <2>2. CASE CompleteTask(s)
    <3>1. /\ done' = done \cup {Spot(s)} /\ UNCHANGED <<xpOwner, bought, totalXp>>
          /\ s.goal \in Tasks
      BY <2>2 DEF CompleteTask, pass
    <3>2. \A p \in Players, m \in Missions, d \in Days : <<p, m, d>> \in done' <=> <<p, m, d>> \in done
      BY <1>0, <3>1 DEF Spot
    <3> QED
      BY <3>1, <3>2 DEF MissionInv, XpFinite, XpAgrees, XpRows
  <2>3. CASE CompleteMission(s)
    BY <2>3, XpOfMission
  <2> QED
    BY <2>0, <2>1, <2>2, <2>3 DEF Hear
<1>3. CASE \E b \in Buyers : Purchase(b)
  <2>0. PICK b \in Buyers : Purchase(b)
    BY <1>3
  <2>1. CASE CommitBuy(b)
    <3>0. buy[b].player \in Players /\ buy[b].xp \in Nat
      BY <2>1 DEF MissionInv, MTypeOK, CommitBuy
    <3>1. PICK p \in Players, n \in Nat : p = buy[b].player /\ n = buy[b].xp
      BY <3>0
    <3>2. /\ bought' = [bought EXCEPT ![p] = @ + n]
          /\ totalXp' = [totalXp EXCEPT ![p] = @ + n]
          /\ UNCHANGED <<done, xpOwner>>
      BY <2>1, <3>1 DEF CommitBuy, TotalAfter, progress
    <3>3. bought \in [Players -> Nat] /\ totalXp \in [Players -> Nat]
      BY DEF MissionInv, MTypeOK
    <3>4. \A q \in Players : XpRows(q)' = XpRows(q)
      BY <3>2 DEF XpRows
    <3>5. \A q \in Players : totalXp'[q] - totalXp[q] = bought'[q] - bought[q]
      BY <3>2, <3>3
    <3>6. \A q \in Players : MissionXp * Cardinality(XpRows(q)) \in Nat
      BY FS_CardinalityType, SeasonAssumption DEF MissionInv, XpFinite
    <3>7. \A q \in Players : bought'[q] \in Nat /\ totalXp'[q] \in Nat
      BY <3>2, <3>3
    <3>8. \A q \in Players : totalXp'[q] = bought'[q] + MissionXp * Cardinality(XpRows(q)')
      <4> TAKE q \in Players
      <4>1. totalXp[q] = bought[q] + MissionXp * Cardinality(XpRows(q))
        BY DEF MissionInv, XpAgrees
      <4>2. PICK m \in Nat : m = MissionXp * Cardinality(XpRows(q))
        BY <3>6
      <4>3. MissionXp * Cardinality(XpRows(q)') = m
        BY <3>4, <4>2
      <4>4. totalXp[q] = bought[q] + m
        BY <4>1, <4>2
      <4>5. /\ totalXp[q] \in Nat /\ bought[q] \in Nat /\ totalXp'[q] \in Nat /\ bought'[q] \in Nat
            /\ totalXp'[q] - totalXp[q] = bought'[q] - bought[q]
        BY <3>3, <3>5, <3>7
      <4>6. totalXp'[q] = bought'[q] + m
        BY <4>4, <4>5
      <4> QED
        BY <4>3, <4>6
    <3> QED
      BY <3>2, <3>4, <3>8 DEF MissionInv, XpFinite, XpAgrees
  <2>2. CASE ~CommitBuy(b)
    BY <1>1, <2>0, <2>2 DEF Purchase, ChooseLevel, ChoosePass, Choose, FailBuy, progress, pass
  <2> QED
    BY <2>1, <2>2
<1> QED
  BY <1>1, <1>2, <1>3 DEF MNext, NextDay, EndSeason, ClaimTask, ClaimLevel, mVars, progress, pass

-----------------------------------------------------------------------------
(* The signals                                                             *)

\* A signal that counts is one more at its spot, and nowhere else.
LEMMA BumpCounts ==
  ASSUME MTypeOK, TicksCounted, NEW s \in Signal, ~Ticked(s), Bump(s)
  PROVE  /\ <<s, today>> \notin counted /\ s \notin Heard
         /\ IsFiniteSet(counted')
         /\ \A spot \in Players \X Goals \X Days :
              Cardinality(CountedAt(spot)') =
                IF spot = Spot(s) THEN Cardinality(CountedAt(spot)) + 1
                                  ELSE Cardinality(CountedAt(spot))
<1>1. s \notin Heard
  BY DEF TicksCounted, Ticked
<1>2. <<s, today>> \notin counted
  BY <1>1 DEF Heard
<1>3. counted' = counted \cup {<<s, today>>} /\ IsFiniteSet(counted')
  BY FS_AddElement DEF TicksCounted, Bump
<1>4. ASSUME NEW spot \in Players \X Goals \X Days
      PROVE  Cardinality(CountedAt(spot)') =
               IF spot = Spot(s) THEN Cardinality(CountedAt(spot)) + 1
                                 ELSE Cardinality(CountedAt(spot))
  <2>1. IsFiniteSet(CountedAt(spot))
    BY FS_Subset DEF TicksCounted, CountedAt
  <2>2. CASE spot = Spot(s)
    <3>1. CountedAt(spot)' = CountedAt(spot) \cup {<<s, today>>}
      BY <1>3, <2>2 DEF CountedAt, Spot
    <3>2. <<s, today>> \notin CountedAt(spot)
      BY <1>2 DEF CountedAt
    <3> QED
      BY <2>1, <2>2, <3>1, <3>2, FS_AddElement
  <2>3. CASE spot # Spot(s)
    <3>1. CountedAt(spot)' = CountedAt(spot)
      BY <1>3, <2>3 DEF CountedAt, Spot
    <3> QED
      BY <2>3, <3>1
  <2> QED
    BY <2>2, <2>3
<1> QED
  BY <1>1, <1>2, <1>3, <1>4

LEMMA SignalsNext ==
  ASSUME MissionInv, [MNext]_mVars
  PROVE  TicksCounted' /\ SignalsCounted'
<1>1. ASSUME UNCHANGED <<ticks, value, counted, dropped, xpOwner>>
      PROVE  TicksCounted' /\ SignalsCounted'
  BY <1>1 DEF MissionInv, TicksCounted, SignalsCounted, CountedAt, Heard
<1>2. CASE \E s \in Signal : Sent(s) /\ Hear(s)
  <2>0. PICK s \in Signal : Hear(s)
    BY <1>2
  <2>1. ASSUME Drop(s), \/ \E t \in Heard : Tick(t) = Tick(s)
                        \/ s.goal \in Missions /\ xpOwner[<<s.goal, today>>] \notin {NoPlayer, s.player}
        PROVE  TicksCounted' /\ SignalsCounted'
    <3>1. UNCHANGED <<ticks, value, counted, xpOwner>> /\ dropped' \subseteq dropped \cup {<<s, today>>}
      BY <2>1 DEF Drop, progress, pass
    <3>2. Heard' = Heard /\ \A spot : CountedAt(spot)' = CountedAt(spot)
      BY <3>1 DEF Heard, CountedAt
    <3>3. \A e \in dropped' :
            \/ \E t \in Heard : Tick(t) = Tick(e[1])
            \/ e[1].goal \in Missions /\ xpOwner[<<e[1].goal, e[2]>>] \notin {NoPlayer, e[1].player}
      <4> TAKE e \in dropped'
      <4>1. CASE e \in dropped
        BY <4>1 DEF MissionInv, SignalsCounted
      <4>2. CASE e = <<s, today>>
        <5>1. e[1] = s /\ e[2] = today
          BY <4>2
        <5> QED
          BY <2>1, <5>1
      <4> QED
        BY <3>1, <4>1, <4>2
    <3> QED
      BY <3>1, <3>2, <3>3 DEF MissionInv, TicksCounted, SignalsCounted
  <2>2. ASSUME Bump(s), ~Ticked(s), UNCHANGED dropped,
               \A r \in Missions \X Days : xpOwner[r] # NoPlayer => xpOwner'[r] = xpOwner[r]
        PROVE  TicksCounted' /\ SignalsCounted'
    <3>1. /\ ticks' = ticks \cup {Tick(s)} /\ counted' = counted \cup {<<s, today>>}
          /\ value' = [value EXCEPT ![Spot(s)] = @ + 1]
      BY <2>2 DEF Bump
    <3>2. /\ s \notin Heard /\ IsFiniteSet(counted')
          /\ \A spot \in Players \X Goals \X Days :
               Cardinality(CountedAt(spot)') =
                 IF spot = Spot(s) THEN Cardinality(CountedAt(spot)) + 1
                                   ELSE Cardinality(CountedAt(spot))
      <4>1. MTypeOK /\ TicksCounted
        BY DEF MissionInv
      <4> QED
        BY ONLY <2>2, <4>1, BumpCounts, s \in Signal
    <3>3. Heard' = Heard \cup {s}
      <4>1. <<s, today>>[1] = s
        OBVIOUS
      <4>2. \A x : x \in Heard' <=> x \in Heard \/ x = s
        BY <3>1, <4>1 DEF Heard
      <4> QED
        BY <4>2
    <3>4. TicksCounted'
      BY <3>1, <3>2, <3>3 DEF MissionInv, TicksCounted
    <3>5. \A spot \in Players \X Goals \X Days : value'[spot] = Cardinality(CountedAt(spot)')
      <4> TAKE spot \in Players \X Goals \X Days
      <4>1. value \in [Players \X Goals \X Days -> Nat] /\ value[spot] = Cardinality(CountedAt(spot))
        BY DEF MissionInv, MTypeOK, SignalsCounted
      <4> QED
        BY <3>1, <3>2, <4>1
    <3>6. \A e, f \in counted' : e[1] = f[1] => e = f
      <4>1. \A e \in counted : e[1] # s
        BY <3>2 DEF Heard
      <4>2. <<s, today>>[1] = s
        OBVIOUS
      <4> QED
        BY <3>1, <4>1, <4>2 DEF MissionInv, SignalsCounted
    <3>7. ASSUME NEW e \in dropped'
          PROVE  \/ \E t \in Heard' : Tick(t) = Tick(e[1])
                 \/ e[1].goal \in Missions /\ xpOwner'[<<e[1].goal, e[2]>>] \notin {NoPlayer, e[1].player}
      <4>1. e \in dropped /\ e[2] \in Days
        BY <2>2, <3>7 DEF MissionInv, MTypeOK
      <4>2. CASE \E t \in Heard : Tick(t) = Tick(e[1])
        BY <3>3, <4>2
      <4>3. CASE e[1].goal \in Missions /\ xpOwner[<<e[1].goal, e[2]>>] \notin {NoPlayer, e[1].player}
        BY <2>2, <4>1, <4>3
      <4> QED
        BY <4>1, <4>2, <4>3 DEF MissionInv, SignalsCounted
    <3>8. \A t : Tick(t)' = Tick(t)
      BY DEF Tick
    <3> QED
      BY <3>4, <3>5, <3>6, <3>7, <3>8 DEF SignalsCounted
  <2>3. CASE HearTwice(s)
    BY <2>1, <2>3 DEF HearTwice, Ticked, MissionInv, TicksCounted
  <2>4. CASE CompleteDuplicate(s)
    <3>1. /\ Drop(s) /\ s.goal \in Missions
          /\ xpOwner[<<s.goal, today>>] # NoPlayer /\ Spot(s) \notin done
      BY <2>4 DEF CompleteDuplicate, Undo, Reaches
    <3>2. xpOwner[<<s.goal, today>>] # s.player
      BY <3>1, SignalType DEF MissionInv, MTypeOK, XpAgrees, Spot
    <3> QED
      BY <2>1, <3>1, <3>2
  <2>5. CASE Advance(s) \/ CompleteTask(s)
    BY <2>2, <2>5 DEF Advance, CompleteTask, pass
  <2>6. CASE CompleteMission(s)
    <3>1. /\ Bump(s) /\ ~Ticked(s) /\ UNCHANGED dropped
          /\ xpOwner[<<s.goal, today>>] = NoPlayer
          /\ xpOwner' = [xpOwner EXCEPT ![<<s.goal, today>>] = s.player]
      BY <2>6 DEF CompleteMission
    <3>2. xpOwner \in [Missions \X Days -> Players \cup {NoPlayer}]
      BY DEF MissionInv, MTypeOK
    <3>3. \A r \in Missions \X Days : xpOwner[r] # NoPlayer => xpOwner'[r] = xpOwner[r]
      BY <3>1, <3>2
    <3> QED
      BY <2>2, <3>1, <3>3
  <2> QED
    BY <2>0, <2>3, <2>4, <2>5, <2>6 DEF Hear
<1>3. CASE ~\E s \in Signal : Sent(s) /\ Hear(s)
  BY <1>1, <1>3 DEF MNext, NextDay, EndSeason, ClaimTask, ClaimLevel, Purchase, ChooseLevel,
     ChoosePass, Choose, CommitBuy, FailBuy, mVars, signals, progress, pass
<1> QED
  BY <1>2, <1>3

-----------------------------------------------------------------------------
(* What is bought                                                          *)

LEMMA CoveredNext ==
  ASSUME MissionInv, [MNext]_mVars
  PROVE  BuyCovered'
<1>0. /\ pol \in [Players -> Int] /\ totalXp \in [Players -> Nat]
      /\ NoPlayer \notin Players /\ MissionXp \in Nat /\ LevelReward \in Nat /\ XpPerLevel \in Nat
      /\ Cap \in Int
      /\ buy \in [Buyers -> [pc : {"idle", "commit"}, player : Players \cup {NoPlayer}, xp : Nat, price : Nat]]
      /\ \A b \in Buyers : buy[b].pc = "commit" <=> buy[b].player # NoPlayer
  BY PlayerAssumption, SeasonAssumption DEF MissionInv, MTypeOK, Cap
<1>1. ASSUME UNCHANGED <<buy, totalXp, overtaken>>, \A p \in Players : pol'[p] \in Int /\ pol'[p] >= pol[p]
      PROVE  BuyCovered'
  <2> SUFFICES ASSUME NEW b \in Buyers, buy[b].pc = "commit" /\ buy[b].player \notin overtaken
               PROVE  /\ pol'[buy[b].player] >= buy[b].price
                      /\ totalXp[buy[b].player] + buy[b].xp <= Cap
    BY <1>1 DEF BuyCovered
  <2>1. buy[b].player \in Players /\ buy[b].price \in Nat
    BY <1>0
  <2>2. pol[buy[b].player] >= buy[b].price /\ totalXp[buy[b].player] + buy[b].xp <= Cap
    BY DEF MissionInv, BuyCovered
  <2>3. pol[buy[b].player] \in Int
    BY <1>0, <2>1
  <2> QED
    BY <1>1, <2>1, <2>2, <2>3
<1>2. CASE \E s \in Signal : Sent(s) /\ Hear(s)
  <2>0. PICK s \in Signal : Hear(s)
    BY <1>2
  <2>1. CASE CompleteMission(s)
    <3>1. /\ totalXp' = [totalXp EXCEPT ![s.player] = @ + MissionXp]
          /\ overtaken' = Overtaken(s.player, Buyers)
          /\ UNCHANGED <<buy, pol>>
      BY <2>1 DEF CompleteMission, TotalAfter
    <3>2. \A b \in Buyers : buy[b].player \notin overtaken' => buy[b].player # s.player /\ buy[b].player \notin overtaken
      BY <3>1 DEF Overtaken
    <3>3. \A p \in Players \ {s.player} : totalXp'[p] = totalXp[p]
      BY <1>0, <3>1
    <3>4. \A b \in Buyers : buy[b].pc = "commit" => buy[b].player \in Players
      BY <1>0
    <3> QED
      BY <3>1, <3>2, <3>3, <3>4 DEF MissionInv, BuyCovered
  <2>2. CASE ~CompleteMission(s)
    <3>1. UNCHANGED <<buy, totalXp, overtaken, pol>>
      BY <2>0, <2>2 DEF Hear, HearTwice, CompleteDuplicate, Undo, Drop, Advance, CompleteTask, pass
    <3> QED
      BY <1>0, <1>1, <3>1
  <2> QED
    BY <2>1, <2>2
<1>3. CASE \/ \E p \in Players, t \in Tasks : ClaimTask(p, t)
           \/ \E p \in Players, l \in RewardLevels : ClaimLevel(p, l)
  <2>1. PICK p \in Players : Reward(p) /\ UNCHANGED <<buy, totalXp, overtaken>>
    BY <1>3 DEF ClaimTask, ClaimLevel, pass
  <2>2. \A q \in Players : pol'[q] \in Int /\ pol'[q] >= pol[q]
    BY <1>0, <2>1 DEF Reward
  <2> QED
    BY <1>1, <2>1, <2>2
<1>4. CASE \E b \in Buyers : Purchase(b)
  <2>0. PICK b \in Buyers : Purchase(b)
    BY <1>4
  <2>1. ASSUME NEW p \in Players, ChooseLevel(b, p) \/ ChoosePass(b, p)
        PROVE  BuyCovered'
    <3>1. PICK n \in Nat : n = totalXp[p]
      BY <1>0
    <3>2. PICK xp, price : Choose(b, p, xp, price) /\ xp \in {LevelXp(n), Remaining(n)}
      BY <2>1, <3>1 DEF ChooseLevel, ChoosePass
    <3>3. /\ Remaining(n) > 0 /\ pol[p] >= price
          /\ buy' = [buy EXCEPT ![b] = [pc |-> "commit", player |-> p, xp |-> xp, price |-> price]]
          /\ UNCHANGED <<pol, totalXp, overtaken>>
      BY <3>1, <3>2 DEF Choose, pass
    <3>4. n + xp <= Cap
      BY <1>0, <3>2, <3>3 DEF LevelXp, Remaining
    <3>5. /\ buy'[b].player = p /\ buy'[b].xp = xp /\ buy'[b].price = price
          /\ \A x \in Buyers \ {b} : buy'[x] = buy[x]
      BY <1>0, <3>3
    <3> QED
      BY <3>1, <3>3, <3>4, <3>5 DEF MissionInv, BuyCovered
  <2>2. CASE CommitBuy(b)
    <3>0. buy[b].player \in Players /\ buy[b].xp \in Nat /\ buy[b].price \in Nat
      BY <1>0, <2>2 DEF CommitBuy
    <3>1. PICK p \in Players : p = buy[b].player
      BY <3>0
    <3>2. /\ pol' = [pol EXCEPT ![p] = @ - buy[b].price]
          /\ totalXp' = [totalXp EXCEPT ![p] = @ + buy[b].xp]
          /\ overtaken' = Overtaken(p, Buyers \ {b})
          /\ buy' = [buy EXCEPT ![b] = IdleBuy]
      BY <2>2, <3>1 DEF CommitBuy, TotalAfter
    <3>3. \A q \in Players \ {p} : pol'[q] = pol[q] /\ totalXp'[q] = totalXp[q]
      BY <1>0, <3>2
    <3>4. buy'[b].pc = "idle" /\ \A x \in Buyers \ {b} : buy'[x] = buy[x]
      BY <1>0, <3>2 DEF IdleBuy
    <3>5. \A x \in Buyers \ {b} :
            buy[x].player \notin overtaken' => buy[x].player # p /\ buy[x].player \notin overtaken
      BY <3>2 DEF Overtaken
    <3>6. \A x \in Buyers : buy[x].pc = "commit" => buy[x].player \in Players
      BY <1>0
    <3> QED
      BY <3>3, <3>4, <3>5, <3>6 DEF MissionInv, BuyCovered
  <2>3. CASE FailBuy(b)
    <3>1. buy' = [buy EXCEPT ![b] = IdleBuy] /\ UNCHANGED <<pol, totalXp, overtaken>>
      BY <2>3 DEF FailBuy, pass
    <3>2. buy'[b].pc = "idle" /\ \A x \in Buyers \ {b} : buy'[x] = buy[x]
      BY <1>0, <3>1 DEF IdleBuy
    <3> QED
      BY <3>1, <3>2 DEF MissionInv, BuyCovered
  <2> QED
    BY <2>0, <2>1, <2>2, <2>3 DEF Purchase
<1>5. CASE NextDay \/ EndSeason \/ UNCHANGED mVars
  <2>1. UNCHANGED <<buy, totalXp, overtaken, pol>>
    BY <1>5 DEF NextDay, EndSeason, mVars, pass
  <2> QED
    BY <1>0, <1>1, <2>1
<1> QED
  BY <1>2, <1>3, <1>4, <1>5 DEF MNext

-----------------------------------------------------------------------------
LEMMA MissionNext == MissionInv /\ [MNext]_mVars => MissionInv'
<1> SUFFICES ASSUME MissionInv, [MNext]_mVars PROVE MissionInv'
  OBVIOUS
<1> QED
  BY MissionTypeNext, XpNext, SignalsNext, CoveredNext DEF MissionInv

\* miniPassXpService.js: enrollment.totalXp is the sum of the ledger's rows,
\* and a mission shows as completed to exactly the player whom the ledger
\* paid, though the row is written last and its key may be another player's.
THEOREM LedgerAgrees == MSpec => []XpAgrees
<1>1. MissionInv => XpAgrees
  BY DEF MissionInv
<1> QED
  BY <1>1, MissionInit, MissionNext, PTL DEF MSpec

\* Progress is the number of signals that count, each in one period however
\* often it is told, and one that was heard and does not count had counted
\* before, or its key was another player's, or its mission paid to another.
THEOREM CountedOnce == MSpec => []SignalsCounted
<1>1. MissionInv => SignalsCounted
  BY DEF MissionInv
<1> QED
  BY <1>1, MissionInit, MissionNext, PTL DEF MSpec

\* A purchase of levels or of the pass is covered and keeps to the cap, though
\* it is chosen in one transaction and paid in another, unless overtaken.
THEOREM PassIsCovered == MSpec => PassCovered
<1>1. ASSUME MissionInv, [MNext]_mVars
      PROVE  [\A p \in Players \ overtaken :
                bought'[p] # bought[p] => pol'[p] >= 0 /\ totalXp'[p] <= Cap]_mVars
  <2> SUFFICES ASSUME NEW p \in Players, p \notin overtaken, bought'[p] # bought[p]
               PROVE  pol'[p] >= 0 /\ totalXp'[p] <= Cap
    OBVIOUS
  <2>1. PICK b \in Buyers : CommitBuy(b)
    BY <1>1 DEF MNext, NextDay, EndSeason, Hear, HearTwice, CompleteDuplicate, Undo, Drop, Advance,
       CompleteTask, CompleteMission, ClaimTask, ClaimLevel, Purchase, ChooseLevel, ChoosePass,
       Choose, FailBuy, mVars, pass
  <2>2. /\ pol \in [Players -> Int] /\ totalXp \in [Players -> Nat] /\ bought \in [Players -> Nat]
        /\ buy[b].player \in Players /\ buy[b].xp \in Nat /\ buy[b].price \in Nat
    BY <1>1, <2>1 DEF MissionInv, MTypeOK, CommitBuy
  <2>3. /\ pol' = [pol EXCEPT ![buy[b].player] = @ - buy[b].price]
        /\ totalXp' = [totalXp EXCEPT ![buy[b].player] = @ + buy[b].xp]
        /\ bought' = [bought EXCEPT ![buy[b].player] = @ + buy[b].xp]
        /\ buy[b].pc = "commit"
    BY <2>1 DEF CommitBuy, TotalAfter
  <2>4. p = buy[b].player
    BY <2>2, <2>3
  <2>5. pol[p] >= buy[b].price /\ totalXp[p] + buy[b].xp <= Cap
    BY <1>1, <2>3, <2>4 DEF MissionInv, BuyCovered
  <2> QED
    BY <2>2, <2>3, <2>4, <2>5
<1> QED
  BY <1>1, MissionInit, MissionNext, PTL DEF MSpec, PassCovered

-----------------------------------------------------------------------------
(***************************************************************************)
(* The check-in                                                            *)
(*                                                                         *)
(* A day that no two visits have handled at a time is handled by at most   *)
(* one (OneHandler), whose copy of the row is what the row still says      *)
(* (InHand).  A row's hash is its own whatever was raced (OwnHash).        *)
(***************************************************************************)

OwnHashes(d) == Payments \cup {FreeHash[d]}
AnyHash == Payments \cup {FreeHash[d] : d \in Dates} \cup {"none"}
RowStatus == {"none", "pending", "confirmed", "failed"}
Handling == {"write", "evaluate", "confirm", "fail"}
VisitRecord ==
  [pc : Handling \cup {"idle", "streak", "grant"}, kind : {"none", "free", "confirm", "wallet", "final"},
   date : Dates, hash : AnyHash, had : RowStatus, streak : Nat]

KTypeOK ==
  /\ date \in Dates
  /\ row \in [Dates -> [status : RowStatus, hash : AnyHash]]
  /\ \A d \in Dates : IF Status(d) = "none" THEN row[d].hash = "none" ELSE row[d].hash \in OwnHashes(d)
  /\ mined \subseteq Payments
  /\ visit \in [Visits -> VisitRecord]
  /\ \A v \in Visits :
       /\ visit[v].pc = "write" => visit[v].kind \in {"free", "confirm", "wallet"}
       /\ visit[v].pc = "write" /\ visit[v].kind = "free" => visit[v].hash = FreeHash[visit[v].date]
       /\ visit[v].pc = "write" /\ visit[v].kind # "free" => visit[v].hash \in Payments
       /\ visit[v].pc \in {"evaluate", "confirm", "fail"} =>
            visit[v].hash \in Payments /\ Status(visit[v].date) # "none"

OwnHash == \A d, e \in Dates : d # e /\ Status(d) # "none" => row[d].hash # row[e].hash

OneHandler == \A d \in Dates \ raced : \A v, w \in Handlers(d) : v = w

\* What a visit in progress may rely on.
InHand(v) ==
  LET d == visit[v].date
      h == visit[v].hash
  IN  d \notin raced =>
        /\ visit[v].pc = "write" => Status(d) # "confirmed"
        /\ visit[v].pc = "evaluate" => Status(d) = "pending" /\ row[d].hash = h
        /\ visit[v].pc = "confirm" => Status(d) = "pending" /\ row[d].hash = h /\ h \in Valid \cap mined
        /\ visit[v].pc = "fail" => Status(d) = "pending"

Paid == \A d \in Dates \ raced : Status(d) = "confirmed" => row[d].hash \in {FreeHash[d]} \cup (Valid \cap mined)

\* As many consecutive confirmed days.
Consecutive(m) == \E d \in Dates : d + m - 1 \in Dates /\ d .. d + m - 1 \subseteq Confirmed

StreakStands ==
  raced = {} => \A v \in Visits : visit[v].pc = "grant" =>
                  \A m \in Nat \ {0} : m <= visit[v].streak => Consecutive(m)

CheckinInv ==
  /\ KTypeOK /\ OwnHash /\ OneHandler /\ Paid /\ StreakStands
  /\ \A v \in Visits : InHand(v)

-----------------------------------------------------------------------------
LEMMA CheckinInit == KInit => CheckinInv
<1> SUFFICES ASSUME KInit PROVE CheckinInv
  OBVIOUS
<1>0. 1 \in Dates
  BY DateAssumption DEF Dates
<1>1. /\ date \in Dates /\ mined \subseteq Payments
      /\ row \in [Dates -> [status : RowStatus, hash : AnyHash]]
      /\ \A d \in Dates : Status(d) = "none" /\ row[d].hash = "none"
  BY <1>0 DEF KInit, NoRowYet, Status, RowStatus, AnyHash
<1>2. visit \in [Visits -> VisitRecord]
  BY <1>0 DEF KInit, IdleVisit, VisitRecord, Handling, AnyHash, RowStatus
<1>3. \A v \in Visits : visit[v].pc = "idle"
  BY DEF KInit, IdleVisit
<1>4. KTypeOK
  BY <1>1, <1>2, <1>3 DEF KTypeOK
<1>5. OwnHash /\ Paid
  BY <1>1 DEF OwnHash, Paid
<1>6. \A d \in Dates : Handlers(d) = {}
  BY <1>3 DEF Handlers
<1>7. OneHandler
  BY <1>6 DEF OneHandler
<1>8. StreakStands /\ \A v \in Visits : InHand(v)
  BY <1>3 DEF StreakStands, InHand
<1> QED
  BY <1>4, <1>5, <1>7, <1>8 DEF CheckinInv

-----------------------------------------------------------------------------
\* The kinds of steps: one that begins a visit, one that writes the row of its
\* day, and one that does neither.
Begun(v) ==
  /\ visit[v].pc = "idle"
  /\ visit'[v].pc \in {"write", "evaluate"}
  /\ visit'[v].kind \in {"free", "confirm", "wallet", "final"}
  /\ visit'[v].date \in Dates /\ visit'[v].had \in RowStatus /\ visit'[v].streak = 0
  /\ \/ /\ visit'[v].pc = "write" /\ Status(visit'[v].date) # "confirmed"
        /\ \/ visit'[v].kind = "free" /\ visit'[v].hash = FreeHash[visit'[v].date]
           \/ visit'[v].kind \in {"confirm", "wallet"} /\ visit'[v].hash \in Payments
     \/ /\ visit'[v].pc = "evaluate" /\ Status(visit'[v].date) = "pending"
        /\ visit'[v].hash = row[visit'[v].date].hash /\ visit'[v].hash \in Payments

LEMMA VisitBegins ==
  ASSUME CheckinInv, NEW v \in Visits,
         StartFree(v) \/ StartPaid(v, "confirm") \/ StartPaid(v, "wallet") \/ StartFinal(v)
  PROVE  Begun(v) /\ UNCHANGED <<date, row, mined, earned>> /\ \A w \in Visits \ {v} : visit'[w] = visit[w]
<1>0. /\ visit \in [Visits -> VisitRecord] /\ date \in Dates
      /\ \A d \in Dates : Status(d) \in RowStatus
      /\ "pending" \in RowStatus
  BY DEF CheckinInv, KTypeOK, Status, RowStatus
<1>1. ASSUME NEW kind, NEW pc, NEW d, NEW h, NEW had, Start(v, kind, pc, d, h, had)
      PROVE  /\ visit[v].pc = "idle" /\ UNCHANGED <<date, row, mined, earned>>
             /\ visit'[v].pc = pc /\ visit'[v].kind = kind /\ visit'[v].date = d
             /\ visit'[v].hash = h /\ visit'[v].had = had /\ visit'[v].streak = 0
             /\ \A w \in Visits \ {v} : visit'[w] = visit[w]
  <2>1. /\ visit[v].pc = "idle" /\ UNCHANGED <<date, row, mined, earned>>
        /\ visit' = [visit EXCEPT ![v] = [pc |-> pc, kind |-> kind, date |-> d, hash |-> h,
                                         had |-> had, streak |-> 0]]
    BY <1>1 DEF Start
  <2>2. visit'[v] = [pc |-> pc, kind |-> kind, date |-> d, hash |-> h, had |-> had, streak |-> 0]
    BY <1>0, <2>1
  <2> QED
    BY <1>0, <2>1, <2>2
<1>2. CASE StartFree(v)
  <2>1. OpenDay(date) /\ Start(v, "free", "write", date, FreeHash[date], Status(date))
    BY <1>2 DEF StartFree
  <2>2. /\ visit[v].pc = "idle" /\ UNCHANGED <<date, row, mined, earned>>
        /\ visit'[v].pc = "write" /\ visit'[v].kind = "free" /\ visit'[v].date = date
        /\ visit'[v].hash = FreeHash[date] /\ visit'[v].had = Status(date) /\ visit'[v].streak = 0
        /\ \A w \in Visits \ {v} : visit'[w] = visit[w]
    BY <1>1, <2>1
  <2> QED
    BY <1>0, <2>1, <2>2 DEF Begun, OpenDay
<1>3. ASSUME NEW kind \in {"confirm", "wallet"}, StartPaid(v, kind)
      PROVE  Begun(v) /\ UNCHANGED <<date, row, mined, earned>> /\ \A w \in Visits \ {v} : visit'[w] = visit[w]
  <2>1. PICK h \in Payments : OpenDay(date) /\ Start(v, kind, "write", date, h, Status(date))
    BY <1>3 DEF StartPaid
  <2>2. /\ visit[v].pc = "idle" /\ UNCHANGED <<date, row, mined, earned>>
        /\ visit'[v].pc = "write" /\ visit'[v].kind = kind /\ visit'[v].date = date
        /\ visit'[v].hash = h /\ visit'[v].had = Status(date) /\ visit'[v].streak = 0
        /\ \A w \in Visits \ {v} : visit'[w] = visit[w]
    BY <1>1, <2>1
  <2> QED
    BY <1>0, <1>3, <2>1, <2>2 DEF Begun, OpenDay
<1>4. CASE StartFinal(v)
  <2>1. PICK d \in 1 .. date :
          /\ Status(d) = "pending" /\ ~IsFree(row[d].hash)
          /\ Start(v, "final", "evaluate", d, row[d].hash, "pending")
    BY <1>4 DEF StartFinal
  <2>2. d \in Dates
    BY <1>0, DateAssumption DEF Dates
  <2>3. row[d].hash \in Payments
    BY <2>1, <2>2 DEF CheckinInv, KTypeOK, OwnHashes, IsFree
  <2>4. /\ visit[v].pc = "idle" /\ UNCHANGED <<date, row, mined, earned>>
        /\ visit'[v].pc = "evaluate" /\ visit'[v].kind = "final" /\ visit'[v].date = d
        /\ visit'[v].hash = row[d].hash /\ visit'[v].had = "pending" /\ visit'[v].streak = 0
        /\ \A w \in Visits \ {v} : visit'[w] = visit[w]
    BY <1>1, <2>1
  <2> QED
    BY <1>0, <2>1, <2>2, <2>3, <2>4 DEF Begun
<1> QED
  BY <1>2, <1>3, <1>4

\* The row that a visit in hand writes.
Wrote(v) ==
  LET d == visit[v].date
  IN  /\ visit[v].pc \in Handling
      /\ \A e \in Dates \ {d} : row'[e] = row[e]
      /\ \/ /\ visit[v].pc = "write" /\ visit[v].hash \in OwnHashes(d)
            /\ Unused(visit[v].hash, d) /\ row'[d].hash = visit[v].hash
            /\ \/ visit[v].hash = FreeHash[d] /\ row'[d].status = "confirmed" /\ visit'[v].pc = "streak"
               \/ visit[v].hash \in Payments /\ row'[d].status = "pending" /\ visit'[v].pc = "evaluate"
         \/ /\ visit[v].pc = "confirm" /\ row'[d].hash = row[d].hash /\ row'[d].status = "confirmed"
            /\ visit'[v].pc = "streak"
         \/ /\ visit[v].pc = "fail" /\ row'[d].hash = row[d].hash /\ row'[d].status = "failed"
            /\ visit'[v].pc = "idle"

LEMMA Writing ==
  ASSUME CheckinInv, NEW v \in Visits, WriteFree(v) \/ WritePending(v) \/ ConfirmRow(v) \/ FailRow(v)
  PROVE  /\ Wrote(v) /\ UNCHANGED <<date, mined, earned>>
         /\ row' \in [Dates -> [status : RowStatus, hash : AnyHash]]
         /\ visit' \in [Visits -> VisitRecord]
         /\ \A w \in Visits \ {v} : visit'[w] = visit[w]
         /\ visit'[v].pc # "idle" => visit'[v].date = visit[v].date /\ visit'[v].hash = visit[v].hash
<1>0. /\ visit \in [Visits -> VisitRecord] /\ visit[v] \in VisitRecord
      /\ row \in [Dates -> [status : RowStatus, hash : AnyHash]]
      /\ visit[v].date \in Dates /\ visit[v].hash \in AnyHash
      /\ {"pending", "confirmed", "failed"} \subseteq RowStatus
      /\ IdleVisit \in VisitRecord /\ IdleVisit.pc = "idle"
  BY DateAssumption DEF CheckinInv, KTypeOK, VisitRecord, RowStatus, IdleVisit, Dates, AnyHash, Handling
<1>d. PICK d \in Dates : d = visit[v].date
  BY <1>0
<1>h. PICK h \in AnyHash : h = visit[v].hash
  BY <1>0
<1>m. ASSUME NEW pc \in {"streak", "evaluate"}, Step(v, pc)
      PROVE  /\ visit' \in [Visits -> VisitRecord] /\ visit'[v].pc = pc
             /\ visit'[v].date = visit[v].date /\ visit'[v].hash = visit[v].hash
             /\ \A w \in Visits \ {v} : visit'[w] = visit[w]
  <2>1. visit' = [visit EXCEPT ![v].pc = pc]
    BY <1>m DEF Step
  <2>2. pc \in Handling \cup {"idle", "streak", "grant"}
    BY DEF Handling
  <2> QED
    BY <1>0, <2>1, <2>2 DEF VisitRecord
<1>l. ASSUME Leave(v)
      PROVE  /\ visit' \in [Visits -> VisitRecord] /\ visit'[v].pc = "idle"
             /\ \A w \in Visits \ {v} : visit'[w] = visit[w]
  BY <1>0, <1>l DEF Leave
<1>w. ASSUME NEW status \in RowStatus, row' = Written(v, status)
      PROVE  /\ row' \in [Dates -> [status : RowStatus, hash : AnyHash]]
             /\ row'[d].status = status /\ row'[d].hash = h
             /\ \A e \in Dates \ {d} : row'[e] = row[e]
  BY <1>0, <1>d, <1>h, <1>w DEF Written
<1>s. ASSUME NEW status \in RowStatus, row' = [row EXCEPT ![d].status = status]
      PROVE  /\ row' \in [Dates -> [status : RowStatus, hash : AnyHash]]
             /\ row'[d].status = status /\ row'[d].hash = row[d].hash
             /\ \A e \in Dates \ {d} : row'[e] = row[e]
  BY <1>0, <1>s
<1>1. CASE WriteFree(v)
  <2>1. /\ visit[v].pc = "write" /\ h = FreeHash[d]
        /\ row' = Written(v, "confirmed") /\ Step(v, "streak")
        /\ UNCHANGED <<date, mined, earned>>
    BY <1>1, <1>d, <1>h DEF WriteFree, CheckinInv, KTypeOK
  <2>2. Unused(h, d)
    <3>1. \A e \in Dates \ {d} : row[e].hash \in OwnHashes(e) \cup {"none"}
      BY DEF CheckinInv, KTypeOK
    <3> QED
      BY <2>1, <3>1, PaymentAssumption DEF Unused, OwnHashes
  <2> QED
    BY <1>0, <1>d, <1>h, <1>m, <1>w, <2>1, <2>2 DEF Wrote, Handling, OwnHashes
<1>2. CASE WritePending(v)
  <2>1. /\ visit[v].pc = "write" /\ h \in Payments /\ Unused(h, d)
        /\ row' = Written(v, "pending") /\ Step(v, "evaluate")
        /\ UNCHANGED <<date, mined, earned>>
    BY <1>2, <1>d, <1>h DEF WritePending, CheckinInv, KTypeOK
  <2> QED
    BY <1>0, <1>d, <1>h, <1>m, <1>w, <2>1 DEF Wrote, Handling, OwnHashes
<1>3. CASE ConfirmRow(v)
  <2>1. /\ visit[v].pc = "confirm" /\ row' = [row EXCEPT ![d].status = "confirmed"]
        /\ Step(v, "streak") /\ UNCHANGED <<date, mined, earned>>
    BY <1>3, <1>d DEF ConfirmRow
  <2> QED
    BY <1>0, <1>d, <1>m, <1>s, <2>1 DEF Wrote, Handling
<1>4. CASE FailRow(v)
  <2>1. /\ visit[v].pc = "fail" /\ row' = [row EXCEPT ![d].status = "failed"]
        /\ Leave(v) /\ UNCHANGED <<date, mined, earned>>
    BY <1>4, <1>d DEF FailRow
  <2> QED
    BY <1>0, <1>d, <1>l, <1>s, <2>1 DEF Wrote, Handling
<1> QED
  BY <1>1, <1>2, <1>3, <1>4

\* The days that computeCheckinStreak counts are consecutive.
LEMMA StreakRun ==
  ASSUME KTypeOK
  PROVE  Streak \in Nat /\ \A m \in Nat \ {0} : m <= Streak => Consecutive(m)
<1>0. date \in Nat /\ MaxDate \in Nat /\ Confirmed \subseteq Dates /\ Dates \subseteq Nat \ {0}
  BY DateAssumption DEF KTypeOK, Dates, Confirmed
<1>1. PICK end \in Nat : end = IF date \in Confirmed THEN date ELSE date - 1
  BY <1>0, DateAssumption DEF KTypeOK, Dates
<1> DEFINE S == {d \in Confirmed : d .. end # {} /\ d .. end \subseteq Confirmed}
<1>2. Streak = Cardinality(S)
  BY <1>1 DEF Streak
<1>3. CASE S = {}
  BY <1>2, <1>3, FS_EmptySet
<1>4. CASE S # {}
  <2>1. PICK k \in S : \A d \in S : k <= d
    <3>1. S \in SUBSET Nat
      BY <1>0
    <3> QED
      BY <1>4, <3>1, NatMin
  <2>2. k \in Nat \ {0} /\ k <= end /\ k .. end \subseteq Confirmed
    BY <1>0, <2>1
  <2>3. S = k .. end
    <3>1. \A d \in S : d \in k .. end
      BY <1>0, <2>1, <2>2
    <3>2. \A d \in k .. end : d \in Confirmed /\ d .. end # {} /\ d .. end \subseteq k .. end
      BY <2>2
    <3> QED
      BY <2>2, <3>1, <3>2
  <2> HIDE DEF S
  <2>4. Cardinality(S) = end - k + 1
    BY <2>2, <2>3, FS_Interval
  <2>5. Streak = end - k + 1 /\ Streak \in Nat
    BY <1>2, <2>2, <2>4
  <2>6. ASSUME NEW m \in Nat \ {0}, m <= Streak
        PROVE  Consecutive(m)
    <3>1. k + m - 1 \in k .. end /\ k .. (k + m - 1) \subseteq k .. end /\ k \in k .. end
      BY <2>2, <2>5, <2>6
    <3>2. k \in Dates /\ k + m - 1 \in Dates /\ k .. (k + m - 1) \subseteq Confirmed
      BY <1>0, <2>2, <3>1
    <3> QED
      BY <3>2 DEF Consecutive
  <2> QED
    BY <2>5, <2>6
<1> QED
  BY <1>3, <1>4

\* The steps that write no row.
Moved(v) ==
  \/ visit'[v].pc = "idle"
  \/ /\ visit[v].pc = "evaluate" /\ visit'[v].pc \in {"confirm", "fail"}
     /\ visit'[v].date = visit[v].date /\ visit'[v].hash = visit[v].hash
     /\ visit'[v].pc = "confirm" => visit[v].hash \in Valid \cap mined
  \/ visit[v].pc = "streak" /\ visit'[v].pc = "grant" /\ visit'[v].streak = Streak

LEMMA Moving ==
  ASSUME CheckinInv, NEW v \in Visits, Evaluate(v) \/ ReadStreak(v) \/ GrantMilestones(v) \/ Fail(v)
  PROVE  /\ Moved(v) /\ UNCHANGED <<date, row, mined>>
         /\ visit' \in [Visits -> VisitRecord]
         /\ \A w \in Visits \ {v} : visit'[w] = visit[w]
<1>0. /\ visit \in [Visits -> VisitRecord] /\ visit[v] \in VisitRecord
      /\ IdleVisit \in VisitRecord /\ IdleVisit.pc = "idle"
  BY DateAssumption DEF CheckinInv, KTypeOK, VisitRecord, RowStatus, IdleVisit, Dates, AnyHash, Handling
<1>m. ASSUME NEW pc \in {"confirm", "fail"}, Step(v, pc)
      PROVE  /\ visit' \in [Visits -> VisitRecord] /\ visit'[v].pc = pc
             /\ visit'[v].date = visit[v].date /\ visit'[v].hash = visit[v].hash
             /\ \A w \in Visits \ {v} : visit'[w] = visit[w]
  <2>1. visit' = [visit EXCEPT ![v].pc = pc]
    BY <1>m DEF Step
  <2>2. pc \in Handling \cup {"idle", "streak", "grant"}
    BY DEF Handling
  <2> QED
    BY <1>0, <2>1, <2>2 DEF VisitRecord
<1>l. ASSUME Leave(v)
      PROVE  /\ visit' \in [Visits -> VisitRecord] /\ visit'[v].pc = "idle"
             /\ \A w \in Visits \ {v} : visit'[w] = visit[w]
  BY <1>0, <1>l DEF Leave
<1>1. CASE GrantMilestones(v) \/ Fail(v)
  BY <1>1, <1>l DEF GrantMilestones, Fail, Moved
<1>2. CASE Evaluate(v)
  <2>1. visit[v].pc = "evaluate" /\ UNCHANGED <<date, row, mined>>
    BY <1>2 DEF Evaluate
  <2>2. \/ Leave(v)
        \/ visit[v].hash \in Valid \cap mined /\ Step(v, "confirm")
        \/ Step(v, "fail")
    BY <1>2 DEF Evaluate, Verdict
  <2> QED
    BY <1>m, <1>l, <2>1, <2>2 DEF Moved
<1>3. CASE ReadStreak(v)
  <2>1. /\ visit[v].pc = "streak" /\ UNCHANGED <<date, row, mined>>
        /\ visit' = [visit EXCEPT ![v].pc = "grant", ![v].streak = Streak]
    BY <1>3 DEF ReadStreak
  <2>2. PICK n \in Nat : n = Streak
    BY StreakRun DEF CheckinInv
  <2>3. visit' = [visit EXCEPT ![v].pc = "grant", ![v].streak = n]
    BY <2>1, <2>2
  <2>4. /\ visit' \in [Visits -> VisitRecord] /\ visit'[v].pc = "grant" /\ visit'[v].streak = n
        /\ \A w \in Visits \ {v} : visit'[w] = visit[w]
    BY <1>0, <2>3 DEF VisitRecord, Handling
  <2> QED
    BY <2>1, <2>2, <2>4 DEF Moved
<1> QED
  BY <1>1, <1>2, <1>3

\* A step is of one of these kinds, or leaves the visits and the rows alone.
LEMMA Kinds ==
  ASSUME CheckinInv, [KNext]_kVars
  PROVE  \/ \E v \in Visits : /\ Begun(v) \/ Moved(v)
                              /\ UNCHANGED <<date, row, mined>>
                              /\ \A w \in Visits \ {v} : visit'[w] = visit[w]
         \/ \E v \in Visits : /\ Wrote(v) /\ UNCHANGED <<date, mined>>
                              /\ \A w \in Visits \ {v} : visit'[w] = visit[w]
                              /\ visit'[v].pc # "idle" =>
                                   visit'[v].date = visit[v].date /\ visit'[v].hash = visit[v].hash
         \/ UNCHANGED <<visit, row>> /\ mined \subseteq mined' /\ mined' \subseteq Payments
<1>0. mined \subseteq Payments
  BY DEF CheckinInv, KTypeOK
<1>1. CASE NextDate \/ MinePayment \/ UNCHANGED kVars
  BY <1>0, <1>1 DEF NextDate, MinePayment, kVars
<1>2. ASSUME NEW v \in Visits, Visit(v)
      PROVE  \/ /\ Begun(v) \/ Moved(v)
                /\ UNCHANGED <<date, row, mined>>
                /\ \A w \in Visits \ {v} : visit'[w] = visit[w]
             \/ /\ Wrote(v) /\ UNCHANGED <<date, mined>>
                /\ \A w \in Visits \ {v} : visit'[w] = visit[w]
                /\ visit'[v].pc # "idle" =>
                     visit'[v].date = visit[v].date /\ visit'[v].hash = visit[v].hash
  BY <1>2, VisitBegins, Writing, Moving DEF Visit
<1> QED
  BY <1>1, <1>2 DEF KNext

LEMMA CheckinTypeNext ==
  ASSUME CheckinInv, [KNext]_kVars
  PROVE  KTypeOK'
<1> DEFINE Rows == [Dates -> [status : RowStatus, hash : AnyHash]]
           VisitOK(v) == /\ visit'[v].pc = "write" => visit'[v].kind \in {"free", "confirm", "wallet"}
                         /\ visit'[v].pc = "write" /\ visit'[v].kind = "free" =>
                              visit'[v].hash = FreeHash[visit'[v].date]
                         /\ visit'[v].pc = "write" /\ visit'[v].kind # "free" => visit'[v].hash \in Payments
                         /\ visit'[v].pc \in {"evaluate", "confirm", "fail"} => visit'[v].hash \in Payments
<1>1. date' \in Dates /\ row' \in Rows /\ mined' \subseteq Payments /\ visit' \in [Visits -> VisitRecord]
  <2>0. date \in Dates /\ row \in Rows /\ mined \subseteq Payments /\ visit \in [Visits -> VisitRecord]
    BY DEF CheckinInv, KTypeOK
  <2>1. CASE NextDate \/ MinePayment \/ UNCHANGED kVars
    BY <2>0, <2>1, DateAssumption DEF NextDate, MinePayment, kVars, Dates
  <2>2. ASSUME NEW v \in Visits, Visit(v)
        PROVE  date' \in Dates /\ row' \in Rows /\ mined' \subseteq Payments /\ visit' \in [Visits -> VisitRecord]
    <3>1. CASE StartFree(v) \/ StartPaid(v, "confirm") \/ StartPaid(v, "wallet") \/ StartFinal(v)
      <4>1. Begun(v) /\ UNCHANGED <<date, row, mined>>
        BY <3>1, VisitBegins
      <4>2. PICK kind, pc, d, h, had : Start(v, kind, pc, d, h, had)
        BY <3>1 DEF StartFree, StartPaid, StartFinal
      <4>3. visit' = [visit EXCEPT ![v] = [pc |-> pc, kind |-> kind, date |-> d, hash |-> h,
                                           had |-> had, streak |-> 0]]
        BY <4>2 DEF Start
      <4>4. visit'[v] = [pc |-> pc, kind |-> kind, date |-> d, hash |-> h, had |-> had, streak |-> 0]
        BY <2>0, <4>3
      <4>5. /\ pc \in Handling /\ kind \in {"free", "confirm", "wallet", "final"} /\ d \in Dates
            /\ had \in RowStatus /\ h \in AnyHash
        BY <4>1, <4>4 DEF Begun, Handling, AnyHash
      <4>6. visit'[v] \in VisitRecord
        BY <4>4, <4>5 DEF VisitRecord
      <4> QED
        BY <2>0, <4>1, <4>3, <4>4, <4>6
    <3>2. CASE WriteFree(v) \/ WritePending(v) \/ ConfirmRow(v) \/ FailRow(v)
      BY <2>0, <3>2, Writing
    <3>3. CASE Evaluate(v) \/ ReadStreak(v) \/ GrantMilestones(v) \/ Fail(v)
      BY <2>0, <3>3, Moving
    <3> QED
      BY <2>2, <3>1, <3>2, <3>3 DEF Visit
  <2> QED
    BY <2>1, <2>2 DEF KNext
<1>2. \A d \in Dates : IF row'[d].status = "none" THEN row'[d].hash = "none" ELSE row'[d].hash \in OwnHashes(d)
  <2>0. \A d \in Dates : IF row[d].status = "none" THEN row[d].hash = "none" ELSE row[d].hash \in OwnHashes(d)
    BY DEF CheckinInv, KTypeOK, Status
  <2>1. CASE UNCHANGED row
    BY <2>0, <2>1
  <2>2. ASSUME NEW v \in Visits, Wrote(v)
        PROVE  \A d \in Dates : IF row'[d].status = "none" THEN row'[d].hash = "none" ELSE row'[d].hash \in OwnHashes(d)
    <3> TAKE d \in Dates
    <3>1. CASE d # visit[v].date
      BY <2>0, <2>2, <3>1 DEF Wrote
    <3>2. CASE d = visit[v].date
      <4>1. visit[v].pc = "write" => row'[d].hash \in OwnHashes(d) /\ row'[d].status # "none"
        BY <2>2, <3>2 DEF Wrote
      <4>2. visit[v].pc # "write" => row'[d].hash = row[d].hash /\ row'[d].status # "none"
        BY <2>2, <3>2 DEF Wrote
      <4>3. visit[v].pc \in {"confirm", "fail"} => row[d].hash \in OwnHashes(d)
        BY <2>0, <3>2 DEF CheckinInv, KTypeOK, Status
      <4>4. visit[v].pc \in {"write", "confirm", "fail"}
        BY <2>2 DEF Wrote
      <4> QED
        BY <4>1, <4>2, <4>3, <4>4
    <3> QED
      BY <3>1, <3>2
  <2> QED
    BY <2>1, <2>2, Kinds
<1>3. \A d \in Dates : row'[d].status = "none" => row[d].status = "none"
  <2>1. ASSUME NEW v \in Visits, Wrote(v), NEW d \in Dates, row'[d].status = "none"
        PROVE  row[d].status = "none"
    BY <2>1 DEF Wrote
  <2> QED
    BY <2>1, Kinds
<1>4. ASSUME NEW v \in Visits
      PROVE  /\ VisitOK(v)
             /\ visit'[v].pc \in {"evaluate", "confirm", "fail"} => row'[visit'[v].date].status # "none"
  <2>0. /\ visit[v].pc = "write" => visit[v].kind \in {"free", "confirm", "wallet"}
        /\ visit[v].pc = "write" /\ visit[v].kind = "free" => visit[v].hash = FreeHash[visit[v].date]
        /\ visit[v].pc = "write" /\ visit[v].kind # "free" => visit[v].hash \in Payments
        /\ visit[v].pc \in {"evaluate", "confirm", "fail"} =>
             visit[v].hash \in Payments /\ row[visit[v].date].status # "none"
        /\ visit[v].date \in Dates
    BY DEF CheckinInv, KTypeOK, Status, VisitRecord
  <2>1. CASE visit'[v] = visit[v]
    BY <1>3, <2>0, <2>1
  <2>2. CASE Begun(v)
    <3>1. visit'[v].pc \in {"write", "evaluate"} /\ visit'[v].date \in Dates
      BY <2>2 DEF Begun
    <3>2. visit'[v].pc = "evaluate" => visit'[v].hash \in Payments /\ row[visit'[v].date].status = "pending"
      BY <2>2 DEF Begun, Status
    <3>3. visit'[v].pc = "write" =>
            \/ visit'[v].kind = "free" /\ visit'[v].hash = FreeHash[visit'[v].date]
            \/ visit'[v].kind \in {"confirm", "wallet"} /\ visit'[v].hash \in Payments
      BY <2>2 DEF Begun
    <3> QED
      BY <1>3, <3>1, <3>2, <3>3
  <2>3. CASE Moved(v)
    BY <1>3, <2>0, <2>3 DEF Moved
  <2>4. CASE /\ Wrote(v)
             /\ visit'[v].pc # "idle" => visit'[v].date = visit[v].date /\ visit'[v].hash = visit[v].hash
    <3>1. visit'[v].pc \in {"idle", "streak", "evaluate"}
      BY <2>4 DEF Wrote
    <3>2. visit'[v].pc = "evaluate" => visit[v].hash \in Payments /\ row'[visit[v].date].status = "pending"
      BY <2>4 DEF Wrote
    <3> QED
      BY <2>4, <3>1, <3>2
  <2> QED
    BY <2>1, <2>2, <2>3, <2>4, Kinds
<1> QED
  BY <1>1, <1>2, <1>4 DEF KTypeOK, Status

-----------------------------------------------------------------------------
\* What a step may do to a row: one that was confirmed and not raced stays,
\* and one that becomes confirmed is free or paid for.
LEMMA RowStep ==
  ASSUME CheckinInv, [KNext]_kVars
  PROVE  /\ OwnHash'
         /\ \A d \in Dates \ raced :
              /\ Status(d) = "confirmed" => row'[d] = row[d]
              /\ row'[d].status = "confirmed" => row'[d].hash \in {FreeHash[d]} \cup (Valid \cap mined)
<1>1. CASE UNCHANGED row
  BY <1>1 DEF CheckinInv, OwnHash, Paid, Status
<1>2. ASSUME NEW v \in Visits, Wrote(v)
      PROVE  /\ OwnHash'
             /\ \A d \in Dates \ raced :
                  /\ Status(d) = "confirmed" => row'[d] = row[d]
                  /\ row'[d].status = "confirmed" => row'[d].hash \in {FreeHash[d]} \cup (Valid \cap mined)
  <2>0. PICK d \in Dates : d = visit[v].date
    BY DEF CheckinInv, KTypeOK, VisitRecord
  <2>1. \A e \in Dates \ {d} : row'[e] = row[e]
    BY <1>2, <2>0 DEF Wrote
  <2>2. InHand(v)
    BY DEF CheckinInv
  <2>3. row'[d].status # "none"
    BY <1>2, <2>0 DEF Wrote
  <2>4. \A e \in Dates \ {d} : row'[d].hash # row[e].hash
    <3>1. CASE visit[v].pc = "write"
      BY <1>2, <2>0, <3>1 DEF Wrote, Unused
    <3>2. CASE visit[v].pc # "write"
      <4>1. visit[v].pc \in {"confirm", "fail"} /\ row'[d].hash = row[d].hash
        BY <1>2, <2>0, <3>2 DEF Wrote
      <4>2. Status(d) # "none"
        BY <2>0, <4>1 DEF CheckinInv, KTypeOK
      <4> QED
        BY <4>1, <4>2 DEF CheckinInv, OwnHash
    <3> QED
      BY <3>1, <3>2
  <2>5. OwnHash'
    <3> SUFFICES ASSUME NEW c \in Dates, NEW e \in Dates, c # e, row'[c].status # "none"
                 PROVE  row'[c].hash # row'[e].hash
      BY DEF OwnHash, Status
    <3>1. CASE c = d
      BY <2>1, <2>4, <3>1
    <3>2. CASE c # d /\ e = d
      BY <2>1, <2>4, <3>2
    <3>3. CASE c # d /\ e # d
      BY <2>1, <3>3 DEF CheckinInv, OwnHash, Status
    <3> QED
      BY <3>1, <3>2, <3>3
  <2>6. ASSUME d \notin raced
        PROVE  /\ Status(d) # "confirmed"
               /\ row'[d].status = "confirmed" => row'[d].hash \in {FreeHash[d]} \cup (Valid \cap mined)
    <3>1. Status(d) # "confirmed"
      BY <1>2, <2>0, <2>2, <2>6 DEF InHand, Wrote
    <3>2. CASE visit[v].pc = "write"
      BY <1>2, <2>0, <3>1, <3>2 DEF Wrote
    <3>3. CASE visit[v].pc = "confirm"
      <4>1. row[d].hash = visit[v].hash /\ visit[v].hash \in Valid \cap mined
        BY <2>0, <2>2, <2>6, <3>3 DEF InHand
      <4>2. row'[d].hash = row[d].hash
        BY <1>2, <2>0, <3>3 DEF Wrote
      <4> QED
        BY <3>1, <4>1, <4>2
    <3>4. CASE visit[v].pc = "fail"
      BY <1>2, <2>0, <3>1, <3>4 DEF Wrote
    <3> QED
      BY <1>2, <3>1, <3>2, <3>3, <3>4 DEF Wrote
  <2> QED
    BY <2>1, <2>5, <2>6 DEF CheckinInv, Paid, Status
<1> QED
  BY <1>1, <1>2, Kinds

LEMMA HandlerNext ==
  ASSUME CheckinInv, [KNext]_kVars
  PROVE  OneHandler' /\ raced \subseteq raced'
<1>1. CASE KNext
  <2>1. raced' = raced \cup {d \in Dates : \E v, w \in Handlers(d)' : v # w}
    BY <1>1 DEF KNext
  <2> QED
    BY <2>1 DEF OneHandler
<1>2. CASE UNCHANGED kVars
  BY <1>2 DEF kVars, CheckinInv, OneHandler, Handlers
<1> QED
  BY <1>1, <1>2

\* While a day is not raced nobody writes its row but the visit that has it in hand.
LEMMA InHandNext ==
  ASSUME CheckinInv, [KNext]_kVars, NEW u \in Visits
  PROVE  InHand(u)'
<1> SUFFICES ASSUME visit'[u].date \notin raced', visit'[u].pc \in Handling
             PROVE  /\ visit'[u].pc = "write" => row'[visit'[u].date].status # "confirmed"
                    /\ visit'[u].pc = "evaluate" =>
                         row'[visit'[u].date].status = "pending" /\ row'[visit'[u].date].hash = visit'[u].hash
                    /\ visit'[u].pc = "confirm" =>
                         /\ row'[visit'[u].date].status = "pending" /\ row'[visit'[u].date].hash = visit'[u].hash
                         /\ visit'[u].hash \in Valid \cap mined'
                    /\ visit'[u].pc = "fail" => row'[visit'[u].date].status = "pending"
  BY DEF InHand, Status, Handling
<1>0. visit'[u].date \in Dates /\ visit'[u].date \notin raced /\ InHand(u)
  BY CheckinTypeNext, HandlerNext DEF KTypeOK, VisitRecord, CheckinInv
<1>1. ASSUME visit'[u] = visit[u], row'[visit[u].date] = row[visit[u].date], mined \subseteq mined'
      PROVE  InHand(u)'
  BY <1>0, <1>1 DEF InHand, Status
<1>2. ASSUME UNCHANGED <<visit, row>>, mined \subseteq mined'
      PROVE  InHand(u)'
  BY <1>0, <1>2 DEF InHand, Status
<1>3. ASSUME NEW v \in Visits, Begun(v) \/ Moved(v), UNCHANGED <<row, mined>>,
             \A w \in Visits \ {v} : visit'[w] = visit[w]
      PROVE  InHand(u)'
  <2>1. CASE u # v
    BY <1>1, <1>3, <2>1
  <2>2. CASE u = v /\ Begun(v)
    BY <1>3, <2>2 DEF Begun, InHand, Status
  <2>3. CASE u = v /\ Moved(v)
    <3>1. /\ visit[u].pc = "evaluate" /\ visit'[u].pc \in {"confirm", "fail"}
          /\ visit'[u].date = visit[u].date /\ visit'[u].hash = visit[u].hash
          /\ visit'[u].pc = "confirm" => visit[u].hash \in Valid \cap mined
      BY <2>3 DEF Moved, Handling
    <3>2. row[visit[u].date].status = "pending" /\ row[visit[u].date].hash = visit[u].hash
      BY <1>0, <3>1 DEF InHand, Status
    <3> QED
      BY <1>3, <3>1, <3>2 DEF InHand, Status
  <2> QED
    BY <1>3, <2>1, <2>2, <2>3
<1>4. ASSUME NEW v \in Visits, Wrote(v), UNCHANGED mined,
             \A w \in Visits \ {v} : visit'[w] = visit[w],
             visit'[v].pc # "idle" => visit'[v].date = visit[v].date /\ visit'[v].hash = visit[v].hash
      PROVE  InHand(u)'
  <2>1. CASE u # v
    <3>1. visit'[u] = visit[u]
      BY <1>4, <2>1
    <3>2. visit[v].pc \in Handling /\ \A e \in Dates \ {visit[v].date} : row'[e] = row[e]
      BY <1>4 DEF Wrote
    <3>3. visit[v].date # visit[u].date
      <4>1. visit[u].pc \in Handling /\ visit[u].date \in Dates \ raced
        BY <1>0, <3>1
      <4>2. u \in Handlers(visit[u].date) /\ (visit[v].date = visit[u].date => v \in Handlers(visit[u].date))
        BY <3>2, <4>1 DEF Handlers, Handling
      <4> QED
        BY <2>1, <4>1, <4>2 DEF CheckinInv, OneHandler
    <3> QED
      BY <1>0, <1>1, <1>4, <3>1, <3>2, <3>3
  <2>2. CASE u = v
    <3>1. /\ visit'[u].pc = "evaluate" /\ visit'[u].date = visit[u].date /\ visit'[u].hash = visit[u].hash
          /\ row'[visit[u].date].status = "pending" /\ row'[visit[u].date].hash = visit[u].hash
      BY <1>4, <2>2 DEF Wrote, Handling
    <3> QED
      BY <3>1 DEF InHand, Status
  <2> QED
    BY <2>1, <2>2
<1>5. InHand(u)'
  BY <1>2, <1>3, <1>4, Kinds
<1> QED
  BY <1>0, <1>5 DEF InHand, Status

LEMMA StreakNext ==
  ASSUME CheckinInv, [KNext]_kVars
  PROVE  StreakStands'
<1> SUFFICES ASSUME raced' = {}, NEW u \in Visits, visit'[u].pc = "grant",
                    NEW m \in Nat \ {0}, m <= visit'[u].streak
             PROVE  Consecutive(m)'
  BY DEF StreakStands
<1>0. raced = {}
  BY HandlerNext
<1>1. Confirmed \subseteq Confirmed'
  BY <1>0, RowStep DEF Confirmed, Status
<1>2. Consecutive(m)
  <2>1. CASE visit'[u] = visit[u]
    BY <1>0, <2>1 DEF CheckinInv, StreakStands
  <2>2. CASE Moved(u)
    <3>1. visit'[u].streak = Streak
      BY <2>2 DEF Moved
    <3> QED
      BY <3>1, StreakRun DEF CheckinInv
  <2>3. CASE Begun(u) \/ Wrote(u)
    BY <2>3 DEF Begun, Wrote
  <2> QED
    BY <2>1, <2>2, <2>3, Kinds
<1> QED
  BY <1>1, <1>2 DEF Consecutive

LEMMA CheckinNext == CheckinInv /\ [KNext]_kVars => CheckinInv'
<1> SUFFICES ASSUME CheckinInv, [KNext]_kVars PROVE CheckinInv'
  OBVIOUS
<1>1. mined \subseteq mined'
  BY Kinds
<1>2. Paid'
  BY <1>1, RowStep, HandlerNext DEF Paid, Status
<1> QED
  BY <1>2, CheckinTypeNext, RowStep, HandlerNext, InHandNext, StreakNext DEF CheckinInv

\* A confirmed day stays so and is free or paid for by a hash of its own,
\* and a milestone is earned by as many consecutive confirmed days, though
\* each route writes the row without looking at it again; unless raced.
THEOREM CheckinsEarned == KSpec => CheckinEarned
<1>1. ASSUME CheckinInv, CheckinInv', [KNext]_kVars
      PROVE  [/\ \A d \in Dates \ raced' :
                   /\ Status(d) = "confirmed" => row'[d] = row[d]
                   /\ row'[d].status = "confirmed" =>
                        /\ row'[d].hash \in {FreeHash[d]} \cup (Valid \cap mined)
                        /\ \A e \in Dates \ {d} : row'[e].hash # row'[d].hash
              /\ raced' = {} => \A m \in earned' \ earned :
                   \E d \in Dates : d + m - 1 \in Dates /\ d .. d + m - 1 \subseteq Confirmed]_kVars
  <2>1. ASSUME NEW d \in Dates \ raced'
        PROVE  /\ Status(d) = "confirmed" => row'[d] = row[d]
               /\ row'[d].status = "confirmed" =>
                    /\ row'[d].hash \in {FreeHash[d]} \cup (Valid \cap mined)
                    /\ \A e \in Dates \ {d} : row'[e].hash # row'[d].hash
    <3>1. d \in Dates \ raced
      BY <1>1, HandlerNext
    <3>2. row'[d].status = "confirmed" => \A e \in Dates \ {d} : row'[e].hash # row'[d].hash
      BY <1>1, RowStep DEF OwnHash, Status
    <3> QED
      BY <1>1, <3>1, <3>2, RowStep
  <2>2. ASSUME raced' = {}, NEW m \in earned' \ earned
        PROVE  \E d \in Dates : d + m - 1 \in Dates /\ d .. d + m - 1 \subseteq Confirmed
    <3>1. raced = {}
      BY <1>1, <2>2, HandlerNext
    <3>2. PICK v \in Visits : GrantMilestones(v)
      BY <1>1, <2>2 DEF KNext, NextDate, MinePayment, Visit, StartFree, StartPaid, StartFinal, Start,
         WriteFree, WritePending, Evaluate, ConfirmRow, FailRow, ReadStreak, Fail, kVars
    <3>3. visit[v].pc = "grant" /\ m \in Milestones /\ m <= visit[v].streak
      BY <2>2, <3>2 DEF GrantMilestones
    <3>4. Consecutive(m)
      BY <1>1, <3>1, <3>3, MilestoneAssumption DEF CheckinInv, StreakStands
    <3> QED
      BY <3>4 DEF Consecutive
  <2> QED
    BY <2>1, <2>2
<1> QED
  BY <1>1, CheckinInit, CheckinNext, PTL DEF KSpec, CheckinEarned

-----------------------------------------------------------------------------
(***************************************************************************)
(* The missions and the check-in beside each other.  A step is one of the  *)
(* part that moves, and leaves the variables of the other alone.           *)
(***************************************************************************)
LEMMA EngagementParts == ESpec => MSpec /\ KSpec
<1>1. EInit => MInit /\ KInit
  BY DEF EInit
<1>2. [ENext]_<<reward, mVars, kVars>> => [MNext]_mVars /\ [KNext]_kVars
  BY DEF ENext
<1> QED
  BY <1>1, <1>2, PTL DEF ESpec, MSpec, KSpec

\* The missions and the check-in keep beside each other what each keeps alone:
\* XP, signals and purchases are accounted for, and confirmed days are earned.
THEOREM EngagementKept == ESpec => [](XpAgrees /\ SignalsCounted) /\ PassCovered /\ CheckinEarned
  BY EngagementParts, LedgerAgrees, CountedOnce, PassIsCovered, CheckinsEarned, PTL

-----------------------------------------------------------------------------
(***************************************************************************)
(* The errands, the campaigns and the games beside each other.             *)
(***************************************************************************)
LEMMA CreditsParts == CreditSpec => ErrandSpec /\ CampaignSpec /\ ArcadeSpec
<1>1. CreditInit => ErrandInit /\ CampaignInit /\ ArcadeInit
  BY DEF CreditInit
<1>2. [CreditNext]_<<activity, eVars, campaignVars, arcadeVars>>
        => [ErrandNext]_eVars /\ [CampaignNext]_campaignVars /\ [ArcadeNext]_arcadeVars
  BY DEF CreditNext
<1> QED
  BY <1>1, <1>2, PTL DEF CreditSpec, ErrandSpec, CampaignSpec, ArcadeSpec

\* The errands, the campaigns and the games keep beside each other what each
\* keeps alone: no reward is paid too often, too early or for nothing.
THEOREM CreditsKept == CreditSpec => [](ErrandsPaced /\ CampaignsPaid /\ GamesPaced)
  BY CreditsParts, PacedErrands, PaidAsOffered, GamesArePaced, PTL

=============================================================================
