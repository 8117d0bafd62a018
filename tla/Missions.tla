------------------------------- MODULE Missions -------------------------------
(***************************************************************************)
(* The mini pass and the daily tasks: what players do counts towards       *)
(* missions and tasks (the goals), a mission that is completed gives XP,   *)
(* XP gives levels, levels and completed tasks give rewards, and levels    *)
(* are also sold.                                                          *)
(*                                                                         *)
(* A check-in, a game or a BLK reward is told to the goals of its kind by  *)
(* a call that nobody awaits, so it is heard at any time from then on, or  *)
(* never, or again: one transaction per goal, which inserts a dedupe row   *)
(* with a key for the signal, adds to the player's progress and, when the  *)
(* target is reached, writes the XP ledger.  Both keys are unique over all *)
(* players: the dedupe key of a check-in is its date, the key of a         *)
(* mission's XP is the mission and the period.  PostgreSQL undoes a        *)
(* transaction in which a unique index was hit, though the code catches    *)
(* the error and returns.                                                  *)
(*                                                                         *)
(* One season, with one price for a level and one for the whole pass.      *)
(* Rewards are POL; machines and hash rate are granted in the same         *)
(* transaction and are not told apart.                                     *)
(***************************************************************************)
EXTENDS Integers, FiniteSets

CONSTANTS
  Players,
  NoPlayer,       \* the owner of XP that nobody has
  Missions,       \* the missions of the season
  Tasks,          \* the daily tasks
  LoginGoals,     \* the goals that check-ins count for; games count for the others
  Target,         \* targetValue of each goal
  MissionXp,      \* xpReward of a mission
  Games,          \* games that are played to the end, and their players
  GameOwner,
  MaxDay,         \* bound on the days
  Buyers,         \* purchases in progress
  XpPerLevel, MaxLevel, LevelPrice, PassPrice,  \* the season's settings
  RewardLevels,   \* the levels that have a reward
  LevelReward,    \* the POL it gives, and a task's reward too
  OpeningPol      \* POL of each player at the start

Goals == Missions \cup Tasks
Days == 1 .. MaxDay

ASSUME PlayerAssumption == NoPlayer \notin Players
ASSUME GoalAssumption ==
  /\ Missions \cap Tasks = {} /\ LoginGoals \subseteq Goals
  /\ Target \in [Goals -> Nat \ {0}]
ASSUME SignalAssumption == Games \cap Days = {} /\ GameOwner \in [Games -> Players]
ASSUME SeasonAssumption ==
  /\ MissionXp \in Nat \ {0} /\ MaxDay \in Nat \ {0}
  /\ XpPerLevel \in Nat \ {0} /\ MaxLevel \in Nat \ {0}
  /\ LevelPrice \in Nat \ {0} /\ PassPrice \in Nat \ {0}
  /\ RewardLevels \subseteq 1 .. MaxLevel /\ LevelReward \in Nat /\ OpeningPol \in [Players -> Nat]

VARIABLES
  today,      \* the day, and the period of every goal
  live,       \* the season is live
  ticks,      \* the dedupe rows
  value,      \* progress of each player towards each goal in each period,
  done,       \*   completedAt
  rewarded,   \*   and, of tasks, rewardClaimedAt
  xpOwner,    \* the ledger's rows of missions: whose row has each key
  bought,     \* the sum of the ledger's rows of purchases
  totalXp,    \* enrollment.totalXp
  levels,     \* rewards of levels that were claimed
  pol,        \* users.pol_balance
  buy,        \* purchases in progress
  counted,    \* history: signals that count for their player, and the day
  dropped,    \* history: signals heard and not counted, and the day
  overtaken   \* history: players who got XP or paid while a purchase was in progress

pass == <<xpOwner, bought, totalXp>>
progress == <<ticks, value, done>>
signals == <<counted, dropped>>
mVars == <<today, live, signals, progress, rewarded, pass, levels, pol, buy, overtaken>>

Keys == Days \cup Games
Signal == [player : Players, key : Keys, goal : Goals]
IdleBuy == [pc |-> "idle", player |-> NoPlayer, xp |-> 0, price |-> 0]

MInit ==
  /\ today = 1 /\ live = TRUE
  /\ counted = {} /\ dropped = {}
  /\ ticks = {}
  /\ value = [spot \in Players \X Goals \X Days |-> 0]
  /\ done = {} /\ rewarded = {}
  /\ xpOwner = [r \in Missions \X Days |-> NoPlayer]
  /\ bought = [p \in Players |-> 0]
  /\ totalXp = [p \in Players |-> 0]
  /\ levels = {}
  /\ pol = OpeningPol
  /\ buy = [b \in Buyers |-> IdleBuy]
  /\ overtaken = {}

-----------------------------------------------------------------------------
(* What players do                                                         *)

NextDay ==
  /\ today < MaxDay
  /\ today' = today + 1
  /\ UNCHANGED <<live, signals, progress, rewarded, pass, levels, pol, buy, overtaken>>

\* The administrator ends the season, or its time is over.
EndSeason ==
  /\ live
  /\ live' = FALSE
  /\ UNCHANGED <<today, signals, progress, rewarded, pass, levels, pol, buy, overtaken>>

\* notifyMiniPassLoginDay, notifyDailyTaskLoginDay: a check-in of this day or,
\* confirmed late, of one before.  notifyMiniPassGamePlayed and the like.
Sent(s) ==
  IF s.key \in Days THEN s.goal \in LoginGoals /\ s.key <= today
                    ELSE s.goal \notin LoginGoals /\ s.player = GameOwner[s.key]

-----------------------------------------------------------------------------
(* bumpMissionProgress, bumpOneTask                                        *)

Tick(s) == <<s.goal, s.key>>

\* mutant: a signal is applied each time it is told
NeverTicked(s) == FALSE

Ticked(s) == Tick(s) \in ticks

Heard == {e[1] : e \in counted}

Spot(s) == <<s.player, s.goal, today>>
Reaches(s) == Spot(s) \notin done /\ value[Spot(s)] + 1 >= Target[s.goal]

\* The dedupe row is there: nothing else is done.
Drop(s) ==
  /\ dropped' = IF s \in Heard THEN dropped ELSE dropped \cup {<<s, today>>}
  /\ UNCHANGED <<today, live, counted, progress, rewarded, pass, levels, pol, buy, overtaken>>

HearTwice(s) == Ticked(s) /\ Drop(s)

Bump(s) ==
  /\ ticks' = ticks \cup {Tick(s)}
  /\ value' = [value EXCEPT ![Spot(s)] = @ + 1]
  /\ counted' = counted \cup {<<s, today>>}

Advance(s) ==
  /\ ~Ticked(s) /\ ~Reaches(s)
  /\ Bump(s)
  /\ UNCHANGED <<today, live, dropped, done, rewarded, pass, levels, pol, buy, overtaken>>

CompleteTask(s) ==
  /\ s.goal \in Tasks
  /\ ~Ticked(s) /\ Reaches(s)
  /\ Bump(s)
  /\ done' = done \cup {Spot(s)}
  /\ UNCHANGED <<today, live, dropped, rewarded, pass, levels, pol, buy, overtaken>>

\* mutant: the total is written outside of the ledger's transaction
TotalUnchanged(p, n) == totalXp

TotalAfter(p, n) == [totalXp EXCEPT ![p] = @ + n]

Overtaken(p, others) ==
  IF \E b \in others : buy[b].player = p THEN overtaken \cup {p} ELSE overtaken

\* applyMiniPassXp looks at the season again: no XP once it has ended, and
\* the error undoes the progress.
CompleteMission(s) ==
  /\ s.goal \in Missions
  /\ ~Ticked(s) /\ Reaches(s)
  /\ live /\ xpOwner[<<s.goal, today>>] = NoPlayer
  /\ Bump(s)
  /\ done' = done \cup {Spot(s)}
  /\ xpOwner' = [xpOwner EXCEPT ![<<s.goal, today>>] = s.player]
  /\ totalXp' = TotalAfter(s.player, MissionXp)
  /\ overtaken' = Overtaken(s.player, Buyers)
  /\ UNCHANGED <<today, live, dropped, rewarded, bought, levels, pol, buy>>

\* mutant: the transaction is committed all the same
CommitAnyway(s) ==
  /\ Bump(s)
  /\ done' = done \cup {Spot(s)}
  /\ UNCHANGED <<today, live, dropped, rewarded, pass, levels, pol, buy, overtaken>>

\* The ledger has a row with this key: "duplicate" is returned, the
\* transaction is undone.
Undo(s) == Drop(s)

CompleteDuplicate(s) ==
  /\ s.goal \in Missions
  /\ ~Ticked(s) /\ Reaches(s)
  /\ live /\ xpOwner[<<s.goal, today>>] # NoPlayer
  /\ Undo(s)

-----------------------------------------------------------------------------
(* claimDailyTaskReward, claimMiniPassLevelReward                          *)

Reward(p) == pol' = [pol EXCEPT ![p] = @ + LevelReward]

\* The update is conditional on rewardClaimedAt; the task is of today.
ClaimTask(p, t) ==
  /\ <<p, t, today>> \in done \ rewarded
  /\ rewarded' = rewarded \cup {<<p, t, today>>}
  /\ Reward(p)
  /\ UNCHANGED <<today, live, signals, progress, pass, levels, buy, overtaken>>

\* computePassLevel
PassLevel(xp) == LET n == 1 + xp \div XpPerLevel IN IF n < MaxLevel THEN n ELSE MaxLevel

\* A player's claim of a level is unique, and XP is never taken away.
ClaimLevel(p, l) ==
  /\ live
  /\ PassLevel(totalXp[p]) >= l
  /\ <<p, l>> \notin levels
  /\ levels' = levels \cup {<<p, l>>}
  /\ Reward(p)
  /\ UNCHANGED <<today, live, signals, progress, rewarded, pass, buy, overtaken>>

-----------------------------------------------------------------------------
(* purchaseMiniPassLevels, purchaseMiniPassComplete                        *)

\* xpCapForSeason, xpRemainingToCap
Cap == (MaxLevel - 1) * XpPerLevel
Remaining(xp) == IF xp < Cap THEN Cap - xp ELSE 0

\* mutant: the cap is not looked at
WholeLevel(xp) == XpPerLevel

LevelXp(xp) == IF Remaining(xp) < XpPerLevel THEN Remaining(xp) ELSE XpPerLevel

Choose(b, p, xp, price) ==
  /\ buy[b].pc = "idle"
  /\ live
  /\ Remaining(totalXp[p]) > 0
  /\ pol[p] >= price
  /\ buy' = [buy EXCEPT ![b] = [pc |-> "commit", player |-> p, xp |-> xp, price |-> price]]
  /\ UNCHANGED <<today, live, signals, progress, rewarded, pass, levels, pol, overtaken>>

ChooseLevel(b, p) == Choose(b, p, LevelXp(totalXp[p]), LevelPrice)
ChoosePass(b, p) == Choose(b, p, Remaining(totalXp[p]), PassPrice)

\* applyMiniPassXp looks at the season once more.
CommitBuy(b) ==
  /\ buy[b].pc = "commit" /\ live
  /\ LET p == buy[b].player
     IN  /\ pol' = [pol EXCEPT ![p] = @ - buy[b].price]
         /\ bought' = [bought EXCEPT ![p] = @ + buy[b].xp]
         /\ totalXp' = TotalAfter(p, buy[b].xp)
         /\ overtaken' = Overtaken(p, Buyers \ {b})
  /\ buy' = [buy EXCEPT ![b] = IdleBuy]
  /\ UNCHANGED <<today, live, signals, progress, rewarded, xpOwner, levels>>

FailBuy(b) ==
  /\ buy[b].pc = "commit"
  /\ buy' = [buy EXCEPT ![b] = IdleBuy]
  /\ UNCHANGED <<today, live, signals, progress, rewarded, pass, levels, pol, overtaken>>

-----------------------------------------------------------------------------
Hear(s) ==
  HearTwice(s) \/ Advance(s) \/ CompleteTask(s) \/ CompleteMission(s)
  \/ CompleteDuplicate(s)

Purchase(b) ==
  (\E p \in Players : ChooseLevel(b, p) \/ ChoosePass(b, p)) \/ CommitBuy(b) \/ FailBuy(b)

MNext ==
  \/ NextDay \/ EndSeason
  \/ \E s \in Signal : Sent(s) /\ Hear(s)
  \/ \E p \in Players, t \in Tasks : ClaimTask(p, t)
  \/ \E p \in Players, l \in RewardLevels : ClaimLevel(p, l)
  \/ \E b \in Buyers : Purchase(b)

MSpec == MInit /\ [][MNext]_mVars

-----------------------------------------------------------------------------
XpRows(p) == {r \in Missions \X Days : xpOwner[r] = p}

\* miniPassXpService.js: "Keeps enrollment.totalXp in sync with the sum of
\* ledger rows".  And a mission shows as completed to exactly the player whom
\* the ledger paid for it, though the row of the ledger is written last and
\* its key may be another player's.
XpAgrees ==
  /\ \A p \in Players : totalXp[p] = bought[p] + MissionXp * Cardinality(XpRows(p))
  /\ \A p \in Players, m \in Missions, d \in Days :
       <<p, m, d>> \in done <=> xpOwner[<<m, d>>] = p

CountedAt(spot) == {e \in counted : <<e[1].player, e[1].goal, e[2]>> = spot}

\* Progress is the number of signals that count for the player, the goal and
\* the period, and a signal counts in one period only: told again, on the
\* same day or a later one, it adds nothing.  And one that was heard and does
\* not count had counted before, or had its key used by another player, or
\* was for a mission that another was paid for in that period.
SignalsCounted ==
  /\ \A spot \in Players \X Goals \X Days : value[spot] = Cardinality(CountedAt(spot))
  /\ \A e, f \in counted : e[1] = f[1] => e = f
  /\ \A e \in dropped :
       \/ \E s \in Heard : Tick(s) = Tick(e[1])
       \/ e[1].goal \in Missions /\ xpOwner[<<e[1].goal, e[2]>>] \notin {NoPlayer, e[1].player}

\* purchaseMiniPassLevels, purchaseMiniPassComplete: a purchase is covered by
\* the balance (INSUFFICIENT_POL) and does not take the XP above the season's
\* cap, unless another purchase or a mission of the player came in between.
PassCovered ==
  [][\A p \in Players \ overtaken :
       bought'[p] # bought[p] => pol'[p] >= 0 /\ totalXp'[p] <= Cap]_mVars

\* miniPassMissionHookService.js: "After daily check-in is confirmed - counts
\* toward LOGIN_DAY missions".  Without the proviso.
LoginCounts == \A e \in dropped : e[1].goal \in LoginGoals => e[1] \in Heard

=============================================================================
