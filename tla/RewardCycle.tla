----------------------------- MODULE RewardCycle -----------------------------
(***************************************************************************)
(* The BLK reward: every window of time, runBlkRewardCycle shares a pool   *)
(* among the players in proportion to their hash rates.  The timer of a    *)
(* minute and an administrator start runs that do not wait for each other. *)
(*                                                                         *)
(* Amounts are in units of 1e-8 BLK.  The settings and the hash rates are  *)
(* read once in a run and may change at any time, so a run may read any.   *)
(* credited counts what the cycles pay, not what players spend.            *)
(***************************************************************************)
EXTENDS Integers, FiniteSets, FiniteSetsExt, Sums

CONSTANTS
  Players,    \* user ids, by which the shares are computed in order
  Runs,       \* runs in progress
  MaxTime,    \* bound on the clock, in minutes
  Intervals,  \* values of blkCycleIntervalSec, in minutes
  Rewards,    \* values of blkCycleReward times blkCycleBoost
  Rates,      \* hash rates
  Open        \* see RewardWindows

ASSUME PlayerAssumption == Players \subseteq Nat /\ IsFiniteSet(Players)
ASSUME SettingAssumption ==
  /\ MaxTime \in Nat
  /\ Intervals \subseteq Nat \ {0}
  /\ Rewards \subseteq Nat
  /\ Rates \subseteq Nat
ASSUME OpenAssumption == Open \notin [Players -> Nat]

VARIABLES
  now,       \* the clock
  cycles,    \* rows of blk_reward_cycles, each with the amounts of its logs
  credited,  \* sum of the increments of blk_balance
  run,       \* calls of runBlkRewardCycle
  told,      \* history: how often the missions heard of each log
  lost       \* history: windows of which a run stopped before it told

vars == <<now, cycles, credited, run, told, lost>>

Windows == 0 .. MaxTime
Shares == [Players -> Nat]
Nothing == [p \in Players |-> 0]
Idle == [pc |-> "idle", window |-> 0, total |-> 0, share |-> Nothing]

Init ==
  /\ now = 0
  /\ cycles = {}
  /\ credited = Nothing
  /\ run = [r \in Runs |-> Idle]
  /\ told = [w \in Windows |-> Nothing]
  /\ lost = {}

Tick ==
  /\ now < MaxTime
  /\ now' = now + 1
  /\ UNCHANGED <<cycles, credited, run, told, lost>>

-----------------------------------------------------------------------------
(* The shares                                                              *)

\* floor8(n / d) in floating point: a quotient that is whole may come out a
\* unit short.
floor8(n, d) ==
  IF n % d = 0 /\ n > 0 THEN {n \div d - 1, n \div d} ELSE {n \div d}

\* mutant: the last player's part is taken from the whole pool
WholePool(total, given) == total

Remaining(total, given) == total - given

\* Every player but the last by id gets his part rounded down, the last what
\* remains; each of the subtractions and the last rounding may lose a unit.
Planned(total, rate) ==
  LET entries == {p \in Players : rate[p] > 0}
      last == Max(entries)
      whole == Total(rate, entries)
  IN  {share \in [Players -> 0 .. total] :
        /\ \A p \in Players \ entries : share[p] = 0
        /\ entries # {} =>
             LET rest == Remaining(total, Total(share, entries \ {last}))
             IN  /\ \A p \in entries \ {last} : share[p] \in floor8(total * rate[p], whole)
                 /\ share[last] \in (rest - Cardinality(entries)) .. rest}

-----------------------------------------------------------------------------
(* runBlkRewardCycle                                                       *)

floorUtcEpochBucket(t, interval) == (t \div interval) * interval

Settled(w) == \E c \in cycles : c.window = w

\* mutant: window_start is not unique
NoIndex(w) == FALSE

UniqueViolation(w) == Settled(w)

Begin(r) ==
  /\ run[r].pc = "idle"
  /\ \E interval \in Intervals, total \in Rewards \ {0} :
       run' = [run EXCEPT ![r] = [pc |-> "find", total |-> total, share |-> Nothing,
                                  window |-> floorUtcEpochBucket(now, interval)]]
  /\ UNCHANGED <<now, cycles, credited, told, lost>>

FindExisting(r) ==
  /\ run[r].pc = "find"
  /\ run' = [run EXCEPT ![r] = IF Settled(run[r].window) THEN Idle ELSE [@ EXCEPT !.pc = "plan"]]
  /\ UNCHANGED <<now, cycles, credited, told, lost>>

\* Players who are not eligible, are at or below the least hash rate, or
\* whose snapshot failed count as 0.
Plan(r) ==
  /\ run[r].pc = "plan"
  /\ \E rate \in [Players -> Rates] : \E share \in Planned(run[r].total, rate) :
       run' = [run EXCEPT ![r].pc = "commit", ![r].share = share]
  /\ UNCHANGED <<now, cycles, credited, told, lost>>

\* mutant: the run that came second tells as well
TellAgain == "tell"

AfterDuplicate == "idle"

\* mutant: nothing is told
Silent == "idle"

AfterCommit == "tell"

Finish(r, pc) == IF pc = "idle" THEN Idle ELSE [run[r] EXCEPT !.pc = pc]

\* The cycle, its logs and the increments are one transaction.
Commit(r) ==
  /\ run[r].pc = "commit"
  /\ ~UniqueViolation(run[r].window)
  /\ cycles' = cycles \cup {[window |-> run[r].window, total |-> run[r].total,
                             share |-> run[r].share]}
  /\ credited' = [p \in Players |-> credited[p] + run[r].share[p]]
  /\ run' = [run EXCEPT ![r] = Finish(r, IF run[r].share = Nothing THEN "idle" ELSE AfterCommit)]
  /\ UNCHANGED <<now, told, lost>>

DuplicateWindow(r) ==
  /\ run[r].pc = "commit"
  /\ UniqueViolation(run[r].window)
  /\ run' = [run EXCEPT ![r] = Finish(r, AfterDuplicate)]
  /\ UNCHANGED <<now, cycles, credited, told, lost>>

\* notifyMiniPassBlkReward and notifyDailyTaskBlkMined, for every log.
Tell(r) ==
  /\ run[r].pc = "tell"
  /\ told' = [told EXCEPT ![run[r].window] =
                [p \in Players |-> @[p] + IF run[r].share[p] > 0 THEN 1 ELSE 0]]
  /\ run' = [run EXCEPT ![r] = Idle]
  /\ UNCHANGED <<now, cycles, credited, lost>>

Telling(S) == {run[r].window : r \in {x \in S : run[x].pc = "tell"}}

\* A query throws.  What is committed stays, and is not told.
Throw(r) ==
  /\ run[r].pc # "idle"
  /\ run' = [run EXCEPT ![r] = Idle]
  /\ lost' = lost \cup Telling({r})
  /\ UNCHANGED <<now, cycles, credited, told>>

Restart ==
  /\ run' = [r \in Runs |-> Idle]
  /\ lost' = lost \cup Telling(Runs)
  /\ UNCHANGED <<now, cycles, credited, told>>

Step(r) ==
  Begin(r) \/ FindExisting(r) \/ Plan(r) \/ Commit(r) \/ DuplicateWindow(r) \/ Tell(r) \/ Throw(r)

Next == Tick \/ (\E r \in Runs : Step(r)) \/ Restart

Spec == Init /\ [][Next]_vars

\* A run that has committed goes on to its end.
Fairness == \A r \in Runs : WF_vars(Tell(r))

FairSpec == Spec /\ Fairness

-----------------------------------------------------------------------------
\* Every row, counter and run's record holds a value of its type.
TypeOK ==
  /\ now \in 0 .. MaxTime
  /\ cycles \subseteq [window : Windows, total : Nat, share : Shares]
  /\ credited \in Shares
  /\ run \in [Runs -> [pc : {"idle", "find", "plan", "commit", "tell"},
                       window : Windows, total : Nat, share : Shares]]
  /\ told \in [Windows -> Shares]
  /\ lost \subseteq Windows

\* The pool of a cycle is never exceeded, and once anybody is paid no more
\* than a rounding unit a player is kept back.
WithinPool ==
  \A c \in cycles :
    LET paid == Total(c.share, Players)
    IN  paid <= c.total /\ (paid > 0 => paid >= c.total - Cardinality(Players))

\* "Idempotent per windowStart": the cycles settle each window once, with
\* the balances, whichever runs overlap, fail or are cut short.
ledger ==
  [w \in Windows |-> IF Settled(w) THEN (CHOOSE c \in cycles : c.window = w).share ELSE Open]
Emission == INSTANCE RewardWindows WITH ledger <- ledger, credited <- credited
ImplementsWindows == Emission!Spec

\* The missions hear of a log at most once, and only of a credited one.
ToldOnce ==
  \A w \in Windows, p \in Players :
    told[w][p] > 0 => told[w][p] = 1 /\ \E c \in cycles : c.window = w /\ c.share[p] > 0

Unheard ==
  {e \in Windows \X Players :
     /\ e[1] \notin lost /\ told[e[1]][e[2]] = 0
     /\ \E c \in cycles : c.window = e[1] /\ c.share[e[2]] > 0}

\* A credited share is told in the end, unless its run stopped in between.
ToldAll == []<>(Unheard = {})

=============================================================================
