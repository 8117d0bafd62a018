-------------------------- MODULE Background_proofs ---------------------------
(***************************************************************************)
(* The cycles of RewardCycle implement RewardWindows, pay no more than     *)
(* their pool, and the missions hear of a log once.  That rests on Inv:    *)
(* the rows are one for a window, and the window of a run that is about to *)
(* tell is its own.                                                        *)
(*                                                                         *)
(* The live streams (StreamInv): whatever runs can be stopped, and a       *)
(* stream that was stopped has nobody left who would start it again.       *)
(***************************************************************************)
EXTENDS Background, EngineLedger_proofs, Sums_proofs, TLAPS

OneRow == \A c, d \in cycles : c.window = d.window => c = d

Untold(r) ==
  run[r].pc = "tell" =>
    /\ \E c \in cycles : c.window = run[r].window /\ c.share = run[r].share
    /\ \A p \in Players : told[run[r].window][p] = 0

OneTeller ==
  \A r, q \in Runs :
    run[r].pc = "tell" /\ run[q].pc = "tell" /\ run[r].window = run[q].window => r = q

Inv == TypeOK /\ OneRow /\ OneTeller /\ ToldOnce /\ \A r \in Runs : Untold(r)

-----------------------------------------------------------------------------
\* A run stays in its record's type, and its window in time.
LEMMA BucketType ==
  ASSUME NEW t \in 0 .. MaxTime, NEW interval \in Intervals
  PROVE  floorUtcEpochBucket(t, interval) \in Windows
  <1>1. interval \in Nat \ {0} /\ MaxTime \in Nat
    BY SettingAssumption
  <1>2. t \div interval \in Nat /\ interval * (t \div interval) <= t
    BY <1>1
  <1>3. (t \div interval) * interval = interval * (t \div interval)
    BY <1>1, <1>2
  <1>4. (t \div interval) * interval \in Nat
    BY <1>1, <1>2
  <1> QED BY <1>1, <1>2, <1>3, <1>4 DEF floorUtcEpochBucket, Windows

LEMMA PlannedType ==
  ASSUME NEW total \in Nat, NEW rate, NEW share \in Planned(total, rate)
  PROVE  share \in Shares
  <1>1. share \in [Players -> 0 .. total]
    BY DEF Planned
  <1> QED BY <1>1 DEF Shares

LEMMA NextType ==
  ASSUME TypeOK, [Next]_vars
  PROVE  TypeOK'
  <1> DEFINE Record == [pc : {"idle", "find", "plan", "commit", "tell"},
                        window : Windows, total : Nat, share : Shares]
  <1>0. Idle \in Record /\ run \in [Runs -> Record]
    BY SettingAssumption DEF Idle, Nothing, Shares, Windows, TypeOK
  <1>1. CASE Tick
    BY <1>1, SettingAssumption DEF Tick, TypeOK
  <1>2. ASSUME NEW r \in Runs, Begin(r) PROVE TypeOK'
    <2>1. PICK interval \in Intervals, total \in Rewards \ {0} :
            run' = [run EXCEPT ![r] = [pc |-> "find", total |-> total, share |-> Nothing,
                                       window |-> floorUtcEpochBucket(now, interval)]]
      BY <1>2 DEF Begin
    <2>2. floorUtcEpochBucket(now, interval) \in Windows
      BY BucketType DEF TypeOK
    <2>3. total \in Nat /\ Nothing \in Shares
      BY SettingAssumption DEF Nothing, Shares
    <2>4. run' \in [Runs -> Record]
      BY <1>0, <2>1, <2>2, <2>3
    <2> QED BY <1>2, <2>4 DEF Begin, TypeOK
  <1>3. ASSUME NEW r \in Runs, FindExisting(r) PROVE TypeOK'
    <2>1. run' \in [Runs -> Record]
      BY <1>0, <1>3 DEF FindExisting
    <2> QED BY <1>3, <2>1 DEF FindExisting, TypeOK
  <1>4. ASSUME NEW r \in Runs, Plan(r) PROVE TypeOK'
    <2>1. PICK rate \in [Players -> Rates] : \E share \in Planned(run[r].total, rate) :
            run' = [run EXCEPT ![r].pc = "commit", ![r].share = share]
      BY <1>4 DEF Plan
    <2>2. PICK share \in Planned(run[r].total, rate) :
            run' = [run EXCEPT ![r].pc = "commit", ![r].share = share]
      BY <2>1
    <2>3. run[r].total \in Nat
      BY <1>0
    <2>4. share \in Shares
      BY <2>3, PlannedType
    <2>5. run' \in [Runs -> Record]
      BY <1>0, <2>2, <2>4
    <2> QED BY <1>4, <2>5 DEF Plan, TypeOK
  <1>5. ASSUME NEW r \in Runs, Commit(r) PROVE TypeOK'
    <2>1. run[r] \in Record
      BY <1>0
    <2>2. cycles' \subseteq [window : Windows, total : Nat, share : Shares]
      BY <1>5, <2>1 DEF Commit, TypeOK
    <2>3. credited' \in Shares
      BY <1>5, <2>1 DEF Commit, TypeOK, Shares
    <2>4. run' \in [Runs -> Record]
      BY <1>0, <1>5 DEF Commit, Finish, AfterCommit
    <2> QED BY <1>5, <2>2, <2>3, <2>4 DEF Commit, TypeOK
  <1>6. ASSUME NEW r \in Runs, DuplicateWindow(r) PROVE TypeOK'
    <2>1. run' \in [Runs -> Record]
      BY <1>0, <1>6 DEF DuplicateWindow, Finish, AfterDuplicate
    <2> QED BY <1>6, <2>1 DEF DuplicateWindow, TypeOK
  <1>7. ASSUME NEW r \in Runs, Tell(r) PROVE TypeOK'
    <2>1. run' \in [Runs -> Record]
      BY <1>0, <1>7 DEF Tell
    <2>2. told' \in [Windows -> Shares]
      BY <1>0, <1>7 DEF Tell, TypeOK, Shares
    <2> QED BY <1>7, <2>1, <2>2 DEF Tell, TypeOK
  <1>8. \A S \in SUBSET Runs : Telling(S) \subseteq Windows
    BY <1>0 DEF Telling
  <1>9. ASSUME NEW r \in Runs, Throw(r) PROVE TypeOK'
    <2>1. run' \in [Runs -> Record]
      BY <1>0, <1>9 DEF Throw
    <2> QED BY <1>8, <1>9, <2>1 DEF Throw, TypeOK
  <1>10. CASE Restart
    <2>1. run' \in [Runs -> Record]
      BY <1>0, <1>10 DEF Restart
    <2> QED BY <1>8, <1>10, <2>1 DEF Restart, TypeOK
  <1>11. CASE UNCHANGED vars
    BY <1>11 DEF vars, TypeOK
  <1> QED BY <1>1, <1>2, <1>3, <1>4, <1>5, <1>6, <1>7, <1>9, <1>10, <1>11 DEF Next, Step

LEMMA InitType == Init => TypeOK
  <1> SUFFICES ASSUME Init PROVE TypeOK
    OBVIOUS
  <1>1. Nothing \in Shares
    BY DEF Nothing, Shares
  <1>2. 0 \in Windows
    BY SettingAssumption DEF Windows
  <1> QED BY <1>1, <1>2 DEF Init, TypeOK, Idle, Windows

-----------------------------------------------------------------------------
\* Only Commit adds a row, only Tell changes what is told.
LEMMA LedgerNext ==
  ASSUME Inv, [Next]_vars
  PROVE  OneRow' /\ OneTeller' /\ ToldOnce' /\ \A r \in Runs : Untold(r)'
  <1> USE DEF Inv
  <1>0. run \in [Runs -> [pc : {"idle", "find", "plan", "commit", "tell"},
                          window : Windows, total : Nat, share : Shares]]
    BY DEF TypeOK
  <1>1. ASSUME UNCHANGED <<cycles, told>>,
               \A r \in Runs : run'[r].pc = "tell" => run'[r] = run[r]
        PROVE  OneRow' /\ OneTeller' /\ ToldOnce' /\ \A r \in Runs : Untold(r)'
    <2>1. OneRow' /\ ToldOnce'
      BY <1>1 DEF OneRow, ToldOnce
    <2>2. OneTeller'
      BY <1>1 DEF OneTeller
    <2>3. \A r \in Runs : Untold(r)'
      BY <1>1 DEF Untold
    <2> QED BY <2>1, <2>2, <2>3
  <1>2. ASSUME NEW r \in Runs, Commit(r)
        PROVE  OneRow' /\ OneTeller' /\ ToldOnce' /\ \A q \in Runs : Untold(q)'
    <2> DEFINE w == run[r].window
               row == [window |-> w, total |-> run[r].total, share |-> run[r].share]
    <2>1. w \in Windows /\ \A c \in cycles : c.window # w
      BY <1>0, <1>2 DEF Commit, UniqueViolation, Settled
    <2>2. cycles' = cycles \cup {row} /\ row.window = w /\ row.share = run[r].share
      BY <1>2 DEF Commit
    <2>3. told' = told
      BY <1>2 DEF Commit
    <2>4. \A q \in Runs \ {r} : run'[q] = run[q]
      BY <1>0, <1>2 DEF Commit
    <2>5. run'[r].pc = "tell" => run'[r].window = w /\ run'[r].share = run[r].share
      BY <1>0, <1>2 DEF Commit, Finish, AfterCommit, Idle
    <2>6. \A q \in Runs : run[q].pc = "tell" => run[q].window # w
      BY <2>1 DEF Untold
    <2>7. \A p \in Players : told[w][p] = 0
      <3> SUFFICES ASSUME NEW p \in Players PROVE told[w][p] = 0
        OBVIOUS
      <3>1. told[w][p] \in Nat
        BY <2>1 DEF TypeOK, Shares
      <3>2. ~(told[w][p] > 0)
        BY <2>1 DEF ToldOnce
      <3> QED BY <3>1, <3>2
    <2> HIDE DEF w, row
    <2>8. OneRow'
      BY <2>1, <2>2 DEF OneRow
    <2>9. OneTeller'
      BY <2>4, <2>5, <2>6 DEF OneTeller
    <2>10. ToldOnce'
      BY <2>2, <2>3 DEF ToldOnce
    <2>11. \A q \in Runs : Untold(q)'
      BY <2>2, <2>3, <2>4, <2>5, <2>7 DEF Untold
    <2> QED BY <2>8, <2>9, <2>10, <2>11
  <1>3. ASSUME NEW r \in Runs, Tell(r)
        PROVE  OneRow' /\ OneTeller' /\ ToldOnce' /\ \A q \in Runs : Untold(q)'
    <2> DEFINE w == run[r].window
    <2>1. cycles' = cycles /\ w \in Windows
      BY <1>0, <1>3 DEF Tell
    <2>2. PICK c \in cycles : c.window = w /\ c.share = run[r].share
      BY <1>3 DEF Tell, Untold
    <2>3. \A p \in Players : told[w][p] = 0
      BY <1>3 DEF Tell, Untold
    <2>4. \A v \in Windows \ {w} : told'[v] = told[v]
      BY <1>3 DEF Tell, TypeOK
    <2>5. \A p \in Players : told'[w][p] = IF run[r].share[p] > 0 THEN 1 ELSE 0
      BY <1>3, <2>1, <2>3 DEF Tell, TypeOK
    <2>6. run'[r].pc = "idle" /\ \A q \in Runs \ {r} : run'[q] = run[q]
      BY <1>0, <1>3 DEF Tell, Idle
    <2>7. \A q \in Runs \ {r} : run[q].pc = "tell" => run[q].window # w
      BY <1>3 DEF Tell, OneTeller
    <2>8. \A q \in Runs : run[q].window \in Windows
      BY <1>0
    <2> HIDE DEF w
    <2>9. OneRow' /\ OneTeller'
      BY <2>1, <2>6 DEF OneRow, OneTeller
    <2>10. ToldOnce'
      BY <2>1, <2>2, <2>4, <2>5 DEF ToldOnce
    <2>11. \A q \in Runs : Untold(q)'
      BY <2>1, <2>4, <2>6, <2>7, <2>8 DEF Untold
    <2> QED BY <2>9, <2>10, <2>11
  <1>4. CASE Tick \/ UNCHANGED vars
    BY <1>1, <1>4 DEF Tick, vars
  <1>5. ASSUME NEW r \in Runs,
               Begin(r) \/ FindExisting(r) \/ Plan(r) \/ DuplicateWindow(r) \/ Throw(r)
        PROVE  UNCHANGED <<cycles, told>> /\ \A q \in Runs : run'[q].pc = "tell" => run'[q] = run[q]
    <2>1. CASE Begin(r)
      BY <1>0, <2>1 DEF Begin
    <2>2. CASE FindExisting(r)
      BY <1>0, <2>2 DEF FindExisting, Idle
    <2>3. CASE Plan(r)
      BY <1>0, <2>3 DEF Plan
    <2>4. CASE DuplicateWindow(r)
      BY <1>0, <2>4 DEF DuplicateWindow, Finish, AfterDuplicate, Idle
    <2>5. CASE Throw(r)
      BY <1>0, <2>5 DEF Throw, Idle
    <2> QED BY <1>5, <2>1, <2>2, <2>3, <2>4, <2>5
  <1>6. CASE Restart
    BY <1>1, <1>6 DEF Restart, Idle
  <1> QED BY <1>1, <1>2, <1>3, <1>4, <1>5, <1>6 DEF Next, Step

LEMMA InitLedger == Init => Inv
  <1> SUFFICES ASSUME Init PROVE Inv
    OBVIOUS
  <1>1. \A r \in Runs : run[r].pc = "idle"
    BY DEF Init, Idle
  <1>2. \A w \in Windows, p \in Players : told[w][p] = 0
    BY DEF Init, Nothing
  <1> QED BY <1>1, <1>2, InitType DEF Inv, OneRow, OneTeller, ToldOnce, Untold, Init

LEMMA Invariance == Spec => []Inv
  <1>1. Inv /\ [Next]_vars => Inv'
    <2> SUFFICES ASSUME Inv, [Next]_vars PROVE Inv'
      OBVIOUS
    <2>1. TypeOK'
      BY NextType DEF Inv
    <2> QED BY <2>1, LedgerNext DEF Inv
  <1> QED BY <1>1, InitLedger, PTL DEF Spec

-----------------------------------------------------------------------------
\* Rows, balances and runs keep their types (blkRewardDistributionService.js).
THEOREM TypeCorrect == Spec => []TypeOK
  <1>1. Inv => TypeOK
    BY DEF Inv
  <1> QED BY <1>1, Invariance, PTL

\* The missions hear of a credited share at most once, however many runs
\* overlap: the run that lost the unique index tells nothing.
THEOREM OneTelling == Spec => []ToldOnce
  <1>1. Inv => ToldOnce
    BY DEF Inv
  <1> QED BY <1>1, Invariance, PTL

-----------------------------------------------------------------------------
(* The pool of a cycle                                                     *)

\* What a run has planned, and a cycle has paid.
InPool(total, share) ==
  /\ Total(share, Players) <= total
  /\ Total(share, Players) > 0 => Total(share, Players) >= total - Cardinality(Players)

PlansInPool == \A r \in Runs : run[r].pc = "commit" => InPool(run[r].total, run[r].share)

PoolInv == TypeOK /\ PlansInPool /\ WithinPool

LEMMA MaxIn ==
  ASSUME NEW S, S \subseteq Nat, IsFiniteSet(S), S # {}
  PROVE  Max(S) \in S
  <1> DEFINE T == {t \in SUBSET S : t # {} /\ ~ \E x \in t : \A y \in t : x >= y}
  <1>1. T = {}
    <2> SUFFICES ASSUME T # {} PROVE FALSE
      OBVIOUS
    <2>1. PICK t \in T : \A u \in T : u \subseteq t => u = t
      <3>1. IsFiniteSet(S) /\ T \in SUBSET (SUBSET S) /\ T # {}
        OBVIOUS
      <3> HIDE DEF T
      <3> QED BY ONLY <3>1, Smallest
    <2>2. PICK z \in t : TRUE
      BY <2>1
    <2> DEFINE u == t \ {z}
    <2>3. CASE u = {}
      <3>1. \A y \in t : z >= y
        BY <2>2, <2>3
      <3> QED BY <2>1, <2>2, <3>1
    <2>4. CASE u # {}
      <3>1. u \notin T /\ u \in SUBSET S
        BY <2>1, <2>2
      <3>2. PICK x \in u : \A y \in u : x >= y
        BY <2>4, <3>1
      <3>3. x \in Nat /\ z \in Nat /\ \A y \in t : y \in Nat
        BY <2>1, <2>2
      <3>4. \A y \in t : y = z \/ x >= y
        BY <3>2
      <3>5. (\A y \in t : x >= y) \/ (\A y \in t : z >= y)
        BY <3>3, <3>4
      <3> QED BY <2>1, <2>2, <3>2, <3>5
    <2> QED BY <2>3, <2>4
  <1>2. \E x \in S : \A y \in S : x >= y
    BY <1>1
  <1> QED BY <1>2 DEF Max

\* The shares of all but the last player and what he gets of the rest.
LEMMA PlannedInPool ==
  ASSUME NEW total \in Nat, NEW rate \in [Players -> Rates], NEW share \in Planned(total, rate)
  PROVE  InPool(total, share)
  <1> DEFINE entries == {p \in Players : rate[p] > 0}
             last == Max(entries)
  <1>1. /\ share \in [Players -> 0 .. total]
        /\ \A p \in Players \ entries : share[p] = 0
        /\ entries # {} =>
             share[last] \in (total - Total(share, entries \ {last}) - Cardinality(entries))
                             .. (total - Total(share, entries \ {last}))
    BY DEF Planned, Remaining
  <1>2. IsFiniteSet(Players) /\ IsFiniteSet(entries) /\ IsFiniteSet(Players \ entries)
    BY PlayerAssumption, FS_Subset
  <1>3. \A p \in Players : share[p] \in Nat
    BY <1>1
  <1>4. Total(share, Players) = Total(share, entries)
    <2>1. \A p \in Players \ entries : share[p] = 0
      BY <1>1
    <2> HIDE DEF entries
    <2>2. entries \in SUBSET Players
      BY DEF entries
    <2> QED BY <1>2, <1>3, <2>1, <2>2, TotalOfRest
  <1>5. CASE entries = {}
    <2>1. Total(share, entries) = 0
      BY <1>5, TotalEmpty
    <2> QED BY <1>4, <2>1 DEF InPool
  <1>6. CASE entries # {}
    <2>1. last \in entries
      BY <1>2, <1>6, MaxIn, PlayerAssumption
    <2> HIDE DEF last
    <2>2. Total(share, entries) = share[last] + Total(share, entries \ {last})
      BY <1>2, <1>3, <2>1, TotalRemove
    <2>3. Total(share, entries \ {last}) \in Int
      BY <1>2, <1>3, FS_RemoveElement, TotalType
    <2>4. Cardinality(entries) \in Nat /\ Cardinality(Players) \in Nat
          /\ Cardinality(entries) <= Cardinality(Players)
      BY <1>2, FS_Subset, FS_CardinalityType
    <2>5. PICK n \in Int : n = Total(share, entries \ {last})
      BY <2>3
    <2>6. PICK k \in Nat : k = Cardinality(entries) /\ k <= Cardinality(Players)
      BY <2>4
    <2>7. share[last] \in Nat /\ share[last] \in (total - n - k) .. (total - n)
      BY <1>1, <1>3, <1>6, <2>1, <2>5, <2>6
    <2>8. Total(share, Players) = share[last] + n
      BY <1>4, <2>2, <2>5
    <2> HIDE DEF entries
    <2> QED BY <2>4, <2>6, <2>7, <2>8 DEF InPool
  <1> QED BY <1>5, <1>6

LEMMA PoolNext == PoolInv /\ [Next]_vars => PoolInv'
  <1> SUFFICES ASSUME PoolInv, [Next]_vars PROVE PoolInv'
    OBVIOUS
  <1>0. /\ TypeOK'
        /\ run \in [Runs -> [pc : {"idle", "find", "plan", "commit", "tell"},
                             window : Windows, total : Nat, share : Shares]]
    BY NextType DEF PoolInv, TypeOK
  <1>1. ASSUME cycles' = cycles,
               \A r \in Runs : run'[r].pc = "commit" => run'[r] = run[r]
        PROVE  PoolInv'
    BY <1>0, <1>1 DEF PoolInv, PlansInPool, WithinPool
  <1>2. ASSUME NEW r \in Runs, Plan(r) PROVE PoolInv'
    <2>1. PICK rate \in [Players -> Rates] : \E share \in Planned(run[r].total, rate) :
            run' = [run EXCEPT ![r].pc = "commit", ![r].share = share]
      BY <1>2 DEF Plan
    <2>2. PICK share \in Planned(run[r].total, rate) :
            run' = [run EXCEPT ![r].pc = "commit", ![r].share = share]
      BY <2>1
    <2>3. run[r].total \in Nat
      BY <1>0
    <2>4. InPool(run[r].total, share)
      BY <2>3, PlannedInPool
    <2>5. run'[r].total = run[r].total /\ run'[r].share = share
      BY <1>0, <2>2
    <2>6. \A q \in Runs \ {r} : run'[q] = run[q]
      BY <1>0, <2>2
    <2>7. PlansInPool'
      BY <2>4, <2>5, <2>6 DEF PlansInPool, PoolInv, InPool
    <2> QED BY <1>0, <1>2, <2>7 DEF PoolInv, Plan, WithinPool
  <1>3. ASSUME NEW r \in Runs, Commit(r) PROVE PoolInv'
    <2>1. InPool(run[r].total, run[r].share)
      BY <1>3 DEF Commit, PoolInv, PlansInPool
    <2>2. cycles' = cycles \cup {[window |-> run[r].window, total |-> run[r].total,
                                  share |-> run[r].share]}
      BY <1>3 DEF Commit
    <2>3. WithinPool'
      BY <2>1, <2>2 DEF WithinPool, InPool, PoolInv
    <2>4. \A q \in Runs : run'[q].pc = "commit" => run'[q] = run[q]
      BY <1>0, <1>3 DEF Commit, Finish, AfterCommit, Idle
    <2>5. PlansInPool'
      BY <2>4 DEF PlansInPool, PoolInv
    <2> QED BY <1>0, <2>3, <2>5 DEF PoolInv
  <1>4. CASE Tick \/ UNCHANGED vars
    BY <1>1, <1>4 DEF Tick, vars
  <1>5. ASSUME NEW r \in Runs,
               Begin(r) \/ FindExisting(r) \/ DuplicateWindow(r) \/ Tell(r) \/ Throw(r)
        PROVE  cycles' = cycles /\ \A q \in Runs : run'[q].pc = "commit" => run'[q] = run[q]
    <2>1. CASE Begin(r)
      BY <1>0, <2>1 DEF Begin
    <2>2. CASE FindExisting(r)
      BY <1>0, <2>2 DEF FindExisting, Idle
    <2>3. CASE DuplicateWindow(r)
      BY <1>0, <2>3 DEF DuplicateWindow, Finish, AfterDuplicate, Idle
    <2>4. CASE Tell(r)
      BY <1>0, <2>4 DEF Tell, Idle
    <2>5. CASE Throw(r)
      BY <1>0, <2>5 DEF Throw, Idle
    <2> QED BY <1>5, <2>1, <2>2, <2>3, <2>4, <2>5
  <1>6. CASE Restart
    BY <1>1, <1>6 DEF Restart, Idle
  <1> QED BY <1>1, <1>2, <1>3, <1>4, <1>5, <1>6 DEF Next, Step

\* Whoever is eligible and however the quotients are rounded: no cycle pays
\* more than its pool, and one that pays keeps back less than a unit a player.
THEOREM PoolKept == Spec => []WithinPool
  <1>1. Init => PoolInv
    <2> SUFFICES ASSUME Init PROVE PoolInv
      OBVIOUS
    <2>1. \A r \in Runs : run[r].pc = "idle"
      BY DEF Init, Idle
    <2> QED BY <2>1, InitType DEF PoolInv, PlansInPool, WithinPool, Init
  <1>2. PoolInv => WithinPool
    BY DEF PoolInv
  <1> QED BY <1>1, <1>2, PoolNext, PTL DEF Spec

-----------------------------------------------------------------------------
\* The row of a settled window is the only one, so the refinement mapping
\* reads its shares.
Reads == \A c \in cycles : c.window \in Windows => ledger[c.window] = c.share

LEMMA OneRowReads == OneRow => Reads
  <1> SUFFICES ASSUME OneRow, NEW c \in cycles, c.window \in Windows
               PROVE  ledger[c.window] = c.share
    BY DEF Reads
  <1>1. Settled(c.window)
    BY DEF Settled
  <1>2. (CHOOSE d \in cycles : d.window = c.window) = c
    BY DEF OneRow
  <1> QED BY <1>1, <1>2 DEF ledger

\* A step of a cycle settles one open window or nothing.
LEMMA StepRefines ==
  ASSUME Inv, Inv', [Next]_vars
  PROVE  [Emission!Next]_<<ledger, credited>>
  <1>1. CASE UNCHANGED <<cycles, credited>>
    BY <1>1 DEF ledger, Settled
  <1>2. ASSUME NEW r \in Runs, Commit(r) PROVE Emission!Next
    <2>1. PICK w \in Windows, share \in Shares : w = run[r].window /\ share = run[r].share
      BY DEF Inv, TypeOK
    <2>2. PICK row : cycles' = cycles \cup {row} /\ row.window = w /\ row.share = share
      <3> DEFINE new == [window |-> run[r].window, total |-> run[r].total, share |-> run[r].share]
      <3>1. cycles' = cycles \cup {new} /\ new.window = w /\ new.share = share
        BY <1>2, <2>1 DEF Commit
      <3> HIDE DEF new
      <3> QED BY <3>1
    <2>3. Reads /\ Reads'
      <3>1. OneRow /\ OneRow'
        BY DEF Inv
      <3> QED BY <3>1, OneRowReads, PTL
    <2>4. ~Settled(w)
      BY <1>2, <2>1 DEF Commit, UniqueViolation
    <2>5. ledger[w] = Open
      BY <2>4 DEF ledger
    <2>6. ledger'[w] = share
      BY <2>2, <2>3 DEF Reads
    <2>7. ASSUME NEW v \in Windows \ {w} PROVE ledger'[v] = ledger[v]
      <3>1. CASE Settled(v)
        BY <2>2, <2>3, <3>1 DEF Reads, Settled
      <3>2. CASE ~Settled(v)
        <4>1. ~Settled(v)'
          BY <2>2, <3>2 DEF Settled
        <4>2. ledger'[v] = Open
          BY <4>1 DEF ledger
        <4>3. ledger[v] = Open
          BY <3>2 DEF ledger
        <4> QED BY <4>2, <4>3
      <3> QED BY <3>1, <3>2
    <2>8. ledger' = [ledger EXCEPT ![w] = ledger'[w]]
      <3>1. ledger = [v \in Windows |-> ledger[v]] /\ ledger' = [v \in Windows |-> ledger'[v]]
        BY DEF ledger
      <3> QED BY <2>7, <3>1
    <2>9. ledger'[w] \in [Players -> Nat]
      BY <2>6 DEF Shares
    <2>10. credited' = [p \in Players |-> credited[p] + ledger'[w][p]]
      BY <1>2, <2>1, <2>6 DEF Commit
    <2> QED BY <2>5, <2>8, <2>9, <2>10 DEF Emission!Next, Emission!Settle
  <1>3. CASE Tick \/ Restart \/ UNCHANGED vars
    BY <1>1, <1>3 DEF Tick, Restart, vars
  <1>4. ASSUME NEW r \in Runs,
               Begin(r) \/ FindExisting(r) \/ Plan(r) \/ DuplicateWindow(r) \/ Tell(r) \/ Throw(r)
        PROVE  UNCHANGED <<cycles, credited>>
    BY <1>4 DEF Begin, FindExisting, Plan, DuplicateWindow, Tell, Throw
  <1> QED BY <1>1, <1>2, <1>3, <1>4 DEF Next, Step

\* "Idempotent per windowStart": runBlkRewardCycle implements RewardWindows.
THEOREM Implements == Spec => ImplementsWindows
  <1>1. Init => Emission!Init
    BY DEF Init, Emission!Init, ledger, Settled, Nothing
  <1>2. Inv /\ Inv' /\ [Next]_vars => [Emission!Next]_<<ledger, credited>>
    BY StepRefines
  <1> QED BY <1>1, <1>2, Invariance, PTL DEF Spec, ImplementsWindows, Emission!Spec

(***************************************************************************)
(* The live streams                                                        *)
(*                                                                         *)
(* A start is under way only while nothing is active (Alone), and boots a  *)
(* pipeline that runs nothing; a pipeline that was told to end is not the  *)
(* active one.  After a stop that met no start, every start there may be   *)
(* ends before it launches anything, since the row is not desired.         *)
(***************************************************************************)

NoneOr == Pipelines \cup {NoPipeline}

STypeOK ==
  /\ active \in NoneOr
  /\ starting \in [pc : {"idle", "read", "launch", "boot", "failed", "give up", "retry"},
                   next : Int, pipeline : NoneOr]
  /\ stop \in [StopCalls -> [pc : {"idle", "stop", "close"}, delete : BOOLEAN, pipeline : NoneOr]]
  /\ destination \in [exists : BOOLEAN, enabled : BOOLEAN, desired : BOOLEAN]
  /\ timer \in Int
  /\ parent \in [Pipelines -> Int]
  /\ \A r \in retries : r \in [pc : {"look", "schedule"}, attempt : Int]

Alone ==
  /\ starting.pc # "idle" => active = NoPipeline
  /\ starting.pc = "boot" <=> starting.pipeline # NoPipeline
  /\ starting.pipeline \notin ffmpeg
  /\ \A s \in StopCalls : stop[s].pipeline # NoPipeline => stop[s].pc = "close"

Running ==
  /\ xvfb \subseteq Pipelines /\ ffmpeg \subseteq Pipelines /\ interrupted \subseteq ffmpeg
  /\ active \notin interrupted

\* No start that is under way goes on to launch.
Quiet == ~Desired /\ starting.pc \in {"idle", "read", "give up"}

StreamInv ==
  /\ STypeOK /\ Alone /\ Running
  /\ StreamsHeld
  /\ halted => Quiet
  /\ StopsHold

LEMMA StreamTypeNext ==
  ASSUME STypeOK, [SNext]_sVars
  PROVE  STypeOK'
<1>0. /\ starting.next \in Int /\ starting.pipeline \in NoneOr /\ NoPipeline \in NoneOr
      /\ timer \in Int /\ Never \in Int
  <2>1. Never \in Int
    BY DEF Never
  <2> QED
    BY <2>1 DEF STypeOK, NoneOr
<1> DEFINE Starts == [pc : {"idle", "read", "launch", "boot", "failed", "give up", "retry"},
                      next : Int, pipeline : NoneOr]
           Rows == [exists : BOOLEAN, enabled : BOOLEAN, desired : BOOLEAN]
           Stops == [StopCalls -> [pc : {"idle", "stop", "close"}, delete : BOOLEAN, pipeline : NoneOr]]
           Tries == \A r \in retries : r \in [pc : {"look", "schedule"}, attempt : Int]
<1>i. IdleStart \in Starts /\ IdleStop \in [pc : {"idle", "stop", "close"}, delete : BOOLEAN, pipeline : NoneOr]
  BY <1>0 DEF IdleStart, IdleStop
<1>s. /\ starting \in Starts
      /\ \A next \in Int : [pc |-> "read", next |-> next, pipeline |-> NoPipeline] \in Starts
  BY <1>0 DEF STypeOK
<1>1. CASE postStart
  BY <1>1 DEF postStart, STypeOK, processes
<1>2. CASE Enable
  BY <1>2 DEF Enable, STypeOK, processes
<1>3. ASSUME NEW s \in StopCalls, Stopping(s) PROVE STypeOK'
  <2>1. ASSUME NEW delete \in BOOLEAN, BeginStop(s, delete) PROVE STypeOK'
    <3>1. stop' \in Stops /\ destination' \in Rows
      BY <2>1, <1>0 DEF BeginStop, STypeOK
    <3> QED
      BY <2>1, <3>1 DEF BeginStop, STypeOK, processes
  <2>2. CASE Stop(s)
    <3>1. stop' \in Stops
      BY <2>2, <1>0 DEF Stop, STypeOK
    <3> QED
      BY <2>2, <3>1, <1>0 DEF Stop, STypeOK
  <2>3. CASE Close(s)
    <3>1. stop' \in Stops /\ destination' \in Rows
      BY <2>3, <1>i DEF Close, STypeOK
    <3> QED
      BY <2>3, <3>1 DEF Close, STypeOK
  <2> QED
    BY <1>3, <2>1, <2>2, <2>3 DEF Stopping
<1>4. CASE Call
  <2>1. starting' \in Starts
    <3>1. [pc |-> "read", next |-> 0, pipeline |-> NoPipeline] \in Starts
      BY <1>0
    <3>2. \/ starting' = [pc |-> "read", next |-> 0, pipeline |-> NoPipeline]
          \/ starting' = starting
      BY <1>4 DEF Call, Start
    <3> QED
      BY <3>1, <3>2, <1>s
  <2> QED
    BY <1>4, <2>1 DEF Call, STypeOK, processes
<1>5. CASE Watchdog
  <2>1. starting' \in Starts
    <3>1. [pc |-> "read", next |-> 0, pipeline |-> NoPipeline] \in Starts
      BY <1>0
    <3>2. \/ starting' = [pc |-> "read", next |-> 0, pipeline |-> NoPipeline]
          \/ starting' = starting
      BY <1>5 DEF Watchdog, Start
    <3> QED
      BY <3>1, <3>2, <1>s
  <2> QED
    BY <1>5, <2>1 DEF Watchdog, STypeOK, processes
<1>6. CASE RestartTimer
  <2>1. timer + 1 \in Int
    BY <1>0
  <2>2. starting' \in Starts
    BY <1>6, <2>1, <1>s DEF RestartTimer, Start
  <2> QED
    BY <1>6, <2>2, <1>0 DEF RestartTimer, STypeOK, processes
<1>7. CASE Started
  <2>1. CASE CheckEnvironment
    BY <2>1 DEF CheckEnvironment, STypeOK, processes
  <2>2. CASE ReadDestination
    <3>1. starting' \in Starts /\ timer' \in Int
      BY <2>2, <1>0, <1>i DEF ReadDestination, STypeOK
    <3> QED
      BY <2>2, <3>1 DEF ReadDestination, STypeOK, processes
  <2>3. CASE Launch
    <3>1. starting' \in Starts /\ parent' \in [Pipelines -> Int]
      BY <2>3, <1>0 DEF Launch, STypeOK, NoneOr
    <3> QED
      BY <2>3, <3>1 DEF Launch, STypeOK
  <2>4. CASE Boot
    BY <2>4, <1>0, <1>i DEF Boot, STypeOK
  <2>5. CASE BootFails
    <3>1. starting' \in Starts
      BY <2>5, <1>0 DEF BootFails, STypeOK
    <3>2. parent' \in [Pipelines -> Int]
      <4>1. parent \in [Pipelines -> Int] /\ parent' = [parent EXCEPT ![starting.pipeline] = 0]
        BY <2>5 DEF BootFails, STypeOK
      <4>2. CASE starting.pipeline \in Pipelines
        BY <4>1, <4>2
      <4>3. CASE starting.pipeline \notin Pipelines
        BY <4>1, <4>3
      <4> QED
        BY <4>2, <4>3
    <3> QED
      BY <2>5, <3>1, <3>2 DEF BootFails, STypeOK
  <2>6. CASE Failed
    BY <2>6 DEF Failed, STypeOK, processes
  <2>7. CASE GiveUpStart
    BY <2>7, <1>i DEF GiveUpStart, GiveUp, STypeOK, processes
  <2>8. CASE RetryStart
    <3>0. /\ [pc |-> "look", attempt |-> starting.next] \in [pc : {"look", "schedule"}, attempt : Int]
          /\ Tries
      BY <1>0 DEF STypeOK
    <3>1. Tries'
      BY <2>8, <3>0 DEF RetryStart
    <3> QED
      BY <2>8, <3>1, <1>i DEF RetryStart, STypeOK, processes
  <2> QED
    BY <1>7, <2>1, <2>2, <2>3, <2>4, <2>5, <2>6, <2>7, <2>8 DEF Started
<1>8. ASSUME NEW p \in Pipelines, Exit(p) PROVE STypeOK'
  <2>0. /\ [pc |-> "look", attempt |-> parent[p]] \in [pc : {"look", "schedule"}, attempt : Int]
        /\ Tries
    BY DEF STypeOK
  <2>1. Tries'
    BY <1>8, <2>0 DEF Exit
  <2>2. parent' \in [Pipelines -> Int]
    <3>1. parent \in [Pipelines -> Int] /\ parent' = [parent EXCEPT ![p] = 0]
      BY <1>8 DEF Exit, STypeOK
    <3> QED
      BY <3>1
  <2> QED
    BY <1>8, <2>1, <2>2, <1>0 DEF Exit, STypeOK, EntryAfterExit
<1>9. ASSUME NEW r \in retries, Retry(r) PROVE STypeOK'
  <2>0. r \in [pc : {"look", "schedule"}, attempt : Int]
    BY DEF STypeOK
  <2>1. CASE Look(r)
    <3>1. [r EXCEPT !.pc = "schedule"] \in [pc : {"look", "schedule"}, attempt : Int]
      BY <2>0
    <3>2. Tries'
      BY <2>1, <3>1 DEF Look, STypeOK
    <3> QED
      BY <2>1, <3>2 DEF Look, STypeOK, processes
  <2>2. CASE scheduleDesiredStreamRestart(r)
    <3>1. Tries' /\ timer' \in Int /\ destination' \in Rows
      BY <2>0, <2>2, <1>0 DEF scheduleDesiredStreamRestart, STypeOK, GiveUp
    <3> QED
      BY <2>2, <3>1 DEF scheduleDesiredStreamRestart, STypeOK, processes
  <2> QED
    BY <1>9, <2>1, <2>2 DEF Retry
<1>10. CASE RestartServer
  <2>1. starting' \in Starts /\ active' \in NoneOr /\ timer' \in Int /\ destination' = destination
    BY <1>10, <1>0, <1>i DEF RestartServer
  <2>2. stop' \in Stops
    BY <1>10, <1>i DEF RestartServer
  <2>3. Tries' /\ parent' \in [Pipelines -> Int]
    BY <1>10 DEF RestartServer
  <2> QED
    BY <2>1, <2>2, <2>3 DEF STypeOK
<1>11. CASE UNCHANGED sVars
  BY <1>11 DEF sVars, processes, STypeOK
<1> QED
  BY <1>1, <1>2, <1>3, <1>4, <1>5, <1>6, <1>7, <1>8, <1>9, <1>10, <1>11 DEF SNext

\* Steps that start no pipeline and end none.
LEMMA Aside ==
  ASSUME StreamInv, STypeOK', UNCHANGED <<active, xvfb, ffmpeg, interrupted, mishaps>>,
         \A s \in StopCalls : /\ stop'[s].pipeline = stop[s].pipeline
                              /\ stop[s].pc = "close" => stop'[s].pc = "close",
         starting'.pipeline = starting.pipeline,
         starting'.pc = "boot" <=> starting.pc = "boot",
         starting'.pc # "idle" => active = NoPipeline,
         halted' => halted /\ Quiet'
  PROVE  StreamInv'
<1>1. Alone' /\ Running'
  BY DEF StreamInv, Alone, Running
<1>2. \A p : InUse(p)' = InUse(p) /\ Closing(p)' = Closing(p)
  BY DEF InUse, Closing
<1>3. StreamsHeld'
  BY <1>2 DEF StreamInv, StreamsHeld
<1>4. StopsHold'
  BY DEF StreamInv, StopsHold
<1> QED
  BY <1>1, <1>3, <1>4 DEF StreamInv

\* A call while the stream is active or starting comes to nothing.
LEMMA StartAside ==
  ASSUME StreamInv, NEW next, Start(next), UNCHANGED <<destination, active, halted>>
  PROVE  /\ starting'.pipeline = starting.pipeline
         /\ starting'.pc = "boot" <=> starting.pc = "boot"
         /\ starting'.pc # "idle" => active = NoPipeline
         /\ halted' => halted /\ Quiet'
<1>1. CASE active = NoPipeline /\ starting.pc = "idle"
  <2>1. starting.pipeline = NoPipeline
    BY <1>1 DEF StreamInv, Alone
  <2>2. starting'.pc = "read" /\ starting'.pipeline = NoPipeline
    BY <1>1 DEF Start
  <2> QED
    BY <1>1, <2>1, <2>2 DEF StreamInv, Quiet, Desired
<1>2. CASE ~(active = NoPipeline /\ starting.pc = "idle")
  <2>1. starting' = starting
    BY <1>2 DEF Start
  <2> QED
    BY <2>1 DEF StreamInv, Alone, Quiet, Desired
<1> QED
  BY <1>1, <1>2

\* The pipelines themselves: each step keeps what runs within reach of a stop.
LEMMA Pipelining ==
  ASSUME StreamInv, STypeOK', Launch \/ Boot \/ BootFails
  PROVE  StreamInv'
<1>0. /\ active = NoPipeline /\ starting.pc \in {"launch", "boot"} /\ NoPipeline \notin Pipelines
      /\ ffmpeg \subseteq Pipelines /\ xvfb \subseteq Pipelines
      /\ starting \in [pc : {"idle", "read", "launch", "boot", "failed", "give up", "retry"},
                       next : Int, pipeline : NoneOr]
      /\ ~halted
  BY PipelineAssumption DEF StreamInv, STypeOK, Alone, Running, Quiet, Launch, Boot, BootFails
<1>1. CASE Launch
  <2>0. /\ starting.pc = "launch" /\ starting.pipeline = NoPipeline
        /\ UNCHANGED <<destination, active, timer, called, retries, stop, ffmpeg, interrupted, halted, mishaps>>
    BY <1>1 DEF Launch, StreamInv, Alone, notes
  <2>1. CASE xvfb # {}
    <3>1. starting' = [starting EXCEPT !.pc = "failed"] /\ UNCHANGED xvfb
      BY <1>1, <2>1 DEF Launch
    <3>2. starting'.pipeline = starting.pipeline
      BY <3>1, <1>0
    <3> QED
      BY <1>0, <2>0, <3>1, <3>2, Aside
  <2>2. CASE xvfb = {}
    <3>1. PICK p \in Pipelines \ ffmpeg :
            starting' = [starting EXCEPT !.pc = "boot", !.pipeline = p] /\ xvfb' = {p}
      BY <1>1, <2>2 DEF Launch
    <3>2. starting'.pc = "boot" /\ starting'.pipeline = p
      BY <3>1, <1>0
    <3>3. Alone' /\ Running'
      BY <1>0, <2>0, <3>1, <3>2 DEF StreamInv, Alone, Running
    <3>4. StreamsHeld'
      BY <1>0, <2>0, <3>1, <3>2 DEF StreamInv, StreamsHeld, InUse
    <3> QED
      BY <1>0, <2>0, <3>3, <3>4 DEF StreamInv, StopsHold
  <2> QED
    BY <2>1, <2>2
<1>2. CASE Boot
  <2>1. /\ starting.pc = "boot" /\ active' = starting.pipeline /\ starting' = IdleStart
        /\ ffmpeg' \in {ffmpeg, ffmpeg \cup {starting.pipeline}} /\ mishaps \subseteq mishaps'
        /\ mishaps' \subseteq mishaps \cup {"unnoticed"}
        /\ UNCHANGED <<destination, stop, xvfb, interrupted, halted>>
    BY <1>2 DEF Boot
  <2>2. starting'.pc = "idle" /\ starting'.pipeline = NoPipeline
    BY <2>1 DEF IdleStart
  <2>3. ffmpeg' \subseteq Pipelines /\ NoPipeline \notin ffmpeg'
    BY <1>0, <2>1, <2>2 DEF STypeOK, NoneOr, StreamInv, Alone
  <2>4. Alone' /\ Running'
    BY <1>0, <2>1, <2>2, <2>3 DEF StreamInv, Alone, Running
  <2>5. StreamsHeld'
    BY <1>0, <2>1, <2>2 DEF StreamInv, StreamsHeld, InUse, Closing
  <2> QED
    BY <1>0, <2>1, <2>4, <2>5 DEF StreamInv, StopsHold
<1>3. CASE BootFails
  <2>1. /\ starting.pc = "boot" /\ xvfb' = xvfb \ {starting.pipeline}
        /\ starting' = [starting EXCEPT !.pc = "failed", !.pipeline = NoPipeline]
        /\ UNCHANGED <<destination, active, stop, ffmpeg, interrupted, halted, mishaps>>
    BY <1>3 DEF BootFails, notes
  <2>2. starting'.pc = "failed" /\ starting'.pipeline = NoPipeline
    BY <2>1, <1>0
  <2>3. Alone' /\ Running'
    BY <1>0, <2>1, <2>2 DEF StreamInv, Alone, Running
  <2>4. StreamsHeld'
    BY <1>0, <2>1, <2>2 DEF StreamInv, Alone, StreamsHeld, InUse, Closing
  <2> QED
    BY <1>0, <2>1, <2>3, <2>4 DEF StreamInv, StopsHold
<1> QED
  BY <1>1, <1>2, <1>3

\* A stop tells the active pipeline to end, and closes its display afterwards.
LEMMA Halting ==
  ASSUME StreamInv, STypeOK', NEW s \in StopCalls, Stop(s) \/ Close(s)
  PROVE  StreamInv'
<1>0. /\ NoPipeline \notin Pipelines /\ ffmpeg \subseteq Pipelines /\ xvfb \subseteq Pipelines
      /\ active \in NoneOr
      /\ stop \in [StopCalls -> [pc : {"idle", "stop", "close"}, delete : BOOLEAN, pipeline : NoneOr]]
  BY PipelineAssumption DEF StreamInv, STypeOK, Running
<1>1. CASE Stop(s)
  <2>1. /\ stop[s].pc = "stop" /\ active' = NoPipeline
        /\ interrupted' = interrupted \cup (Interrupt(active) \cap ffmpeg)
        /\ stop' = [stop EXCEPT ![s].pc = "close", ![s].pipeline = active]
        /\ halted' = (~Desired /\ starting.pc = "idle")
        /\ mishaps' = mishaps \ {"unnoticed"}
        /\ UNCHANGED <<destination, starting, xvfb, ffmpeg>>
    BY <1>1 DEF Stop
  <2>2. stop'[s].pc = "close" /\ stop'[s].pipeline = active /\ \A u \in StopCalls \ {s} : stop'[u] = stop[u]
    BY <1>0, <2>1
  <2>3. stop[s].pipeline = NoPipeline
    BY <2>1 DEF StreamInv, Alone
  <2>4. Alone' /\ Running'
    BY <1>0, <2>1, <2>2 DEF StreamInv, Alone, Running
  <2>5. "crossed" \notin mishaps =>
          \A p \in ffmpeg : starting.pipeline = p \/ p \in interrupted'
    BY <1>0, <2>1 DEF StreamInv, StreamsHeld, InUse, Interrupt
  <2>6. "crossed" \notin mishaps /\ "left" \notin mishaps =>
          \A p \in xvfb : starting.pipeline = p \/ Closing(p)'
    <3>1. ASSUME NEW p \in xvfb, InUse(p) \/ Closing(p) PROVE starting.pipeline = p \/ Closing(p)'
      BY <1>0, <2>1, <2>2, <2>3, <3>1 DEF InUse, Closing
    <3> QED
      BY <3>1 DEF StreamInv, StreamsHeld
  <2>7. StreamsHeld'
    BY <2>1, <2>5, <2>6 DEF StreamsHeld, InUse
  <2>8. halted' => Quiet'
    BY <2>1 DEF Quiet, Desired
  <2>9. StopsHold'
    <3>1. halted' => starting.pipeline = NoPipeline
      BY <2>1 DEF StreamInv, Alone
    <3> QED
      BY <1>0, <2>1, <2>5, <3>1 DEF StopsHold
  <2> QED
    BY <2>4, <2>7, <2>8, <2>9 DEF StreamInv
<1>2. CASE Close(s)
  <2>1. /\ stop[s].pc = "close" /\ xvfb' = xvfb \ Interrupt(stop[s].pipeline)
        /\ stop' = [stop EXCEPT ![s] = IdleStop]
        /\ Desired' => Desired
        /\ UNCHANGED <<active, starting, ffmpeg, interrupted, halted, mishaps>>
    BY <1>2 DEF Close, notes, Desired
  <2>2. /\ stop'[s] = IdleStop /\ stop'[s].pipeline = NoPipeline
        /\ \A u \in StopCalls \ {s} : stop'[u] = stop[u]
    BY <1>0, <2>1 DEF IdleStop
  <2>3. Alone' /\ Running'
    BY <2>1, <2>2 DEF StreamInv, Alone, Running
  <2>4. \A p \in xvfb' : InUse(p) \/ Closing(p) => InUse(p)' \/ Closing(p)'
    BY <1>0, <2>1, <2>2 DEF InUse, Closing, Interrupt
  <2>5. \A p \in ffmpeg : InUse(p) => InUse(p)'
    BY <2>1 DEF InUse
  <2>6. StreamsHeld'
    BY <2>1, <2>4, <2>5 DEF StreamInv, StreamsHeld
  <2> QED
    BY <2>1, <2>3, <2>6 DEF StreamInv, Quiet, StopsHold
<1> QED
  BY <1>1, <1>2

\* An ffmpeg that ends: it was told to, or its display is left behind.
LEMMA Exiting ==
  ASSUME StreamInv, STypeOK', NEW p \in Pipelines, Exit(p)
  PROVE  StreamInv'
<1>1. /\ p \in ffmpeg /\ ffmpeg' = ffmpeg \ {p} /\ active' = NoPipeline
      /\ interrupted' = interrupted \ {p}
      /\ mishaps' = mishaps \cup (IF active \in {p, NoPipeline} THEN {} ELSE {"crossed"})
                            \cup (IF p \in interrupted THEN {} ELSE {"left"})
      /\ UNCHANGED <<destination, starting, stop, xvfb, halted>>
  BY DEF Exit, EntryAfterExit
<1>0. NoPipeline \notin Pipelines /\ interrupted \subseteq Pipelines /\ active \notin interrupted
  BY PipelineAssumption DEF StreamInv, Running
<1>2. Alone' /\ Running'
  BY <1>0, <1>1 DEF StreamInv, Alone, Running
<1>3. StreamsHeld'
  <2> SUFFICES ASSUME "crossed" \notin mishaps'
               PROVE  /\ \A q \in ffmpeg' : InUse(q)' \/ q \in interrupted'
                      /\ "left" \notin mishaps' => \A q \in xvfb' : InUse(q)' \/ Closing(q)'
    BY DEF StreamsHeld
  <2>1. active \in {p, NoPipeline} /\ "crossed" \notin mishaps
    BY <1>1
  <2>2. \A q \in ffmpeg' : InUse(q)' \/ q \in interrupted'
    BY <1>0, <1>1, <2>1 DEF StreamInv, Running, StreamsHeld, InUse
  <2>3. ASSUME "left" \notin mishaps' PROVE \A q \in xvfb' : InUse(q)' \/ Closing(q)'
    <3>1. "left" \notin mishaps /\ p \in interrupted
      BY <1>1, <2>3
    <3>2. active = NoPipeline
      BY <1>0, <2>1, <3>1
    <3> QED
      BY <1>1, <2>1, <3>1, <3>2 DEF StreamInv, StreamsHeld, InUse, Closing
  <2> QED
    BY <2>2, <2>3
<1>4. StopsHold'
  <2>1. ASSUME halted', "crossed" \notin mishaps' PROVE ffmpeg' \subseteq interrupted'
    <3>1. halted /\ "crossed" \notin mishaps
      BY <1>1, <2>1
    <3>2. ffmpeg \subseteq interrupted
      BY <3>1 DEF StreamInv, StopsHold
    <3> QED
      BY <1>1, <3>2
  <2> QED
    BY <1>1, <2>1 DEF StopsHold
<1> QED
  BY <1>1, <1>2, <1>3, <1>4 DEF StreamInv, Quiet, Desired

LEMMA Restarting ==
  ASSUME StreamInv, STypeOK', RestartServer
  PROVE  StreamInv'
<1>1. /\ active' = NoPipeline /\ starting' = IdleStart
      /\ stop' = [s \in StopCalls |-> IdleStop]
      /\ xvfb' = {} /\ ffmpeg' = {} /\ interrupted' = {} /\ mishaps' = {}
      /\ UNCHANGED <<destination, halted>>
  BY DEF RestartServer
<1>2. Alone' /\ Running' /\ StreamsHeld' /\ StopsHold'
  BY <1>1 DEF Alone, Running, StreamsHeld, StopsHold, IdleStart, IdleStop
<1>3. halted' => Quiet'
  BY <1>1 DEF StreamInv, Quiet, Desired, IdleStart
<1> QED
  BY <1>2, <1>3 DEF StreamInv

LEMMA StreamNext ==
  ASSUME StreamInv, [SNext]_sVars
  PROVE  StreamInv'
<1>0. STypeOK'
  BY StreamTypeNext DEF StreamInv
<1>a. /\ starting \in [pc : {"idle", "read", "launch", "boot", "failed", "give up", "retry"},
                       next : Int, pipeline : NoneOr]
      /\ starting.pc # "idle" => active = NoPipeline
      /\ starting.pc # "boot" => starting.pipeline = NoPipeline
      /\ IdleStart.pc = "idle" /\ IdleStart.pipeline = NoPipeline
      /\ halted => Quiet
  BY DEF StreamInv, STypeOK, Alone, IdleStart
<1>1. CASE postStart
  BY <1>0, <1>1, <1>a, Aside DEF postStart, processes
<1>2. CASE Enable
  <2>1. Desired' = Desired
    BY <1>2 DEF Enable, Desired, StreamInv, STypeOK
  <2> QED
    BY <1>0, <1>2, <1>a, <2>1, Aside DEF Enable, processes, notes, Quiet
<1>3. ASSUME NEW s \in StopCalls, Stopping(s) PROVE StreamInv'
  <2>1. ASSUME NEW delete \in BOOLEAN, BeginStop(s, delete) PROVE StreamInv'
    <3>1. Desired' => Desired
      BY <2>1 DEF BeginStop, Desired, StreamInv, STypeOK
    <3>2. \A u \in StopCalls : /\ stop'[u].pipeline = stop[u].pipeline
                               /\ stop[u].pc = "close" => stop'[u].pc = "close"
      BY <2>1 DEF BeginStop, StreamInv, STypeOK, Alone
    <3> QED
      BY <1>0, <1>a, <2>1, <3>1, <3>2, Aside DEF BeginStop, processes, notes, Quiet
  <2> QED
    BY <1>0, <1>3, <2>1, Halting DEF Stopping
<1>4. CASE Call
  BY <1>0, <1>4, StartAside, Aside DEF Call, processes, notes
<1>5. CASE Watchdog
  BY <1>0, <1>5, StartAside, Aside DEF Watchdog, processes, notes
<1>6. CASE RestartTimer
  BY <1>0, <1>6, StartAside, Aside DEF RestartTimer, processes, notes
<1>7. CASE Started
  <2>1. CASE CheckEnvironment
    <3>1. halted => starting'.pc = "give up"
      BY <2>1, <1>a DEF CheckEnvironment, Quiet, Wanted
    <3> QED
      BY <1>0, <1>a, <2>1, <3>1, Aside DEF CheckEnvironment, processes, notes, Quiet, Desired
  <2>2. CASE ReadDestination
    <3>1. halted => starting' = IdleStart
      BY <2>2, <1>a DEF ReadDestination, Quiet, Wanted, MayStart
    <3>2. /\ starting.pc = "read" /\ starting'.pipeline = starting.pipeline
      BY <2>2, <1>a DEF ReadDestination
    <3> QED
      BY <1>0, <1>a, <2>2, <3>1, <3>2, Aside DEF ReadDestination, processes, notes, Quiet, Desired
  <2>3. CASE Failed
    BY <1>0, <1>a, <2>3, Aside DEF Failed, processes, notes, Quiet
  <2>4. CASE GiveUpStart
    <3>1. Desired' => Desired
      BY <2>4 DEF GiveUpStart, GiveUp, Desired, StreamInv, STypeOK
    <3> QED
      BY <1>0, <1>a, <2>4, <3>1, Aside DEF GiveUpStart, processes, notes, Quiet
  <2>5. CASE RetryStart
    BY <1>0, <1>a, <2>5, Aside DEF RetryStart, processes, notes, Quiet
  <2> QED
    BY <1>0, <1>7, <2>1, <2>2, <2>3, <2>4, <2>5, Pipelining DEF Started
<1>8. CASE \E p \in Pipelines : Exit(p)
  BY <1>0, <1>8, Exiting
<1>9. ASSUME NEW r \in retries, Retry(r) PROVE StreamInv'
  <2>1. CASE Look(r)
    BY <1>0, <1>a, <2>1, Aside DEF Look, processes, notes, Quiet, Desired
  <2>2. CASE scheduleDesiredStreamRestart(r)
    <3>1. Desired' => Desired
      BY <2>2 DEF scheduleDesiredStreamRestart, GiveUp, Desired, StreamInv, STypeOK
    <3> QED
      BY <1>0, <1>a, <2>2, <3>1, Aside DEF scheduleDesiredStreamRestart, processes, notes, Quiet
  <2> QED
    BY <1>9, <2>1, <2>2 DEF Retry
<1>10. CASE RestartServer
  BY <1>0, <1>10, Restarting
<1>11. CASE UNCHANGED sVars
  BY <1>0, <1>11, <1>a, Aside DEF sVars, processes, notes, Quiet, Desired
<1> QED
  BY <1>1, <1>2, <1>3, <1>4, <1>5, <1>6, <1>7, <1>8, <1>9, <1>10, <1>11 DEF SNext

LEMMA StreamInit == SInit => StreamInv
<1> SUFFICES ASSUME SInit PROVE StreamInv
  OBVIOUS
<1>1. /\ active = NoPipeline /\ starting = IdleStart /\ timer = Never /\ retries = {}
      /\ destination = [enabled |-> TRUE, desired |-> FALSE, exists |-> TRUE]
      /\ stop = [s \in StopCalls |-> IdleStop]
      /\ xvfb = {} /\ ffmpeg = {} /\ interrupted = {} /\ parent = [p \in Pipelines |-> 0]
      /\ halted = FALSE /\ mishaps = {}
  BY DEF SInit
<1>2. /\ IdleStart \in [pc : {"idle", "read", "launch", "boot", "failed", "give up", "retry"},
                        next : Int, pipeline : NoneOr]
      /\ IdleStop \in [pc : {"idle", "stop", "close"}, delete : BOOLEAN, pipeline : NoneOr]
      /\ Never \in Int
  <2>1. Never \in Int
    BY DEF Never
  <2> QED
    BY <2>1 DEF IdleStart, IdleStop, NoneOr
<1>3. STypeOK
  <2>1. stop \in [StopCalls -> [pc : {"idle", "stop", "close"}, delete : BOOLEAN, pipeline : NoneOr]]
    BY <1>1, <1>2
  <2>2. parent \in [Pipelines -> Int]
    BY <1>1
  <2> QED
    BY <1>1, <1>2, <2>1, <2>2 DEF STypeOK, NoneOr
<1>4. Alone /\ Running
  BY <1>1 DEF Alone, Running, IdleStart, IdleStop
<1>5. StreamsHeld /\ StopsHold
  BY <1>1 DEF StreamsHeld, StopsHold
<1> QED
  BY <1>1, <1>3, <1>4, <1>5 DEF StreamInv

\* Whatever runs can be stopped, unless an exit removed the entry of another
\* pipeline or, as to the display, an ffmpeg exited by itself.
THEOREM Held == SSpec => []StreamsHeld
<1>1. StreamInv => StreamsHeld
  BY DEF StreamInv
<1> QED
  BY <1>1, StreamInit, StreamNext, PTL DEF SSpec

\* A stream that was stopped while no start was under way stays so, though
\* timers, failures' handlers and starts about to be called outlive the stop.
THEOREM StaysStopped == SSpec => []StopsHold
<1>1. StreamInv => StopsHold
  BY DEF StreamInv
<1> QED
  BY <1>1, StreamInit, StreamNext, PTL DEF SSpec

-----------------------------------------------------------------------------
(***************************************************************************)
(* The three parts beside each other.  A step is one of the part that      *)
(* moves, and leaves the variables of the others alone.                    *)
(***************************************************************************)
LEMMA BackgroundParts == BSpec => Spec /\ SSpec /\ LSpec
<1>1. BInit => Init /\ SInit /\ LInit
  BY DEF BInit
<1>2. [BNext]_<<job, vars, sVars, lVars>> => [Next]_vars /\ [SNext]_sVars /\ [LNext]_lVars
  BY DEF BNext
<1> QED
  BY <1>1, <1>2, PTL DEF BSpec, Spec, SSpec, LSpec

\* runBlkRewardCycle, the stream runner and the mining engine keep in one
\* process what each keeps alone: the windows are settled once and within their
\* pools, the streams are held and stay stopped, and the books balance.
THEOREM BackgroundKept ==
  BSpec => ImplementsWindows /\ [](WithinPool /\ ToldOnce /\ StreamsHeld /\ StopsHold /\ BooksBalance /\ NoPhantomBalance)
  BY BackgroundParts, Implements, PoolKept, OneTelling, Held, StaysStopped, BooksCorrect,
     NothingPhantom, PTL

=============================================================================
