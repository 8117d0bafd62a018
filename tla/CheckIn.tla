------------------------------- MODULE CheckIn -------------------------------
(***************************************************************************)
(* The daily check-in of one player.  A row per day is confirmed for free, *)
(* or by a payment on the chain that is submitted by one of two routes and *)
(* confirmed at once, by a later look at the page, or by a job that runs   *)
(* every 45 seconds.  Consecutive confirmed days earn milestones.          *)
(*                                                                         *)
(* Each route reads the row, and then writes it by its key whatever it has *)
(* become: a payment that is evaluated for seconds confirms or fails the   *)
(* row of its day, even if that row holds another payment by then.  The    *)
(* database keeps one row per day and one row per payment.                 *)
(*                                                                         *)
(* A payment is valid if it is from the player's wallet, to the receiver,  *)
(* of the amount, and succeeded.  Its hash is kept as the player wrote it, *)
(* in capitals or not: the node takes every spelling of a hash for the     *)
(* same transaction, the database takes two spellings for two payments.    *)
(* What a confirmed day reports to missions and tasks is the subject of    *)
(* Missions.                                                               *)
(***************************************************************************)
EXTENDS Integers, FiniteSets

CONSTANTS
  Visits,      \* requests and runs of the job in progress
  Payments,    \* transaction hashes the player may submit, as written
  Transaction, \* the transaction that each of them names
  Valid,       \* those that evaluateCheckinTx will confirm
  FreeHash,    \* syntheticFreeTxHash of each day
  MaxDate,     \* bound on the days
  Milestones   \* dayThreshold of each milestone

Dates == 1 .. MaxDate

ASSUME DateAssumption == MaxDate \in Nat \ {0}
ASSUME PaymentAssumption ==
  /\ Valid \subseteq Payments /\ "none" \notin Payments
  /\ \A g, h \in Payments : Transaction[g] = Transaction[h] => (g \in Valid <=> h \in Valid)
  /\ \A d \in Dates : FreeHash[d] \notin Payments \cup {"none"}
  /\ \A d, e \in Dates : FreeHash[d] = FreeHash[e] => d = e
ASSUME MilestoneAssumption == Milestones \subseteq Nat \ {0}

VARIABLES
  date,     \* getBrazilCheckinDateKey
  row,      \* daily_checkins: status and txHash of each day's row
  mined,    \* hashes of which the node knows a receipt
  visit,    \* requests and runs of the job in progress
  earned,   \* user_checkin_streak_rewards
  raced     \* history: days whose row two visits handled at a time

kVars == <<date, row, mined, visit, earned, raced>>

NoRowYet == [status |-> "none", hash |-> "none"]
IdleVisit == [pc |-> "idle", kind |-> "none", date |-> 1, hash |-> "none", had |-> "none", streak |-> 0]

KInit ==
  /\ date = 1
  /\ row = [d \in Dates |-> NoRowYet]
  /\ mined = {}
  /\ visit = [v \in Visits |-> IdleVisit]
  /\ earned = {}
  /\ raced = {}

Status(d) == row[d].status
IsFree(h) == \E d \in Dates : h = FreeHash[d]

\* mutant: nothing keeps a payment from being used for another day
UnusedAnyway(h, d) == TRUE

\* txHash is @unique; confirmCheckin also looks for the hash beforehand.  Both
\* compare what is written: a hash is trimmed at most.
Unused(h, d) == \A e \in Dates \ {d} : row[e].hash # h

-----------------------------------------------------------------------------
NextDate ==
  /\ date < MaxDate
  /\ date' = date + 1
  /\ UNCHANGED <<row, mined, visit, earned>>

MinePayment ==
  /\ \E h \in Payments \ mined :
       mined' = mined \cup {g \in Payments : Transaction[g] = Transaction[h]}
  /\ UNCHANGED <<date, row, visit, earned>>

Start(v, kind, pc, d, h, had) ==
  /\ visit[v].pc = "idle"
  /\ visit' = [visit EXCEPT ![v] = [pc |-> pc, kind |-> kind, date |-> d, hash |-> h,
                                    had |-> had, streak |-> 0]]
  /\ UNCHANGED <<date, row, mined, earned>>

Step(v, pc) == visit' = [visit EXCEPT ![v].pc = pc]
Leave(v) == visit' = [visit EXCEPT ![v] = IdleVisit]

\* mutant: a day that is confirmed may be paid for again
OpenAlways(d) == TRUE

\* alreadyCheckedIn
OpenDay(d) == Status(d) # "confirmed"

\* claimCheckin
StartFree(v) ==
  OpenDay(date) /\ Start(v, "free", "write", date, FreeHash[date], Status(date))

\* confirmCheckin, which rejects a payment of another day, and checkinWallet
StartPaid(v, kind) ==
  /\ OpenDay(date)
  /\ \E h \in Payments : /\ kind = "confirm" => Unused(h, date)
                         /\ Start(v, kind, "write", date, h, Status(date))

\* tryFinalizeTodayCheckin, processStalePendingCheckins: the row is a copy.
StartFinal(v) ==
  \E d \in 1 .. date :
    /\ Status(d) = "pending" /\ ~IsFree(row[d].hash)
    /\ Start(v, "final", "evaluate", d, row[d].hash, "pending")

-----------------------------------------------------------------------------
Written(v, status) == [row EXCEPT ![visit[v].date] = [status |-> status, hash |-> visit[v].hash]]

\* The upsert: the unique hash of a free check-in is never in the way.
WriteFree(v) ==
  /\ visit[v].pc = "write" /\ visit[v].kind = "free"
  /\ row' = Written(v, "confirmed")
  /\ Step(v, "streak")
  /\ UNCHANGED <<date, mined, earned>>

\* confirmCheckin creates the row, or updates the one it has read;
\* checkinWallet does an upsert.
WritePending(v) ==
  /\ visit[v].pc = "write" /\ visit[v].kind \in {"confirm", "wallet"}
  /\ Unused(visit[v].hash, visit[v].date)
  /\ visit[v].kind = "confirm" /\ visit[v].had = "none" => Status(visit[v].date) = "none"
  /\ row' = Written(v, "pending")
  /\ Step(v, "evaluate")
  /\ UNCHANGED <<date, mined, earned>>

\* mutant: a transaction without a receipt is taken for a good one
VerdictOnSight(h) == IF h \in Valid THEN "confirmed" ELSE "failed"

\* evaluateCheckinTx
Verdict(h) ==
  IF h \notin mined THEN "pending" ELSE IF h \in Valid THEN "confirmed" ELSE "failed"

\* A transaction that is known and wrong fails before it has a receipt.
Evaluate(v) ==
  /\ visit[v].pc = "evaluate"
  /\ \/ Verdict(visit[v].hash) = "pending" /\ Leave(v)
     \/ Verdict(visit[v].hash) = "confirmed" /\ Step(v, "confirm")
     \/ Verdict(visit[v].hash) = "failed" /\ Step(v, "fail")
     \/ visit[v].hash \notin Valid /\ Step(v, "fail")
  /\ UNCHANGED <<date, row, mined, earned>>

\* By id, or by player and day: the hash stays what it is by now.
ConfirmRow(v) ==
  /\ visit[v].pc = "confirm"
  /\ row' = [row EXCEPT ![visit[v].date].status = "confirmed"]
  /\ Step(v, "streak")
  /\ UNCHANGED <<date, mined, earned>>

FailRow(v) ==
  /\ visit[v].pc = "fail"
  /\ row' = [row EXCEPT ![visit[v].date].status = "failed"]
  /\ Leave(v)
  /\ UNCHANGED <<date, mined, earned>>

-----------------------------------------------------------------------------
(* applyStreakMilestoneRewards                                             *)

Confirmed == {d \in Dates : Status(d) = "confirmed"}

\* computeCheckinStreak: the confirmed days that end today, or yesterday
Streak ==
  LET end == IF date \in Confirmed THEN date ELSE date - 1
  IN  Cardinality({d \in Confirmed : d .. end # {} /\ d .. end \subseteq Confirmed})

ReadStreak(v) ==
  /\ visit[v].pc = "streak"
  /\ visit' = [visit EXCEPT ![v].pc = "grant", ![v].streak = Streak]
  /\ UNCHANGED <<date, row, mined, earned>>

\* One transaction per milestone; one that exists already is skipped.
GrantMilestones(v) ==
  /\ visit[v].pc = "grant"
  /\ earned' = earned \cup {m \in Milestones : m <= visit[v].streak}
  /\ Leave(v)
  /\ UNCHANGED <<date, row, mined>>

\* The node does not answer, an index is hit, a query throws.
Fail(v) ==
  /\ visit[v].pc # "idle"
  /\ Leave(v)
  /\ UNCHANGED <<date, row, mined, earned>>

-----------------------------------------------------------------------------
Visit(v) ==
  \/ StartFree(v) \/ StartPaid(v, "confirm") \/ StartPaid(v, "wallet") \/ StartFinal(v)
  \/ WriteFree(v) \/ WritePending(v) \/ Evaluate(v) \/ ConfirmRow(v) \/ FailRow(v)
  \/ ReadStreak(v) \/ GrantMilestones(v) \/ Fail(v)

Handlers(d) ==
  {v \in Visits : visit[v].pc \in {"write", "evaluate", "confirm", "fail"} /\ visit[v].date = d}

KNext ==
  /\ NextDate \/ MinePayment \/ \E v \in Visits : Visit(v)
  /\ raced' = raced \cup {d \in Dates : \E v, w \in Handlers(d)' : v # w}

KSpec == KInit /\ [][KNext]_kVars

-----------------------------------------------------------------------------
\* confirmCheckin, checkinWallet ("Already checked in today."): a day that is
\* confirmed stays so, for free or for a payment that is on the chain and
\* whose hash, as it is written, is on no other day, though every route
\* writes the row without looking at it again; and a milestone is earned by
\* as many consecutive confirmed days.  Unless two visits handled the row at
\* a time.
CheckinEarned ==
  [][/\ \A d \in Dates \ raced' :
          /\ Status(d) = "confirmed" => row'[d] = row[d]
          /\ row'[d].status = "confirmed" =>
               /\ row'[d].hash \in {FreeHash[d]} \cup (Valid \cap mined)
               /\ \A e \in Dates \ {d} : row'[e].hash # row'[d].hash
     /\ raced' = {} => \A m \in earned' \ earned :
          \E d \in Dates : d + m - 1 \in Dates /\ d .. d + m - 1 \subseteq Confirmed]_kVars

=============================================================================
