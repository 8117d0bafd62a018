---------------------------- MODULE EngineLedger ----------------------------
(***************************************************************************)
(* The POL of one player, which is kept twice: in users.pol_balance and in *)
(* the mining engine's memory (miner.balance).  lastPersistedBalance is    *)
(* the part of the second that the engine holds to be in the first.        *)
(*                                                                         *)
(* Boosts and rigs are paid from memory; persistMinerProfile writes the    *)
(* difference later, as a delta.  A block pays its miners in memory and    *)
(* writes the rewards in a transaction of its own.  Everything else        *)
(* (shop, swap, deposits, refunds) posts to the row and then moves memory  *)
(* by the same amount with applyUserBalanceDelta, or leaves it to the next *)
(* reload of the profile, which only ever raises it.                       *)
(*                                                                         *)
(* Each await is a step boundary.  Amounts are in units; one miner's       *)
(* hash rate, rigs and payout mode only decide whether a block pays him.   *)
(***************************************************************************)
EXTENDS Integers, FiniteSets

CONSTANTS
  Writers,    \* calls of persistMinerProfile in progress
  Readers,    \* calls of reloadMinerProfile and joins in progress
  Postings,   \* HTTP requests and jobs that move the row in progress
  Amounts,    \* what a posting adds to the row; negative for a purchase
  Costs,      \* prices of a boost and of a rig
  Reward,     \* what a block pays this player
  Opening,    \* the row at the start
  MaxMoves    \* bound on the boosts, rigs, blocks and postings

ASSUME PostingsAssumption == IsFiniteSet(Postings)
ASSUME AmountsAssumption == Amounts \subseteq Int
ASSUME CostsAssumption == Costs \subseteq Nat \ {0}
ASSUME RewardAssumption == Reward \in Nat \ {0}
ASSUME OpeningAssumption == Opening \in Nat
ASSUME MaxMovesAssumption == MaxMoves \in Nat

VARIABLES
  polBalance,            \* users.pol_balance
  live,                  \* the engine has a miner for the player
  balance,               \* miner.balance
  lastPersistedBalance,  \* miner.lastPersistedBalance
  writer,                \* calls of persistMinerProfile
  reader,                \* calls of reloadMinerProfile and joins
  posting,               \* requests that move the row
  block,                 \* the block whose rewards are being written
  moves,                 \* boosts, rigs, blocks and postings so far
  owed,                  \* history: what the player has, all told
  races                  \* history: the orders of steps that upset the books

lVars == <<polBalance, live, balance, lastPersistedBalance, writer, reader, posting, block,
          moves, owed, races>>

IdleWriter == [pc |-> "idle", delta |-> 0]
IdleReader == [pc |-> "idle", seen |-> 0]
IdlePosting == [pc |-> "idle", amount |-> 0]
NoBlock == [pc |-> "none", snapshot |-> 0]

LInit ==
  /\ polBalance = Opening
  /\ live = FALSE
  /\ balance = 0 /\ lastPersistedBalance = 0
  /\ writer = [p \in Writers |-> IdleWriter]
  /\ reader = [r \in Readers |-> IdleReader]
  /\ posting = [o \in Postings |-> IdlePosting]
  /\ block = NoBlock
  /\ moves = 0
  /\ owed = Opening
  /\ races = {}

Move == moves < MaxMoves /\ moves' = moves + 1

\* The engine's view of the row and what it has not written of its own.
Unwritten == balance - lastPersistedBalance

Writing == \E p \in Writers : writer[p].pc # "idle"
Halfway == \E o \in Postings : posting[o].pc \in {"applied", "committed"}

Upset(race, happens) == races' = races \cup (IF happens THEN {race} ELSE {})

-----------------------------------------------------------------------------
(* persistMinerProfile                                                     *)

WorthWriting(d) == d # 0

\* The delta is computed before the await.
Send(p, newBalance) ==
  LET d == newBalance - lastPersistedBalance
  IN  writer' = IF WorthWriting(d) THEN [writer EXCEPT ![p] = [pc |-> "sent", delta |-> d]]
                                   ELSE writer

BeginPersist(p) ==
  /\ live /\ writer[p].pc = "idle" /\ WorthWriting(Unwritten)
  /\ Send(p, balance)
  /\ Upset("overlap", Writing)
  /\ UNCHANGED <<polBalance, live, balance, lastPersistedBalance, reader, posting, block, moves,
                 owed>>

CommitPersist(p) ==
  /\ writer[p].pc = "sent"
  /\ polBalance' = polBalance + writer[p].delta
  /\ writer' = [writer EXCEPT ![p].pc = "written"]
  /\ UNCHANGED <<live, balance, lastPersistedBalance, reader, posting, block, moves, owed, races>>

\* mutant: a write that failed is marked as done
ForgetPersist(p) ==
  /\ writer[p].pc = "sent"
  /\ lastPersistedBalance' = balance
  /\ writer' = [writer EXCEPT ![p] = IdleWriter]
  /\ UNCHANGED <<polBalance, live, balance, reader, posting, block, moves, owed, races>>

\* The update throws: nothing is recorded and the next call tries again.
FailPersist(p) ==
  /\ writer[p].pc = "sent"
  /\ writer' = [writer EXCEPT ![p] = IdleWriter]
  /\ UNCHANGED <<polBalance, live, balance, lastPersistedBalance, reader, posting, block, moves,
                 owed, races>>

\* The continuation after the await reads miner.balance again.
EndPersist(p) ==
  /\ writer[p].pc = "written"
  /\ lastPersistedBalance' = balance
  /\ writer' = [writer EXCEPT ![p] = IdleWriter]
  /\ UNCHANGED <<polBalance, live, balance, reader, posting, block, moves, owed, races>>

-----------------------------------------------------------------------------
(* Sockets: boost, rig upgrade                                             *)

Affordable(c) == balance >= c

Spend(c) ==
  /\ live /\ Move
  /\ Affordable(c)
  /\ balance' = balance - c
  /\ owed' = owed - c
  /\ Upset("spend", Writing)

Boost(c) ==
  /\ Spend(c)
  /\ UNCHANGED <<polBalance, live, lastPersistedBalance, writer, reader, posting, block>>

\* The upgrade starts a write of its own in the same turn.
UpgradeRig(p, c) ==
  /\ Spend(c)
  /\ writer[p].pc = "idle" /\ Send(p, balance')
  /\ UNCHANGED <<polBalance, live, lastPersistedBalance, reader, posting, block>>

-----------------------------------------------------------------------------
(* distributeRewards                                                       *)

\* mutant: the reward is not marked as written
RewardUnmarked == UNCHANGED lastPersistedBalance

RewardMarked == lastPersistedBalance' = lastPersistedBalance + Reward

DistributeRewards ==
  /\ live /\ Move
  /\ block.pc = "none"
  /\ balance' = balance + Reward
  /\ RewardMarked
  /\ block' = [pc |-> "writing", snapshot |-> balance]
  /\ UNCHANGED <<polBalance, live, writer, reader, posting, owed, races>>

CommitBlock ==
  /\ block.pc = "writing"
  /\ polBalance' = polBalance + Reward
  /\ owed' = owed + Reward
  /\ block' = NoBlock
  /\ UNCHANGED <<live, balance, lastPersistedBalance, writer, reader, posting, moves, races>>

\* "Block reward persistence failed - rolling back": balance, not
\* lastPersistedBalance.
RollBackBlock ==
  /\ block.pc = "writing"
  /\ balance' = block.snapshot
  /\ block' = NoBlock
  /\ Upset("rollback", TRUE)
  /\ UNCHANGED <<polBalance, live, lastPersistedBalance, writer, reader, posting, moves, owed>>

-----------------------------------------------------------------------------
(* Purchases, deposits, refunds, commissions                               *)

\* A purchase reads the row first, a swap of a negative amount takes from the
\* balance it does not look at: a posting may be more than the row holds.
BeginPosting(o) ==
  /\ posting[o].pc = "idle" /\ Move
  /\ \E n \in Amounts :
       posting' = [posting EXCEPT ![o] = [pc |-> "checked", amount |-> n]]
  /\ UNCHANGED <<polBalance, live, balance, lastPersistedBalance, writer, reader, block, owed,
                 races>>

\* mutant: memory is moved, the mark of what is written is not
DeltaUnmarked(n) ==
  /\ balance' = IF live THEN balance + n ELSE balance
  /\ UNCHANGED lastPersistedBalance

applyUserBalanceDelta(n) ==
  IF live
    THEN /\ balance' = balance + n
         /\ lastPersistedBalance' = lastPersistedBalance + n
    ELSE UNCHANGED <<balance, lastPersistedBalance>>

\* Inside the transaction (swap, conversion, withdrawal) or after it (shop,
\* room, deposit).
ApplyPosting(o) ==
  /\ posting[o].pc \in {"checked", "committed"}
  /\ applyUserBalanceDelta(posting[o].amount)
  /\ posting' = [posting EXCEPT ![o] = IF posting[o].pc = "checked"
                                         THEN [pc |-> "applied", amount |-> posting[o].amount]
                                         ELSE IdlePosting]
  /\ UNCHANGED <<polBalance, live, writer, reader, block, moves, owed, races>>

\* A posting that only moves the row (offerwall, milestones) ends here.
CommitPosting(o) ==
  /\ posting[o].pc \in {"checked", "applied"}
  /\ polBalance' = polBalance + posting[o].amount
  /\ owed' = owed + posting[o].amount
  /\ \/ /\ posting[o].pc = "checked"
        /\ posting' = [posting EXCEPT ![o].pc = "committed"]
     \/ /\ posting[o].pc = "applied" \/ posting[o].amount > 0
        /\ posting' = [posting EXCEPT ![o] = IdlePosting]
  /\ UNCHANGED <<live, balance, lastPersistedBalance, writer, reader, block, moves, races>>

\* The transaction is rolled back; the delta already applied is not.
LosePosting(o) ==
  /\ posting[o].pc \in {"checked", "applied"}
  /\ posting' = [posting EXCEPT ![o] = IdlePosting]
  /\ Upset("lost", posting[o].pc = "applied")
  /\ UNCHANGED <<polBalance, live, balance, lastPersistedBalance, writer, reader, block, moves,
                 owed>>

-----------------------------------------------------------------------------
(* reloadMinerProfile, createOrGetMiner                                    *)

ReadProfile(r) ==
  /\ reader[r].pc = "idle"
  /\ reader' = [reader EXCEPT ![r] = [pc |-> "read", seen |-> polBalance]]
  /\ UNCHANGED <<polBalance, live, balance, lastPersistedBalance, writer, posting, block, moves,
                 owed, races>>

RaisesMemory(seen) == seen > balance

\* The row is taken if it is the greater.  Only a join makes a new miner; a
\* reload for a player without one changes nothing.
AssignProfile(r, join) ==
  LET seen == reader[r].seen
      taken == IF live THEN RaisesMemory(seen) ELSE join
  IN  /\ reader[r].pc = "read"
      /\ live' = (live \/ join)
      /\ IF taken
           THEN balance' = seen /\ lastPersistedBalance' = seen
           ELSE UNCHANGED <<balance, lastPersistedBalance>>
      /\ races' = races \cup
           (IF taken /\ (Unwritten # 0 \/ Writing) THEN {"dropped"} ELSE {}) \cup
           (IF taken /\ (seen # polBalance \/ Halfway) THEN {"stale"} ELSE {})
      /\ reader' = [reader EXCEPT ![r] = IdleReader]
      /\ UNCHANGED <<polBalance, writer, posting, block, moves, owed>>

-----------------------------------------------------------------------------
Persist(p) == BeginPersist(p) \/ CommitPersist(p) \/ FailPersist(p) \/ EndPersist(p)

Post(o) == BeginPosting(o) \/ ApplyPosting(o) \/ CommitPosting(o) \/ LosePosting(o)

LNext ==
  \/ \E p \in Writers : Persist(p) \/ \E c \in Costs : UpgradeRig(p, c)
  \/ \E c \in Costs : Boost(c)
  \/ DistributeRewards \/ CommitBlock \/ RollBackBlock
  \/ \E o \in Postings : Post(o)
  \/ \E r \in Readers : ReadProfile(r) \/ \E join \in BOOLEAN : AssignProfile(r, join)

LSpec == LInit /\ [][LNext]_lVars

\* The cron calls persistMinerProfile every 15 seconds; an update that is
\* tried again and again goes through in the end.
LFairness ==
  \A p \in Writers :
    WF_lVars(BeginPersist(p)) /\ SF_lVars(CommitPersist(p)) /\ WF_lVars(EndPersist(p))

FairLSpec == LSpec /\ LFairness

-----------------------------------------------------------------------------
RaceNames == {"spend", "overlap", "dropped", "rollback", "stale", "lost"}

\* Every balance is a number, every call's record of its type, and no call
\* writes a delta of nothing.
LTypeOK ==
  /\ polBalance \in Int /\ balance \in Int /\ lastPersistedBalance \in Int /\ owed \in Int
  /\ live \in BOOLEAN
  /\ writer \in [Writers -> [pc : {"sent", "written"}, delta : Int \ {0}] \cup {IdleWriter}]
  /\ reader \in [Readers -> [pc : {"idle", "read"}, seen : Int]]
  /\ posting \in [Postings -> [pc : {"idle", "checked", "applied", "committed"},
                               amount : Amounts \cup {0}]]
  /\ block \in [pc : {"none", "writing"}, snapshot : Int]
  /\ moves \in 0 .. MaxMoves
  /\ races \subseteq RaceNames

Clean == races \cap {"spend", "overlap", "dropped", "rollback"} = {}

\* The row and what the engine has still to write are what the player is
\* owed, however blocks, purchases and deposits interleave with the writes,
\* unless memory was spent during a write, two writes overlapped, a reload
\* dropped an unwritten spend or a block was rolled back.
BooksBalance ==
  Clean =>
    IF \E p \in Writers : writer[p].pc = "written"
      THEN polBalance = owed
      ELSE polBalance + Unwritten = owed

\* When nothing is under way the engine never holds more to be in the row
\* than there is, unless in addition a profile was assigned that a posting
\* had made stale or a posting was lost.
NoPhantomBalance ==
  (/\ races = {} /\ live
   /\ ~Writing /\ block.pc = "none"
   /\ \A o \in Postings : posting[o].pc \in {"idle", "checked"})
    => lastPersistedBalance <= polBalance

\* A row that stands above what the player is owed, a boost or a rig being
\* paid from memory and not yet from the row, comes down to it in the end,
\* unless memory was spent during a write, a reload dropped the spend or a
\* block was rolled back: a spend that is forgotten leaves the row above it
\* for good, whatever the marks in memory say.
SpendsWritten ==
  polBalance > owed
    ~> (polBalance <= owed \/ races \cap {"spend", "dropped", "rollback"} # {})

\* miningEngine.js: "Block reward persistence failed - rolling back".  A
\* block that could not be written leaves the player what he had.
RollbackRestores ==
  (/\ races \subseteq {"rollback"} /\ block.pc = "none"
   /\ \A p \in Writers : writer[p].pc # "written")
    => polBalance + Unwritten = owed

=============================================================================
