------------------------- MODULE EngineLedger_proofs -------------------------
(***************************************************************************)
(* Type correctness, BooksBalance and NoPhantomBalance, for any number of  *)
(* writes, reloads and postings in progress and any amounts.               *)
(*                                                                         *)
(* BooksBalance is not inductive: EndPersist sets lastPersistedBalance to  *)
(* whatever memory is by then.  It holds because, as long as none of the   *)
(* four orders occurred, one write at most is in progress and what it      *)
(* carries is exactly what memory still has to write (InProgress).         *)
(* NoPhantomBalance speaks of quiet moments only; Backed counts what is    *)
(* under way, a sum over the postings, and holds in every state.           *)
(***************************************************************************)
EXTENDS EngineLedger, Sums_proofs, TLAPS

\* One write at most, of all that is unwritten, and only for a live miner.
InProgress ==
  /\ \A p, q \in Writers : writer[p].pc # "idle" /\ writer[q].pc # "idle" => p = q
  /\ \A p \in Writers : writer[p].pc # "idle" => live /\ writer[p].delta = Unwritten
  /\ ~live => balance = 0 /\ lastPersistedBalance = 0

Books == IF \E p \in Writers : writer[p].pc = "written"
           THEN polBalance = owed
           ELSE polBalance + Unwritten = owed

IInv == LTypeOK /\ (Clean => InProgress /\ Books)

-----------------------------------------------------------------------------
LEMMA AmountInt == \A n \in Amounts \cup {0} : n \in Int
  BY AmountsAssumption

LEMMA CostInt == \A c \in Costs : c \in Int
  BY CostsAssumption

LEMMA InitIInv == LInit => IInv
  <1> SUFFICES ASSUME LInit PROVE IInv
    OBVIOUS
  <1>1. polBalance \in Int /\ balance \in Int /\ lastPersistedBalance \in Int /\ owed \in Int
    BY OpeningAssumption DEF LInit
  <1>2. live \in BOOLEAN
    BY DEF LInit
  <1>3. writer \in [Writers -> [pc : {"sent", "written"}, delta : Int \ {0}] \cup {IdleWriter}]
    BY DEF LInit
  <1>4. reader \in [Readers -> [pc : {"idle", "read"}, seen : Int]]
    BY DEF LInit, IdleReader
  <1>5. posting \in [Postings -> [pc : {"idle", "checked", "applied", "committed"},
                                 amount : Amounts \cup {0}]]
    BY DEF LInit, IdlePosting
  <1>6. block \in [pc : {"none", "writing"}, snapshot : Int]
    BY DEF LInit, NoBlock
  <1>7. moves \in 0 .. MaxMoves /\ races \subseteq RaceNames
    BY MaxMovesAssumption DEF LInit
  <1>8. LTypeOK
    BY <1>1, <1>2, <1>3, <1>4, <1>5, <1>6, <1>7 DEF LTypeOK
  <1>9. InProgress /\ Books
    BY <1>1 DEF LInit, InProgress, Books, Unwritten, IdleWriter
  <1> QED BY <1>8, <1>9 DEF IInv

-----------------------------------------------------------------------------
(* Type correctness *)

LEMMA WriterType ==
  ASSUME LTypeOK, NEW p \in Writers
  PROVE  /\ writer[p].pc \in {"idle", "sent", "written"}
         /\ writer[p].delta \in Int
         /\ writer[p].pc # "idle" => writer[p].delta # 0
  BY DEF LTypeOK, IdleWriter

\* What Send makes of the writers.
LEMMA SendType ==
  ASSUME LTypeOK, NEW p \in Writers, NEW b \in Int, Send(p, b)
  PROVE  writer' \in [Writers -> [pc : {"sent", "written"}, delta : Int \ {0}] \cup {IdleWriter}]
  <1> DEFINE d == b - lastPersistedBalance
  <1>1. d \in Int
    BY DEF LTypeOK
  <1>2. CASE d # 0
    <2>1. writer' = [writer EXCEPT ![p] = [pc |-> "sent", delta |-> d]]
      BY <1>2 DEF Send, WorthWriting
    <2> HIDE DEF d
    <2> QED BY <1>1, <1>2, <2>1 DEF LTypeOK
  <1>3. CASE d = 0
    BY <1>3 DEF Send, WorthWriting, LTypeOK
  <1> QED BY <1>1, <1>2, <1>3

LEMMA PersistType ==
  ASSUME LTypeOK, NEW p \in Writers, Persist(p)
  PROVE  LTypeOK'
  <1>1. CASE BeginPersist(p)
    <2>1. writer' \in [Writers -> [pc : {"sent", "written"}, delta : Int \ {0}] \cup {IdleWriter}]
      BY <1>1, SendType DEF BeginPersist, LTypeOK
    <2> QED BY <1>1, <2>1 DEF BeginPersist, Upset, LTypeOK, RaceNames
  <1>2. CASE CommitPersist(p)
    <2>1. polBalance' \in Int
      BY <1>2, WriterType DEF CommitPersist, LTypeOK
    <2>2. writer' \in [Writers -> [pc : {"sent", "written"}, delta : Int \ {0}] \cup {IdleWriter}]
      BY <1>2, WriterType DEF CommitPersist, LTypeOK, IdleWriter
    <2> QED BY <1>2, <2>1, <2>2 DEF CommitPersist, LTypeOK
  <1>3. CASE FailPersist(p)
    BY <1>3 DEF FailPersist, LTypeOK
  <1>4. CASE EndPersist(p)
    BY <1>4 DEF EndPersist, LTypeOK
  <1> QED BY <1>1, <1>2, <1>3, <1>4 DEF Persist

LEMMA SpendType ==
  ASSUME LTypeOK, NEW c \in Costs, Spend(c)
  PROVE  balance' \in Int /\ owed' \in Int /\ moves' \in 0 .. MaxMoves /\ races' \subseteq RaceNames
  <1>1. c \in Int
    BY CostInt
  <1> QED BY <1>1, MaxMovesAssumption DEF Spend, Move, Upset, LTypeOK, RaceNames

LEMMA SpendingType ==
  ASSUME LTypeOK, NEW c \in Costs, Boost(c) \/ \E p \in Writers : UpgradeRig(p, c)
  PROVE  LTypeOK'
  <1>1. CASE Boost(c)
    BY <1>1, SpendType DEF Boost, Spend, LTypeOK
  <1>2. ASSUME NEW p \in Writers, UpgradeRig(p, c) PROVE LTypeOK'
    <2>1. balance' \in Int /\ owed' \in Int /\ moves' \in 0 .. MaxMoves /\ races' \subseteq RaceNames
      BY <1>2, SpendType DEF UpgradeRig
    <2>2. writer' \in [Writers -> [pc : {"sent", "written"}, delta : Int \ {0}] \cup {IdleWriter}]
      BY <1>2, <2>1, SendType DEF UpgradeRig
    <2> QED BY <1>2, <2>1, <2>2 DEF UpgradeRig, LTypeOK
  <1> QED BY <1>1, <1>2

LEMMA BlockType ==
  ASSUME LTypeOK, DistributeRewards \/ CommitBlock \/ RollBackBlock
  PROVE  LTypeOK'
  <1>1. CASE DistributeRewards
    <2>1. moves' \in 0 .. MaxMoves
      BY <1>1, MaxMovesAssumption DEF DistributeRewards, Move, LTypeOK
    <2> QED BY <1>1, <2>1, RewardAssumption DEF DistributeRewards, RewardMarked, LTypeOK
  <1>2. CASE CommitBlock
    BY <1>2, RewardAssumption DEF CommitBlock, LTypeOK, NoBlock
  <1>3. CASE RollBackBlock
    BY <1>3 DEF RollBackBlock, Upset, LTypeOK, NoBlock, RaceNames
  <1> QED BY <1>1, <1>2, <1>3

LEMMA PostType ==
  ASSUME LTypeOK, NEW o \in Postings, Post(o)
  PROVE  LTypeOK'
  <1>0. posting[o].amount \in Amounts \cup {0}
    BY DEF LTypeOK
  <1>n. posting[o].amount \in Int
    BY <1>0, AmountInt
  <1>1. CASE BeginPosting(o)
    <2>1. moves' \in 0 .. MaxMoves
      BY <1>1, MaxMovesAssumption DEF BeginPosting, Move, LTypeOK
    <2> QED BY <1>1, <2>1 DEF BeginPosting, LTypeOK
  <1>2. CASE ApplyPosting(o)
    <2>1. balance' \in Int /\ lastPersistedBalance' \in Int
      BY <1>2, <1>n DEF ApplyPosting, applyUserBalanceDelta, LTypeOK
    <2>2. posting' \in [Postings -> [pc : {"idle", "checked", "applied", "committed"},
                                    amount : Amounts \cup {0}]]
      BY <1>2, <1>0 DEF ApplyPosting, LTypeOK, IdlePosting
    <2> QED BY <1>2, <2>1, <2>2 DEF ApplyPosting, LTypeOK
  <1>3. CASE CommitPosting(o)
    <2>1. polBalance' \in Int /\ owed' \in Int
      BY <1>3, <1>n DEF CommitPosting, LTypeOK
    <2>2. posting' \in [Postings -> [pc : {"idle", "checked", "applied", "committed"},
                                    amount : Amounts \cup {0}]]
      BY <1>3, <1>0 DEF CommitPosting, LTypeOK, IdlePosting
    <2> QED BY <1>3, <2>1, <2>2 DEF CommitPosting, LTypeOK
  <1>4. CASE LosePosting(o)
    BY <1>4 DEF LosePosting, Upset, LTypeOK, IdlePosting, RaceNames
  <1> QED BY <1>1, <1>2, <1>3, <1>4 DEF Post

LEMMA ReaderType ==
  ASSUME LTypeOK, NEW r \in Readers, NEW join \in BOOLEAN, ReadProfile(r) \/ AssignProfile(r, join)
  PROVE  LTypeOK'
  <1>1. CASE ReadProfile(r)
    BY <1>1 DEF ReadProfile, LTypeOK
  <1>2. CASE AssignProfile(r, join)
    <2>1. races' \subseteq RaceNames
      BY <1>2 DEF AssignProfile, LTypeOK, RaceNames
    <2>2. balance' \in Int /\ lastPersistedBalance' \in Int /\ live' \in BOOLEAN
      BY <1>2 DEF AssignProfile, LTypeOK
    <2> QED BY <1>2, <2>1, <2>2 DEF AssignProfile, LTypeOK, IdleReader
  <1> QED BY <1>1, <1>2

LEMMA NextLedgerType == LTypeOK /\ [LNext]_lVars => LTypeOK'
  <1> SUFFICES ASSUME LTypeOK, [LNext]_lVars PROVE LTypeOK'
    OBVIOUS
  <1>1. CASE UNCHANGED lVars
    BY <1>1 DEF lVars, LTypeOK
  <1>2. CASE LNext
    BY <1>2, PersistType, SpendingType, BlockType, PostType, ReaderType DEF LNext
  <1> QED BY <1>1, <1>2

-----------------------------------------------------------------------------
(* The books *)

\* The races recorded only grow.
LEMMA CleanBefore == [LNext]_lVars /\ Clean' => Clean
  <1> SUFFICES ASSUME [LNext]_lVars PROVE races \subseteq races'
    BY DEF Clean
  <1>1. CASE UNCHANGED lVars
    BY <1>1 DEF lVars
  <1>2. ASSUME NEW p \in Writers, Persist(p) PROVE races \subseteq races'
    BY <1>2 DEF Persist, BeginPersist, CommitPersist, FailPersist, EndPersist, Upset
  <1>3. ASSUME NEW c \in Costs, Spend(c) PROVE races \subseteq races'
    BY <1>3 DEF Spend, Upset
  <1>4. ASSUME NEW o \in Postings, Post(o) PROVE races \subseteq races'
    BY <1>4 DEF Post, BeginPosting, ApplyPosting, CommitPosting, LosePosting, Upset
  <1>5. ASSUME NEW r \in Readers, NEW join \in BOOLEAN, ReadProfile(r) \/ AssignProfile(r, join)
        PROVE  races \subseteq races'
    BY <1>5 DEF ReadProfile, AssignProfile
  <1>6. CASE DistributeRewards \/ CommitBlock \/ RollBackBlock
    BY <1>6 DEF DistributeRewards, CommitBlock, RollBackBlock, Upset
  <1> QED BY <1>1, <1>2, <1>3, <1>4, <1>5, <1>6 DEF LNext, UpgradeRig, Boost

\* Nobody else writes and Send records what is unwritten.
LEMMA SendBooks ==
  ASSUME LTypeOK, ~Writing, live, NEW p \in Writers, NEW b \in Int, Send(p, b),
         balance' = b, UNCHANGED <<lastPersistedBalance, live>>
  PROVE  InProgress' /\ \A q \in Writers : writer'[q].pc # "written"
  <1> DEFINE d == b - lastPersistedBalance
  <1>1. \A q \in Writers : writer[q].pc = "idle"
    BY DEF Writing
  <1>2. Unwritten' = d
    BY DEF Unwritten
  <1>3. CASE d # 0
    <2>1. writer' = [writer EXCEPT ![p] = [pc |-> "sent", delta |-> d]]
      BY <1>3 DEF Send, WorthWriting
    <2>2. \A q \in Writers : writer'[q] = IF q = p THEN [pc |-> "sent", delta |-> d] ELSE writer[q]
      BY <2>1 DEF LTypeOK
    <2> HIDE DEF d
    <2> QED BY <1>1, <1>2, <2>2 DEF InProgress
  <1>4. CASE d = 0
    <2>1. writer' = writer
      BY <1>4 DEF Send, WorthWriting
    <2> QED BY <1>1, <2>1 DEF InProgress
  <1> QED BY <1>3, <1>4

LEMMA PersistBooks ==
  ASSUME LTypeOK, InProgress, Books, Clean', NEW p \in Writers, Persist(p)
  PROVE  InProgress' /\ Books'
  <1>1. CASE BeginPersist(p)
    <2>1. ~Writing
      BY <1>1 DEF BeginPersist, Upset, Clean
    <2>2. InProgress' /\ \A q \in Writers : writer'[q].pc # "written"
      BY <1>1, <2>1, SendBooks DEF BeginPersist, LTypeOK
    <2>3. polBalance + Unwritten = owed
      BY <2>1 DEF Books, Writing
    <2> QED BY <1>1, <2>2, <2>3 DEF BeginPersist, Books, Unwritten
  <1>2. CASE CommitPersist(p)
    <2>1. \A q \in Writers : q # p => writer[q].pc = "idle"
      BY <1>2 DEF CommitPersist, InProgress
    <2>2. writer[p].delta = Unwritten /\ live
      BY <1>2 DEF CommitPersist, InProgress
    <2>3. polBalance + Unwritten = owed
      BY <1>2, <2>1 DEF CommitPersist, Books
    <2>4. writer'[p].pc = "written" /\ writer'[p].delta = Unwritten
      BY <1>2, <2>2 DEF CommitPersist, LTypeOK, IdleWriter
    <2>5. \A q \in Writers : q # p => writer'[q] = writer[q]
      BY <1>2 DEF CommitPersist, LTypeOK
    <2>6. UNCHANGED <<live, balance, lastPersistedBalance, owed, Unwritten>>
      BY <1>2 DEF CommitPersist, Unwritten
    <2>7. polBalance' = owed'
      BY <1>2, <2>2, <2>3, <2>6 DEF CommitPersist
    <2>8. InProgress'
      BY <2>1, <2>2, <2>4, <2>5, <2>6 DEF InProgress
    <2> QED BY <2>4, <2>7, <2>8 DEF Books
  <1>3. CASE FailPersist(p)
    <2>1. \A q \in Writers : writer'[q].pc = "idle"
      BY <1>3 DEF FailPersist, InProgress, LTypeOK, IdleWriter
    <2>2. polBalance + Unwritten = owed
      BY <1>3 DEF FailPersist, InProgress, Books
    <2> QED BY <1>3, <2>1, <2>2 DEF FailPersist, InProgress, Books, Unwritten
  <1>4. CASE EndPersist(p)
    <2>1. \A q \in Writers : writer'[q].pc = "idle"
      BY <1>4 DEF EndPersist, InProgress, LTypeOK, IdleWriter
    <2>2. polBalance = owed /\ live
      BY <1>4 DEF EndPersist, InProgress, Books
    <2>3. Unwritten' = 0
      BY <1>4 DEF EndPersist, Unwritten, LTypeOK
    <2> QED BY <1>4, <2>1, <2>2, <2>3 DEF EndPersist, InProgress, Books, LTypeOK
  <1> QED BY <1>1, <1>2, <1>3, <1>4 DEF Persist

LEMMA SpendingBooks ==
  ASSUME LTypeOK, InProgress, Books, Clean', NEW c \in Costs,
         Boost(c) \/ \E p \in Writers : UpgradeRig(p, c)
  PROVE  InProgress' /\ Books'
  <1>1. Spend(c)
    BY DEF Boost, UpgradeRig
  <1>2. ~Writing
    BY <1>1 DEF Spend, Upset, Clean
  <1>3. c \in Int
    BY CostInt
  <1>4. /\ balance' = balance - c /\ owed' = owed - c
        /\ live /\ UNCHANGED <<polBalance, live, lastPersistedBalance>>
    BY <1>1 DEF Spend, Boost, UpgradeRig
  <1>5. polBalance + Unwritten = owed
    BY <1>2 DEF Books, Writing
  <1>6. polBalance' + Unwritten' = owed'
    BY <1>3, <1>4, <1>5 DEF Unwritten, LTypeOK
  <1>7. CASE Boost(c)
    <2>1. UNCHANGED writer
      BY <1>7 DEF Boost
    <2> QED BY <1>2, <1>4, <1>6, <2>1 DEF InProgress, Books, Writing
  <1>8. ASSUME NEW p \in Writers, UpgradeRig(p, c) PROVE InProgress' /\ Books'
    <2>1. balance' \in Int
      BY <1>3, <1>4 DEF LTypeOK
    <2>2. InProgress' /\ \A q \in Writers : writer'[q].pc # "written"
      BY <1>2, <1>4, <1>8, <2>1, SendBooks DEF UpgradeRig
    <2> QED BY <1>6, <2>2 DEF Books
  <1> QED BY <1>7, <1>8

LEMMA BlockBooks ==
  ASSUME LTypeOK, InProgress, Books, Clean', DistributeRewards \/ CommitBlock \/ RollBackBlock
  PROVE  InProgress' /\ Books'
  <1>1. CASE DistributeRewards
    <2>1. Unwritten' = Unwritten
      BY <1>1, RewardAssumption DEF DistributeRewards, RewardMarked, Unwritten, LTypeOK
    <2> QED BY <1>1, <2>1 DEF DistributeRewards, InProgress, Books
  <1>2. CASE CommitBlock
    <2>1. Unwritten' = Unwritten /\ Unwritten \in Int
      BY <1>2 DEF CommitBlock, Unwritten, LTypeOK
    <2>2. Books'
      BY <1>2, <2>1, RewardAssumption DEF CommitBlock, Books, LTypeOK
    <2> QED BY <1>2, <2>1, <2>2 DEF CommitBlock, InProgress
  <1>3. CASE RollBackBlock
    BY <1>3 DEF RollBackBlock, Upset, Clean
  <1> QED BY <1>1, <1>2, <1>3

LEMMA PostBooks ==
  ASSUME LTypeOK, InProgress, Books, NEW o \in Postings, Post(o)
  PROVE  InProgress' /\ Books'
  <1>0. posting[o].amount \in Amounts \cup {0}
    BY DEF LTypeOK
  <1>n. posting[o].amount \in Int
    BY <1>0, AmountInt
  <1>1. CASE BeginPosting(o)
    BY <1>1 DEF BeginPosting, InProgress, Books, Unwritten
  <1>2. CASE ApplyPosting(o)
    <2>1. Unwritten' = Unwritten
      BY <1>2, <1>n DEF ApplyPosting, applyUserBalanceDelta, Unwritten, LTypeOK
    <2>2. ~live => UNCHANGED <<balance, lastPersistedBalance>>
      BY <1>2 DEF ApplyPosting, applyUserBalanceDelta
    <2> QED BY <1>2, <2>1, <2>2 DEF ApplyPosting, InProgress, Books
  <1>3. CASE CommitPosting(o)
    <2>1. Unwritten' = Unwritten /\ Unwritten \in Int
      BY <1>3 DEF CommitPosting, Unwritten, LTypeOK
    <2>2. Books'
      BY <1>3, <1>n, <2>1 DEF CommitPosting, Books, LTypeOK
    <2> QED BY <1>3, <2>1, <2>2 DEF CommitPosting, InProgress
  <1>4. CASE LosePosting(o)
    BY <1>4 DEF LosePosting, InProgress, Books, Unwritten
  <1> QED BY <1>1, <1>2, <1>3, <1>4 DEF Post

LEMMA ReaderBooks ==
  ASSUME LTypeOK, InProgress, Books, Clean', NEW r \in Readers, NEW join \in BOOLEAN,
         ReadProfile(r) \/ AssignProfile(r, join)
  PROVE  InProgress' /\ Books'
  <1>1. CASE ReadProfile(r)
    BY <1>1 DEF ReadProfile, InProgress, Books, Unwritten
  <1>2. CASE AssignProfile(r, join)
    <2> DEFINE taken == IF live THEN RaisesMemory(reader[r].seen) ELSE join
    <2>1. CASE taken
      <3>1. ~Writing /\ Unwritten = 0
        BY <1>2, <2>1 DEF AssignProfile, Clean
      <3>2. Unwritten' = 0
        BY <1>2, <2>1 DEF AssignProfile, Unwritten, LTypeOK
      <3>3. live'
        BY <1>2, <2>1 DEF AssignProfile
      <3> QED BY <1>2, <3>1, <3>2, <3>3 DEF AssignProfile, InProgress, Books, Writing
    <2>2. CASE ~taken
      <3>1. UNCHANGED <<balance, lastPersistedBalance, writer, polBalance, owed, live>>
        BY <1>2, <2>2 DEF AssignProfile, LTypeOK
      <3> QED BY <3>1 DEF InProgress, Books, Unwritten
    <2> QED BY <2>1, <2>2
  <1> QED BY <1>1, <1>2

LEMMA NextIInv == IInv /\ [LNext]_lVars => IInv'
  <1> SUFFICES ASSUME IInv, [LNext]_lVars PROVE IInv'
    OBVIOUS
  <1>1. LTypeOK'
    BY NextLedgerType DEF IInv
  <1>2. ASSUME Clean' PROVE InProgress' /\ Books'
    <2>1. LTypeOK /\ InProgress /\ Books
      BY <1>2, CleanBefore DEF IInv
    <2>2. CASE UNCHANGED lVars
      BY <2>1, <2>2 DEF lVars, InProgress, Books, Unwritten
    <2>3. CASE LNext
      BY <1>2, <2>1, <2>3, PersistBooks, SpendingBooks, BlockBooks, PostBooks, ReaderBooks DEF LNext
    <2> QED BY <2>2, <2>3
  <1> QED BY <1>1, <1>2 DEF IInv

-----------------------------------------------------------------------------
\* Every column and every call's record keeps its type, and no call of
\* persistMinerProfile writes a delta of nothing.
THEOREM LedgerTypeCorrect == LSpec => []LTypeOK
  <1>1. IInv => LTypeOK
    BY DEF IInv
  <1> QED BY <1>1, InitIInv, NextIInv, PTL DEF LSpec

\* The row plus what persistMinerProfile has still to write is what the
\* player is owed, as long as none of the four orders of steps occurred.
THEOREM BooksCorrect == LSpec => []BooksBalance
  <1>1. IInv => BooksBalance
    BY DEF IInv, BooksBalance, Books
  <1> QED BY <1>1, InitIInv, NextIInv, PTL DEF LSpec

-----------------------------------------------------------------------------
(***************************************************************************)
(* What the engine holds to be in the row.                                 *)
(*                                                                         *)
(* NoPhantomBalance speaks of the moments when nothing is under way.  In   *)
(* between, lastPersistedBalance is ahead of the row by the postings       *)
(* applied and not committed and by the rewards of a block being written,  *)
(* and behind it by the postings committed and not applied and by a write  *)
(* that has reached the row: Backed, the inductive form.                   *)
(***************************************************************************)
Ahead(call) ==
  IF call.pc = "applied" THEN call.amount ELSE IF call.pc = "committed" THEN - call.amount ELSE 0

Underway == [o \in Postings |-> Ahead(posting[o])]

BlockAhead == IF block.pc = "writing" THEN Reward ELSE 0

WriteBehind == IF \E p \in Writers : writer[p].pc = "written" THEN Unwritten ELSE 0

Backing == polBalance + Total(Underway, Postings) + BlockAhead - WriteBehind

Backed == races = {} /\ live => lastPersistedBalance <= Backing

-----------------------------------------------------------------------------
LEMMA AheadInt ==
  ASSUME LTypeOK, NEW o \in Postings
  PROVE  posting[o].amount \in Int /\ Ahead(posting[o]) \in Int /\ Underway[o] = Ahead(posting[o])
  <1>1. posting[o].amount \in Amounts \cup {0}
    BY DEF LTypeOK
  <1>2. posting[o].amount \in Int
    BY <1>1, AmountInt
  <1> QED BY <1>2 DEF Ahead, Underway

LEMMA UnderwayInt ==
  ASSUME LTypeOK
  PROVE  Total(Underway, Postings) \in Int
  <1>1. \A o \in Postings : Underway[o] \in Int
    BY AheadInt
  <1> QED BY <1>1, TotalType, PostingsAssumption

\* Only one posting moves.
LEMMA UnderwayMoves ==
  ASSUME LTypeOK, LTypeOK', NEW o \in Postings,
         \A q \in Postings \ {o} : posting'[q] = posting[q]
  PROVE  Total(Underway', Postings)
           = Total(Underway, Postings) - Ahead(posting[o]) + Ahead(posting'[o])
  <1> DEFINE f == Underway
             g == Underway'
  <1>1. \A q \in Postings : f[q] = Ahead(posting[q]) /\ f[q] \in Int
    BY AheadInt
  <1>2. \A q \in Postings : g[q] = Ahead(posting'[q])
    BY DEF Underway, Ahead
  <1>3. \A q \in Postings : posting'[q].amount \in Int
    BY AmountInt DEF LTypeOK
  <1>4. \A q \in Postings : g[q] \in Int
    BY <1>2, <1>3 DEF Ahead
  <1>5. \A q \in Postings \ {o} : g[q] = f[q]
    BY <1>1, <1>2
  <1> HIDE DEF f, g
  <1>6. Total(g, Postings) = Total(f, Postings) - f[o] + g[o]
    BY <1>1, <1>4, <1>5, PostingsAssumption, TotalChange
  <1>7. f[o] = Ahead(posting[o]) /\ g[o] = Ahead(posting'[o])
    BY <1>1, <1>2
  <1> QED BY <1>6, <1>7 DEF f, g

\* Nothing is under way when no posting is halfway.
LEMMA UnderwayNothing ==
  ASSUME LTypeOK, ~Halfway
  PROVE  Total(Underway, Postings) = 0
  <1>1. \A o \in Postings : Underway[o] = 0
    BY DEF Halfway, Underway, Ahead
  <1>2. Total(Underway, Postings) = Total(Underway, {})
    <2>1. \A o \in Postings : Underway[o] \in Nat
      BY <1>1
    <2> QED BY <1>1, <2>1, PostingsAssumption, TotalOfRest
  <1> QED BY <1>2, TotalEmpty

LEMMA BackedTypes ==
  ASSUME LTypeOK
  PROVE  /\ polBalance \in Int /\ balance \in Int /\ lastPersistedBalance \in Int
         /\ Unwritten \in Int /\ BlockAhead \in Int /\ BlockAhead >= 0 /\ WriteBehind \in Int
         /\ Total(Underway, Postings) \in Int /\ Reward \in Int
  BY UnderwayInt, RewardAssumption DEF LTypeOK, Unwritten, BlockAhead, WriteBehind

LEMMA PersistBacked ==
  ASSUME LTypeOK, InProgress, lastPersistedBalance <= Backing, races' = {}, NEW p \in Writers, Persist(p)
  PROVE  lastPersistedBalance' <= Backing'
  <1>1. UNCHANGED <<posting, block, balance>> /\ Underway' = Underway /\ BlockAhead' = BlockAhead
    BY DEF Persist, BeginPersist, CommitPersist, FailPersist, EndPersist, Underway, BlockAhead
  <1>2. CASE BeginPersist(p)
    <2>1. ~Writing
      BY <1>2 DEF BeginPersist, Upset
    <2>2. \A q \in Writers : writer'[q].pc \in {"idle", "sent"}
      BY <1>2, <2>1 DEF BeginPersist, Send, WorthWriting, LTypeOK, Writing
    <2>3. WriteBehind' = 0 /\ WriteBehind = 0
      BY <2>1, <2>2 DEF WriteBehind, Writing
    <2> QED BY <1>1, <1>2, <2>3 DEF BeginPersist, Backing
  <1>3. CASE CommitPersist(p)
    <2>1. \A q \in Writers : q # p => writer[q].pc = "idle"
      BY <1>3 DEF CommitPersist, InProgress
    <2>2. writer[p].delta = Unwritten /\ writer[p].pc = "sent"
      BY <1>3 DEF CommitPersist, InProgress
    <2>3. writer'[p].pc = "written"
      BY <1>3, <2>2 DEF CommitPersist, LTypeOK, IdleWriter
    <2>4. Unwritten' = Unwritten /\ lastPersistedBalance' = lastPersistedBalance
      BY <1>3 DEF CommitPersist, Unwritten
    <2>5. WriteBehind = 0 /\ WriteBehind' = Unwritten
      BY <2>1, <2>2, <2>3, <2>4 DEF WriteBehind
    <2>6. polBalance' = polBalance + Unwritten
      BY <1>3, <2>2 DEF CommitPersist
    <2> QED BY <1>1, <2>4, <2>5, <2>6, BackedTypes DEF Backing
  <1>4. CASE FailPersist(p)
    <2>1. \A q \in Writers : writer'[q].pc = "idle" /\ writer[q].pc # "written"
      BY <1>4 DEF FailPersist, InProgress, LTypeOK, IdleWriter
    <2>2. WriteBehind' = 0 /\ WriteBehind = 0
      BY <2>1 DEF WriteBehind
    <2> QED BY <1>1, <1>4, <2>2 DEF FailPersist, Backing
  <1>5. CASE EndPersist(p)
    <2>1. \A q \in Writers : writer'[q].pc = "idle"
      BY <1>5 DEF EndPersist, InProgress, LTypeOK, IdleWriter
    <2>2. WriteBehind' = 0 /\ WriteBehind = Unwritten
      BY <1>5, <2>1 DEF WriteBehind, EndPersist
    <2>3. lastPersistedBalance' = lastPersistedBalance + Unwritten /\ polBalance' = polBalance
      BY <1>5, BackedTypes DEF EndPersist, Unwritten
    <2> QED BY <1>1, <2>2, <2>3, BackedTypes DEF Backing
  <1> QED BY <1>2, <1>3, <1>4, <1>5 DEF Persist

LEMMA SpendingBacked ==
  ASSUME LTypeOK, lastPersistedBalance <= Backing, races' = {}, NEW c \in Costs,
         Boost(c) \/ \E p \in Writers : UpgradeRig(p, c)
  PROVE  lastPersistedBalance' <= Backing'
  <1>1. UNCHANGED <<posting, block, polBalance, lastPersistedBalance>>
    BY DEF Boost, UpgradeRig
  <1>2. ~Writing
    BY DEF Boost, UpgradeRig, Spend, Upset
  <1>3. \A q \in Writers : writer'[q].pc \in {"idle", "sent"}
    BY <1>2 DEF Boost, UpgradeRig, Send, WorthWriting, LTypeOK, Writing
  <1>4. WriteBehind' = 0 /\ WriteBehind = 0
    BY <1>2, <1>3 DEF WriteBehind, Writing
  <1> QED BY <1>1, <1>4 DEF Backing, Underway, BlockAhead

LEMMA BlockBacked ==
  ASSUME LTypeOK, lastPersistedBalance <= Backing, races' = {},
         DistributeRewards \/ CommitBlock \/ RollBackBlock
  PROVE  lastPersistedBalance' <= Backing'
  <1>1. UNCHANGED <<posting, writer>> /\ Underway' = Underway
    BY DEF DistributeRewards, CommitBlock, RollBackBlock, Underway
  <1>2. CASE DistributeRewards
    <2>1. Unwritten' = Unwritten
      BY <1>2, RewardAssumption DEF DistributeRewards, RewardMarked, Unwritten, LTypeOK
    <2>2. /\ BlockAhead = 0 /\ BlockAhead' = Reward /\ polBalance' = polBalance
          /\ lastPersistedBalance' = lastPersistedBalance + Reward
      BY <1>2 DEF DistributeRewards, RewardMarked, BlockAhead
    <2>3. WriteBehind' = WriteBehind
      BY <1>1, <2>1 DEF WriteBehind
    <2> QED BY <1>1, <2>2, <2>3, BackedTypes DEF Backing
  <1>3. CASE CommitBlock
    <2>1. Unwritten' = Unwritten /\ lastPersistedBalance' = lastPersistedBalance
      BY <1>3 DEF CommitBlock, Unwritten
    <2>2. BlockAhead = Reward /\ BlockAhead' = 0 /\ polBalance' = polBalance + Reward
      BY <1>3 DEF CommitBlock, BlockAhead, NoBlock
    <2>3. WriteBehind' = WriteBehind
      BY <1>1, <2>1 DEF WriteBehind
    <2> QED BY <1>1, <2>1, <2>2, <2>3, BackedTypes DEF Backing
  <1>4. CASE RollBackBlock
    BY <1>4 DEF RollBackBlock, Upset
  <1> QED BY <1>2, <1>3, <1>4

LEMMA PostBacked ==
  ASSUME LTypeOK, LTypeOK', live, lastPersistedBalance <= Backing, races' = {},
         NEW o \in Postings, Post(o)
  PROVE  lastPersistedBalance' <= Backing'
  <1> DEFINE n == posting[o].amount
  <1>1. UNCHANGED <<writer, block>> /\ BlockAhead' = BlockAhead
    BY DEF Post, BeginPosting, ApplyPosting, CommitPosting, LosePosting, BlockAhead
  <1>2. n \in Int
    BY AheadInt
  <1>3. \A q \in Postings \ {o} : posting'[q] = posting[q]
    BY DEF Post, BeginPosting, ApplyPosting, CommitPosting, LosePosting, LTypeOK
  <1>4. Total(Underway', Postings) = Total(Underway, Postings) - Ahead(posting[o]) + Ahead(posting'[o])
    BY <1>3, UnderwayMoves
  <1>5. Unwritten' = Unwritten
    <2>1. CASE ApplyPosting(o)
      <3>1. balance' = balance + n /\ lastPersistedBalance' = lastPersistedBalance + n
        BY <2>1 DEF ApplyPosting, applyUserBalanceDelta
      <3>2. balance \in Int /\ lastPersistedBalance \in Int
        BY DEF LTypeOK
      <3> HIDE DEF n
      <3> QED BY <1>2, <3>1, <3>2 DEF Unwritten
    <2> QED BY <2>1 DEF Post, BeginPosting, CommitPosting, LosePosting, Unwritten
  <1>6. WriteBehind' = WriteBehind
    BY <1>1, <1>5 DEF WriteBehind
  <1>7. ASSUME NEW d \in Int, lastPersistedBalance' <= lastPersistedBalance + d,
               polBalance' + Ahead(posting'[o]) >= polBalance + Ahead(posting[o]) + d,
               Ahead(posting'[o]) \in Int, polBalance' \in Int, lastPersistedBalance' \in Int
        PROVE  lastPersistedBalance' <= Backing'
    BY <1>1, <1>4, <1>6, <1>7, AheadInt, BackedTypes DEF Backing
  <1>8. polBalance \in Int /\ polBalance' \in Int /\ lastPersistedBalance \in Int /\ lastPersistedBalance' \in Int
    BY DEF LTypeOK
  <1>9. CASE BeginPosting(o)
    <2>1. posting'[o].pc = "checked" /\ posting[o].pc = "idle"
      BY <1>9 DEF BeginPosting, LTypeOK
    <2>2. Ahead(posting'[o]) = 0 /\ Ahead(posting[o]) = 0
      BY <2>1 DEF Ahead
    <2>3. UNCHANGED <<polBalance, lastPersistedBalance>>
      BY <1>9 DEF BeginPosting
    <2> QED BY <1>7, <1>8, <2>2, <2>3
  <1>10. CASE ApplyPosting(o)
    <2>1. lastPersistedBalance' = lastPersistedBalance + n /\ polBalance' = polBalance
      BY <1>10 DEF ApplyPosting, applyUserBalanceDelta
    <2>2. Ahead(posting'[o]) = Ahead(posting[o]) + n /\ Ahead(posting'[o]) \in Int
      BY <1>2, <1>10 DEF ApplyPosting, Ahead, IdlePosting, LTypeOK
    <2>3. Ahead(posting[o]) \in Int
      BY AheadInt
    <2> HIDE DEF n
    <2> QED BY <1>2, <1>7, <1>8, <2>1, <2>2, <2>3
  <1>11. CASE CommitPosting(o)
    <2>1. lastPersistedBalance' = lastPersistedBalance /\ polBalance' = polBalance + n
      BY <1>11 DEF CommitPosting
    <2>2. Ahead(posting'[o]) + n >= Ahead(posting[o]) /\ Ahead(posting'[o]) \in Int
      <3>1. CASE posting[o].pc = "applied" /\ posting'[o] = IdlePosting
        BY <1>2, <3>1 DEF Ahead, IdlePosting
      <3>2. CASE posting[o].pc = "checked" /\ posting'[o] = IdlePosting /\ n > 0
        BY <1>2, <3>2 DEF Ahead, IdlePosting
      <3>3. CASE posting[o].pc = "checked" /\ posting'[o].pc = "committed" /\ posting'[o].amount = n
        BY <1>2, <3>3 DEF Ahead
      <3> QED BY <1>11, <3>1, <3>2, <3>3 DEF CommitPosting, LTypeOK
    <2>3. Ahead(posting[o]) \in Int
      BY AheadInt
    <2> HIDE DEF n
    <2> QED BY <1>2, <1>7, <1>8, <2>1, <2>2, <2>3
  <1>12. CASE LosePosting(o)
    <2>1. posting'[o] = IdlePosting /\ posting[o].pc = "checked"
      BY <1>12 DEF LosePosting, Upset, LTypeOK
    <2>2. Ahead(posting'[o]) = 0 /\ Ahead(posting[o]) = 0
      BY <2>1 DEF Ahead, IdlePosting
    <2>3. UNCHANGED <<polBalance, lastPersistedBalance>>
      BY <1>12 DEF LosePosting
    <2> QED BY <1>7, <1>8, <2>2, <2>3
  <1> QED BY <1>9, <1>10, <1>11, <1>12 DEF Post

\* A profile that raises memory was the row itself, with nothing halfway.
LEMMA ReaderBacked ==
  ASSUME LTypeOK, live => lastPersistedBalance <= Backing, races' = {}, live',
         NEW r \in Readers, NEW join \in BOOLEAN, ReadProfile(r) \/ AssignProfile(r, join)
  PROVE  lastPersistedBalance' <= Backing'
  <1>1. UNCHANGED <<polBalance, posting, writer, block>> /\ Underway' = Underway /\ BlockAhead' = BlockAhead
    BY DEF ReadProfile, AssignProfile, Underway, BlockAhead
  <1>2. CASE ReadProfile(r)
    <2>1. UNCHANGED <<lastPersistedBalance, Unwritten, live>>
      BY <1>2 DEF ReadProfile, Unwritten
    <2>2. WriteBehind' = WriteBehind
      BY <1>1, <2>1 DEF WriteBehind
    <2> QED BY <1>1, <2>1, <2>2 DEF Backing
  <1>3. CASE AssignProfile(r, join)
    <2> DEFINE taken == IF live THEN RaisesMemory(reader[r].seen) ELSE join
    <2>1. CASE taken
      <3>1. ~Writing /\ ~Halfway /\ reader[r].seen = polBalance
        BY <1>3, <2>1 DEF AssignProfile
      <3>2. WriteBehind' = 0
        BY <1>1, <3>1 DEF WriteBehind, Writing
      <3>3. Total(Underway, Postings) = 0
        BY <3>1, UnderwayNothing
      <3>4. lastPersistedBalance' = polBalance
        BY <1>3, <2>1, <3>1 DEF AssignProfile
      <3> QED BY <1>1, <3>2, <3>3, <3>4, BackedTypes DEF Backing
    <2>2. CASE ~taken
      <3>1. UNCHANGED <<balance, lastPersistedBalance>> /\ live
        BY <1>3, <2>2 DEF AssignProfile, LTypeOK
      <3>2. WriteBehind' = WriteBehind
        BY <1>1, <3>1 DEF WriteBehind, Unwritten
      <3> QED BY <1>1, <3>1, <3>2 DEF Backing
    <2> QED BY <2>1, <2>2
  <1> QED BY <1>2, <1>3

\* Only a join makes a miner, and the races recorded only grow.
LEMMA QuietBefore == [LNext]_lVars /\ races' = {} => races = {}
  <1> SUFFICES ASSUME [LNext]_lVars PROVE races \subseteq races'
    OBVIOUS
  <1>1. CASE UNCHANGED lVars
    BY <1>1 DEF lVars
  <1>2. ASSUME NEW p \in Writers, Persist(p) PROVE races \subseteq races'
    BY <1>2 DEF Persist, BeginPersist, CommitPersist, FailPersist, EndPersist, Upset
  <1>3. ASSUME NEW c \in Costs, Spend(c) PROVE races \subseteq races'
    BY <1>3 DEF Spend, Upset
  <1>4. ASSUME NEW o \in Postings, Post(o) PROVE races \subseteq races'
    BY <1>4 DEF Post, BeginPosting, ApplyPosting, CommitPosting, LosePosting, Upset
  <1>5. ASSUME NEW r \in Readers, NEW join \in BOOLEAN, ReadProfile(r) \/ AssignProfile(r, join)
        PROVE  races \subseteq races'
    BY <1>5 DEF ReadProfile, AssignProfile
  <1>6. CASE DistributeRewards \/ CommitBlock \/ RollBackBlock
    BY <1>6 DEF DistributeRewards, CommitBlock, RollBackBlock, Upset
  <1> QED BY <1>1, <1>2, <1>3, <1>4, <1>5, <1>6 DEF LNext, UpgradeRig, Boost

LEMMA NextBacked == IInv /\ Backed /\ [LNext]_lVars => Backed'
  <1> SUFFICES ASSUME IInv, Backed, [LNext]_lVars, races' = {}, live'
               PROVE  lastPersistedBalance' <= Backing'
    BY DEF Backed
  <1>1. races = {} /\ LTypeOK /\ LTypeOK' /\ InProgress
    BY QuietBefore, NextLedgerType DEF IInv, Clean
  <1>2. live => lastPersistedBalance <= Backing
    BY <1>1 DEF Backed
  <1>3. CASE UNCHANGED lVars
    BY <1>1, <1>2, <1>3 DEF lVars, Backing, Underway, BlockAhead, WriteBehind, Unwritten
  <1>4. ASSUME NEW p \in Writers, Persist(p) PROVE lastPersistedBalance' <= Backing'
    <2>1. live
      BY <1>4 DEF Persist, BeginPersist, CommitPersist, FailPersist, EndPersist
    <2> QED BY <1>1, <1>2, <1>4, <2>1, PersistBacked
  <1>5. ASSUME NEW c \in Costs, Boost(c) \/ \E p \in Writers : UpgradeRig(p, c)
        PROVE  lastPersistedBalance' <= Backing'
    <2>1. live
      BY <1>5 DEF Boost, UpgradeRig, Spend
    <2> QED BY <1>1, <1>2, <1>5, <2>1, SpendingBacked
  <1>6. CASE DistributeRewards \/ CommitBlock \/ RollBackBlock
    <2>1. live
      BY <1>6 DEF DistributeRewards, CommitBlock, RollBackBlock
    <2> QED BY <1>1, <1>2, <1>6, <2>1, BlockBacked
  <1>7. ASSUME NEW o \in Postings, Post(o) PROVE lastPersistedBalance' <= Backing'
    <2>1. live
      BY <1>7 DEF Post, BeginPosting, ApplyPosting, CommitPosting, LosePosting
    <2> QED BY <1>1, <1>2, <1>7, <2>1, PostBacked
  <1>8. ASSUME NEW r \in Readers, NEW join \in BOOLEAN, ReadProfile(r) \/ AssignProfile(r, join)
        PROVE  lastPersistedBalance' <= Backing'
    BY <1>1, <1>2, <1>8, ReaderBacked
  <1> QED BY <1>3, <1>4, <1>5, <1>6, <1>7, <1>8 DEF LNext

\* When nothing is under way the engine holds no more to be in the row than
\* there is: none of the orders of steps named in NoPhantomBalance occurring,
\* every amount it has marked as written has reached the row.
THEOREM NothingPhantom == LSpec => []NoPhantomBalance
  <1>1. LInit => Backed
    BY DEF LInit, Backed
  <1>2. IInv /\ Backed => NoPhantomBalance
    <2> SUFFICES ASSUME LTypeOK, Backed, races = {}, live, ~Writing, block.pc = "none",
                        \A o \in Postings : posting[o].pc \in {"idle", "checked"}
                 PROVE  lastPersistedBalance <= polBalance
      BY DEF IInv, NoPhantomBalance
    <2>1. ~Halfway /\ BlockAhead = 0 /\ WriteBehind = 0
      BY DEF Halfway, BlockAhead, WriteBehind, Writing
    <2>2. Total(Underway, Postings) = 0
      BY <2>1, UnderwayNothing
    <2> QED BY <2>1, <2>2, BackedTypes DEF Backed, Backing
  <1> QED BY <1>1, <1>2, InitIInv, NextIInv, NextBacked, PTL DEF LSpec

=============================================================================
