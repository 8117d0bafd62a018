------------------------------ MODULE Deposits ------------------------------
(***************************************************************************)
(* POL deposits of one player.  A transfer on the chain becomes a row of   *)
(* the transactions table in four ways: the player submits its hash, the   *)
(* scan of the deposit contract's events finds it, or createDepositRequest *)
(* is called for it, by the scanner of the monitored wallets or by the     *)
(* player, and credits it at once.  A pending row is verified against the  *)
(* chain and credited by verifyOnePendingDeposit, which the 15-second      *)
(* timer, a submission and the event scan all start.                       *)
(*                                                                         *)
(* No index makes a hash unique, the timers do not wait for the run        *)
(* before, and every handler looks first and writes some awaits later.     *)
(* Hashes are compared as they are written, while the chain takes either   *)
(* case for the same transfer; submitDeposit writes lower case, the scans  *)
(* read it, and createDepositRequest takes what it is given.               *)
(* Support tickets, which can credit a hash too, are not part of this      *)
(* module; neither are the checks against other accounts, since there is   *)
(* one player.                                                             *)
(***************************************************************************)
EXTENDS Integers, FiniteSets

CONSTANTS
  Hashes,         \* hashes of the player's transfers, as they may be written
  Lower,          \* toLowerCase: two hashes with one image are one transfer
  NoHash,         \* the hash of a row that is not there
  Requests,       \* submissions in progress
  Verifiers,      \* verifications in progress, of whichever run
  Creators,       \* calls of createDepositRequest in progress
  Scanner,        \* the one of scanForNewDeposits, which a lock makes one,
                  \*   if it is among them
  Syncs,          \* scans of the contract's events in progress
  MaxRows,        \* bound on the rows
  MaxBlock,       \* bound on the height of the chain
  Confirmations,  \* CONFIRMATION_BLOCKS
  MaxAttempts,    \* DEPOSIT_VERIFY_MAX_ATTEMPTS
  Lookback,       \* blocks the first event scan goes back
  MayRestart      \* bound: whether the server is restarted, once

\* "small": to the treasury, below the minimum.  "invalid": reverted, sent
\* elsewhere, without the event, or with another value than the event's.
Kinds == {"treasury", "contract", "small", "invalid"}

ASSUME HashAssumption == NoHash \notin Hashes
ASSUME LowerAssumption == Lower \in [Hashes -> Hashes] /\ \A h \in Hashes : Lower[Lower[h]] = Lower[h]
ASSUME BoundAssumption == MaxRows \in Nat /\ MaxBlock \in Nat
ASSUME SettingAssumption ==
  Confirmations \in Nat \ {0} /\ MaxAttempts \in Nat /\ Lookback \in Nat \ {0}

VARIABLES
  kind,              \* what the transfer of each hash is, or will turn out to be
  mined,             \* the block of the transfer, 0 before it is mined
  head,              \* height of the chain
  linked,            \* the wallet that pays is users.wallet_address
  status,            \* the rows: status, "none" before they are created,
  hashOf,            \*   txHash
  attempts,          \*   and verifyAttempts
  lastScannedBlock,  \* of the event scan, in memory; None at first
  req,               \* calls of submitDeposit
  ver,               \* calls of verifyOnePendingDeposit
  call,              \* calls of createDepositRequest
  sync,              \* calls of runContractDepositSyncOnce
  restarted,         \* history: the server was restarted
  credits,           \* history: how often each hash was credited
  overlapped,        \* history: hashes handled twice at a time
  excused            \* history: transfers the event scan let go, see there

chain == <<kind, mined, head>>
rows == <<status, hashOf, attempts>>
history == <<restarted, credits, overlapped, excused>>
vars == <<chain, linked, rows, lastScannedBlock, req, ver, call, sync, history>>

\* A transfer goes by its hash in lower case.
Transfers == {Lower[h] : h \in Hashes}

Rows == 1 .. MaxRows
None == -1
Statuses == {"none", "pending_verification", "completed", "failed"}

Of(h) == {w \in Rows : status[w] # "none" /\ hashOf[w] = h}
Completed(h) == {w \in Of(h) : status[w] = "completed"}

IdleReq == [pc |-> "idle", hash |-> NoHash]
IdleVer == [pc |-> "idle", row |-> 0, attempts |-> 0]
IdleCall == [pc |-> "idle", hash |-> NoHash]
IdleSync == [pc |-> "idle", todo |-> {}, hash |-> NoHash, latest |-> 0]

Init ==
  /\ kind \in [Hashes -> Kinds] /\ \A h \in Hashes : kind[h] = kind[Lower[h]]
  /\ mined = [h \in Hashes |-> 0] /\ head = 1
  /\ linked \in BOOLEAN
  /\ status = [w \in Rows |-> "none"]
  /\ hashOf = [w \in Rows |-> NoHash]
  /\ attempts = [w \in Rows |-> 0]
  /\ lastScannedBlock = None
  /\ req = [r \in Requests |-> IdleReq]
  /\ ver = [v \in Verifiers |-> IdleVer]
  /\ call = [c \in Creators |-> IdleCall]
  /\ sync = [s \in Syncs |-> IdleSync]
  /\ restarted = FALSE
  /\ credits = [h \in Hashes |-> 0]
  /\ overlapped = {} /\ excused = {}

-----------------------------------------------------------------------------
(* The chain and the player's wallet                                       *)

\* The node finds a transfer by its hash in either case.
Mine(S) ==
  /\ \A g, h \in Hashes : Lower[g] = Lower[h] => (g \in S <=> h \in S)
  /\ head < MaxBlock
  /\ head' = head + 1
  /\ mined' = [h \in Hashes |-> IF h \in S THEN head + 1 ELSE mined[h]]
  /\ UNCHANGED <<kind, linked, rows, lastScannedBlock, req, ver, call, sync, history>>

saveWalletAddress ==
  /\ linked' = ~linked
  /\ UNCHANGED <<chain, rows, lastScannedBlock, req, ver, call, sync, history>>

IsMined(h) == mined[h] > 0

\* mutant: a receipt is enough
AnyDepth(h) == IsMined(h)

Confirmed(h) == IsMined(h) /\ head - mined[h] + 1 >= Confirmations

\* transaction.create
CreateRow(h, s) ==
  \E w \in Rows :
    /\ status[w] = "none" /\ \A x \in Rows : status[x] = "none" => w <= x
    /\ status' = [status EXCEPT ![w] = s]
    /\ hashOf' = [hashOf EXCEPT ![w] = h]
    /\ UNCHANGED attempts

Credit(h) == credits' = [credits EXCEPT ![h] = @ + 1]

-----------------------------------------------------------------------------
(* submitDeposit                                                           *)

\* Any row of the player's with this hash ends the request, failed ones too.
BeginSubmit(r, h) ==
  /\ req[r].pc = "idle"
  /\ Of(Lower[h]) = {}
  /\ req' = [req EXCEPT ![r] = [pc |-> "insert", hash |-> Lower[h]]]
  /\ UNCHANGED <<chain, linked, rows, lastScannedBlock, ver, call, sync, history>>

InsertSubmitted(r) ==
  /\ req[r].pc = "insert"
  /\ CreateRow(req[r].hash, "pending_verification")
  /\ req' = [req EXCEPT ![r] = IdleReq]
  /\ UNCHANGED <<chain, linked, lastScannedBlock, ver, call, sync, history>>

FailSubmit(r) ==
  /\ req[r].pc = "insert"
  /\ req' = [req EXCEPT ![r] = IdleReq]
  /\ UNCHANGED <<chain, linked, rows, lastScannedBlock, ver, call, sync, history>>

-----------------------------------------------------------------------------
(* verifyOnePendingDeposit                                                 *)

Verifying(h) == {v \in Verifiers : ver[v].pc # "idle" /\ hashOf[ver[v].row] = h}
Creating(h) == {c \in Creators : call[c].pc = "create" /\ call[c].hash = h}

Expired(n) == n > MaxAttempts

\* runDepositVerifier reads the pending rows and verifies them all at once.
BeginVerify(v, w) ==
  /\ ver[v].pc = "idle"
  /\ status[w] = "pending_verification"
  /\ ver' = [ver EXCEPT ![v] = [pc |-> IF Expired(attempts[w] + 1) THEN "fail" ELSE "examine",
                                row |-> w, attempts |-> attempts[w] + 1]]
  /\ overlapped' = IF Verifying(hashOf[w]) # {} \/ Creating(hashOf[w]) # {}
                     THEN overlapped \cup {hashOf[w]} ELSE overlapped
  /\ UNCHANGED <<chain, linked, rows, lastScannedBlock, req, call, sync, restarted, credits,
                 excused>>

Go(v, pc) == ver' = [ver EXCEPT ![v].pc = pc]

\* Status, destination and event of the receipt, and the player's wallet.
Rejected(h) == kind[h] = "invalid" \/ (kind[h] = "contract" /\ ~linked)

\* The receipt, the transaction and, for the contract, the player's wallet.
\* No answer, no receipt yet or an error: try again later.
Examine(v) ==
  /\ ver[v].pc = "examine"
  /\ LET h == hashOf[ver[v].row]
     IN  \/ IsMined(h) /\ Go(v, IF Rejected(h) THEN "fail" ELSE "depth")
         \/ Go(v, "retry")
  /\ UNCHANGED <<chain, linked, rows, lastScannedBlock, req, call, sync, history>>

\* mutant: the look-up for a completed row is left out
NoLookUp(w) == FALSE

Duplicate(w) == Completed(hashOf[w]) \ {w} # {}

\* Depth and amount, then the look-up for a completed row of the same hash.
\* Too early or an error: try again later.
FindDuplicate(v) ==
  /\ ver[v].pc = "depth"
  /\ LET w == ver[v].row
         h == hashOf[w]
     IN  \/ Confirmed(h) /\ Go(v, IF kind[h] = "small" \/ Duplicate(w) THEN "fail" ELSE "credit")
         \/ Go(v, "retry")
  /\ UNCHANGED <<chain, linked, rows, lastScannedBlock, req, call, sync, history>>

\* mutant: the attempt is not counted
Uncounted(v) == attempts

Counted(v) == [attempts EXCEPT ![ver[v].row] = ver[v].attempts]

Settle(v, s) ==
  /\ status' = [status EXCEPT ![ver[v].row] = s]
  /\ attempts' = Counted(v)
  /\ ver' = [ver EXCEPT ![v] = IdleVer]
  /\ UNCHANGED hashOf

\* By id, whatever the row has become.
CommitCredit(v) ==
  /\ ver[v].pc = "credit"
  /\ Settle(v, "completed")
  /\ Credit(hashOf[ver[v].row])
  /\ UNCHANGED <<chain, linked, lastScannedBlock, req, call, sync, restarted, overlapped, excused>>

WriteFailed(v) ==
  /\ ver[v].pc = "fail"
  /\ Settle(v, "failed")
  /\ UNCHANGED <<chain, linked, lastScannedBlock, req, call, sync, history>>

WriteAttempts(v) ==
  /\ ver[v].pc = "retry"
  /\ attempts' = Counted(v)
  /\ ver' = [ver EXCEPT ![v] = IdleVer]
  /\ UNCHANGED <<chain, linked, status, hashOf, lastScannedBlock, req, call, sync, history>>

\* The database refuses the write: the catch counts the attempt, and gives
\* up if that fails as well.  The timeout is written outside of it.
FailVerify(v) ==
  /\ \/ /\ ver[v].pc \in {"credit", "fail"} /\ ~Expired(ver[v].attempts)
        /\ Go(v, "retry")
     \/ /\ ver[v].pc = "retry" \/ (ver[v].pc = "fail" /\ Expired(ver[v].attempts))
        /\ ver' = [ver EXCEPT ![v] = IdleVer]
  /\ UNCHANGED <<chain, linked, rows, lastScannedBlock, req, call, sync, history>>

-----------------------------------------------------------------------------
(* createDepositRequest, for the wallet scan and for requestDeposit        *)

Call(c, pc, h) == call' = [call EXCEPT ![c] = [pc |-> pc, hash |-> h]]

Payable(h) == IsMined(h) /\ kind[h] \in {"treasury", "small"}

\* scanForNewDeposits: a successful transfer to a monitored wallet, from the
\* player's, whose hash the explorer writes in lower case.
ScanPick(c, h) ==
  /\ c = Scanner /\ call[c].pc = "idle"
  /\ Payable(h) /\ linked
  /\ Of(h) = {}
  /\ Call(c, "check", h)
  /\ UNCHANGED <<chain, linked, rows, lastScannedBlock, req, ver, sync, history>>

\* requestDeposit: any hash the player writes, with an amount of his.
RequestDeposit(c, h) ==
  /\ c # Scanner /\ call[c].pc = "idle"
  /\ Call(c, "check", h)
  /\ UNCHANGED <<chain, linked, rows, lastScannedBlock, req, ver, sync, history>>

\* createDepositRequest looks for the hash in its transaction.
CheckCall(c) ==
  /\ call[c].pc = "check"
  /\ LET h == call[c].hash
     IN  IF Of(h) = {}
           THEN /\ Call(c, "create", h)
                /\ overlapped' = IF Creating(h) # {} THEN overlapped \cup {h} ELSE overlapped
           ELSE /\ call' = [call EXCEPT ![c] = IdleCall]
                /\ UNCHANGED overlapped
  /\ UNCHANGED <<chain, linked, rows, lastScannedBlock, req, ver, sync, restarted, credits, excused>>

\* mutant: the row is left to be verified
CreatedPending == "pending_verification"

CreatedStatus == "completed"

\* The transfer succeeded, went to the deposit address and is worth the amount,
\* less a tolerance that lets one just below the minimum pass.
CreateCall(c) ==
  /\ call[c].pc = "create"
  /\ Payable(call[c].hash)
  /\ CreateRow(call[c].hash, CreatedStatus)
  /\ Credit(call[c].hash)
  /\ call' = [call EXCEPT ![c] = IdleCall]
  /\ UNCHANGED <<chain, linked, lastScannedBlock, req, ver, sync, restarted, overlapped, excused>>

\* The chain does not confirm it or the transaction times out.
FailCall(c) ==
  /\ call[c].pc # "idle"
  /\ call' = [call EXCEPT ![c] = IdleCall]
  /\ UNCHANGED <<chain, linked, rows, lastScannedBlock, req, ver, sync, history>>

-----------------------------------------------------------------------------
(* runContractDepositSyncOnce                                              *)

Events(from, to) == {h \in Transfers : kind[h] = "contract" /\ mined[h] \in from .. to /\ IsMined(h)}

FirstBlock(latest) ==
  IF lastScannedBlock # None THEN lastScannedBlock + 1
  ELSE IF latest > Lookback THEN latest - Lookback + 1
  ELSE 0

\* getBlockNumber (a node may lag behind the head) and getLogs.  What lies
\* before the first scan's look-back is let go.
BeginSync(s) ==
  /\ sync[s].pc = "idle"
  /\ \E latest \in 1 .. head :
       LET from == FirstBlock(latest)
       IN  /\ IF from > latest
                THEN lastScannedBlock' = latest /\ UNCHANGED sync
                ELSE /\ sync' = [sync EXCEPT ![s] = [pc |-> "next", todo |-> Events(from, latest),
                                                     hash |-> NoHash, latest |-> latest]]
                     /\ UNCHANGED lastScannedBlock
           /\ excused' = IF lastScannedBlock = None THEN excused \cup Events(0, from - 1)
                                                    ELSE excused
  /\ UNCHANGED <<chain, linked, rows, req, ver, call, restarted, credits, overlapped>>

Done(s) == [sync[s] EXCEPT !.pc = "next", !.todo = @ \ {sync[s].hash}, !.hash = NoHash]

\* The player's wallet.  An event of a wallet that is not linked is let go.
SyncPick(s) ==
  /\ sync[s].pc = "next"
  /\ \E h \in sync[s].todo :
       IF linked
         THEN /\ sync' = [sync EXCEPT ![s].pc = "look", ![s].hash = h]
              /\ UNCHANGED excused
         ELSE /\ sync' = [sync EXCEPT ![s].todo = @ \ {h}]
              /\ excused' = excused \cup {h}
  /\ UNCHANGED <<chain, linked, rows, lastScannedBlock, req, ver, call, restarted, credits,
                 overlapped>>

SyncLook(s) ==
  /\ sync[s].pc = "look"
  /\ sync' = [sync EXCEPT ![s] = IF Of(sync[s].hash) = {} THEN [@ EXCEPT !.pc = "insert"]
                                                          ELSE Done(s)]
  /\ UNCHANGED <<chain, linked, rows, lastScannedBlock, req, ver, call, history>>

SyncInsert(s) ==
  /\ sync[s].pc = "insert"
  /\ CreateRow(sync[s].hash, "pending_verification")
  /\ sync' = [sync EXCEPT ![s] = Done(s)]
  /\ UNCHANGED <<chain, linked, lastScannedBlock, req, ver, call, history>>

\* "Contract deposit sync insert failed": logged, and let go.
SyncInsertFails(s) ==
  /\ sync[s].pc = "insert"
  /\ sync' = [sync EXCEPT ![s] = Done(s)]
  /\ excused' = excused \cup {sync[s].hash}
  /\ UNCHANGED <<chain, linked, rows, lastScannedBlock, req, ver, call, restarted, credits,
                 overlapped>>

\* mutant: the height is read again at the end
ReadAgain(s) == head

ScannedTo(s) == sync[s].latest

EndSync(s) ==
  /\ sync[s].pc = "next" /\ sync[s].todo = {}
  /\ lastScannedBlock' = ScannedTo(s)
  /\ sync' = [sync EXCEPT ![s] = IdleSync]
  /\ UNCHANGED <<chain, linked, rows, req, ver, call, history>>

\* Any other error leaves lastScannedBlock as it was.
FailSync(s) ==
  /\ sync[s].pc # "idle"
  /\ sync' = [sync EXCEPT ![s] = IdleSync]
  /\ UNCHANGED <<chain, linked, rows, lastScannedBlock, req, ver, call, history>>

-----------------------------------------------------------------------------
\* What is in memory is gone.
Restart ==
  /\ MayRestart /\ ~restarted /\ restarted' = TRUE
  /\ req' = [r \in Requests |-> IdleReq]
  /\ ver' = [v \in Verifiers |-> IdleVer]
  /\ call' = [c \in Creators |-> IdleCall]
  /\ sync' = [s \in Syncs |-> IdleSync]
  /\ lastScannedBlock' = None
  /\ UNCHANGED <<chain, linked, rows, credits, overlapped, excused>>

Submit(r) == (\E h \in Hashes : BeginSubmit(r, h)) \/ InsertSubmitted(r) \/ FailSubmit(r)

VerifyStep(v) ==
  Examine(v) \/ FindDuplicate(v) \/ CommitCredit(v) \/ WriteFailed(v) \/ WriteAttempts(v)
  \/ FailVerify(v)

Create(c) ==
  \/ \E h \in Transfers : ScanPick(c, h)
  \/ \E h \in Hashes : RequestDeposit(c, h)
  \/ CheckCall(c) \/ CreateCall(c) \/ FailCall(c)

Sync(s) ==
  BeginSync(s) \/ SyncPick(s) \/ SyncLook(s) \/ SyncInsert(s) \/ SyncInsertFails(s)
  \/ EndSync(s) \/ FailSync(s)

Next ==
  \/ \E S \in SUBSET {h \in Hashes : ~IsMined(h)} : Mine(S)
  \/ saveWalletAddress
  \/ \E r \in Requests : Submit(r)
  \/ \E v \in Verifiers : VerifyStep(v) \/ \E w \in Rows : BeginVerify(v, w)
  \/ \E c \in Creators : Create(c)
  \/ \E s \in Syncs : Sync(s)
  \/ Restart

Spec == Init /\ [][Next]_vars

\* The timer starts a verification of every pending row, each call runs to
\* its end, and a write that is tried again and again goes through.
Fairness ==
  /\ \A w \in Rows : SF_vars(\E v \in Verifiers : BeginVerify(v, w))
  /\ \A v \in Verifiers :
       WF_vars(VerifyStep(v)) /\ SF_vars(WriteFailed(v)) /\ SF_vars(WriteAttempts(v))

FairSpec == Spec /\ Fairness

-----------------------------------------------------------------------------
\* Every column, counter and handler's record holds a value of its type.
TypeOK ==
  /\ kind \in [Hashes -> Kinds]
  /\ mined \in [Hashes -> 0 .. head] /\ head \in Nat
  /\ linked \in BOOLEAN /\ restarted \in BOOLEAN
  /\ status \in [Rows -> Statuses]
  /\ hashOf \in [Rows -> Hashes \cup {NoHash}]
  /\ attempts \in [Rows -> 0 .. MaxAttempts + 1]
  /\ lastScannedBlock \in Nat \cup {None}
  /\ req \in [Requests -> [pc : {"idle", "insert"}, hash : Hashes \cup {NoHash}]]
  /\ ver \in [Verifiers -> [pc : {"idle", "examine", "depth", "credit", "fail", "retry"},
                            row : Rows \cup {0}, attempts : 0 .. MaxAttempts + 1]]
  /\ call \in [Creators -> [pc : {"idle", "check", "create"}, hash : Hashes \cup {NoHash}]]
  /\ sync \in [Syncs -> [pc : {"idle", "next", "look", "insert"}, todo : SUBSET Hashes,
                         hash : Hashes \cup {NoHash}, latest : Nat]]
  /\ credits \in [Hashes -> Nat]
  /\ overlapped \subseteq Hashes /\ excused \subseteq Hashes

\* Only a transfer that is on the chain is credited, and one to the contract
\* only at the required depth, however late or stale the verification is.
CreditsReal ==
  \A h \in Hashes : credits[h] > 0 =>
    /\ IsMined(h) /\ kind[h] # "invalid"
    /\ kind[h] = "contract" => head >= mined[h] + Confirmations - 1

\* "Anti-double-spend": though a submission, the event scan and any number of
\* calls of createDepositRequest may each make a row of it, a hash as it is
\* written is credited once, unless two verifications of it, two creations, or
\* one of each overlap.  To the code, two spellings are two hashes.
CreditedOnce == \A h \in Hashes \ overlapped : credits[h] <= 1

\* With the same proviso, the player sees a completed deposit if and only if
\* the hash was credited.
StatusTruthful == \A h \in Hashes \ overlapped : credits[h] > 0 <=> Completed(h) # {}

\* The event scan's height covers no deposit without a row, unless it was
\* let go: too old at the first scan, not linked, or the insert failed.
CursorHonest ==
  \A h \in Transfers :
    kind[h] = "contract" /\ IsMined(h) /\ mined[h] <= lastScannedBlock
      => Of(h) # {} \/ h \in excused

\* depositVerifier.js: "Anti-double-spend: verifica se este txHash ja foi
\* creditado".  Without the proviso.
AntiDoubleSpend == \A h \in Hashes : credits[h] <= 1

\* A pending deposit is completed or failed in the end, however often the
\* node does not answer.
PendingResolves ==
  \A w \in Rows : status[w] = "pending_verification" ~> status[w] # "pending_verification"

=============================================================================
