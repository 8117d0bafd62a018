--------------------------- MODULE Deposits_proofs ---------------------------
(***************************************************************************)
(* Type correctness and the safety invariants of Deposits and of the       *)
(* tickets beside it, for any number of hashes, rows, submissions, calls   *)
(* of createDepositRequest, verifications, event scans, tickets and        *)
(* handlers, and whichever hashes name one transfer.                       *)
(*                                                                         *)
(* Named says that what a handler has under way is a row or a hash that    *)
(* exists; Seen, what a verification has seen of the chain, which never    *)
(* shrinks; Single, that a hash not handled twice at a time has one        *)
(* verification at most, whose row is still pending, or one creation and   *)
(* no completed row; Pursued, that what a scan has yet to do is all that   *)
(* its range still owes.                                                   *)
(***************************************************************************)
EXTENDS DepositTickets, FiniteSetTheorems, TLAPS

\* The transfer of a verification in progress.
VerHash(v) == hashOf[ver[v].row]

\* A row that may still be verified has attempts left.
RowsNamed ==
  /\ \A w \in Rows : status[w] = "none" <=> hashOf[w] = NoHash
  /\ \A w \in Rows : status[w] \in {"none", "pending_verification"} => attempts[w] <= MaxAttempts

Named ==
  /\ RowsNamed
  /\ \A r \in Requests : req[r].pc # "idle" => req[r].hash \in Hashes
  /\ \A v \in Verifiers : ver[v].pc # "idle" =>
       /\ ver[v].row \in Rows /\ status[ver[v].row] # "none"
       /\ ver[v].pc # "fail" => ver[v].attempts <= MaxAttempts
  /\ \A c \in Creators : call[c].pc # "idle" => call[c].hash \in Hashes
  /\ \A s \in Syncs : sync[s].pc \in {"look", "insert"} => sync[s].hash \in Hashes

Shape == TypeOK /\ Named

\* No step removes or renames a row.
RowsKept == \A w \in Rows : status[w] # "none" => status'[w] # "none" /\ hashOf'[w] = hashOf[w]

\* No step unmines or changes a transfer.
ChainKept ==
  /\ kind' = kind /\ head' \in Nat /\ head' >= head
  /\ \A h \in Hashes : IsMined(h) => mined'[h] = mined[h]

-----------------------------------------------------------------------------
(* Type correctness *)

LEMMA TransfersAreHashes == Transfers \subseteq Hashes
  BY LowerAssumption DEF Transfers

LEMMA InitShape == Init => Shape
  <1> SUFFICES ASSUME Init PROVE Shape
    OBVIOUS
  <1>1. hashOf \in [Rows -> Hashes \cup {NoHash}] /\ attempts \in [Rows -> 0 .. MaxAttempts + 1]
    BY SettingAssumption DEF Init
  <1>2. req \in [Requests -> [pc : {"idle", "insert"}, hash : Hashes \cup {NoHash}]]
    BY DEF Init, IdleReq
  <1>3. ver \in [Verifiers -> [pc : {"idle", "examine", "depth", "credit", "fail", "retry"},
                               row : Rows \cup {0}, attempts : 0 .. MaxAttempts + 1]]
    BY SettingAssumption DEF Init, IdleVer
  <1>4. call \in [Creators -> [pc : {"idle", "check", "create"}, hash : Hashes \cup {NoHash}]]
    BY DEF Init, IdleCall
  <1>5. sync \in [Syncs -> [pc : {"idle", "next", "look", "insert"}, todo : SUBSET Hashes,
                            hash : Hashes \cup {NoHash}, latest : Nat]]
    BY DEF Init, IdleSync
  <1>a. kind \in [Hashes -> Kinds] /\ mined \in [Hashes -> 0 .. head] /\ head \in Nat
    BY DEF Init
  <1>b. linked \in BOOLEAN /\ restarted \in BOOLEAN
    BY DEF Init
  <1>c. status \in [Rows -> Statuses] /\ lastScannedBlock \in Nat \cup {None}
    BY DEF Init, Statuses
  <1>d. credits \in [Hashes -> Nat] /\ overlapped \subseteq Hashes /\ excused \subseteq Hashes
    BY DEF Init
  <1>6. TypeOK
    BY <1>1, <1>2, <1>3, <1>4, <1>5, <1>a, <1>b, <1>c, <1>d DEF TypeOK
  <1>7. Named
    BY SettingAssumption DEF Init, Named, RowsNamed, IdleReq, IdleVer, IdleCall, IdleSync
  <1> QED BY <1>6, <1>7 DEF Shape

\* A new row takes an unused place; the others stay as they are.
LEMMA CreateRowStep ==
  ASSUME Shape, NEW h \in Hashes, NEW s \in Statuses \ {"none"}, CreateRow(h, s)
  PROVE  /\ status' \in [Rows -> Statuses] /\ hashOf' \in [Rows -> Hashes \cup {NoHash}]
         /\ attempts' = attempts
         /\ \E w \in Rows : /\ status[w] = "none" /\ status'[w] = s /\ hashOf'[w] = h
                            /\ \A x \in Rows \ {w} : status'[x] = status[x]
                                                     /\ hashOf'[x] = hashOf[x]
  <1>1. PICK w \in Rows : /\ status[w] = "none"
                          /\ status' = [status EXCEPT ![w] = s]
                          /\ hashOf' = [hashOf EXCEPT ![w] = h]
                          /\ UNCHANGED attempts
    BY DEF CreateRow
  <1>2. status \in [Rows -> Statuses] /\ hashOf \in [Rows -> Hashes \cup {NoHash}]
    BY DEF Shape, TypeOK
  <1> QED BY <1>1, <1>2

LEMMA CreateRowNamed ==
  ASSUME Shape, NEW h \in Hashes, NEW s \in Statuses \ {"none"}, CreateRow(h, s)
  PROVE  RowsKept /\ RowsNamed'
  <1>1. PICK w \in Rows : /\ status[w] = "none" /\ status'[w] = s /\ hashOf'[w] = h
                          /\ \A x \in Rows \ {w} : status'[x] = status[x]
                                                   /\ hashOf'[x] = hashOf[x]
    BY CreateRowStep
  <1>2. attempts' = attempts
    BY CreateRowStep
  <1> QED BY <1>1, <1>2, HashAssumption DEF RowsKept, Shape, Named, RowsNamed

\* The verification's row gets its status, which is never "none".
LEMMA SettleStep ==
  ASSUME Shape, NEW v \in Verifiers, ver[v].pc # "idle", NEW s \in Statuses \ {"none"},
         Settle(v, s)
  PROVE  /\ status' \in [Rows -> Statuses] /\ hashOf' = hashOf
         /\ attempts' \in [Rows -> 0 .. MaxAttempts + 1]
         /\ status'[ver[v].row] = s
         /\ \A x \in Rows \ {ver[v].row} : status'[x] = status[x] /\ attempts'[x] = attempts[x]
         /\ RowsKept
  <1>1. ver[v].row \in Rows /\ status[ver[v].row] # "none"
    BY DEF Shape, Named
  <1>2. status \in [Rows -> Statuses] /\ attempts \in [Rows -> 0 .. MaxAttempts + 1]
    BY DEF Shape, TypeOK
  <1>3. ver[v].attempts \in 0 .. MaxAttempts + 1
    BY DEF Shape, TypeOK
  <1> QED BY <1>1, <1>2, <1>3 DEF Settle, Counted, RowsKept

LEMMA ChainShape ==
  ASSUME Shape, (\E S \in SUBSET {h \in Hashes : ~IsMined(h)} : Mine(S)) \/ saveWalletAddress
  PROVE  Shape' /\ RowsKept /\ ChainKept
  <1>1. CASE \E S \in SUBSET {h \in Hashes : ~IsMined(h)} : Mine(S)
    <2>1. PICK S \in SUBSET {h \in Hashes : ~IsMined(h)} : Mine(S)
      BY <1>1
    <2>2. head \in Nat /\ mined \in [Hashes -> 0 .. head]
      BY DEF Shape, TypeOK
    <2>3. head' = head + 1 /\ mined' \in [Hashes -> 0 .. head']
      BY <2>1, <2>2 DEF Mine
    <2>4. \A h \in Hashes : IsMined(h) => mined'[h] = mined[h]
      BY <2>1, <2>2 DEF Mine
    <2>5. ChainKept
      BY <2>1, <2>2, <2>3, <2>4 DEF Mine, ChainKept
    <2>6. RowsKept
      BY <2>1 DEF Mine, RowsKept, rows
    <2>7. TypeOK'
      BY <2>1, <2>3 DEF Mine, Shape, TypeOK, rows, history
    <2>8. Named'
      BY <2>1, <2>4 DEF Mine, Shape, TypeOK, Named, RowsNamed, IsMined, rows, history
    <2> QED BY <2>5, <2>6, <2>7, <2>8 DEF Shape
  <1>2. CASE saveWalletAddress
    <2>1. ChainKept /\ RowsKept
      BY <1>2 DEF saveWalletAddress, Shape, TypeOK, ChainKept, RowsKept, chain, rows
    <2>2. TypeOK'
      BY <1>2 DEF saveWalletAddress, Shape, TypeOK, chain, rows, history
    <2>3. Named'
      BY <1>2 DEF saveWalletAddress, Shape, Named, RowsNamed, IsMined, chain, rows, history
    <2> QED BY <2>1, <2>2, <2>3 DEF Shape
  <1> QED BY <1>1, <1>2
LEMMA SubmitShape ==
  ASSUME Shape, NEW r \in Requests, Submit(r)
  PROVE  Shape' /\ RowsKept /\ ChainKept
  <1> USE DEF Shape, TypeOK
  <1>1. CASE \E h \in Hashes : BeginSubmit(r, h)
    BY <1>1, LowerAssumption DEF BeginSubmit, Named, RowsNamed, RowsKept, ChainKept, IsMined, chain, rows, history
  <1>2. CASE InsertSubmitted(r)
    <2>1. req[r].hash \in Hashes
      BY <1>2 DEF InsertSubmitted, Named
    <2>2. CreateRow(req[r].hash, "pending_verification")
      BY <1>2 DEF InsertSubmitted
    <2>3. "pending_verification" \in Statuses \ {"none"}
      BY DEF Statuses
    <2>4. /\ status' \in [Rows -> Statuses] /\ hashOf' \in [Rows -> Hashes \cup {NoHash}]
          /\ attempts' = attempts
      BY <2>1, <2>2, <2>3, CreateRowStep
    <2>5. RowsKept /\ RowsNamed'
      BY <2>1, <2>2, <2>3, CreateRowNamed
    <2>6. req' = [req EXCEPT ![r] = IdleReq]
      BY <1>2 DEF InsertSubmitted
    <2>7. TypeOK'
      BY <1>2, <2>4, <2>6 DEF InsertSubmitted, chain, history, IdleReq
    <2>8. Named'
      BY <1>2, <2>5, <2>6 DEF InsertSubmitted, chain, history, IdleReq, Named, RowsNamed, IsMined, RowsKept
    <2> QED BY <1>2, <2>5, <2>7, <2>8 DEF InsertSubmitted, ChainKept, chain
  <1>3. CASE FailSubmit(r)
    BY <1>3 DEF FailSubmit, Named, RowsNamed, RowsKept, ChainKept, IsMined, chain, rows, history, IdleReq
  <1> QED BY <1>1, <1>2, <1>3 DEF Submit

\* A step that moves a verification and no row.
LEMMA VerOnly ==
  ASSUME Shape, NEW v \in Verifiers, ver[v].pc # "idle",
         NEW pc \in {"examine", "depth", "credit", "fail", "retry"},
         Go(v, pc), pc # "fail" => ver[v].attempts <= MaxAttempts,
         UNCHANGED <<chain, linked, rows, lastScannedBlock, req, call, sync, history>>
  PROVE  Shape' /\ RowsKept /\ ChainKept
  <1>1. ver' \in [Verifiers -> [pc : {"idle", "examine", "depth", "credit", "fail", "retry"},
                                row : Rows \cup {0}, attempts : 0 .. MaxAttempts + 1]]
    <2>1. ver \in [Verifiers -> [pc : {"idle", "examine", "depth", "credit", "fail", "retry"},
                                 row : Rows \cup {0}, attempts : 0 .. MaxAttempts + 1]]
      BY DEF Shape, TypeOK
    <2> QED BY <2>1 DEF Go
  <1>2. TypeOK'
    BY <1>1 DEF Shape, TypeOK, chain, rows, history
  <1>3. \A u \in Verifiers : /\ ver'[u].row = ver[u].row /\ ver'[u].attempts = ver[u].attempts
                             /\ ver'[u].pc = IF u = v THEN pc ELSE ver[u].pc
    BY DEF Go, Shape, TypeOK
  <1>4. \A u \in Verifiers : ver'[u].pc # "idle" =>
          /\ ver'[u].row \in Rows /\ status[ver'[u].row] # "none"
          /\ ver'[u].pc # "fail" => ver'[u].attempts <= MaxAttempts
    BY <1>3 DEF Shape, Named
  <1>5. Named'
    BY <1>4 DEF Shape, Named, RowsNamed, IsMined, chain, rows, history
  <1> QED BY <1>2, <1>5 DEF Shape, TypeOK, RowsKept, ChainKept, chain, rows

\* A verification ends.
LEMMA VerEnds ==
  ASSUME Shape, NEW v \in Verifiers, ver' = [ver EXCEPT ![v] = IdleVer]
  PROVE  /\ ver' \in [Verifiers -> [pc : {"idle", "examine", "depth", "credit", "fail", "retry"},
                                    row : Rows \cup {0}, attempts : 0 .. MaxAttempts + 1]]
         /\ \A u \in Verifiers : ver'[u].pc # "idle" => u # v /\ ver'[u] = ver[u]
  BY SettingAssumption DEF Shape, TypeOK, IdleVer

LEMMA VerifyShape ==
  ASSUME Shape, NEW v \in Verifiers, VerifyStep(v)
  PROVE  Shape' /\ RowsKept /\ ChainKept
  <1>0. ver[v].pc \notin {"idle", "fail"} => ver[v].attempts <= MaxAttempts
    BY DEF Shape, Named
  <1>1. CASE Examine(v)
    BY <1>0, <1>1, VerOnly DEF Examine
  <1>2. CASE FindDuplicate(v)
    BY <1>0, <1>2, VerOnly DEF FindDuplicate
  <1>3. CASE CommitCredit(v) \/ WriteFailed(v)
    <2>1. PICK s \in {"completed", "failed"} : Settle(v, s) /\ ver[v].pc # "idle"
      BY <1>3 DEF CommitCredit, WriteFailed
    <2>2. s \in Statuses \ {"none"}
      BY DEF Statuses
    <2>3. /\ status' \in [Rows -> Statuses] /\ hashOf' = hashOf
          /\ attempts' \in [Rows -> 0 .. MaxAttempts + 1]
          /\ RowsKept
      BY <2>1, <2>2, SettleStep
    <2>4. RowsNamed'
      BY <2>1, <2>2, SettleStep DEF Shape, Named, RowsNamed
    <2>5. /\ ver' \in [Verifiers -> [pc : {"idle", "examine", "depth", "credit", "fail", "retry"},
                                    row : Rows \cup {0}, attempts : 0 .. MaxAttempts + 1]]
          /\ \A u \in Verifiers : ver'[u].pc # "idle" => u # v /\ ver'[u] = ver[u]
      BY <2>1, VerEnds DEF Settle
    <2>6. /\ UNCHANGED <<chain, linked, lastScannedBlock, req, call, sync, restarted, overlapped,
                         excused>>
          /\ credits' \in [Hashes -> Nat]
      BY <1>3 DEF CommitCredit, WriteFailed, Credit, Shape, TypeOK, history
    <2>7. TypeOK'
      BY <2>3, <2>5, <2>6 DEF Shape, TypeOK, chain
    <2>8. Named'
      BY <2>3, <2>4, <2>5, <2>6 DEF Shape, Named, RowsNamed, RowsKept, IsMined, chain
    <2> QED BY <2>3, <2>6, <2>7, <2>8 DEF Shape, TypeOK, ChainKept, chain
  <1>4. CASE WriteAttempts(v)
    <2>1. attempts' \in [Rows -> 0 .. MaxAttempts + 1]
      BY <1>4 DEF WriteAttempts, Counted, Shape, TypeOK
    <2>2. /\ ver' \in [Verifiers -> [pc : {"idle", "examine", "depth", "credit", "fail", "retry"},
                                    row : Rows \cup {0}, attempts : 0 .. MaxAttempts + 1]]
          /\ \A u \in Verifiers : ver'[u].pc # "idle" => u # v /\ ver'[u] = ver[u]
      BY <1>4, VerEnds DEF WriteAttempts
    <2>3. TypeOK'
      BY <1>4, <2>1, <2>2 DEF WriteAttempts, Shape, TypeOK, chain, history
    <2>4. RowsNamed'
      BY <1>0, <1>4 DEF WriteAttempts, Counted, Shape, TypeOK, Named, RowsNamed
    <2>5. Named'
      BY <1>4, <2>2, <2>4 DEF WriteAttempts, Shape, Named, IsMined, chain, history
    <2> QED BY <1>4, <2>3, <2>5 DEF WriteAttempts, Shape, TypeOK, RowsKept, ChainKept, chain
  <1>5. CASE FailVerify(v)
    <2>1. CASE /\ ver[v].pc \in {"credit", "fail"} /\ ~Expired(ver[v].attempts)
               /\ Go(v, "retry")
      <3>1. ver[v].attempts <= MaxAttempts
        BY <2>1, SettingAssumption DEF Expired, Shape, TypeOK
      <3> QED BY <1>5, <2>1, <3>1, VerOnly DEF FailVerify
    <2>2. CASE ver' = [ver EXCEPT ![v] = IdleVer]
      <3>1. /\ ver' \in [Verifiers -> [pc : {"idle", "examine", "depth", "credit", "fail", "retry"},
                                      row : Rows \cup {0}, attempts : 0 .. MaxAttempts + 1]]
            /\ \A u \in Verifiers : ver'[u].pc # "idle" => u # v /\ ver'[u] = ver[u]
        BY <2>2, VerEnds
      <3>2. TypeOK'
        BY <1>5, <3>1 DEF FailVerify, Shape, TypeOK, chain, rows, history
      <3>3. Named'
        BY <1>5, <3>1 DEF FailVerify, Shape, Named, RowsNamed, IsMined, chain, rows, history
      <3> QED BY <1>5, <3>2, <3>3 DEF FailVerify, Shape, TypeOK, RowsKept, ChainKept, chain, rows
    <2> QED BY <1>5, <2>1, <2>2 DEF FailVerify
  <1> QED BY <1>1, <1>2, <1>3, <1>4, <1>5 DEF VerifyStep

LEMMA BeginVerifyShape ==
  ASSUME Shape, NEW v \in Verifiers, NEW w \in Rows, BeginVerify(v, w)
  PROVE  Shape' /\ RowsKept /\ ChainKept
  <1>1. status[w] # "none" /\ hashOf[w] \in Hashes
    BY DEF BeginVerify, Shape, TypeOK, Named, RowsNamed
  <1>3. attempts[w] + 1 \in 0 .. MaxAttempts + 1
    <2>1. attempts[w] \in 0 .. MaxAttempts + 1
      BY DEF Shape, TypeOK
    <2>2. attempts[w] <= MaxAttempts
      BY DEF BeginVerify, Shape, Named, RowsNamed
    <2> QED BY <2>1, <2>2, SettingAssumption
  <1>4. ver' \in [Verifiers -> [pc : {"idle", "examine", "depth", "credit", "fail", "retry"},
                                row : Rows \cup {0}, attempts : 0 .. MaxAttempts + 1]]
    BY <1>3 DEF BeginVerify, Shape, TypeOK
  <1>5. overlapped' \subseteq Hashes
    BY <1>1 DEF BeginVerify, Shape, TypeOK
  <1>6. TypeOK'
    BY <1>4, <1>5 DEF BeginVerify, Shape, TypeOK, chain, rows
  <1>7. \A u \in Verifiers : ver'[u].pc # "idle" =>
          /\ ver'[u].row \in Rows /\ status[ver'[u].row] # "none"
          /\ ver'[u].pc # "fail" => ver'[u].attempts <= MaxAttempts
    <2> TAKE u \in Verifiers
    <2>1. CASE u = v
      <3>1. ver'[v] = [pc |-> IF Expired(attempts[w] + 1) THEN "fail" ELSE "examine",
                       row |-> w, attempts |-> attempts[w] + 1]
        BY DEF BeginVerify, Shape, TypeOK
      <3>2. CASE Expired(attempts[w] + 1)
        BY <1>1, <2>1, <3>1, <3>2
      <3>3. CASE ~Expired(attempts[w] + 1)
        <4>1. attempts[w] + 1 <= MaxAttempts
          BY <1>3, <3>3, SettingAssumption DEF Expired
        <4> QED BY <1>1, <2>1, <3>1, <4>1
      <3> QED BY <3>2, <3>3
    <2>2. CASE u # v
      BY <2>2 DEF BeginVerify, Shape, TypeOK, Named
    <2> QED BY <2>1, <2>2
  <1>8. Named'
    BY <1>7 DEF BeginVerify, Shape, Named, RowsNamed, IsMined, chain, rows
  <1> QED BY <1>6, <1>8 DEF BeginVerify, Shape, TypeOK, RowsKept, ChainKept, chain, rows

\* A call moves; the others stay where they are.
LEMMA CallMoves ==
  ASSUME Shape, NEW c \in Creators, NEW r \in [pc : {"idle", "check", "create"}, hash : Hashes \cup {NoHash}],
         r.pc # "idle" => r.hash \in Hashes,
         call' = [call EXCEPT ![c] = r]
  PROVE  /\ call' \in [Creators -> [pc : {"idle", "check", "create"}, hash : Hashes \cup {NoHash}]]
         /\ \A d \in Creators : call'[d].pc # "idle" => call'[d].hash \in Hashes
         /\ call'[c] = r /\ \A d \in Creators \ {c} : call'[d] = call[d]
  BY DEF Shape, TypeOK, Named

\* A step that moves a call and no row.
LEMMA CallOnly ==
  ASSUME Shape, NEW c \in Creators, NEW r \in [pc : {"idle", "check", "create"}, hash : Hashes \cup {NoHash}],
         r.pc # "idle" => r.hash \in Hashes,
         call' = [call EXCEPT ![c] = r], overlapped' \subseteq Hashes,
         UNCHANGED <<chain, linked, rows, lastScannedBlock, req, ver, sync, restarted, credits, excused>>
  PROVE  Shape' /\ RowsKept /\ ChainKept
  <1>1. TypeOK'
    BY CallMoves DEF Shape, TypeOK, chain, rows
  <1>2. Named'
    BY CallMoves DEF Shape, Named, RowsNamed, rows
  <1> QED BY <1>1, <1>2 DEF Shape, TypeOK, RowsKept, ChainKept, chain, rows

LEMMA IdleCallType ==
  IdleCall \in [pc : {"idle", "check", "create"}, hash : Hashes \cup {NoHash}] /\ IdleCall.pc = "idle"
  BY DEF IdleCall

LEMMA CreateShape ==
  ASSUME Shape, NEW c \in Creators, Create(c)
  PROVE  Shape' /\ RowsKept /\ ChainKept
  <1>1. ASSUME NEW h \in Hashes, ScanPick(c, h) \/ RequestDeposit(c, h)
        PROVE  Shape' /\ RowsKept /\ ChainKept
    <2>1. /\ call' = [call EXCEPT ![c] = [pc |-> "check", hash |-> h]]
          /\ UNCHANGED <<chain, linked, rows, lastScannedBlock, req, ver, sync, history>>
      BY <1>1 DEF ScanPick, RequestDeposit, Call
    <2>2. overlapped' \subseteq Hashes
      BY <2>1 DEF history, Shape, TypeOK
    <2> QED BY <2>1, <2>2, CallOnly DEF history
  <1>2. CASE CheckCall(c)
    <2>1. call[c].hash \in Hashes
      BY <1>2 DEF CheckCall, Shape, Named
    <2>2. PICK r \in {[pc |-> "create", hash |-> call[c].hash], IdleCall} : call' = [call EXCEPT ![c] = r]
      BY <1>2 DEF CheckCall, Call
    <2>3. overlapped' \subseteq Hashes
      BY <1>2, <2>1 DEF CheckCall, Shape, TypeOK
    <2>4. r \in [pc : {"idle", "check", "create"}, hash : Hashes \cup {NoHash}]
          /\ (r.pc # "idle" => r.hash \in Hashes)
      BY <2>1, <2>2, IdleCallType
    <2> QED BY <1>2, <2>2, <2>3, <2>4, CallOnly DEF CheckCall
  <1>3. CASE CreateCall(c)
    <2>1. call[c].hash \in Hashes
      BY <1>3 DEF CreateCall, Shape, Named
    <2>2. CreateRow(call[c].hash, "completed")
      BY <1>3 DEF CreateCall, CreatedStatus
    <2>3. "completed" \in Statuses \ {"none"}
      BY DEF Statuses
    <2>4. /\ status' \in [Rows -> Statuses] /\ hashOf' \in [Rows -> Hashes \cup {NoHash}]
          /\ attempts' = attempts
      BY <2>1, <2>2, <2>3, CreateRowStep
    <2>5. RowsKept /\ RowsNamed'
      BY <2>1, <2>2, <2>3, CreateRowNamed
    <2>6. credits' \in [Hashes -> Nat]
      <3>1. credits' = [credits EXCEPT ![call[c].hash] = @ + 1]
        BY <1>3 DEF CreateCall, Credit
      <3>2. credits \in [Hashes -> Nat]
        BY DEF Shape, TypeOK
      <3> QED BY <2>1, <3>1, <3>2
    <2>7. /\ call' \in [Creators -> [pc : {"idle", "check", "create"}, hash : Hashes \cup {NoHash}]]
          /\ \A d \in Creators : call'[d].pc # "idle" => call'[d].hash \in Hashes
      BY <1>3, CallMoves, IdleCallType DEF CreateCall
    <2>8. TypeOK'
      BY <1>3, <2>4, <2>6, <2>7 DEF CreateCall, Shape, TypeOK, chain
    <2>9. Named'
      BY <1>3, <2>5, <2>7 DEF CreateCall, Shape, Named, RowsKept
    <2> QED BY <1>3, <2>5, <2>8, <2>9 DEF CreateCall, Shape, TypeOK, ChainKept, chain
  <1>4. CASE FailCall(c)
    <2>1. overlapped' \subseteq Hashes
      BY <1>4 DEF FailCall, history, Shape, TypeOK
    <2> QED BY <1>4, <2>1, CallOnly, IdleCallType DEF FailCall, history
  <1> QED BY <1>1, <1>2, <1>3, <1>4, TransfersAreHashes DEF Create

SyncType == [pc : {"idle", "next", "look", "insert"}, todo : SUBSET Hashes,
             hash : Hashes \cup {NoHash}, latest : Nat]

\* A step that moves an event scan and no row.
LEMMA SyncOnly ==
  ASSUME Shape, NEW s \in Syncs, NEW d \in SyncType,
         d.pc \in {"look", "insert"} => d.hash \in Hashes,
         sync' = [sync EXCEPT ![s] = d],
         lastScannedBlock' \in Nat \cup {None}, excused' \subseteq Hashes,
         UNCHANGED <<chain, linked, rows, req, ver, call, restarted, credits, overlapped>>
  PROVE  Shape' /\ RowsKept /\ ChainKept
  <1>1. sync' \in [Syncs -> SyncType]
    BY DEF Shape, TypeOK, SyncType
  <1>2. TypeOK'
    BY <1>1 DEF Shape, TypeOK, SyncType, chain, rows
  <1>3. \A t \in Syncs : sync'[t] = IF t = s THEN d ELSE sync[t]
    BY DEF Shape, TypeOK
  <1>4. Named'
    BY <1>3 DEF Shape, Named, RowsNamed, IsMined, chain, rows
  <1> QED BY <1>2, <1>4 DEF Shape, TypeOK, RowsKept, ChainKept, chain, rows

LEMMA DoneType == ASSUME Shape, NEW s \in Syncs PROVE Done(s) \in SyncType /\ Done(s).pc = "next"
                                                      /\ Done(s).todo = sync[s].todo \ {sync[s].hash}
                                                      /\ Done(s).latest = sync[s].latest
  <1>1. sync[s] \in SyncType
    BY DEF Shape, TypeOK, SyncType
  <1> QED BY <1>1 DEF Done, SyncType

LEMMA IdleSyncType == IdleSync \in SyncType /\ IdleSync.pc = "idle"
  BY DEF IdleSync, SyncType

LEMMA SyncShape ==
  ASSUME Shape, NEW s \in Syncs, Sync(s)
  PROVE  Shape' /\ RowsKept /\ ChainKept
  <1>0. sync[s] \in SyncType /\ excused \subseteq Hashes /\ lastScannedBlock \in Nat \cup {None}
        /\ head \in Nat
    BY DEF Shape, TypeOK, SyncType
  <1>1. CASE BeginSync(s)
    <2>1. PICK latest \in 1 .. head :
            LET from == FirstBlock(latest)
            IN  /\ IF from > latest
                     THEN lastScannedBlock' = latest /\ UNCHANGED sync
                     ELSE /\ sync' = [sync EXCEPT ![s] = [pc |-> "next", todo |-> Events(from, latest),
                                                          hash |-> NoHash, latest |-> latest]]
                          /\ UNCHANGED lastScannedBlock
                /\ excused' = IF lastScannedBlock = None THEN excused \cup Events(0, from - 1)
                                                         ELSE excused
      BY <1>1 DEF BeginSync
    <2>2. excused' \subseteq Hashes
      BY <1>0, <2>1, TransfersAreHashes DEF Events
    <2>3. CASE lastScannedBlock' = latest /\ UNCHANGED sync
      <3>1. sync' = [sync EXCEPT ![s] = sync[s]]
        BY <2>3 DEF Shape, TypeOK
      <3>2. lastScannedBlock' \in Nat \cup {None}
        BY <1>0, <2>3
      <3>3. sync[s].pc \in {"look", "insert"} => sync[s].hash \in Hashes
        BY DEF Shape, Named
      <3> QED BY <1>0, <1>1, <2>2, <3>1, <3>2, <3>3, SyncOnly DEF BeginSync
    <2>4. CASE /\ sync' = [sync EXCEPT ![s] = [pc |-> "next",
                              todo |-> Events(FirstBlock(latest), latest),
                              hash |-> NoHash, latest |-> latest]]
               /\ UNCHANGED lastScannedBlock
      <3> DEFINE d == [pc |-> "next", todo |-> Events(FirstBlock(latest), latest),
                       hash |-> NoHash, latest |-> latest]
      <3>1. d \in SyncType /\ d.pc = "next"
        BY <1>0, TransfersAreHashes DEF Events, SyncType
      <3>2. sync' = [sync EXCEPT ![s] = d]
        BY <2>4
      <3> HIDE DEF d
      <3> QED BY <1>0, <1>1, <2>2, <2>4, <3>1, <3>2, SyncOnly DEF BeginSync
    <2> QED BY <2>1, <2>3, <2>4
  <1>2. CASE SyncPick(s)
    <2>1. PICK h \in sync[s].todo :
            IF linked
              THEN /\ sync' = [sync EXCEPT ![s].pc = "look", ![s].hash = h]
                   /\ UNCHANGED excused
              ELSE /\ sync' = [sync EXCEPT ![s].todo = @ \ {h}]
                   /\ excused' = excused \cup {h}
      BY <1>2 DEF SyncPick
    <2>2. h \in Hashes
      BY <1>0, <2>1 DEF SyncType
    <2>3. PICK d \in SyncType : d.pc \in {"look", "next"} /\ (d.pc = "look" => d.hash = h)
                                /\ sync' = [sync EXCEPT ![s] = d]
      <3>1. CASE linked
        <4> DEFINE d == [sync[s] EXCEPT !.pc = "look", !.hash = h]
        <4>1. d \in SyncType /\ d.pc = "look" /\ d.hash = h
          BY <1>0, <2>2 DEF SyncType
        <4>2. sync' = [sync EXCEPT ![s] = d]
          BY <2>1, <3>1
        <4> QED BY <4>1, <4>2
      <3>2. CASE ~linked
        <4> DEFINE d == [sync[s] EXCEPT !.todo = sync[s].todo \ {h}]
        <4>1. d \in SyncType /\ d.pc = "next"
          BY <1>0, <1>2 DEF SyncType, SyncPick
        <4>2. sync' = [sync EXCEPT ![s] = d]
          BY <2>1, <3>2
        <4> QED BY <4>1, <4>2
      <3> QED BY <3>1, <3>2
    <2>4. excused' \subseteq Hashes
      BY <1>0, <2>1, <2>2
    <2> QED BY <1>0, <1>2, <2>2, <2>3, <2>4, SyncOnly DEF SyncPick
  <1>3. CASE SyncLook(s)
    <2>1. sync[s].hash \in Hashes
      BY <1>3 DEF SyncLook, Shape, Named
    <2>2. PICK d \in SyncType : /\ d.pc \in {"insert", "next"}
                                /\ d.pc = "insert" => d.hash = sync[s].hash
                                /\ sync' = [sync EXCEPT ![s] = d]
      <3>1. CASE Of(sync[s].hash) = {}
        <4> DEFINE d == [sync[s] EXCEPT !.pc = "insert"]
        <4>1. d \in SyncType /\ d.pc = "insert" /\ d.hash = sync[s].hash
          BY <1>0 DEF SyncType
        <4>2. sync' = [sync EXCEPT ![s] = d]
          BY <1>3, <3>1 DEF SyncLook
        <4> QED BY <4>1, <4>2
      <3>2. CASE Of(sync[s].hash) # {}
        BY <1>3, <3>2, DoneType DEF SyncLook
      <3> QED BY <3>1, <3>2
    <2> QED BY <1>0, <1>3, <2>1, <2>2, SyncOnly DEF SyncLook, history
  <1>4. CASE SyncInsert(s)
    <2>1. sync[s].hash \in Hashes
      BY <1>4 DEF SyncInsert, Shape, Named
    <2>2. CreateRow(sync[s].hash, "pending_verification")
      BY <1>4 DEF SyncInsert
    <2>3. "pending_verification" \in Statuses \ {"none"}
      BY DEF Statuses
    <2>4. /\ status' \in [Rows -> Statuses] /\ hashOf' \in [Rows -> Hashes \cup {NoHash}]
          /\ attempts' = attempts
      BY <2>1, <2>2, <2>3, CreateRowStep
    <2>5. RowsKept /\ RowsNamed'
      BY <2>1, <2>2, <2>3, CreateRowNamed
    <2>6. sync' = [sync EXCEPT ![s] = Done(s)]
      BY <1>4 DEF SyncInsert
    <2>7. sync' \in [Syncs -> SyncType]
      BY <2>6, DoneType DEF Shape, TypeOK, SyncType
    <2>8. TypeOK'
      BY <1>4, <2>4, <2>7 DEF SyncInsert, Shape, TypeOK, SyncType, chain, history
    <2>9. \A t \in Syncs : sync'[t].pc \in {"look", "insert"} => t # s /\ sync'[t] = sync[t]
      BY <2>6, DoneType DEF Shape, TypeOK
    <2>10. Named'
      BY <1>4, <2>5, <2>9 DEF SyncInsert, Shape, Named, RowsNamed, RowsKept, IsMined, chain, history
    <2> QED BY <1>4, <2>5, <2>8, <2>10 DEF SyncInsert, Shape, TypeOK, ChainKept, chain
  <1>5. CASE SyncInsertFails(s)
    <2>1. sync[s].hash \in Hashes
      BY <1>5 DEF SyncInsertFails, Shape, Named
    <2> QED BY <1>0, <1>5, <2>1, DoneType, SyncOnly DEF SyncInsertFails
  <1>6. CASE EndSync(s)
    <2>1. lastScannedBlock' \in Nat
      BY <1>0, <1>6 DEF EndSync, ScannedTo, SyncType
    <2> QED BY <1>0, <1>6, <2>1, IdleSyncType, SyncOnly DEF EndSync, history
  <1>7. CASE FailSync(s)
    BY <1>0, <1>7, IdleSyncType, SyncOnly DEF FailSync, history
  <1> QED BY <1>1, <1>2, <1>3, <1>4, <1>5, <1>6, <1>7 DEF Sync

LEMMA RestartShape ==
  ASSUME Shape, Restart
  PROVE  Shape' /\ RowsKept /\ ChainKept
  <1>1. ver' \in [Verifiers -> [pc : {"idle", "examine", "depth", "credit", "fail", "retry"},
                                row : Rows \cup {0}, attempts : 0 .. MaxAttempts + 1]]
    BY SettingAssumption DEF Restart, IdleVer
  <1>2. /\ req' \in [Requests -> [pc : {"idle", "insert"}, hash : Hashes \cup {NoHash}]]
        /\ call' \in [Creators -> [pc : {"idle", "check", "create"}, hash : Hashes \cup {NoHash}]]
    BY DEF Restart, IdleReq, IdleCall
  <1>3. sync' \in [Syncs -> SyncType]
    BY IdleSyncType DEF Restart
  <1>4. TypeOK'
    BY <1>1, <1>2, <1>3 DEF Restart, Shape, TypeOK, SyncType, chain, rows
  <1>5. Named'
    BY DEF Restart, Shape, Named, RowsNamed, chain, rows, IdleReq, IdleVer, IdleCall, IdleSync
  <1> QED BY <1>4, <1>5 DEF Restart, Shape, TypeOK, RowsKept, ChainKept, chain, rows

LEMMA NextShape == ASSUME Shape, [Next]_vars PROVE Shape' /\ RowsKept /\ ChainKept
  <1>1. CASE UNCHANGED vars
    BY <1>1 DEF vars, chain, rows, history, Shape, TypeOK, Named, RowsNamed, RowsKept, ChainKept, IsMined
  <1>2. CASE Next
    BY <1>2, ChainShape, SubmitShape, VerifyShape, BeginVerifyShape, CreateShape, SyncShape,
       RestartShape DEF Next
  <1> QED BY <1>1, <1>2

\* Every column, counter and handler's record holds a value of its type.
THEOREM TypeCorrect == Spec => []TypeOK
  <1>1. Init => Shape
    BY InitShape
  <1>2. Shape /\ [Next]_vars => Shape'
    BY NextShape
  <1>3. Shape => TypeOK
    BY DEF Shape
  <1> QED BY <1>1, <1>2, <1>3, PTL DEF Spec

-----------------------------------------------------------------------------
(* What is credited is on the chain *)

Deep(h) == /\ IsMined(h) /\ kind[h] # "invalid"
           /\ kind[h] = "contract" => head >= mined[h] + Confirmations - 1

\* What a verification has seen.
Seen(v) ==
  /\ ver[v].pc \in {"depth", "credit"} => IsMined(VerHash(v)) /\ kind[VerHash(v)] # "invalid"
  /\ ver[v].pc = "credit" => Deep(VerHash(v))

RealInv == (\A v \in Verifiers : Seen(v)) /\ CreditsReal

LEMMA VerHashType ==
  ASSUME Shape, NEW v \in Verifiers, ver[v].pc # "idle"
  PROVE  VerHash(v) \in Hashes
  BY DEF Shape, TypeOK, Named, RowsNamed, VerHash

LEMMA DeepKept ==
  ASSUME Shape, ChainKept, NEW h \in Hashes, Deep(h)
  PROVE  Deep(h)'
  <1>1. mined'[h] = mined[h] /\ mined[h] \in Nat /\ head \in Nat
    BY DEF Shape, TypeOK, ChainKept, Deep
  <1>2. head' \in Nat /\ head' >= head /\ kind' = kind
    BY DEF ChainKept
  <1>3. CASE kind[h] = "contract"
    <2>1. head' >= mined[h] + Confirmations - 1
      BY <1>1, <1>2, <1>3, SettingAssumption DEF Deep
    <2> QED BY <1>1, <1>2, <2>1 DEF Deep, IsMined
  <1>4. CASE kind[h] # "contract"
    BY <1>1, <1>2, <1>4 DEF Deep, IsMined
  <1> QED BY <1>3, <1>4

\* A verification that did not advance has still seen what it had.
LEMMA SeenKept ==
  ASSUME Shape, RowsKept, ChainKept, NEW v \in Verifiers, Seen(v),
         ver'[v].pc \in {"depth", "credit"} => ver'[v] = ver[v]
  PROVE  Seen(v)'
  <1>1. CASE ver'[v].pc \notin {"depth", "credit"}
    BY <1>1 DEF Seen
  <1>2. CASE ver'[v].pc \in {"depth", "credit"}
    <2>1. ver'[v] = ver[v] /\ ver[v].pc # "idle"
      BY <1>2
    <2>2. VerHash(v) \in Hashes
      BY <2>1, VerHashType
    <2>3. VerHash(v)' = VerHash(v)
      BY <2>1 DEF VerHash, RowsKept, Shape, Named
    <2>4. IsMined(VerHash(v)) => IsMined(VerHash(v))'
      BY <2>2, <2>3 DEF IsMined, ChainKept
    <2>5. Deep(VerHash(v)) => Deep(VerHash(v))'
      <3>1. ASSUME NEW h \in Hashes, h = VerHash(v), Deep(h) PROVE Deep(h)'
        BY <3>1, DeepKept
      <3>2. ASSUME Deep(VerHash(v)) PROVE Deep(VerHash(v))'
        <4>1. PICK h \in Hashes : h = VerHash(v)
          BY <2>2
        <4>2. Deep(h)
          BY <3>2, <4>1
        <4>3. Deep(h)'
          BY <4>1, <4>2, <3>1
        <4>4. h = VerHash(v)'
          BY <2>3, <4>1
        <4> QED BY <4>3, <4>4 DEF Deep, IsMined
      <3> QED BY <3>2
    <2>6. kind' = kind
      BY DEF ChainKept
    <2> QED BY <2>1, <2>3, <2>4, <2>5, <2>6 DEF Seen
  <1> QED BY <1>1, <1>2

\* Only Examine and FindDuplicate advance one.
LEMMA NotAdvanced ==
  ASSUME Shape, [Next]_vars, NEW v \in Verifiers, ~Examine(v), ~FindDuplicate(v)
  PROVE  ver'[v].pc \in {"depth", "credit"} => ver'[v] = ver[v]
  <1>1. CASE UNCHANGED ver
    BY <1>1
  <1>2. ASSUME NEW u \in Verifiers, VerifyStep(u) PROVE ver'[v].pc \in {"depth", "credit"} => ver'[v] = ver[v]
    <2>1. CASE u = v
      BY <1>2, <2>1 DEF VerifyStep, CommitCredit, WriteFailed, WriteAttempts, FailVerify, Settle, Go,
                        IdleVer, Shape, TypeOK
    <2>2. CASE u # v
      BY <1>2, <2>2 DEF VerifyStep, Examine, FindDuplicate, CommitCredit, WriteFailed, WriteAttempts,
                        FailVerify, Settle, Go, Shape, TypeOK
    <2> QED BY <2>1, <2>2
  <1>3. ASSUME NEW u \in Verifiers, NEW w \in Rows, BeginVerify(u, w)
        PROVE  ver'[v].pc \in {"depth", "credit"} => ver'[v] = ver[v]
    BY <1>3 DEF BeginVerify, Shape, TypeOK
  <1>4. CASE Restart
    BY <1>4 DEF Restart, IdleVer
  <1>5. CASE \/ \E S \in SUBSET {h \in Hashes : ~IsMined(h)} : Mine(S)
             \/ saveWalletAddress \/ \E c \in Creators : Create(c)
    BY <1>1, <1>5 DEF Mine, saveWalletAddress, Create, ScanPick, RequestDeposit, CheckCall, CreateCall, FailCall
  <1>6. CASE \E r \in Requests : Submit(r)
    BY <1>1, <1>6 DEF Submit, BeginSubmit, InsertSubmitted, FailSubmit
  <1>7. CASE \E s \in Syncs : Sync(s)
    BY <1>1, <1>7 DEF Sync, BeginSync, SyncPick, SyncLook, SyncInsert, SyncInsertFails, EndSync,
                      FailSync
  <1>8. CASE UNCHANGED vars
    BY <1>1, <1>8 DEF vars
  <1> QED BY <1>2, <1>3, <1>4, <1>5, <1>6, <1>7, <1>8 DEF Next

LEMMA SeenNext ==
  ASSUME Shape, [Next]_vars, NEW v \in Verifiers, Seen(v)
  PROVE  Seen(v)'
  <1>0. Shape' /\ RowsKept /\ ChainKept
    BY NextShape
  <1>1. CASE ~Examine(v) /\ ~FindDuplicate(v)
    <2>1. ver'[v].pc \in {"depth", "credit"} => ver'[v] = ver[v]
      BY <1>1, NotAdvanced
    <2> QED BY <1>0, <2>1, SeenKept
  <1>2. CASE Examine(v)
    <2>1. UNCHANGED <<kind, mined, head, hashOf>> /\ VerHash(v)' = VerHash(v)
      BY <1>2 DEF Examine, Go, VerHash, Shape, TypeOK, chain, rows
    <2>2. ver'[v].pc = "depth" => IsMined(VerHash(v)) /\ ~Rejected(VerHash(v))
      <3>1. SUFFICES ASSUME ~(IsMined(VerHash(v)) /\ ~Rejected(VerHash(v)))
                     PROVE  ver'[v].pc # "depth"
        OBVIOUS
      <3>2. Go(v, "fail") \/ Go(v, "retry")
        BY <1>2, <3>1 DEF Examine, VerHash
      <3>3. ver \in [Verifiers -> [pc : {"idle", "examine", "depth", "credit", "fail", "retry"},
                                   row : Rows \cup {0}, attempts : 0 .. MaxAttempts + 1]]
        BY DEF Shape, TypeOK
      <3> QED BY <3>2, <3>3 DEF Go
    <2>3. ver'[v].pc # "credit"
      <3>1. Go(v, "fail") \/ Go(v, "depth") \/ Go(v, "retry")
        BY <1>2 DEF Examine
      <3>2. ver \in [Verifiers -> [pc : {"idle", "examine", "depth", "credit", "fail", "retry"},
                                   row : Rows \cup {0}, attempts : 0 .. MaxAttempts + 1]]
        BY DEF Shape, TypeOK
      <3> QED BY <3>1, <3>2 DEF Go
    <2> QED BY <2>1, <2>2, <2>3 DEF Seen, Rejected, IsMined
  <1>3. CASE FindDuplicate(v)
    <2>0. ver \in [Verifiers -> [pc : {"idle", "examine", "depth", "credit", "fail", "retry"},
                                 row : Rows \cup {0}, attempts : 0 .. MaxAttempts + 1]]
      BY DEF Shape, TypeOK
    <2>1. UNCHANGED <<kind, mined, head, hashOf>> /\ VerHash(v)' = VerHash(v)
      <3>1. UNCHANGED <<kind, mined, head, hashOf>>
        BY <1>3 DEF FindDuplicate, chain, rows
      <3>2. PICK pc \in {"credit", "fail", "retry"} : Go(v, pc)
        BY <1>3 DEF FindDuplicate
      <3>3. ver'[v].row = ver[v].row
        BY <2>0, <3>2 DEF Go
      <3> QED BY <3>1, <3>3 DEF VerHash
    <2>2. ver'[v].pc = "credit" => Confirmed(VerHash(v))
      <3>1. SUFFICES ASSUME ~Confirmed(VerHash(v)) PROVE ver'[v].pc # "credit"
        OBVIOUS
      <3>2. Go(v, "retry")
        BY <1>3, <3>1 DEF FindDuplicate, VerHash
      <3> QED BY <2>0, <3>2 DEF Go
    <2>3. ver'[v].pc # "depth"
      <3>1. PICK pc \in {"credit", "fail", "retry"} : Go(v, pc)
        BY <1>3 DEF FindDuplicate
      <3> QED BY <2>0, <3>1 DEF Go
    <2>4. IsMined(VerHash(v)) /\ kind[VerHash(v)] # "invalid"
      BY <1>3 DEF FindDuplicate, Seen
    <2>5. Confirmed(VerHash(v)) => Deep(VerHash(v))
      <3>1. VerHash(v) \in Hashes
        BY <1>3, VerHashType DEF FindDuplicate
      <3>2. head \in Nat /\ mined[VerHash(v)] \in Nat /\ Confirmations \in Nat
        BY <3>1, SettingAssumption DEF Shape, TypeOK
      <3> QED BY <2>4, <3>2 DEF Confirmed, Deep
    <2> QED BY <2>1, <2>2, <2>3, <2>4, <2>5 DEF Seen, Deep, IsMined
  <1> QED BY <1>1, <1>2, <1>3

\* Two actions credit; all others leave the credits alone.
LEMMA CreditSteps ==
  ASSUME [Next]_vars
  PROVE  \/ UNCHANGED credits
         \/ \E v \in Verifiers : CommitCredit(v)
         \/ \E c \in Creators : CreateCall(c)
  <1>1. CASE UNCHANGED vars
    BY <1>1 DEF vars, history
  <1>2. ASSUME NEW v \in Verifiers, VerifyStep(v), ~CommitCredit(v) PROVE UNCHANGED credits
    BY <1>2 DEF VerifyStep, Examine, FindDuplicate, WriteFailed, WriteAttempts, FailVerify, history
  <1>3. ASSUME NEW v \in Verifiers, NEW w \in Rows, BeginVerify(v, w) PROVE UNCHANGED credits
    BY <1>3 DEF BeginVerify
  <1>4. CASE \/ \E S \in SUBSET {h \in Hashes : ~IsMined(h)} : Mine(S)
             \/ saveWalletAddress \/ Restart
    BY <1>4 DEF Mine, saveWalletAddress, Restart, history
  <1>5. ASSUME NEW c \in Creators, Create(c), ~CreateCall(c) PROVE UNCHANGED credits
    BY <1>5 DEF Create, ScanPick, RequestDeposit, CheckCall, FailCall, history
  <1>6. CASE \E r \in Requests : Submit(r)
    BY <1>6 DEF Submit, BeginSubmit, InsertSubmitted, FailSubmit, history
  <1>7. CASE \E s \in Syncs : Sync(s)
    BY <1>7 DEF Sync, BeginSync, SyncPick, SyncLook, SyncInsert, SyncInsertFails, EndSync, FailSync,
                history
  <1> QED BY <1>1, <1>2, <1>3, <1>4, <1>5, <1>6, <1>7 DEF Next

LEMMA RealNext ==
  ASSUME Shape, RealInv, [Next]_vars
  PROVE  RealInv'
  <1>0. Shape' /\ ChainKept
    BY NextShape
  <1>1. \A v \in Verifiers : Seen(v)'
    BY SeenNext DEF RealInv
  <1>2. ASSUME NEW h \in Hashes, credits'[h] > 0 PROVE Deep(h)'
    <2>1. credits[h] > 0 => Deep(h)
      BY DEF RealInv, CreditsReal, Deep
    <2>2. CASE UNCHANGED credits
      BY <1>0, <1>2, <2>1, <2>2, DeepKept
    <2>3. ASSUME NEW v \in Verifiers, CommitCredit(v) PROVE Deep(h)'
      <3>1. credits' = [credits EXCEPT ![VerHash(v)] = @ + 1] /\ Deep(VerHash(v))
        BY <2>3 DEF CommitCredit, Credit, VerHash, RealInv, Seen
      <3>2. CASE h = VerHash(v)
        BY <1>0, <3>1, <3>2, DeepKept
      <3>3. CASE h # VerHash(v)
        <4>1. credits'[h] = credits[h]
          BY <3>1, <3>3 DEF Shape, TypeOK
        <4> QED BY <1>0, <1>2, <2>1, <4>1, DeepKept
      <3> QED BY <3>2, <3>3
    <2>4. ASSUME NEW c \in Creators, CreateCall(c) PROVE Deep(h)'
      <3>1. credits' = [credits EXCEPT ![call[c].hash] = @ + 1] /\ call[c].hash \in Hashes
        BY <2>4 DEF CreateCall, Credit, Shape, Named
      <3>2. Deep(call[c].hash)
        BY <2>4 DEF CreateCall, Payable, Deep
      <3>3. CASE h = call[c].hash
        BY <1>0, <3>2, <3>3, DeepKept
      <3>4. CASE h # call[c].hash
        <4>1. credits'[h] = credits[h]
          BY <3>1, <3>4 DEF Shape, TypeOK
        <4> QED BY <1>0, <1>2, <2>1, <4>1, DeepKept
      <3> QED BY <3>3, <3>4
    <2> QED BY <2>2, <2>3, <2>4, CreditSteps
  <1>3. CreditsReal'
    BY <1>2 DEF CreditsReal, Deep
  <1> QED BY <1>1, <1>3 DEF RealInv

\* Only a transfer that is on the chain is credited, and one to the contract
\* only at the required depth, however stale what a verification acts on is.
THEOREM RealCorrect == Spec => []CreditsReal
  <1>1. Init => Shape /\ RealInv
    <2> SUFFICES ASSUME Init PROVE Shape /\ RealInv
      OBVIOUS
    <2>1. Shape
      BY InitShape
    <2>2. \A v \in Verifiers : ver[v].pc = "idle"
      BY DEF Init, IdleVer
    <2>3. CreditsReal
      BY DEF Init, CreditsReal
    <2> QED BY <2>1, <2>2, <2>3 DEF RealInv, Seen
  <1>2. Shape /\ RealInv /\ [Next]_vars => (Shape /\ RealInv)'
    BY NextShape, RealNext
  <1>3. RealInv => CreditsReal
    BY DEF RealInv
  <1> QED BY <1>1, <1>2, <1>3, PTL DEF Spec

-----------------------------------------------------------------------------
(* One credit *)

Handles(v, h) == ver[v].pc # "idle" /\ VerHash(v) = h
HasCompleted(h) == \E w \in Rows : status[w] = "completed" /\ hashOf[w] = h

\* Of a hash that is not handled twice at a time.
Single(h) ==
  /\ \A u, v \in Verifiers : Handles(u, h) /\ Handles(v, h) => u = v
  /\ \A v \in Verifiers : Handles(v, h) =>
       /\ status[ver[v].row] = "pending_verification"
       /\ ver[v].pc = "credit" => ~HasCompleted(h)
  /\ \A c, d \in Creating(h) : c = d
  /\ Creating(h) # {} => ~HasCompleted(h) /\ \A v \in Verifiers : ~Handles(v, h)

Once(h) == Single(h) /\ credits[h] = IF HasCompleted(h) THEN 1 ELSE 0

\* A step credits the transfer if it completes the first row of it.
Counts(h) ==
  \/ (HasCompleted(h)' <=> HasCompleted(h)) /\ credits'[h] = credits[h]
  \/ /\ ~HasCompleted(h) /\ HasCompleted(h)' /\ credits'[h] = credits[h] + 1
     /\ Creating(h) # {} \/ \E v \in Verifiers : Handles(v, h)

\* Rows are added, none completed; verifications and creations may only end.
LEMMA SingleQuiet ==
  ASSUME Shape, NEW h \in Hashes, Single(h), RowsKept,
         \A w \in Rows : status'[w] = "completed" /\ hashOf'[w] = h
                           <=> status[w] = "completed" /\ hashOf[w] = h,
         \A v \in Verifiers : ver'[v].pc # "idle" =>
            /\ ver[v].pc # "idle" /\ ver'[v].row = ver[v].row
            /\ ver'[v].pc = "credit" => ver[v].pc = "credit" \/ ~HasCompleted(h)
            /\ VerHash(v) = h => status'[ver[v].row] = status[ver[v].row],
         Creating(h)' \subseteq Creating(h),
         credits'[h] = credits[h]
  PROVE  Single(h)' /\ Counts(h)
  <1>1. HasCompleted(h)' <=> HasCompleted(h)
    BY DEF HasCompleted
  <1>2. \A v \in Verifiers : ver'[v].pc # "idle" => VerHash(v)' = VerHash(v)
    BY DEF VerHash, RowsKept, Shape, Named
  <1>3. \A v \in Verifiers : Handles(v, h)' => Handles(v, h)
    BY <1>2 DEF Handles
  <1>4. \A u, v \in Verifiers : Handles(u, h)' /\ Handles(v, h)' => u = v
    BY <1>3 DEF Single
  <1>5. ASSUME NEW v \in Verifiers, Handles(v, h)'
        PROVE  /\ status'[ver'[v].row] = "pending_verification"
               /\ ver'[v].pc = "credit" => ~HasCompleted(h)
    <2>1. Handles(v, h) /\ ver'[v].row = ver[v].row /\ VerHash(v) = h
      BY <1>3, <1>5 DEF Handles
    <2>2. status[ver[v].row] = "pending_verification"
      BY <2>1 DEF Single
    <2>3. ver[v].pc = "credit" => ~HasCompleted(h)
      BY <2>1 DEF Single
    <2> QED BY <1>5, <2>1, <2>2, <2>3 DEF Handles
  <1>6. Creating(h)' # {} => ~HasCompleted(h) /\ \A v \in Verifiers : ~Handles(v, h)'
    BY <1>3 DEF Single
  <1>7. Counts(h)
    BY <1>1 DEF Counts
  <1>8. \A c, d \in Creating(h)' : c = d
    BY DEF Single
  <1> QED BY <1>1, <1>4, <1>5, <1>6, <1>7, <1>8 DEF Single

\* A new pending row completes nothing.
LEMMA PendingRow ==
  ASSUME Shape, NEW h \in Hashes, NEW g \in Hashes, CreateRow(g, "pending_verification")
  PROVE  /\ \A w \in Rows : status'[w] = "completed" /\ hashOf'[w] = h
                              <=> status[w] = "completed" /\ hashOf[w] = h
         /\ \A w \in Rows : status[w] # "none" => status'[w] = status[w]
  <1>1. "pending_verification" \in Statuses \ {"none"}
    BY DEF Statuses
  <1> QED BY <1>1, CreateRowStep

LEMMA SingleSettle ==
  ASSUME Shape, NEW h \in Hashes, Single(h), NEW v \in Verifiers, ver[v].pc # "idle",
         NEW s \in {"completed", "failed"}, Settle(v, s), UNCHANGED call,
         s = "completed" => ver[v].pc = "credit" /\ Credit(VerHash(v)),
         s = "failed" => UNCHANGED credits
  PROVE  Single(h)' /\ Counts(h)
  <1>0. s \in Statuses \ {"none"}
    BY DEF Statuses
  <1>1. /\ hashOf' = hashOf /\ status'[ver[v].row] = s
        /\ \A x \in Rows \ {ver[v].row} : status'[x] = status[x]
        /\ RowsKept
    BY <1>0, SettleStep
  <1>2. \A u \in Verifiers : ver'[u].pc # "idle" => u # v /\ ver'[u] = ver[u]
    BY VerEnds DEF Settle
  <1>3. ver[v].row \in Rows
    BY DEF Shape, Named
  <1>4. VerHash(v) \in Hashes /\ credits \in [Hashes -> Nat]
    BY VerHashType DEF Shape, TypeOK
  <1>5. CASE VerHash(v) # h
    <2>1. \A w \in Rows : hashOf[w] = h => status'[w] = status[w]
      BY <1>1, <1>3, <1>5 DEF VerHash
    <2>2. credits'[h] = credits[h]
      BY <1>4, <1>5 DEF Credit
    <2>3. \A u \in Verifiers : ver'[u].pc # "idle" /\ VerHash(u) = h =>
            status'[ver[u].row] = status[ver[u].row]
      BY <1>2, <2>1 DEF VerHash, Shape, Named
    <2>4. \A w \in Rows : status'[w] = "completed" /\ hashOf'[w] = h
                            <=> status[w] = "completed" /\ hashOf[w] = h
      BY <1>1, <2>1
    <2>5. Creating(h)' \subseteq Creating(h)
      BY DEF Creating
    <2> QED BY <1>1, <1>2, <2>2, <2>3, <2>4, <2>5, SingleQuiet
  <1>6. CASE VerHash(v) = h
    <2>1. Handles(v, h)
      BY <1>6 DEF Handles
    <2>2. \A u \in Verifiers : ~Handles(u, h)'
      BY <1>1, <1>2, <2>1 DEF Handles, VerHash, Single
    <2>3. Creating(h) = {} /\ Creating(h)' = {}
      BY <2>1 DEF Single, Creating
    <2>4. status[ver[v].row] = "pending_verification" /\ hashOf[ver[v].row] = h
      BY <1>6, <2>1 DEF Single, VerHash
    <2>5. CASE s = "completed"
      <3>1. ~HasCompleted(h)
        BY <2>1, <2>5 DEF Single
      <3>2. credits'[h] = credits[h] + 1
        BY <1>4, <1>6, <2>5 DEF Credit
      <3>3. HasCompleted(h)'
        BY <1>1, <1>3, <2>4, <2>5 DEF HasCompleted
      <3> QED BY <2>1, <2>2, <2>3, <3>1, <3>2, <3>3 DEF Single, Counts
    <2>6. CASE s = "failed"
      <3>1. HasCompleted(h)' <=> HasCompleted(h)
        BY <1>1, <1>3, <2>4, <2>6 DEF HasCompleted
      <3> QED BY <2>2, <2>3, <2>6, <3>1 DEF Single, Counts
    <2> QED BY <2>5, <2>6
  <1> QED BY <1>5, <1>6

\* A step that changes no row, no credit and no creation.
LEMMA SingleVer ==
  ASSUME Shape, NEW h \in Hashes, Single(h), UNCHANGED <<status, hashOf, credits>>,
         Creating(h)' \subseteq Creating(h),
         \A v \in Verifiers : ver'[v].pc # "idle" =>
            /\ ver[v].pc # "idle" /\ ver'[v].row = ver[v].row
            /\ ver'[v].pc = "credit" => ver[v].pc = "credit" \/ ~HasCompleted(h)
  PROVE  Single(h)' /\ Counts(h)
  BY SingleQuiet DEF RowsKept

LEMMA SingleVerify ==
  ASSUME Shape, NEW h \in Hashes, Single(h), NEW v \in Verifiers, VerifyStep(v)
  PROVE  Single(h)' /\ Counts(h)
  <1>1. CASE Examine(v)
    <2>1. UNCHANGED <<status, hashOf, credits, call>>
      BY <1>1 DEF Examine, rows, history
    <2>2. \A u \in Verifiers : ver'[u].pc # "idle" =>
            /\ ver[u].pc # "idle" /\ ver'[u].row = ver[u].row
            /\ ver'[u].pc = "credit" => ver[u].pc = "credit"
      <3>1. PICK pc \in {"fail", "depth", "retry"} : Go(v, pc)
        BY <1>1 DEF Examine
      <3>2. ver[v].pc = "examine"
        BY <1>1 DEF Examine
      <3> QED BY <3>1, <3>2 DEF Go, Shape, TypeOK
    <2> QED BY <2>1, <2>2, SingleVer DEF Creating
  <1>2. CASE FindDuplicate(v)
    <2>1. UNCHANGED <<status, hashOf, credits, call>>
      BY <1>2 DEF FindDuplicate, rows, history
    <2>2. \A u \in Verifiers : /\ ver'[u].row = ver[u].row
                               /\ ver'[u].pc # "idle" => ver[u].pc # "idle"
                               /\ u # v => ver'[u] = ver[u]
      BY <1>2 DEF FindDuplicate, Go, Shape, TypeOK
    <2>3. CASE VerHash(v) # h
      <3>1. \A u \in Verifiers : VerHash(u)' = VerHash(u)
        BY <2>1, <2>2 DEF VerHash
      <3>2. \A u \in Verifiers : Handles(u, h)' => u # v /\ Handles(u, h) /\ ver'[u] = ver[u]
        BY <2>2, <2>3, <3>1 DEF Handles
      <3>3. HasCompleted(h)' <=> HasCompleted(h)
        BY <2>1 DEF HasCompleted
      <3> QED BY <2>1, <3>2, <3>3 DEF Single, Counts, Creating
    <2>4. CASE VerHash(v) = h
      <3>1. status[ver[v].row] = "pending_verification"
        BY <1>2, <2>4 DEF FindDuplicate, Single, Handles
      <3>2. ver'[v].pc = "credit" => ~Duplicate(ver[v].row)
        BY <1>2 DEF FindDuplicate, Go, Shape, TypeOK
      <3>3. ~Duplicate(ver[v].row) => ~HasCompleted(h)
        BY <2>4, <3>1 DEF Duplicate, Completed, Of, HasCompleted, VerHash
      <3>4. \A u \in Verifiers : ver'[u].pc = "credit" => ver[u].pc = "credit" \/ ~HasCompleted(h)
        BY <2>2, <3>2, <3>3
      <3> QED BY <2>1, <2>2, <3>4, SingleVer DEF Creating
    <2> QED BY <2>3, <2>4
  <1>3. CASE CommitCredit(v)
    BY <1>3, SingleSettle DEF CommitCredit, VerHash
  <1>4. CASE WriteFailed(v)
    BY <1>4, SingleSettle DEF WriteFailed, history
  <1>5. CASE WriteAttempts(v)
    <2>1. UNCHANGED <<status, hashOf, credits, call>>
      BY <1>5 DEF WriteAttempts, history
    <2>2. \A u \in Verifiers : ver'[u].pc # "idle" => u # v /\ ver'[u] = ver[u]
      BY <1>5, VerEnds DEF WriteAttempts
    <2> QED BY <2>1, <2>2, SingleVer DEF Creating
  <1>6. CASE FailVerify(v)
    <2>1. UNCHANGED <<status, hashOf, credits, call>>
      BY <1>6 DEF FailVerify, rows, history
    <2>2. CASE Go(v, "retry") /\ ver[v].pc # "idle"
      <3>1. \A u \in Verifiers : ver'[u].pc # "idle" =>
              /\ ver[u].pc # "idle" /\ ver'[u].row = ver[u].row
              /\ ver'[u].pc = "credit" => ver[u].pc = "credit"
        BY <2>2 DEF Go, Shape, TypeOK
      <3> QED BY <2>1, <3>1, SingleVer DEF Creating
    <2>3. CASE ver' = [ver EXCEPT ![v] = IdleVer]
      <3>1. \A u \in Verifiers : ver'[u].pc # "idle" => u # v /\ ver'[u] = ver[u]
        BY <2>3, VerEnds
      <3> QED BY <2>1, <3>1, SingleVer DEF Creating
    <2> QED BY <1>6, <2>2, <2>3 DEF FailVerify
  <1> QED BY <1>1, <1>2, <1>3, <1>4, <1>5, <1>6 DEF VerifyStep

\* A verification begins: for its own transfer, only where none is under way.
LEMMA SingleBegin ==
  ASSUME Shape, NEW h \in Hashes, Single(h), NEW v \in Verifiers, NEW w \in Rows,
         BeginVerify(v, w), h \notin overlapped'
  PROVE  Single(h)' /\ Counts(h)
  <1>1. UNCHANGED <<status, hashOf, credits, call>>
    BY DEF BeginVerify, rows
  <1>2. /\ ver'[v].row = w /\ ver'[v].pc \in {"fail", "examine"}
        /\ \A u \in Verifiers : u # v => ver'[u] = ver[u]
    BY DEF BeginVerify, Shape, TypeOK
  <1>3. HasCompleted(h)' <=> HasCompleted(h)
    BY <1>1 DEF HasCompleted
  <1>4. \A u \in Verifiers : u # v => (Handles(u, h)' <=> Handles(u, h))
    BY <1>1, <1>2 DEF Handles, VerHash
  <1>5. CASE hashOf[w] = h
    <2>1. \A u \in Verifiers : ~Handles(u, h)
      BY <1>5 DEF BeginVerify, Verifying, Handles, VerHash
    <2>2. Creating(h) = {} /\ Creating(h)' = {}
      BY <1>1, <1>5 DEF BeginVerify, Creating
    <2>3. status[w] = "pending_verification"
      BY DEF BeginVerify
    <2>4. \A u \in Verifiers : Handles(u, h)' => u = v
      BY <1>4, <2>1
    <2> QED BY <1>1, <1>2, <1>3, <2>2, <2>3, <2>4 DEF Single, Counts
  <1>6. CASE hashOf[w] # h
    <2>1. ~Handles(v, h)'
      BY <1>1, <1>2, <1>6 DEF Handles, VerHash
    <2>2. \A u \in Verifiers : Handles(u, h)' => Handles(u, h) /\ ver'[u] = ver[u]
      BY <1>2, <1>4, <2>1
    <2> QED BY <1>1, <1>3, <2>2 DEF Single, Counts, Creating
  <1> QED BY <1>5, <1>6

\* What a call of createDepositRequest does to those that are creating.
LEMMA CallCreating ==
  ASSUME Shape, NEW h \in Hashes, NEW c \in Creators, NEW r,
         call' = [call EXCEPT ![c] = r], ~(r.pc = "create" /\ r.hash = h)
  PROVE  Creating(h)' = Creating(h) \ {c}
  BY DEF Creating, Shape, TypeOK

LEMMA SingleCreate ==
  ASSUME Shape, NEW h \in Hashes, Single(h), NEW c \in Creators, Create(c), h \notin overlapped'
  PROVE  Single(h)' /\ Counts(h)
  <1>0. IdleCall.pc = "idle"
    BY DEF IdleCall
  <1>1. ASSUME NEW g \in Hashes, ScanPick(c, g) \/ RequestDeposit(c, g)
        PROVE  Single(h)' /\ Counts(h)
    <2>1. UNCHANGED <<status, hashOf, credits, ver>>
          /\ call' = [call EXCEPT ![c] = [pc |-> "check", hash |-> g]]
      BY <1>1 DEF ScanPick, RequestDeposit, Call, rows, history
    <2>2. Creating(h)' = Creating(h) \ {c}
      BY <2>1, CallCreating
    <2> QED BY <2>1, <2>2, SingleVer
  <1>2. CASE FailCall(c)
    <2>1. UNCHANGED <<status, hashOf, credits, ver>> /\ call' = [call EXCEPT ![c] = IdleCall]
      BY <1>2 DEF FailCall, rows, history
    <2>2. Creating(h)' = Creating(h) \ {c}
      BY <1>0, <2>1, CallCreating
    <2> QED BY <2>1, <2>2, SingleVer
  <1>3. CASE CheckCall(c)
    <2>1. UNCHANGED <<status, hashOf, credits, ver>>
      BY <1>3 DEF CheckCall, rows
    <2>2. CASE call[c].hash = h /\ Of(h) = {}
      <3>1. ~HasCompleted(h)
        BY <2>2 DEF HasCompleted, Of
      <3>2. \A v \in Verifiers : ~Handles(v, h)
        BY <2>2 DEF Of, Handles, VerHash, Shape, Named
      <3>3. HasCompleted(h)' <=> HasCompleted(h)
        BY <2>1 DEF HasCompleted
      <3>4. \A v \in Verifiers : ~Handles(v, h)'
        BY <2>1, <3>2 DEF Handles, VerHash
      <3>5. Creating(h) = {} /\ call' = [call EXCEPT ![c] = [pc |-> "create", hash |-> h]]
        BY <1>3, <2>2 DEF CheckCall, Call
      <3>6. \A d, e \in Creating(h)' : d = e
        BY <3>5 DEF Creating, Shape, TypeOK
      <3> QED BY <2>1, <3>1, <3>3, <3>4, <3>6 DEF Single, Counts
    <2>3. CASE ~(call[c].hash = h /\ Of(h) = {})
      <3>1. PICK r \in {[pc |-> "create", hash |-> call[c].hash], IdleCall} :
              call' = [call EXCEPT ![c] = r] /\ ~(r.pc = "create" /\ r.hash = h)
        BY <1>0, <1>3, <2>3 DEF CheckCall, Call
      <3>2. Creating(h)' = Creating(h) \ {c}
        BY <3>1, CallCreating
      <3> QED BY <2>1, <3>2, SingleVer
    <2> QED BY <2>2, <2>3
  <1>4. CASE CreateCall(c)
    <2>1. call[c].hash \in Hashes /\ CreateRow(call[c].hash, "completed") /\ UNCHANGED ver
          /\ credits' = [credits EXCEPT ![call[c].hash] = @ + 1] /\ c \in Creating(call[c].hash)
          /\ call' = [call EXCEPT ![c] = IdleCall]
      BY <1>4 DEF CreateCall, Shape, Named, CreatedStatus, Credit, Creating
    <2>2. "completed" \in Statuses \ {"none"}
      BY DEF Statuses
    <2>3. PICK w \in Rows : /\ status[w] = "none" /\ status'[w] = "completed"
                            /\ hashOf'[w] = call[c].hash
                            /\ \A x \in Rows \ {w} : status'[x] = status[x]
                                                     /\ hashOf'[x] = hashOf[x]
      BY <2>1, <2>2, CreateRowStep
    <2>4. RowsKept /\ credits \in [Hashes -> Nat]
      BY <2>1, <2>2, CreateRowNamed DEF Shape, TypeOK
    <2>5. Creating(h)' = Creating(h) \ {c}
      BY <1>0, <2>1, CallCreating
    <2>6. CASE call[c].hash = h
      <3>1. ~HasCompleted(h) /\ (\A v \in Verifiers : ~Handles(v, h)) /\ Creating(h)' = {}
        BY <2>1, <2>5, <2>6 DEF Single
      <3>2. credits'[h] = credits[h] + 1 /\ HasCompleted(h)'
        BY <2>1, <2>3, <2>4, <2>6, <3>1 DEF HasCompleted
      <3>3. \A v \in Verifiers : ~Handles(v, h)'
        BY <2>1, <2>4, <3>1 DEF Handles, VerHash, RowsKept, Shape, Named
      <3> QED BY <2>1, <2>6, <3>1, <3>2, <3>3 DEF Single, Counts
    <2>7. CASE call[c].hash # h
      <3>1. \A x \in Rows : status'[x] = "completed" /\ hashOf'[x] = h
                              <=> status[x] = "completed" /\ hashOf[x] = h
        BY <2>3, <2>7
      <3>2. \A v \in Verifiers : ver[v].pc # "idle" => status'[ver[v].row] = status[ver[v].row]
        BY <2>3 DEF Shape, Named
      <3>3. credits'[h] = credits[h]
        BY <2>1, <2>4, <2>7
      <3> QED BY <2>1, <2>4, <2>5, <3>1, <3>2, <3>3, SingleQuiet
    <2> QED BY <2>6, <2>7
  <1> QED BY <1>1, <1>2, <1>3, <1>4, TransfersAreHashes DEF Create

\* Submissions and event scans at most add a pending row.
LEMMA SingleAdd ==
  ASSUME Shape, NEW h \in Hashes, Single(h),
         (\E r \in Requests : Submit(r)) \/ (\E s \in Syncs : Sync(s))
  PROVE  Single(h)' /\ Counts(h)
  <1>1. UNCHANGED <<ver, call, credits>>
    BY DEF Submit, BeginSubmit, InsertSubmitted, FailSubmit, Sync, BeginSync, SyncPick, SyncLook,
           SyncInsert, SyncInsertFails, EndSync, FailSync, history
  <1>2. \/ UNCHANGED <<status, hashOf>>
        \/ \E g \in Hashes : CreateRow(g, "pending_verification")
    BY DEF Submit, BeginSubmit, InsertSubmitted, FailSubmit, Sync, BeginSync, SyncPick, SyncLook,
           SyncInsert, SyncInsertFails, EndSync, FailSync, rows, Shape, Named
  <1>3. CASE UNCHANGED <<status, hashOf>>
    BY <1>1, <1>3, SingleVer DEF Creating
  <1>4. ASSUME NEW g \in Hashes, CreateRow(g, "pending_verification") PROVE Single(h)' /\ Counts(h)
    <2>1. "pending_verification" \in Statuses \ {"none"}
      BY DEF Statuses
    <2>2. RowsKept
      BY <1>4, <2>1, CreateRowNamed
    <2>3. \A v \in Verifiers : ver[v].pc # "idle" => status'[ver[v].row] = status[ver[v].row]
      BY <1>4, PendingRow DEF Shape, Named
    <2>4. \A w \in Rows : status'[w] = "completed" /\ hashOf'[w] = h
                            <=> status[w] = "completed" /\ hashOf[w] = h
      BY <1>4, PendingRow
    <2> QED BY <1>1, <2>2, <2>3, <2>4, SingleQuiet DEF Creating
  <1> QED BY <1>2, <1>3, <1>4

LEMMA SingleNext ==
  ASSUME Shape, NEW h \in Hashes, Single(h), [Next]_vars, h \notin overlapped'
  PROVE  Single(h)' /\ Counts(h)
  <1>1. CASE \/ \E S \in SUBSET {g \in Hashes : ~IsMined(g)} : Mine(S)
             \/ saveWalletAddress \/ UNCHANGED vars
    <2>1. UNCHANGED <<status, hashOf, credits, call, ver>>
      BY <1>1 DEF Mine, saveWalletAddress, vars, rows, history
    <2> QED BY <2>1, SingleVer DEF Creating
  <1>2. CASE Restart
    <2>1. UNCHANGED <<status, hashOf, credits>> /\ Creating(h)' = {}
          /\ \A v \in Verifiers : ver'[v].pc = "idle"
      BY <1>2 DEF Restart, rows, Creating, IdleCall, IdleVer
    <2> QED BY <2>1, SingleVer
  <1> QED BY <1>1, <1>2, SingleAdd, SingleVerify, SingleBegin, SingleCreate DEF Next

LEMMA OverlappedKept == ASSUME [Next]_vars PROVE overlapped \subseteq overlapped'
  BY DEF Next, vars, history, Mine, saveWalletAddress, Submit, BeginSubmit, InsertSubmitted,
         FailSubmit, VerifyStep, Examine, FindDuplicate, CommitCredit, WriteFailed, WriteAttempts,
         FailVerify, BeginVerify, Create, ScanPick, RequestDeposit, CheckCall, CreateCall, FailCall, Sync, BeginSync,
         SyncPick, SyncLook, SyncInsert, SyncInsertFails, EndSync, FailSync, Restart

LEMMA OnceNext ==
  ASSUME Shape, NEW h \in Hashes, h \notin overlapped => Once(h), [Next]_vars, h \notin overlapped'
  PROVE  Once(h)'
  <1>1. Once(h)
    BY OverlappedKept
  <1>2. Single(h)' /\ Counts(h)
    BY <1>1, SingleNext DEF Once
  <1>3. credits[h] \in Nat
    BY DEF Shape, TypeOK
  <1> QED BY <1>1, <1>2, <1>3 DEF Once, Counts

OnceInv == \A h \in Hashes \ overlapped : Once(h)

LEMMA OnceInductive ==
  /\ Init => Shape /\ OnceInv
  /\ Shape /\ OnceInv /\ [Next]_vars => (Shape /\ OnceInv)'
  <1>1. ASSUME Init PROVE Shape /\ OnceInv
    <2>1. \A h \in Hashes : /\ credits[h] = 0 /\ Creating(h) = {} /\ ~HasCompleted(h)
                            /\ \A v \in Verifiers : ~Handles(v, h)
      BY <1>1 DEF Init, Creating, HasCompleted, Handles, IdleVer, IdleCall
    <2> QED BY <1>1, <2>1, InitShape DEF OnceInv, Once, Single
  <1>2. ASSUME Shape, OnceInv, [Next]_vars PROVE (Shape /\ OnceInv)'
    <2>1. \A h \in Hashes : h \notin overlapped => Once(h)
      BY <1>2 DEF OnceInv
    <2>2. \A h \in Hashes : h \notin overlapped' => Once(h)'
      BY <1>2, <2>1, OnceNext
    <2> QED BY <1>2, <2>2, NextShape DEF OnceInv
  <1> QED BY <1>1, <1>2

\* "Anti-double-spend": a hash as it is written is credited once, whichever
\* handlers and calls of createDepositRequest find it, unless two verifications
\* of it, two creations, or one of each overlap.
THEOREM OneCredit == Spec => []CreditedOnce
  <1>1. OnceInv => CreditedOnce
    BY DEF OnceInv, Once, CreditedOnce
  <1> QED BY <1>1, OnceInductive, PTL DEF Spec

\* With the same proviso, a deposit is shown completed if and only if its
\* hash was credited.
THEOREM TruthfulStatus == Spec => []StatusTruthful
  <1>1. OnceInv => StatusTruthful
    BY DEF OnceInv, Once, StatusTruthful, HasCompleted, Completed, Of
  <1> QED BY <1>1, OnceInductive, PTL DEF Spec

-----------------------------------------------------------------------------
(* The event scan's height *)

Owed(h, upto) == h \in Transfers /\ kind[h] = "contract" /\ IsMined(h) /\ mined[h] <= upto
Cleared(h) == Of(h) # {} \/ h \in excused

\* Scan s has still to do what its range owes.
Pursued(s) ==
  sync[s].pc # "idle" =>
    /\ sync[s].latest <= head
    /\ \A h \in Hashes : Owed(h, sync[s].latest) => Cleared(h) \/ h \in sync[s].todo

Reached == /\ lastScannedBlock <= head
           /\ \A h \in Hashes : Owed(h, lastScannedBlock) => Cleared(h)

CursorInv == Reached /\ \A s \in Syncs : Pursued(s)

LEMMA ClearedKept ==
  ASSUME Shape, RowsKept, excused \subseteq excused', NEW h \in Hashes, Cleared(h)
  PROVE  Cleared(h)'
  BY DEF Cleared, Of, RowsKept

LEMMA ExcusedKept == ASSUME [Next]_vars PROVE excused \subseteq excused'
  BY DEF Next, vars, history, Mine, saveWalletAddress, Submit, BeginSubmit, InsertSubmitted,
         FailSubmit, VerifyStep, Examine, FindDuplicate, CommitCredit, WriteFailed, WriteAttempts,
         FailVerify, BeginVerify, Create, ScanPick, RequestDeposit, CheckCall, CreateCall, FailCall, Sync, BeginSync,
         SyncPick, SyncLook, SyncInsert, SyncInsertFails, EndSync, FailSync, Restart

\* What is mined by a step is above the head before it.
LEMMA OwedBefore ==
  ASSUME Shape, [Next]_vars, NEW h \in Hashes, NEW upto \in Int, upto <= head, Owed(h, upto)'
  PROVE  Owed(h, upto)
  <1>1. Shape' /\ ChainKept
    BY NextShape
  <1>2. IsMined(h) => Owed(h, upto)
    BY <1>1 DEF ChainKept, Owed, IsMined
  <1>3. CASE UNCHANGED mined
    BY <1>2, <1>3 DEF Owed, IsMined
  <1>4. ASSUME NEW S \in SUBSET {g \in Hashes : ~IsMined(g)}, Mine(S) PROVE IsMined(h)
    <2>1. SUFFICES ASSUME ~IsMined(h) PROVE FALSE
      OBVIOUS
    <2>2. mined'[h] = head + 1 \/ mined'[h] = mined[h]
      BY <1>4 DEF Mine
    <2>3. head \in Nat /\ mined[h] \in Nat
      BY DEF Shape, TypeOK
    <2> QED BY <2>1, <2>2, <2>3 DEF Owed, IsMined
  <1>5. (\A S \in SUBSET {g \in Hashes : ~IsMined(g)} : ~Mine(S)) => UNCHANGED mined
    BY DEF Next, vars, chain, saveWalletAddress, Submit, BeginSubmit, InsertSubmitted,
           FailSubmit, VerifyStep, Examine, FindDuplicate, CommitCredit, WriteFailed, WriteAttempts,
           FailVerify, BeginVerify, Create, ScanPick, RequestDeposit, CheckCall, CreateCall, FailCall, Sync, BeginSync,
           SyncPick, SyncLook, SyncInsert, SyncInsertFails, EndSync, FailSync, Restart
  <1> QED BY <1>2, <1>3, <1>4, <1>5

LEMMA PursuedKept ==
  ASSUME Shape, [Next]_vars, NEW s \in Syncs, Pursued(s),
         sync'[s].pc # "idle" =>
           /\ sync[s].pc # "idle" /\ sync'[s].latest = sync[s].latest
           /\ \A h \in sync[s].todo \ sync'[s].todo : Cleared(h)'
  PROVE  Pursued(s)'
  <1>1. SUFFICES ASSUME sync'[s].pc # "idle" PROVE Pursued(s)'
    BY DEF Pursued
  <1>2. sync[s].latest \in Nat /\ head \in Nat /\ sync[s].latest <= head
    BY <1>1 DEF Shape, TypeOK, Pursued
  <1>3. Shape' /\ RowsKept /\ ChainKept /\ excused \subseteq excused'
    BY NextShape, ExcusedKept
  <1>4. sync'[s].latest <= head'
    BY <1>1, <1>2, <1>3 DEF ChainKept
  <1>5. ASSUME NEW h \in Hashes, Owed(h, sync[s].latest)' PROVE Cleared(h)' \/ h \in sync'[s].todo
    <2>1. sync[s].latest' = sync[s].latest
      BY <1>1
    <2>2. PICK n \in Int : n = sync[s].latest
      BY <1>2
    <2>3. Owed(h, n)'
      BY <1>5, <2>1, <2>2 DEF Owed
    <2>4. Owed(h, n)
      BY <1>2, <2>2, <2>3, OwedBefore
    <2>5. Cleared(h) \/ h \in sync[s].todo
      BY <1>1, <2>2, <2>4 DEF Pursued
    <2> QED BY <1>1, <1>3, <2>5, ClearedKept
  <1> QED BY <1>4, <1>5 DEF Pursued

LEMMA ReachedKept ==
  ASSUME Shape, [Next]_vars, Reached, lastScannedBlock' = lastScannedBlock
  PROVE  Reached'
  <1>1. lastScannedBlock \in Int /\ head \in Nat
    BY DEF Shape, TypeOK, None
  <1>2. RowsKept /\ ChainKept /\ excused \subseteq excused'
    BY NextShape, ExcusedKept
  <1>3. lastScannedBlock' <= head'
    BY <1>1, <1>2 DEF ChainKept, Reached
  <1>4. ASSUME NEW h \in Hashes, Owed(h, lastScannedBlock)' PROVE Cleared(h)'
    <2>1. PICK n \in Int : n = lastScannedBlock
      BY <1>1
    <2>2. Owed(h, n)'
      BY <1>4, <2>1 DEF Owed
    <2>3. Owed(h, n)
      BY <2>1, <2>2, OwedBefore DEF Reached
    <2> QED BY <1>2, <2>1, <2>3, ClearedKept DEF Reached
  <1> QED BY <1>3, <1>4 DEF Reached

LEMMA CursorBegin ==
  ASSUME Shape, CursorInv, NEW s \in Syncs, BeginSync(s)
  PROVE  Reached' /\ Pursued(s)'
  <1>0. /\ head \in Nat /\ lastScannedBlock \in Nat \cup {None} /\ Lookback \in Nat \ {0}
        /\ \A h \in Hashes : mined[h] \in Nat
    BY SettingAssumption DEF Shape, TypeOK
  <1>1. UNCHANGED <<kind, mined, head, status, hashOf>>
    BY DEF BeginSync, chain, rows
  <1>2. PICK latest \in 1 .. head :
          LET from == FirstBlock(latest)
          IN  /\ IF from > latest
                   THEN lastScannedBlock' = latest /\ UNCHANGED sync
                   ELSE /\ sync' = [sync EXCEPT ![s] = [pc |-> "next", todo |-> Events(from, latest),
                                                        hash |-> NoHash, latest |-> latest]]
                        /\ UNCHANGED lastScannedBlock
              /\ excused' = IF lastScannedBlock = None THEN excused \cup Events(0, from - 1)
                                                       ELSE excused
    BY DEF BeginSync
  <1>3. excused \subseteq excused'
    BY <1>2
  <1>4. \A h \in Hashes, n \in Int : Owed(h, n)' <=> Owed(h, n)
    BY <1>1 DEF Owed, IsMined
  <1>5. \A h \in Hashes : Cleared(h) => Cleared(h)'
    BY <1>1, <1>3 DEF Cleared, Of
  <1>6. latest \in Nat /\ latest <= head
    BY <1>0
  <1>7. CASE FirstBlock(latest) > latest
    <2>1. lastScannedBlock' = latest /\ UNCHANGED sync
      BY <1>2, <1>7
    <2>2. lastScannedBlock \in Nat /\ latest <= lastScannedBlock
      BY <1>0, <1>6, <1>7 DEF FirstBlock
    <2>3. ASSUME NEW h \in Hashes, Owed(h, latest) PROVE Cleared(h)
      <3>1. Owed(h, lastScannedBlock)
        BY <1>0, <1>6, <2>2, <2>3 DEF Owed
      <3> QED BY <3>1 DEF CursorInv, Reached
    <2>4. Reached'
      <3>1. lastScannedBlock' <= head'
        BY <1>1, <1>6, <2>1
      <3>2. ASSUME NEW h \in Hashes, Owed(h, lastScannedBlock)' PROVE Cleared(h)'
        <4>1. Owed(h, latest)
          BY <1>1, <2>1, <3>2 DEF Owed, IsMined
        <4> QED BY <1>5, <2>3, <4>1
      <3> QED BY <3>1, <3>2 DEF Reached
    <2>5. Pursued(s)'
      <3>1. Pursued(s)
        BY DEF CursorInv
      <3> QED BY <1>1, <1>5, <2>1, <3>1 DEF Pursued, Owed, IsMined
    <2> QED BY <2>4, <2>5
  <1>8. CASE ~(FirstBlock(latest) > latest)
    <2>1. lastScannedBlock' = lastScannedBlock
      BY <1>2, <1>8
    <2>2. sync' = [sync EXCEPT ![s] = [pc |-> "next", todo |-> Events(FirstBlock(latest), latest),
                                       hash |-> NoHash, latest |-> latest]]
      BY <1>2, <1>8
    <2>3. sync'[s].latest = latest /\ sync'[s].todo = Events(FirstBlock(latest), latest)
      BY <2>2 DEF Shape, TypeOK
    <2>4. FirstBlock(latest) \in Int
      BY <1>0, <1>6 DEF FirstBlock
    <2>5. ASSUME NEW h \in Hashes, Owed(h, latest)
          PROVE  Cleared(h)' \/ h \in Events(FirstBlock(latest), latest)
      <3>1. mined[h] \in Nat /\ mined[h] <= latest /\ IsMined(h) /\ kind[h] = "contract" /\ h \in Transfers
        BY <1>0, <2>5 DEF Owed
      <3>2. CASE mined[h] >= FirstBlock(latest)
        BY <2>4, <3>1, <3>2, <1>6 DEF Events
      <3>3. CASE mined[h] < FirstBlock(latest)
        <4>1. CASE lastScannedBlock = None
          <5>1. h \in Events(0, FirstBlock(latest) - 1)
            BY <2>4, <3>1, <3>3 DEF Events
          <5> QED BY <1>2, <4>1, <5>1 DEF Cleared
        <4>2. CASE lastScannedBlock # None
          <5>1. mined[h] <= lastScannedBlock
            BY <1>0, <3>1, <3>3, <4>2 DEF FirstBlock
          <5>2. Cleared(h)
            BY <3>1, <5>1 DEF CursorInv, Reached, Owed
          <5> QED BY <1>5, <5>2
        <4> QED BY <4>1, <4>2
      <3> QED BY <2>4, <3>1, <3>2, <3>3
    <2>6. Pursued(s)'
      <3>1. sync'[s].latest <= head'
        BY <1>1, <1>6, <2>3
      <3>2. ASSUME NEW h \in Hashes, Owed(h, sync[s].latest)' PROVE Cleared(h)' \/ h \in sync'[s].todo
        <4>1. Owed(h, latest)
          BY <1>1, <2>3, <3>2 DEF Owed, IsMined
        <4> QED BY <2>3, <2>5, <4>1
      <3> QED BY <3>1, <3>2 DEF Pursued
    <2>7. Reached'
      BY <1>1, <1>5, <2>1 DEF CursorInv, Reached, Owed, IsMined
    <2> QED BY <2>6, <2>7
  <1> QED BY <1>7, <1>8

LEMMA CursorSync ==
  ASSUME Shape, CursorInv, NEW s \in Syncs, Sync(s)
  PROVE  Reached' /\ Pursued(s)'
  <1>0. [Next]_vars
    BY DEF Next
  <1>1. sync[s] \in SyncType /\ Pursued(s) /\ Reached
    BY DEF Shape, TypeOK, SyncType, CursorInv
  <1>2. Done(s) \in SyncType /\ Done(s).todo = sync[s].todo \ {sync[s].hash}
        /\ Done(s).latest = sync[s].latest /\ Done(s).pc = "next"
    BY DoneType
  <1>3. CASE BeginSync(s)
    BY <1>3, CursorBegin
  <1>4. CASE SyncPick(s)
    <2>1. lastScannedBlock' = lastScannedBlock /\ sync[s].pc # "idle"
      BY <1>4 DEF SyncPick
    <2>2. sync'[s].latest = sync[s].latest /\ \A h \in sync[s].todo \ sync'[s].todo : h \in excused'
      BY <1>1, <1>4 DEF SyncPick, Shape, TypeOK
    <2> QED BY <1>0, <1>1, <2>1, <2>2, PursuedKept, ReachedKept DEF Cleared
  <1>5. CASE SyncLook(s)
    <2>1. lastScannedBlock' = lastScannedBlock /\ sync[s].pc # "idle" /\ UNCHANGED <<status, hashOf>>
      BY <1>5 DEF SyncLook, rows
    <2>2. sync'[s].latest = sync[s].latest
          /\ \A h \in sync[s].todo \ sync'[s].todo : Of(h) # {}
      <3>1. CASE Of(sync[s].hash) = {}
        <4>1. sync' = [sync EXCEPT ![s] = [sync[s] EXCEPT !.pc = "insert"]]
          BY <1>5, <3>1 DEF SyncLook
        <4> QED BY <4>1 DEF Shape, TypeOK
      <3>2. CASE Of(sync[s].hash) # {}
        <4>1. sync' = [sync EXCEPT ![s] = Done(s)]
          BY <1>5, <3>2 DEF SyncLook
        <4>2. sync'[s] = Done(s)
          BY <4>1 DEF Shape, TypeOK
        <4> QED BY <1>2, <3>2, <4>2
      <3> QED BY <3>1, <3>2
    <2>3. \A h \in sync[s].todo \ sync'[s].todo : Cleared(h)'
      BY <2>1, <2>2 DEF Cleared, Of
    <2> QED BY <1>0, <1>1, <2>1, <2>2, <2>3, PursuedKept, ReachedKept
  <1>6. CASE SyncInsert(s)
    <2>1. lastScannedBlock' = lastScannedBlock /\ sync[s].pc # "idle" /\ sync'[s] = Done(s)
      BY <1>6 DEF SyncInsert, Shape, TypeOK
    <2>2. \E w \in Rows : status'[w] = "pending_verification" /\ hashOf'[w] = sync[s].hash
      <3>1. sync[s].hash \in Hashes /\ CreateRow(sync[s].hash, "pending_verification")
        BY <1>6 DEF SyncInsert, Shape, Named
      <3>2. "pending_verification" \in Statuses \ {"none"}
        BY DEF Statuses
      <3> QED BY <3>1, <3>2, CreateRowStep
    <2>3. \A h \in sync[s].todo \ sync'[s].todo : Cleared(h)'
      BY <1>2, <2>1, <2>2 DEF Cleared, Of
    <2> QED BY <1>0, <1>1, <1>2, <2>1, <2>3, PursuedKept, ReachedKept
  <1>7. CASE SyncInsertFails(s)
    <2>1. lastScannedBlock' = lastScannedBlock /\ sync[s].pc # "idle" /\ sync'[s] = Done(s)
          /\ sync[s].hash \in excused'
      BY <1>7 DEF SyncInsertFails, Shape, TypeOK
    <2> QED BY <1>0, <1>1, <1>2, <2>1, PursuedKept, ReachedKept DEF Cleared
  <1>8. CASE EndSync(s)
    <2>1. /\ lastScannedBlock' = sync[s].latest /\ sync[s].todo = {} /\ sync[s].pc # "idle"
          /\ UNCHANGED <<kind, mined, head, status, hashOf, excused>>
          /\ sync'[s].pc = "idle"
      BY <1>8 DEF EndSync, ScannedTo, chain, rows, history, Shape, TypeOK, IdleSync
    <2>2. Reached'
      BY <1>1, <2>1 DEF Pursued, Reached, Owed, IsMined, Cleared, Of
    <2> QED BY <2>1, <2>2 DEF Pursued
  <1>9. CASE FailSync(s)
    <2>1. lastScannedBlock' = lastScannedBlock /\ sync'[s].pc = "idle"
      BY <1>9 DEF FailSync, Shape, TypeOK, IdleSync
    <2> QED BY <1>0, <1>1, <2>1, ReachedKept DEF Pursued
  <1> QED BY <1>3, <1>4, <1>5, <1>6, <1>7, <1>8, <1>9 DEF Sync

LEMMA CursorNext ==
  ASSUME Shape, CursorInv, [Next]_vars
  PROVE  CursorInv'
  <1>1. Reached /\ \A s \in Syncs : Pursued(s)
    BY DEF CursorInv
  <1>2. ASSUME NEW s \in Syncs, Sync(s) PROVE CursorInv'
    <2>1. \A t \in Syncs \ {s} : sync'[t] = sync[t]
      BY <1>2 DEF Sync, BeginSync, SyncPick, SyncLook, SyncInsert, SyncInsertFails, EndSync, FailSync,
                  Shape, TypeOK
    <2>2. \A t \in Syncs \ {s} : Pursued(t)'
      BY <1>1, <2>1, PursuedKept
    <2> QED BY <1>2, <2>2, CursorSync DEF CursorInv
  <1>3. CASE Restart
    <2>1. lastScannedBlock' = -1 /\ \A s \in Syncs : sync'[s].pc = "idle"
      BY <1>3 DEF Restart, None, IdleSync
    <2>2. Shape'
      BY NextShape
    <2>3. head' \in Nat /\ \A h \in Hashes : mined'[h] \in Nat
      BY <2>2 DEF Shape, TypeOK
    <2>4. Reached'
      BY <2>1, <2>3 DEF Reached, Owed, IsMined
    <2> QED BY <2>1, <2>4 DEF CursorInv, Pursued
  <1>4. CASE UNCHANGED <<sync, lastScannedBlock>>
    <2>1. \A s \in Syncs : Pursued(s)'
      BY <1>1, <1>4, PursuedKept
    <2> QED BY <1>1, <1>4, <2>1, ReachedKept DEF CursorInv
  <1>5. (\A s \in Syncs : ~Sync(s)) /\ ~Restart => UNCHANGED <<sync, lastScannedBlock>>
    BY DEF Next, vars, Mine, saveWalletAddress, Submit, BeginSubmit, InsertSubmitted,
           FailSubmit, VerifyStep, Examine, FindDuplicate, CommitCredit, WriteFailed, WriteAttempts,
           FailVerify, BeginVerify, Create, ScanPick, RequestDeposit, CheckCall, CreateCall, FailCall
  <1> QED BY <1>2, <1>3, <1>4, <1>5

\* The event scan's height covers no deposit without a row, however scans
\* overlap and fail, unless the scan let it go.
THEOREM HonestCursor == Spec => []CursorHonest
  <1>1. Init => Shape /\ CursorInv
    <2> SUFFICES ASSUME Init PROVE Shape /\ CursorInv
      OBVIOUS
    <2>1. lastScannedBlock = -1 /\ head = 1 /\ \A h \in Hashes : mined[h] = 0
      BY DEF Init, None
    <2>2. \A s \in Syncs : sync[s].pc = "idle"
      BY DEF Init, IdleSync
    <2>3. Reached
      BY <2>1 DEF Reached, Owed, IsMined
    <2> QED BY <2>2, <2>3, InitShape DEF CursorInv, Pursued
  <1>2. Shape /\ CursorInv /\ [Next]_vars => (Shape /\ CursorInv)'
    BY NextShape, CursorNext
  <1>3. CursorInv => CursorHonest
    BY TransfersAreHashes DEF CursorInv, Reached, CursorHonest, Owed, Cleared
  <1> QED BY <1>1, <1>2, <1>3, PTL DEF Spec

-----------------------------------------------------------------------------
(***************************************************************************)
(* Deposit tickets, for any number of tickets, players' and administrators'*)
(* requests.                                                               *)
(*                                                                         *)
(* Every ticket step but the commit of an approval leaves Deposits as it   *)
(* is, so what was shown above still holds beside the tickets; only        *)
(* credits is no longer the count of all credits.  Settled: a ticket one   *)
(* request at most handles is not credited while it is handled.  OneWay: a *)
(* transfer has one ticket at most, a completed row if and only if it was  *)
(* credited, and no credit of the verifier's once a ticket was found       *)
(* payable.                                                                *)
(***************************************************************************)
TicketStatuses == {"none", "open", "analyzing", "credited", "rejected"}
Verdicts == {"none", "credited", "payable", "missing"}

StaffType == [pc : {"idle", "analyze", "save", "credit", "reject"},
              ticket : Tickets \cup {0}, seen : Verdicts]
DraftType == [pc : {"idle", "insert"}, hash : Hashes \cup {NoHash}]

TicketTypes ==
  /\ ticket \in [Tickets -> TicketStatuses]
  /\ ticketHash \in [Tickets -> Hashes \cup {NoHash}]
  /\ verdict \in [Tickets -> Verdicts]
  /\ draft \in [Drafts -> DraftType]
  /\ staff \in [Staff -> StaffType]
  /\ paid \in [Tickets -> Nat]

\* A ticket that was not created was not looked at nor paid.
TicketNamed(t) ==
  /\ IF Exists(t) THEN ticketHash[t] \in Hashes
                  ELSE ticketHash[t] = NoHash /\ verdict[t] = "none" /\ paid[t] = 0
  /\ ticket[t] = "credited" => paid[t] > 0

HandlersNamed ==
  /\ \A d \in Drafts : draft[d].pc # "idle" => draft[d].hash \in Hashes
  /\ \A a \in Staff : staff[a].pc # "idle" => staff[a].ticket \in Tickets /\ Exists(staff[a].ticket)

Watched == Clashing \subseteq clashed /\ Crossing \subseteq crossed

TShape == Shape /\ TicketTypes /\ (\A t \in Tickets : TicketNamed(t)) /\ HandlersNamed /\ Watched

\* What the ticket handlers do to the rows and the chain.
LEMMA ApproveShape ==
  ASSUME TShape, NEW a \in Staff, CommitApprove(a)
  PROVE  /\ Shape' /\ RowsKept /\ ChainKept
         /\ staff[a].ticket \in Tickets /\ ticketHash[staff[a].ticket] \in Hashes
         /\ CreateRow(ticketHash[staff[a].ticket], "completed")
  <1> DEFINE h == ticketHash[staff[a].ticket]
  <1>1. h \in Hashes /\ CreateRow(h, "completed") /\ staff[a].ticket \in Tickets
    BY DEF CommitApprove, LeaveRow, TShape, TicketNamed, HandlersNamed
  <1>2. "completed" \in Statuses \ {"none"}
    BY DEF Statuses
  <1>3. /\ status' \in [Rows -> Statuses] /\ hashOf' \in [Rows -> Hashes \cup {NoHash}]
        /\ attempts' = attempts
    BY <1>1, <1>2, CreateRowStep DEF TShape
  <1>4. RowsKept /\ RowsNamed'
    BY <1>1, <1>2, CreateRowNamed DEF TShape
  <1>5. UNCHANGED <<chain, linked, lastScannedBlock, req, ver, call, sync, history>>
    BY DEF CommitApprove
  <1>6. TypeOK'
    BY <1>3, <1>5 DEF TShape, Shape, TypeOK, chain, history
  <1>7. Named'
    BY <1>4, <1>5 DEF TShape, Shape, Named, RowsKept, IsMined, chain, history
  <1>8. ChainKept
    BY <1>5 DEF TShape, Shape, TypeOK, ChainKept, chain
  <1> QED BY <1>1, <1>4, <1>6, <1>7, <1>8 DEF Shape

\* A step of the deposits proper.
Apart == [Next]_vars /\ UNCHANGED tickets
         /\ (\A d \in Drafts : draft'[d] = draft[d] \/ draft'[d] = IdleDraft)
         /\ (\A a \in Staff : staff'[a] = staff[a] \/ staff'[a] = IdleStaff)

LEMMA TSteps ==
  ASSUME TShape, [TNext]_allVars
  PROVE  /\ Apart \/ Ticket
         /\ draft' \in [Drafts -> DraftType] /\ staff' \in [Staff -> StaffType]
         /\ clashed \subseteq clashed' /\ crossed \subseteq crossed'
         /\ Watched'
  <1>0. IdleDraft \in DraftType /\ IdleStaff \in StaffType
    BY DEF IdleDraft, DraftType, IdleStaff, StaffType, Verdicts
  <1>t. draft \in [Drafts -> DraftType] /\ staff \in [Staff -> StaffType]
    BY DEF TShape, TicketTypes
  <1>1. CASE UNCHANGED allVars
    <2>1. UNCHANGED <<vars, tickets, draft, staff, clashed, crossed>>
      BY <1>1 DEF allVars, handlers
    <2>2. Watched'
      BY <2>1 DEF TShape, Watched, Clashing, Crossing, Handling, UnderReview, TicketOf, Exists,
                  Verifying, Creating, Drafting, vars, rows, tickets
    <2> QED BY <1>t, <2>1, <2>2 DEF Apart
  <1>2. CASE TNext
    <2>1. clashed' = clashed \cup Clashing' /\ crossed' = crossed \cup Crossing'
      BY <1>2 DEF TNext
    <2>2. Watched' /\ clashed \subseteq clashed' /\ crossed \subseteq crossed'
      BY <2>1 DEF Watched
    <2>3. CASE Deposit
      <3>1. Next /\ UNCHANGED <<tickets, draft, staff>>
        BY <2>3 DEF Deposit, Next, handlers
      <3> QED BY <1>t, <2>2, <3>1 DEF Apart
    <2>4. CASE RestartAll
      <3>1. /\ Next /\ UNCHANGED tickets
            /\ draft' = [d \in Drafts |-> IdleDraft] /\ staff' = [a \in Staff |-> IdleStaff]
        BY <2>4 DEF RestartAll, Next
      <3> QED BY <1>0, <2>2, <3>1 DEF Apart
    <2>5. CASE Ticket
      <3>1. draft' \in [Drafts -> DraftType]
        <4>1. ASSUME NEW d \in Drafts, NEW h \in Hashes, BeginTicket(d, h)
              PROVE  draft' \in [Drafts -> DraftType]
          BY <1>t, <4>1 DEF BeginTicket, DraftType
        <4>2. CASE (\E d \in Drafts : InsertTicket(d)) \/ FailHandler
          BY <1>0, <1>t, <4>2 DEF InsertTicket, FailHandler
        <4>3. ASSUME NEW a \in Staff PROVE Analyze(a) \/ SaveAnalysis(a) \/ CommitApprove(a)
                                          \/ CommitReject(a) => UNCHANGED draft
          BY DEF Analyze, SaveAnalysis, CommitApprove, CommitReject
        <4>4. ASSUME NEW a \in Staff, NEW t \in Tickets
              PROVE  BeginGet(a, t) \/ BeginApprove(a, t) \/ BeginReject(a, t) => UNCHANGED draft
          BY DEF BeginGet, BeginApprove, BeginReject
        <4> QED BY <1>t, <2>5, <4>1, <4>2, <4>3, <4>4 DEF Ticket
      <3>2. staff' \in [Staff -> StaffType]
        <4>1. CASE \E d \in Drafts : (\E h \in Hashes : BeginTicket(d, h)) \/ InsertTicket(d)
          BY <1>t, <4>1 DEF BeginTicket, InsertTicket
        <4>2. CASE \E a \in Staff, t \in Tickets : BeginGet(a, t) \/ BeginApprove(a, t) \/ BeginReject(a, t)
          BY <1>t, <4>2 DEF BeginGet, BeginApprove, BeginReject, Take, StaffType, Verdicts
        <4>3. ASSUME NEW a \in Staff, Analyze(a) PROVE staff' \in [Staff -> StaffType]
          <5>1. PICK seen \in Verdicts : staff' = [staff EXCEPT ![a].pc = "save", ![a].seen = seen]
            BY <4>3 DEF Analyze, Analysis, Verdicts
          <5> QED BY <1>t, <5>1 DEF StaffType
        <4>4. ASSUME NEW a \in Staff, SaveAnalysis(a) \/ CommitApprove(a) \/ CommitReject(a)
              PROVE  staff' \in [Staff -> StaffType]
          BY <1>0, <1>t, <4>4 DEF SaveAnalysis, CommitApprove, CommitReject
        <4>5. CASE FailHandler
          BY <1>0, <1>t, <4>5 DEF FailHandler
        <4> QED BY <2>5, <4>1, <4>2, <4>3, <4>4, <4>5 DEF Ticket
      <3> QED BY <2>2, <2>5, <3>1, <3>2
    <2> QED BY <1>2, <2>3, <2>4, <2>5 DEF TNext
  <1> QED BY <1>1, <1>2

\* The ticket steps leave the deposits alone, but for the commit of an approval.
LEMMA TicketStill ==
  ASSUME Ticket, \A a \in Staff : ~CommitApprove(a)
  PROVE  UNCHANGED vars
  BY DEF Ticket, BeginTicket, InsertTicket, BeginGet, BeginApprove, BeginReject, Analyze,
         SaveAnalysis, CommitReject, FailHandler

LEMMA ShapeBeside ==
  ASSUME TShape, [TNext]_allVars
  PROVE  Shape' /\ RowsKept /\ ChainKept
  <1>1. Shape /\ (Apart \/ Ticket)
    BY TSteps DEF TShape
  <1>2. CASE Apart
    BY <1>1, <1>2, NextShape DEF Apart
  <1>3. CASE \E a \in Staff : CommitApprove(a)
    BY <1>3, ApproveShape
  <1>4. CASE Ticket /\ \A a \in Staff : ~CommitApprove(a)
    BY <1>1, <1>4, TicketStill, NextShape
  <1> QED BY <1>1, <1>2, <1>3, <1>4

\* The tickets after a step of theirs.
LEMMA TicketTypesNext ==
  ASSUME TShape, [TNext]_allVars
  PROVE  TicketTypes'
  <1>1. TicketTypes /\ draft' \in [Drafts -> DraftType] /\ staff' \in [Staff -> StaffType]
    BY TSteps DEF TShape
  <1>2. UNCHANGED tickets => TicketTypes'
    BY <1>1 DEF TicketTypes, tickets
  <1>3. ASSUME NEW d \in Drafts, InsertTicket(d) PROVE TicketTypes'
    <2>1. draft[d] \in DraftType
      BY <1>1 DEF TicketTypes
    <2> QED BY <1>1, <1>3, <2>1 DEF InsertTicket, TicketTypes, TicketStatuses, DraftType
  <1>4. ASSUME NEW a \in Staff, SaveAnalysis(a) PROVE TicketTypes'
    <2>1. staff[a].seen \in Verdicts
      BY <1>1 DEF TicketTypes, StaffType
    <2> QED BY <1>1, <1>4, <2>1 DEF SaveAnalysis, TicketTypes, TicketStatuses
  <1>5. ASSUME NEW a \in Staff, CommitApprove(a) \/ CommitReject(a) PROVE TicketTypes'
    BY <1>1, <1>5 DEF CommitApprove, CommitReject, TicketTypes, TicketStatuses
  <1>6. CASE \/ \E d \in Drafts, h \in Hashes : BeginTicket(d, h)
             \/ \E a \in Staff, t \in Tickets : BeginGet(a, t) \/ BeginApprove(a, t) \/ BeginReject(a, t)
             \/ \E a \in Staff : Analyze(a)
             \/ FailHandler \/ Apart
    BY <1>2, <1>6 DEF BeginTicket, BeginGet, BeginApprove, BeginReject, Analyze, FailHandler, Apart
  <1> QED BY <1>3, <1>4, <1>5, <1>6, TSteps DEF Ticket

\* A new ticket takes an unused place.
LEMMA NewTicket ==
  ASSUME TShape, NEW d \in Drafts, InsertTicket(d)
  PROVE  /\ draft[d].hash \in Hashes
         /\ \E t \in Tickets : /\ ~Exists(t) /\ ticket'[t] = "open" /\ ticketHash'[t] = draft[d].hash
                               /\ \A u \in Tickets \ {t} : ticket'[u] = ticket[u]
                                                           /\ ticketHash'[u] = ticketHash[u]
         /\ draft'[d].pc = "idle" /\ \A e \in Drafts \ {d} : draft'[e] = draft[e]
         /\ UNCHANGED <<vars, verdict, paid, staff>>
  <1>1. TicketTypes /\ draft[d].hash \in Hashes
    BY DEF TShape, HandlersNamed, InsertTicket
  <1>2. PICK t \in Tickets : /\ ~Exists(t)
                             /\ ticket' = [ticket EXCEPT ![t] = "open"]
                             /\ ticketHash' = [ticketHash EXCEPT ![t] = draft[d].hash]
    BY DEF InsertTicket
  <1>3. draft'[d].pc = "idle" /\ \A e \in Drafts \ {d} : draft'[e] = draft[e]
    BY <1>1 DEF InsertTicket, TicketTypes, IdleDraft
  <1>4. /\ ticket'[t] = "open" /\ ticketHash'[t] = draft[d].hash
        /\ \A u \in Tickets \ {t} : ticket'[u] = ticket[u] /\ ticketHash'[u] = ticketHash[u]
    BY <1>1, <1>2 DEF TicketTypes
  <1>5. UNCHANGED <<vars, verdict, paid, staff>>
    BY DEF InsertTicket
  <1> QED BY <1>1, <1>2, <1>3, <1>4, <1>5

\* A handler ends and leaves its ticket in a state s.
Leaves(a, s) ==
  /\ staff[a].pc # "idle" /\ staff[a].ticket \in Tickets /\ Exists(staff[a].ticket)
  /\ ticket'[staff[a].ticket] = s
  /\ \A u \in Tickets \ {staff[a].ticket} : /\ ticket'[u] = ticket[u] /\ verdict'[u] = verdict[u]
                                            /\ paid'[u] = paid[u]
  /\ staff'[a].pc = "idle" /\ \A b \in Staff \ {a} : staff'[b] = staff[b]
  /\ UNCHANGED <<ticketHash, draft>>

LEMMA HandlerLeaves ==
  ASSUME TShape, NEW a \in Staff
  PROVE  /\ SaveAnalysis(a) => /\ Leaves(a, "analyzing") /\ UNCHANGED paid
                               /\ verdict'[staff[a].ticket] = staff[a].seen
         /\ CommitReject(a) => Leaves(a, "rejected") /\ UNCHANGED <<paid, verdict>>
         /\ CommitApprove(a) => /\ Leaves(a, "credited") /\ UNCHANGED verdict
                                /\ paid'[staff[a].ticket] = paid[staff[a].ticket] + 1
  <1>1. TicketTypes
    BY DEF TShape
  <1>2. staff[a].pc # "idle" => staff[a].ticket \in Tickets /\ Exists(staff[a].ticket)
    BY DEF TShape, HandlersNamed
  <1>3. CASE SaveAnalysis(a)
    BY <1>1, <1>2, <1>3 DEF SaveAnalysis, Leaves, TicketTypes, IdleStaff, CommitReject, CommitApprove
  <1>4. CASE CommitReject(a)
    BY <1>1, <1>2, <1>4 DEF SaveAnalysis, Leaves, TicketTypes, IdleStaff, CommitReject, CommitApprove
  <1>5. CASE CommitApprove(a)
    BY <1>1, <1>2, <1>5 DEF SaveAnalysis, Leaves, TicketTypes, IdleStaff, CommitReject, CommitApprove
  <1> QED BY <1>3, <1>4, <1>5

\* A handler begins with a ticket that exists, and leaves the tickets alone.
Starts(a, t) ==
  /\ staff[a].pc = "idle" /\ Exists(t)
  /\ staff'[a].ticket = t /\ staff'[a].pc \in {"analyze", "credit", "reject"}
  /\ \A b \in Staff \ {a} : staff'[b] = staff[b]
  /\ UNCHANGED <<vars, tickets, draft>>

LEMMA HandlerStarts ==
  ASSUME TShape, NEW a \in Staff, NEW t \in Tickets,
         BeginGet(a, t) \/ BeginApprove(a, t) \/ BeginReject(a, t)
  PROVE  /\ Starts(a, t) /\ ticket[t] # "credited"
         /\ staff'[a].pc = "credit" => verdict[t] = "payable"
  <1>1. staff \in [Staff -> StaffType]
    BY DEF TShape, TicketTypes
  <1>2. CASE BeginGet(a, t) \/ BeginReject(a, t)
    BY <1>1, <1>2 DEF BeginGet, BeginReject, Take, Starts, OpenTicket, Exists
  <1>3. CASE BeginApprove(a, t)
    BY <1>1, <1>3 DEF BeginApprove, Take, Starts, ApprovableTicket, Exists
  <1> QED BY <1>2, <1>3

\* Analysis and failures move a handler and no ticket.
LEMMA HandlerMoves ==
  ASSUME TShape, (\E a \in Staff : Analyze(a)) \/ FailHandler
  PROVE  /\ UNCHANGED <<vars, tickets>>
         /\ \A d \in Drafts : draft'[d].pc # "idle" => draft'[d] = draft[d]
         /\ \A a \in Staff : staff'[a].pc # "idle" =>
              /\ staff[a].pc # "idle" /\ staff'[a].ticket = staff[a].ticket
              /\ staff'[a] = staff[a]
                 \/ /\ staff'[a].pc = "save" /\ staff'[a].seen \in {Analysis(ticketHash[staff[a].ticket]), "missing"}
  <1>1. staff \in [Staff -> StaffType] /\ draft \in [Drafts -> DraftType]
    BY DEF TShape, TicketTypes
  <1>2. ASSUME NEW a \in Staff, Analyze(a)
        PROVE  /\ UNCHANGED draft
               /\ \A b \in Staff \ {a} : staff'[b] = staff[b]
               /\ staff[a].pc # "idle" /\ staff'[a].ticket = staff[a].ticket
               /\ staff'[a].pc = "save" /\ staff'[a].seen \in {Analysis(ticketHash[staff[a].ticket]), "missing"}
    <2>1. PICK seen \in {Analysis(ticketHash[staff[a].ticket]), "missing"} :
            staff' = [staff EXCEPT ![a].pc = "save", ![a].seen = seen]
      BY <1>2 DEF Analyze
    <2>2. staff[a].pc = "analyze" /\ UNCHANGED draft
      BY <1>2 DEF Analyze
    <2>3. /\ \A b \in Staff \ {a} : staff'[b] = staff[b]
          /\ staff'[a].pc = "save" /\ staff'[a].ticket = staff[a].ticket /\ staff'[a].seen = seen
      BY <1>1, <2>1 DEF StaffType
    <2> QED BY <2>1, <2>2, <2>3
  <1>3. CASE FailHandler
    BY <1>1, <1>3 DEF FailHandler, IdleStaff, IdleDraft
  <1>4. UNCHANGED <<vars, tickets>>
    BY DEF Analyze, FailHandler
  <1> QED BY <1>2, <1>3, <1>4

LEMMA TicketKept ==
  ASSUME TShape, [TNext]_allVars, NEW t \in Tickets, Exists(t)
  PROVE  Exists(t)' /\ ticketHash'[t] = ticketHash[t]
  <1>1. CASE UNCHANGED tickets
    BY <1>1 DEF tickets, Exists
  <1>2. ASSUME NEW d \in Drafts, InsertTicket(d) PROVE Exists(t)' /\ ticketHash'[t] = ticketHash[t]
    BY <1>2, NewTicket DEF Exists
  <1>3. ASSUME NEW a \in Staff, SaveAnalysis(a) \/ CommitApprove(a) \/ CommitReject(a)
        PROVE  Exists(t)' /\ ticketHash'[t] = ticketHash[t]
    BY <1>3, HandlerLeaves DEF Leaves, Exists
  <1> QED BY <1>1, <1>2, <1>3, TSteps DEF Ticket, Apart, BeginTicket, BeginGet, BeginApprove, BeginReject,
             Analyze, FailHandler

LEMMA TicketNamedNext ==
  ASSUME TShape, [TNext]_allVars, NEW t \in Tickets
  PROVE  TicketNamed(t)'
  <1>0. TicketNamed(t) /\ TicketTypes
    BY DEF TShape
  <1>1. CASE UNCHANGED tickets
    BY <1>0, <1>1 DEF tickets, Exists, TicketNamed
  <1>2. ASSUME NEW d \in Drafts, InsertTicket(d) PROVE TicketNamed(t)'
    BY <1>0, <1>2, NewTicket, HashAssumption DEF Exists, TicketNamed
  <1>3. ASSUME NEW a \in Staff, SaveAnalysis(a) \/ CommitReject(a) \/ CommitApprove(a)
        PROVE  TicketNamed(t)'
    <2>1. PICK s \in {"analyzing", "rejected", "credited"} : Leaves(a, s)
      BY <1>3, HandlerLeaves
    <2>2. CASE t # staff[a].ticket
      BY <1>0, <2>1, <2>2 DEF Leaves, TicketNamed, Exists
    <2>3. CASE t = staff[a].ticket
      <3>1. paid[t] \in Nat /\ Exists(t)
        BY <1>0, <2>1, <2>3 DEF TicketTypes, Leaves
      <3>2. ticket'[t] = "credited" => paid'[t] = paid[t] + 1
        BY <1>3, <2>3, HandlerLeaves DEF Leaves
      <3> QED BY <1>0, <2>1, <2>3, <3>1, <3>2 DEF Leaves, TicketNamed, Exists
    <2> QED BY <2>2, <2>3
  <1> QED BY <1>1, <1>2, <1>3, TSteps DEF Ticket, Apart, BeginTicket, BeginGet, BeginApprove, BeginReject,
             Analyze, FailHandler

LEMMA HandlersNamedNext ==
  ASSUME TShape, [TNext]_allVars
  PROVE  HandlersNamed'
  <1>0. HandlersNamed /\ TicketTypes
    BY DEF TShape
  <1>1. ASSUME NEW a \in Staff, staff'[a].pc # "idle"
        PROVE  staff'[a].ticket \in Tickets /\ Exists(staff'[a].ticket)
    <2>1. CASE staff[a].pc # "idle" /\ staff'[a].ticket = staff[a].ticket
      BY <1>0, <2>1 DEF HandlersNamed
    <2>2. ASSUME NEW b \in Staff, NEW t \in Tickets,
                 BeginGet(b, t) \/ BeginApprove(b, t) \/ BeginReject(b, t)
          PROVE  staff'[a].ticket \in Tickets /\ Exists(staff'[a].ticket)
      BY <1>1, <2>1, <2>2, HandlerStarts DEF Starts
    <2>3. ASSUME NEW b \in Staff, SaveAnalysis(b) \/ CommitReject(b) \/ CommitApprove(b)
          PROVE  staff'[a].ticket \in Tickets /\ Exists(staff'[a].ticket)
      BY <1>1, <2>1, <2>3, HandlerLeaves DEF Leaves
    <2>4. CASE (\E b \in Staff : Analyze(b)) \/ FailHandler
      BY <1>1, <2>1, <2>4, HandlerMoves
    <2>5. CASE \E d \in Drafts : (\E h \in Hashes : BeginTicket(d, h)) \/ InsertTicket(d)
      BY <1>1, <2>1, <2>5 DEF BeginTicket, InsertTicket
    <2>6. CASE Apart
      BY <1>1, <2>1, <2>6 DEF Apart, IdleStaff
    <2> QED BY <2>2, <2>3, <2>4, <2>5, <2>6, TSteps DEF Ticket
  <1>2. ASSUME NEW d \in Drafts, draft'[d].pc # "idle" PROVE draft'[d].hash \in Hashes
    <2>1. CASE draft'[d] = draft[d]
      BY <1>0, <1>2, <2>1 DEF HandlersNamed
    <2>2. ASSUME NEW e \in Drafts, NEW h \in Hashes, BeginTicket(e, h) PROVE draft'[d].hash \in Hashes
      BY <1>0, <2>1, <2>2 DEF BeginTicket, TicketTypes
    <2>3. ASSUME NEW e \in Drafts, InsertTicket(e) PROVE draft'[d].hash \in Hashes
      BY <1>2, <2>1, <2>3, NewTicket
    <2>4. CASE (\E b \in Staff : Analyze(b)) \/ FailHandler
      BY <1>2, <2>1, <2>4, HandlerMoves
    <2>5. CASE Apart
      BY <1>2, <2>1, <2>5 DEF Apart, IdleDraft
    <2>6. UNCHANGED draft => draft'[d].hash \in Hashes
      BY <2>1
    <2> QED BY <2>2, <2>3, <2>4, <2>5, <2>6, TSteps DEF Ticket, BeginGet, BeginApprove, BeginReject,
               SaveAnalysis, CommitApprove, CommitReject
  <1>3. \A a \in Staff : staff'[a].pc # "idle" => ticket'[staff'[a].ticket] # "none"
    BY <1>1, TicketKept DEF Exists
  <1> QED BY <1>1, <1>2, <1>3 DEF HandlersNamed, Exists

LEMMA TShapeNext == ASSUME TShape, [TNext]_allVars PROVE TShape'
  BY ShapeBeside, TSteps, TicketTypesNext, TicketNamedNext, HandlersNamedNext DEF TShape

LEMMA TShapeInit == TInit => TShape /\ Shape
  <1> SUFFICES ASSUME TInit PROVE TShape /\ Shape
    OBVIOUS
  <1>1. Shape
    BY InitShape DEF TInit
  <1>2. /\ \A t \in Tickets : ~Exists(t) /\ ticketHash[t] = NoHash /\ verdict[t] = "none" /\ paid[t] = 0
        /\ \A d \in Drafts : draft[d].pc = "idle"
        /\ \A a \in Staff : staff[a].pc = "idle"
    BY DEF TInit, Exists, IdleDraft, IdleStaff
  <1>3. TicketTypes
    BY DEF TInit, TicketTypes, IdleDraft, IdleStaff, TicketStatuses, Verdicts, DraftType, StaffType
  <1>4. Clashing = {} /\ Crossing = {}
    BY <1>2 DEF Clashing, Crossing, Handling, UnderReview, TicketOf, Drafting
  <1>5. \A t \in Tickets : TicketNamed(t)
    BY <1>2 DEF TicketNamed, Exists
  <1> QED BY <1>1, <1>2, <1>3, <1>4, <1>5 DEF TShape, HandlersNamed, Watched

-----------------------------------------------------------------------------
(* A ticket is settled once *)

Settled(t) ==
  /\ Handling(t) # {} => ticket[t] # "credited"
  /\ paid[t] = IF ticket[t] = "credited" THEN 1 ELSE 0

SettledInv == TShape /\ \A t \in Tickets \ clashed : Settled(t)

\* Nobody takes the ticket up and it stays as it is.
LEMMA SettledStill ==
  ASSUME NEW t \in Tickets, Settled(t), ticket'[t] = ticket[t], paid'[t] = paid[t],
         \A a \in Staff : staff'[a].pc # "idle" /\ staff'[a].ticket = t =>
            staff[a].pc # "idle" /\ staff[a].ticket = t
  PROVE  Settled(t)'
  BY DEF Settled, Handling

LEMMA SettledNext ==
  ASSUME TShape, [TNext]_allVars, NEW t \in Tickets, t \notin clashed, Settled(t)
  PROVE  Settled(t)'
  <1>1. CASE Apart
    <2>1. \A a \in Staff : staff'[a].pc # "idle" => staff'[a] = staff[a]
      BY <1>1 DEF Apart, IdleStaff
    <2>2. ticket' = ticket /\ paid' = paid
      BY <1>1 DEF Apart, tickets
    <2> QED BY <2>1, <2>2, SettledStill
  <1>2. ASSUME NEW d \in Drafts, NEW h \in Hashes, BeginTicket(d, h) PROVE Settled(t)'
    BY <1>2, SettledStill DEF BeginTicket, tickets
  <1>3. ASSUME NEW d \in Drafts, InsertTicket(d) PROVE Settled(t)'
    <2>1. PICK u \in Tickets : ~Exists(u) /\ ticket'[u] = "open"
                               /\ \A w \in Tickets \ {u} : ticket'[w] = ticket[w]
      BY <1>3, NewTicket
    <2>2. paid' = paid /\ staff' = staff
      BY <1>3, NewTicket
    <2>3. CASE t # u
      BY <2>1, <2>2, <2>3, SettledStill
    <2>4. CASE t = u
      BY <2>1, <2>2, <2>4 DEF Settled, Exists
    <2> QED BY <2>3, <2>4
  <1>4. ASSUME NEW a \in Staff, NEW u \in Tickets,
               BeginGet(a, u) \/ BeginApprove(a, u) \/ BeginReject(a, u)
        PROVE  Settled(t)'
    <2>1. Starts(a, u) /\ ticket[u] # "credited"
      BY <1>4, HandlerStarts
    <2>2. ticket' = ticket /\ paid' = paid
      BY <2>1 DEF Starts, tickets
    <2>3. CASE t # u
      BY <2>1, <2>2, <2>3, SettledStill DEF Starts
    <2>4. CASE t = u
      BY <2>1, <2>2, <2>4 DEF Settled
    <2> QED BY <2>3, <2>4
  <1>5. CASE (\E a \in Staff : Analyze(a)) \/ FailHandler
    <2>1. ticket' = ticket /\ paid' = paid
      BY <1>5, HandlerMoves DEF tickets
    <2> QED BY <1>5, <2>1, HandlerMoves, SettledStill
  <1>6. ASSUME NEW a \in Staff, SaveAnalysis(a) \/ CommitReject(a) \/ CommitApprove(a)
        PROVE  Settled(t)'
    <2>1. PICK s \in {"analyzing", "rejected", "credited"} : Leaves(a, s)
      BY <1>6, HandlerLeaves
    <2>2. CASE t # staff[a].ticket
      <3>1. ticket'[t] = ticket[t] /\ paid'[t] = paid[t]
        BY <2>1, <2>2 DEF Leaves
      <3>2. \A b \in Staff : staff'[b].pc # "idle" => staff'[b] = staff[b]
        BY <2>1 DEF Leaves
      <3> QED BY <3>1, <3>2, SettledStill
    <2>3. CASE t = staff[a].ticket
      <3>1. a \in Handling(t) /\ ticket[t] # "credited" /\ paid[t] = 0
        BY <2>1, <2>3 DEF Leaves, Handling, Settled
      <3>2. t \notin Clashing
        BY DEF TShape, Watched
      <3>3. \A b \in Handling(t) : b = a
        BY <3>1, <3>2 DEF Clashing
      <3>4. Handling(t)' = {}
        BY <2>1, <3>3 DEF Handling, Leaves
      <3>5. CASE CommitApprove(a)
        BY <2>3, <3>1, <3>4, <3>5, HandlerLeaves DEF Settled, Leaves
      <3>6. CASE SaveAnalysis(a) \/ CommitReject(a)
        BY <2>3, <3>1, <3>4, <3>6, HandlerLeaves DEF Settled, Leaves
      <3> QED BY <1>6, <3>5, <3>6
    <2> QED BY <2>2, <2>3
  <1> QED BY <1>1, <1>2, <1>3, <1>4, <1>5, <1>6, TSteps DEF Ticket

\* adminApproveTicket: "Ticket ja resolvido".  A ticket is credited once and
\* says so ever after, unless two administrators' requests handled it at a
\* time, for any number of tickets and requests.
THEOREM SettledOnce == TSpec => []TicketSettledOnce
  <1>1. TInit => SettledInv
    <2> SUFFICES ASSUME TInit PROVE SettledInv
      OBVIOUS
    <2>1. \A t \in Tickets : ticket[t] = "none" /\ paid[t] = 0
      BY DEF TInit
    <2> QED BY <2>1, TShapeInit DEF SettledInv, Settled
  <1>2. SettledInv /\ [TNext]_allVars => SettledInv'
    <2> SUFFICES ASSUME SettledInv, [TNext]_allVars PROVE SettledInv'
      OBVIOUS
    <2>1. TShape /\ clashed \subseteq clashed'
      BY TSteps DEF SettledInv
    <2>2. ASSUME NEW t \in Tickets, t \notin clashed' PROVE Settled(t)'
      <3>1. t \notin clashed /\ Settled(t)
        BY <2>1, <2>2 DEF SettledInv
      <3> QED BY <2>1, <3>1, SettledNext
    <2>3. Tickets' = Tickets
      BY DEF Tickets
    <2> QED BY <2>1, <2>2, <2>3, TShapeNext DEF SettledInv
  <1>3. SettledInv => TicketSettledOnce
    BY DEF SettledInv, Settled, TicketSettledOnce
  <1> QED BY <1>1, <1>2, <1>3, PTL DEF TSpec

-----------------------------------------------------------------------------
(* A transfer is credited one way *)

PaidFor(h) == \E t \in TicketOf(h) : paid[t] > 0

\* A request that credits the ticket, or is about to note that it may be.
Credits(a) == staff[a].pc = "credit" \/ (staff[a].pc = "save" /\ staff[a].seen = "payable")

TicketPayable(h) ==
  \/ \E t \in TicketOf(h) : verdict[t] = "payable"
  \/ \E a \in Staff : Credits(a) /\ staff[a].ticket \in TicketOf(h)

\* Of a transfer no two requests handled at a time.
OneTicket(h) ==
  /\ \A t, u \in TicketOf(h) : t = u
  /\ Drafting(h) # {} => TicketOf(h) = {}

OneWay(h) ==
  /\ Single(h) /\ OneTicket(h)
  /\ credits[h] + (IF PaidFor(h) THEN 1 ELSE 0) = IF HasCompleted(h) THEN 1 ELSE 0
  /\ TicketPayable(h) => credits[h] = 0

OneWayInv == TShape /\ \A h \in Hashes \ (overlapped \cup crossed) : OneWay(h)

\* What was found payable is under review until it is paid.
LEMMA TicketReviewed ==
  ASSUME TShape, NEW h \in Hashes, TicketPayable(h)
  PROVE  UnderReview(h) \/ PaidFor(h)
  <1>1. PICK t \in TicketOf(h) : verdict[t] = "payable" \/ Handling(t) # {}
    BY DEF TicketPayable, Credits, Handling
  <1>2. ticket[t] = "credited" => paid[t] > 0
    BY DEF TShape, TicketNamed, TicketOf
  <1> QED BY <1>1, <1>2 DEF UnderReview, PaidFor

\* No verification and no creation is under way beside a review.
LEMMA ReviewedAlone ==
  ASSUME TShape, NEW h \in Hashes, h \notin crossed, UnderReview(h)
  PROVE  Creating(h) = {} /\ \A v \in Verifiers : ~Handles(v, h)
  BY DEF TShape, Watched, Crossing, Verifying, Handles, VerHash

\* No ticket of the transfer is added, paid or found payable.
LEMMA OneWayStill ==
  ASSUME TShape, NEW h \in Hashes, OneWay(h), Single(h)',
         HasCompleted(h)' <=> HasCompleted(h), credits'[h] = credits[h],
         TicketOf(h)' = TicketOf(h), PaidFor(h)' <=> PaidFor(h),
         Drafting(h)' # {} => Drafting(h) # {} \/ TicketOf(h) = {},
         TicketPayable(h)' => TicketPayable(h) \/ credits[h] = 0
  PROVE  OneWay(h)'
  <1>1. OneTicket(h)'
    BY DEF OneWay, OneTicket
  <1> QED BY <1>1 DEF OneWay

LEMMA OneWayApart ==
  ASSUME TShape, NEW h \in Hashes, h \notin overlapped', h \notin crossed, OneWay(h), Apart
  PROVE  OneWay(h)'
  <1>1. Single(h)' /\ Counts(h) /\ credits[h] \in Nat
    BY SingleNext DEF OneWay, Apart, TShape, Shape, TypeOK
  <1>2. TicketOf(h)' = TicketOf(h) /\ (PaidFor(h)' <=> PaidFor(h)) /\ UNCHANGED <<verdict, ticketHash>>
    BY DEF Apart, tickets, TicketOf, Exists, PaidFor
  <1>3. Drafting(h)' # {} => Drafting(h) # {}
    BY DEF Apart, Drafting, IdleDraft
  <1>4. TicketPayable(h)' => TicketPayable(h)
    <2>1. \A a \in Staff : Credits(a)' => Credits(a) /\ staff'[a] = staff[a]
      BY DEF Apart, IdleStaff, Credits
    <2> QED BY <1>2, <2>1 DEF TicketPayable
  <1>5. CASE (HasCompleted(h)' <=> HasCompleted(h)) /\ credits'[h] = credits[h]
    BY <1>1, <1>2, <1>3, <1>4, <1>5, OneWayStill
  <1>6. CASE /\ ~HasCompleted(h) /\ HasCompleted(h)' /\ credits'[h] = credits[h] + 1
             /\ Creating(h) # {} \/ \E v \in Verifiers : Handles(v, h)
    <2>1. ~PaidFor(h) /\ credits[h] = 0
      BY <1>1, <1>6 DEF OneWay
    <2>2. ~TicketPayable(h)
      BY <1>6, <2>1, TicketReviewed, ReviewedAlone
    <2>3. OneTicket(h)'
      BY <1>2, <1>3 DEF OneWay, OneTicket
    <2> QED BY <1>1, <1>2, <1>4, <1>6, <2>1, <2>2, <2>3 DEF OneWay
  <1> QED BY <1>1, <1>5, <1>6 DEF Counts

\* A ticket step that leaves the deposits alone.
LEMMA OneWayBeside ==
  ASSUME TShape, NEW h \in Hashes, h \notin overlapped, OneWay(h), UNCHANGED vars
  PROVE  Single(h)' /\ (HasCompleted(h)' <=> HasCompleted(h)) /\ credits'[h] = credits[h]
  <1>1. UNCHANGED <<status, hashOf, credits, ver, call>>
    BY DEF vars, rows, history
  <1> QED BY <1>1, SingleVer DEF OneWay, TShape, Creating, HasCompleted

LEMMA OneWayOpened ==
  ASSUME TShape, NEW h \in Hashes, h \notin overlapped, h \notin crossed, OneWay(h),
         NEW d \in Drafts, InsertTicket(d)
  PROVE  OneWay(h)'
  <1>1. PICK t \in Tickets : /\ ~Exists(t) /\ ticket'[t] = "open" /\ ticketHash'[t] = draft[d].hash
                             /\ \A u \in Tickets \ {t} : ticket'[u] = ticket[u]
                                                         /\ ticketHash'[u] = ticketHash[u]
    BY NewTicket
  <1>2. /\ draft'[d].pc = "idle" /\ \A e \in Drafts \ {d} : draft'[e] = draft[e]
        /\ UNCHANGED <<vars, verdict, paid, staff>>
    BY NewTicket
  <1>3. Single(h)' /\ (HasCompleted(h)' <=> HasCompleted(h)) /\ credits'[h] = credits[h]
    BY <1>2, OneWayBeside
  <1>4. t \notin TicketOf(h) /\ verdict[t] = "none" /\ paid[t] = 0 /\ Tickets' = Tickets
    BY <1>1 DEF TShape, TicketNamed, TicketOf, Exists, Tickets
  <1>5. Drafting(h)' \subseteq Drafting(h) /\ d \notin Drafting(h)'
    BY <1>2 DEF Drafting
  <1>6. CASE draft[d].hash # h
    <2>1. TicketOf(h)' = TicketOf(h)
      BY <1>1, <1>4, <1>6 DEF TicketOf, Exists
    <2>2. (PaidFor(h)' <=> PaidFor(h)) /\ (TicketPayable(h)' => TicketPayable(h))
      BY <1>2, <2>1 DEF PaidFor, TicketPayable, Credits
    <2> QED BY <1>3, <1>5, <2>1, <2>2, OneWayStill
  <1>7. CASE draft[d].hash = h
    <2>1. d \in Drafting(h)
      BY <1>7 DEF Drafting, InsertTicket
    <2>2. TicketOf(h) = {}
      BY <2>1 DEF OneWay, OneTicket
    <2>3. Drafting(h)' = {}
      BY <1>5, <2>1 DEF TShape, Watched, Crossing
    <2>4. TicketOf(h)' = {t}
      BY <1>1, <1>4, <1>7, <2>2 DEF TicketOf, Exists
    <2>5. ~PaidFor(h) /\ ~PaidFor(h)'
      BY <1>2, <1>4, <2>2, <2>4 DEF PaidFor
    <2>6. ~TicketPayable(h)'
      <3>1. \A a \in Staff : Credits(a)' => staff'[a].ticket # t
        BY <1>1, <1>2 DEF Credits, TShape, HandlersNamed
      <3> QED BY <1>2, <1>4, <2>4, <3>1 DEF TicketPayable
    <2>7. OneTicket(h)'
      BY <2>3, <2>4 DEF OneTicket
    <2> QED BY <1>3, <2>5, <2>6, <2>7 DEF OneWay
  <1> QED BY <1>6, <1>7

LEMMA OneWayApproved ==
  ASSUME TShape, NEW h \in Hashes, h \notin overlapped, h \notin crossed, OneWay(h),
         NEW a \in Staff, CommitApprove(a)
  PROVE  OneWay(h)'
  <1> DEFINE t == staff[a].ticket
             g == ticketHash[t]
  <1>1. /\ t \in Tickets /\ g \in Hashes /\ CreateRow(g, "completed") /\ RowsKept
        /\ UNCHANGED <<ver, call, credits, draft>>
    BY ApproveShape DEF CommitApprove, history
  <1>2. /\ Leaves(a, "credited") /\ UNCHANGED <<verdict, ticketHash>>
        /\ paid'[t] = paid[t] + 1 /\ paid[t] \in Nat /\ staff[a].pc = "credit"
    BY <1>1, HandlerLeaves DEF Leaves, TShape, TicketTypes, CommitApprove
  <1>3. \A k \in Hashes : TicketOf(k)' = TicketOf(k)
    BY <1>2 DEF Leaves, TicketOf, Exists, Tickets
  <1>4. TicketPayable(h)' => TicketPayable(h)
    BY <1>2, <1>3 DEF TicketPayable, Credits, Leaves
  <1>5. Drafting(h)' = Drafting(h) /\ OneTicket(h)'
    BY <1>1, <1>3 DEF Drafting, OneTicket, OneWay
  <1>6. PICK w \in Rows : /\ status[w] = "none" /\ status'[w] = "completed" /\ hashOf'[w] = g
                          /\ \A x \in Rows \ {w} : status'[x] = status[x] /\ hashOf'[x] = hashOf[x]
    <2>1. "completed" \in Statuses \ {"none"}
      BY DEF Statuses
    <2> HIDE DEF g
    <2> QED BY <1>1, <2>1, CreateRowStep DEF TShape
  <1>7. /\ \A v \in Verifiers : Handles(v, h)' <=> Handles(v, h)
        /\ \A v \in Verifiers : Handles(v, h) => ver[v].row # w /\ status'[ver[v].row] = status[ver[v].row]
        /\ Creating(h)' = Creating(h)
    BY <1>1, <1>6 DEF Handles, VerHash, Creating, TShape, Shape, Named, RowsKept
  <1>8. CASE g # h
    <2>1. HasCompleted(h)' <=> HasCompleted(h)
      BY <1>6, <1>8 DEF HasCompleted, TShape, Shape, Named, RowsNamed
    <2>2. Single(h)'
      BY <1>1, <1>7, <2>1 DEF OneWay, Single
    <2>3. PaidFor(h)' <=> PaidFor(h)
      BY <1>2, <1>3, <1>8 DEF PaidFor, TicketOf, Leaves
    <2> QED BY <1>1, <1>3, <1>4, <1>5, <2>1, <2>2, <2>3, OneWayStill
  <1>9. CASE g = h
    <2>1. t \in TicketOf(h)
      BY <1>1, <1>2, <1>9 DEF TicketOf, Leaves
    <2>2. TicketPayable(h) /\ credits[h] = 0
      BY <1>2, <2>1 DEF TicketPayable, Credits, OneWay
    <2>3. PaidFor(h)'
      BY <1>2, <1>3, <2>1 DEF PaidFor
    <2>4. HasCompleted(h)'
      BY <1>6, <1>9 DEF HasCompleted
    <2>5. HasCompleted(h) \/ (Creating(h) = {} /\ \A v \in Verifiers : ~Handles(v, h))
      BY <2>2, TicketReviewed, ReviewedAlone DEF OneWay
    <2>6. Single(h)'
      BY <1>1, <1>7, <2>4, <2>5 DEF OneWay, Single
    <2> QED BY <1>1, <1>5, <2>2, <2>3, <2>4, <2>6 DEF OneWay
  <1> QED BY <1>8, <1>9

LEMMA OneWayHandled ==
  ASSUME TShape, NEW h \in Hashes, h \notin overlapped, OneWay(h),
         \/ \E a \in Staff, t \in Tickets : BeginGet(a, t) \/ BeginApprove(a, t) \/ BeginReject(a, t)
         \/ \E a \in Staff : Analyze(a) \/ SaveAnalysis(a) \/ CommitReject(a)
         \/ FailHandler
  PROVE  OneWay(h)'
  <1>1. UNCHANGED vars /\ Single(h)' /\ (HasCompleted(h)' <=> HasCompleted(h)) /\ credits'[h] = credits[h]
    <2>1. UNCHANGED vars
      BY DEF BeginGet, BeginApprove, BeginReject, Analyze, SaveAnalysis, CommitReject, FailHandler
    <2> QED BY <2>1, OneWayBeside
  <1>2. ASSUME NEW a \in Staff, NEW t \in Tickets,
               BeginGet(a, t) \/ BeginApprove(a, t) \/ BeginReject(a, t)
        PROVE  OneWay(h)'
    <2>1. Starts(a, t) /\ (staff'[a].pc = "credit" => verdict[t] = "payable")
      BY <1>2, HandlerStarts
    <2>2. UNCHANGED <<ticket, ticketHash, verdict, paid, draft>>
      BY <2>1 DEF Starts, tickets
    <2>3. /\ TicketOf(h)' = TicketOf(h) /\ (PaidFor(h)' <=> PaidFor(h))
          /\ Drafting(h)' = Drafting(h)
      BY <2>2 DEF TicketOf, Exists, PaidFor, Drafting, Tickets
    <2>4. TicketPayable(h)' => TicketPayable(h)
      <3>1. \A b \in Staff \ {a} : Credits(b)' => Credits(b) /\ staff'[b].ticket = staff[b].ticket
        BY <2>1 DEF Starts, Credits
      <3>2. Credits(a)' => staff'[a].ticket = t /\ verdict[t] = "payable"
        BY <2>1 DEF Starts, Credits
      <3> QED BY <2>2, <2>3, <3>1, <3>2 DEF TicketPayable
    <2> QED BY <1>1, <2>3, <2>4, OneWayStill
  <1>3. CASE (\E a \in Staff : Analyze(a)) \/ FailHandler
    <2>1. UNCHANGED <<ticket, ticketHash, verdict, paid>>
      BY <1>3, HandlerMoves DEF tickets
    <2>2. /\ TicketOf(h)' = TicketOf(h) /\ (PaidFor(h)' <=> PaidFor(h))
          /\ Drafting(h)' # {} => Drafting(h) # {}
      BY <1>3, <2>1, HandlerMoves DEF TicketOf, Exists, PaidFor, Drafting, Tickets
    <2>3. TicketPayable(h)' => TicketPayable(h) \/ credits[h] = 0
      <3>1. ASSUME NEW a \in Staff, Credits(a)', staff'[a].ticket \in TicketOf(h), ~Credits(a)
            PROVE  credits[h] = 0
        <4>1. /\ staff'[a].ticket = staff[a].ticket
              /\ Analysis(ticketHash[staff[a].ticket]) = "payable"
          BY <1>3, <3>1, HandlerMoves DEF Credits
        <4>2. ticketHash[staff[a].ticket] = h
          BY <3>1, <4>1 DEF TicketOf
        <4>3. ~HasCompleted(h)
          BY <4>1, <4>2 DEF Analysis, AlreadyCredited, Completed, Of, HasCompleted
        <4>4. credits[h] \in Nat
          BY DEF TShape, Shape, TypeOK
        <4> QED BY <4>3, <4>4 DEF OneWay
      <3>2. \A a \in Staff : Credits(a)' => staff'[a].ticket = staff[a].ticket
        BY <1>3, HandlerMoves DEF Credits
      <3> QED BY <2>1, <2>2, <3>1, <3>2 DEF TicketPayable
    <2> QED BY <1>1, <2>2, <2>3, OneWayStill
  <1>4. ASSUME NEW a \in Staff, SaveAnalysis(a) \/ CommitReject(a) PROVE OneWay(h)'
    <2>1. PICK s \in {"analyzing", "rejected"} : Leaves(a, s)
      BY <1>4, HandlerLeaves
    <2>2. UNCHANGED <<paid, ticketHash>>
      BY <1>4, HandlerLeaves DEF Leaves
    <2>3. TicketOf(h)' = TicketOf(h)
      BY <2>1 DEF Leaves, TicketOf, Exists, Tickets
    <2>4. (PaidFor(h)' <=> PaidFor(h)) /\ Drafting(h)' = Drafting(h)
      BY <2>1, <2>2, <2>3 DEF Leaves, PaidFor, Drafting
    <2>5. TicketPayable(h)' => TicketPayable(h)
      <3>1. \A b \in Staff : Credits(b)' => Credits(b) /\ staff'[b].ticket = staff[b].ticket
        BY <2>1 DEF Leaves, Credits
      <3>2. ASSUME NEW t \in TicketOf(h), verdict'[t] = "payable" PROVE TicketPayable(h)
        <4>1. CASE t # staff[a].ticket
          BY <2>1, <3>2, <4>1 DEF Leaves, TicketPayable, TicketOf
        <4>2. CASE t = staff[a].ticket /\ SaveAnalysis(a)
          <5>1. staff[a].seen = "payable" /\ staff[a].pc = "save"
            BY <3>2, <4>2, HandlerLeaves DEF SaveAnalysis
          <5> QED BY <4>2, <5>1 DEF TicketPayable, Credits
        <4>3. CASE t = staff[a].ticket /\ CommitReject(a)
          BY <3>2, <4>3, HandlerLeaves DEF TicketPayable
        <4> QED BY <1>4, <4>1, <4>2, <4>3
      <3> QED BY <2>3, <3>1, <3>2 DEF TicketPayable
    <2> QED BY <1>1, <2>3, <2>4, <2>5, OneWayStill
  <1> QED BY <1>2, <1>3, <1>4

LEMMA OneWayNext ==
  ASSUME TShape, [TNext]_allVars, NEW h \in Hashes, h \notin overlapped', h \notin overlapped,
         h \notin crossed, OneWay(h)
  PROVE  OneWay(h)'
  <1>1. ASSUME NEW d \in Drafts, NEW g \in Hashes, BeginTicket(d, g) PROVE OneWay(h)'
    <2>1. UNCHANGED <<vars, tickets, staff>> /\ TicketOf(g) = {}
      BY <1>1 DEF BeginTicket, HasTicket
    <2>2. UNCHANGED <<ticket, ticketHash, verdict, paid>>
      BY <2>1 DEF tickets
    <2>3. /\ TicketOf(h)' = TicketOf(h) /\ (PaidFor(h)' <=> PaidFor(h)) /\ (TicketPayable(h)' <=> TicketPayable(h))
      BY <2>1, <2>2 DEF TicketOf, Exists, PaidFor, TicketPayable, Credits, Tickets
    <2>4. Drafting(h)' # {} => Drafting(h) # {} \/ TicketOf(h) = {}
      <3>1. draft' = [draft EXCEPT ![d] = [pc |-> "insert", hash |-> g]] /\ draft \in [Drafts -> DraftType]
        BY <1>1 DEF BeginTicket, TShape, TicketTypes
      <3> QED BY <2>1, <3>1 DEF Drafting
    <2> QED BY <2>1, <2>3, <2>4, OneWayBeside, OneWayStill
  <1> QED BY <1>1, OneWayApart, OneWayOpened, OneWayApproved, OneWayHandled, TSteps DEF Ticket

\* A hash as it is written is credited by verification, by createDepositRequest
\* or by a ticket and never by two of them, unless the review of a ticket
\* overlaps a verification or a creation, two of these overlap, or two tickets
\* are created at a time: for any number of hashes, tickets and requests.
THEOREM CreditedOnceAllTold == TSpec => []CreditedOneWay
  <1>1. TInit => OneWayInv
    <2> SUFFICES ASSUME TInit, NEW h \in Hashes PROVE OneWay(h)
      BY TShapeInit DEF OneWayInv
    <2>1. TShape /\ TicketOf(h) = {}
      BY TShapeInit DEF TInit, TicketOf, Exists
    <2>2. Drafting(h) = {} /\ ~TicketPayable(h) /\ ~PaidFor(h)
      BY <2>1 DEF TInit, Drafting, IdleDraft, TicketPayable, PaidFor
    <2>3. Single(h) /\ credits[h] = 0 /\ ~HasCompleted(h)
      BY DEF TInit, Init, Single, Handles, Creating, HasCompleted, IdleVer, IdleCall
    <2> QED BY <2>1, <2>2, <2>3 DEF OneWay, OneTicket
  <1>2. OneWayInv /\ [TNext]_allVars => OneWayInv'
    <2> SUFFICES ASSUME OneWayInv, [TNext]_allVars PROVE OneWayInv'
      OBVIOUS
    <2>1. TShape /\ crossed \subseteq crossed'
      BY TSteps DEF OneWayInv
    <2>2. overlapped \subseteq overlapped'
      <3>1. [Next]_vars => overlapped \subseteq overlapped'
        BY OverlappedKept
      <3>2. Ticket => UNCHANGED overlapped
        BY TicketStill DEF CommitApprove, vars, history
      <3> QED BY <2>1, <3>1, <3>2, TSteps DEF Apart
    <2>3. ASSUME NEW h \in Hashes, h \notin overlapped' \cup crossed' PROVE OneWay(h)'
      <3>1. h \notin overlapped \cup crossed /\ OneWay(h)
        BY <2>1, <2>2, <2>3 DEF OneWayInv
      <3> QED BY <2>1, <2>3, <3>1, OneWayNext
    <2> QED BY <2>1, <2>3, TShapeNext DEF OneWayInv
  <1>3. OneWayInv => CreditedOneWay
    <2> SUFFICES ASSUME OneWayInv, NEW h \in Hashes \ (overlapped \cup crossed) PROVE CreditsOf(h) <= 1
      BY DEF CreditedOneWay
    <2> DEFINE S == {t \in TicketOf(h) : paid[t] > 0}
    <2>1. OneWay(h) /\ credits[h] \in Nat
      BY DEF OneWayInv, TShape, Shape, TypeOK
    <2>2. CASE PaidFor(h)
      <3>1. PICK t \in TicketOf(h) : paid[t] > 0
        BY <2>2 DEF PaidFor
      <3>2. S = {t}
        BY <2>1, <3>1 DEF OneWay, OneTicket
      <3>3. Cardinality(S) = 1
        BY <3>2, FS_Singleton
      <3> QED BY <2>1, <2>2, <3>3 DEF OneWay, CreditsOf
    <2>3. CASE ~PaidFor(h)
      <3>1. S = {}
        BY <2>3 DEF PaidFor
      <3>2. Cardinality(S) = 0
        BY <3>1, FS_EmptySet
      <3> QED BY <2>1, <2>3, <3>2 DEF OneWay, CreditsOf
    <2> QED BY <2>2, <2>3
  <1> QED BY <1>1, <1>2, <1>3, PTL DEF TSpec

=============================================================================
