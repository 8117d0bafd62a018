------------------------- MODULE Withdrawals_proofs -------------------------
(***************************************************************************)
(* Theorems about Withdrawals, for any number of requests of the player,   *)
(* of administrators and of cron runs.                                     *)
(*                                                                         *)
(* The handlers and the cron job write what they decided from a row read   *)
(* earlier.  As long as a withdrawal has been in one hand at a time        *)
(* (w \notin raced), what that hand read still holds (AsRead), a refund    *)
(* has left it failed (Refunded), and a payment has left it completed or   *)
(* about to be (Paid).                                                     *)
(***************************************************************************)
EXTENDS Withdrawals, Sums_proofs, TLAPS

InHand == \A a \in Admins : adm[a].pc # "idle" => adm[a].w \in W

TInv == TypeOK /\ InHand

\* What a handler or a cron run read of w is still so.
AsRead(w) ==
  /\ \A a \in Admins : adm[a].w = w =>
       /\ adm[a].pc = "approve" => status[w] = "pending"
       /\ adm[a].pc \in {"reject", "fail", "complete"} => status[w] \in OpenStatuses
       /\ adm[a].pc = "fail" => adm[a].prev = status[w]
  /\ \A t \in Ticks : w \in tick[t].todo => status[w] = "approved"

Refunded(w) == refunds[w] > 0 => refunds[w] = 1 /\ status[w] = "failed"

Paid(w) ==
  Payments(w) > 0 =>
    Payments(w) = 1 /\ refunds[w] = 0 /\ (status[w] = "completed" \/ Marking(w))

Sound(w) ==
  /\ w \notin raced => ~InTwoHands(w) /\ AsRead(w) /\ Refunded(w)
  /\ w \notin raced \cup unrecorded => Paid(w)

IInv == TInv /\ \A w \in W : Sound(w)

-----------------------------------------------------------------------------
(* Types                                                                   *)

ReqType == [Requests -> [pc : {"idle", "balance", "commit"}, amount : Amounts \cup {0}]]
AdmType == [Admins -> [pc : {"idle", "approve", "reject", "fail", "complete"},
                       w : W \cup {0}, prev : Statuses]]
TickType == [Ticks -> [pc : {"idle", "send", "mark"}, todo : SUBSET W]]

LEMMA AmountInt == \A n \in Amounts \cup {0} : n \in Int /\ n >= 0
  BY AmountsAssumption

LEMMA InitTInv == Init => TInv
  <1> SUFFICES ASSUME Init PROVE TInv
    OBVIOUS
  <1>1. balance \in Int /\ mem \in Int
    BY OpeningAssumption DEF Init
  <1>2. status \in [W -> Statuses] /\ amount \in [W -> Amounts \cup {0}]
    BY DEF Init, Statuses
  <1>3. req \in ReqType
    BY DEF Init, IdleReq, ReqType
  <1>4. adm \in AdmType
    BY DEF Init, IdleAdm, Statuses, AdmType
  <1>5. tick \in TickType
    BY DEF Init, IdleTick, TickType
  <1>6. manualPaid \subseteq W /\ autoPaid \in [W -> 0 .. 2] /\ refunds \in [W -> 0 .. 2]
    BY DEF Init
  <1>8. raced \subseteq W /\ unrecorded \subseteq W
    BY DEF Init
  <1>9. lost \in BOOLEAN /\ doubled \in BOOLEAN
    BY DEF Init
  <1>7. InHand
    BY DEF Init, InHand, IdleAdm
  <1> QED BY <1>1, <1>2, <1>3, <1>4, <1>5, <1>6, <1>7, <1>8, <1>9 DEF TInv, TypeOK, ReqType, AdmType, TickType

LEMMA PlayerTInv ==
  ASSUME TypeOK, NEW r \in Requests, Player(r)
  PROVE  /\ balance' \in Int /\ mem' \in Int
         /\ status' \in [W -> Statuses] /\ amount' \in [W -> Amounts \cup {0}]
         /\ req' \in ReqType
         /\ lost' \in BOOLEAN
         /\ UNCHANGED <<adm, tick, manualPaid, autoPaid, refunds>>
  <1>0. /\ req \in ReqType /\ req[r].amount \in Amounts \cup {0} /\ req[r].amount \in Int
        /\ status \in [W -> Statuses] /\ amount \in [W -> Amounts \cup {0}]
        /\ "pending" \in Statuses /\ lost \in BOOLEAN
        /\ balance \in Int /\ mem \in Int
    BY AmountInt DEF TypeOK, ReqType, Statuses
  <1>1. CASE ReadPending(r)
    BY <1>0, <1>1 DEF ReadPending, ReqType
  <1>2. CASE ReadBalance(r)
    BY <1>0, <1>2 DEF ReadBalance, ReqType, IdleReq
  <1>3. CASE CommitRequest(r)
    BY <1>0, <1>3 DEF CommitRequest, RowAmount, ReqType, IdleReq
  <1>4. CASE LoseRequest(r)
    BY <1>0, <1>4 DEF LoseRequest, ReqType, IdleReq
  <1> QED BY <1>1, <1>2, <1>3, <1>4 DEF Player

LEMMA AdminTInv ==
  ASSUME TInv, NEW a \in Admins, Admin(a)
  PROVE  /\ balance' \in Int /\ mem' \in Int
         /\ status' \in [W -> Statuses]
         /\ adm' \in AdmType /\ InHand'
         /\ manualPaid' \subseteq W /\ refunds' \in [W -> 0 .. 2]
         /\ lost' \in BOOLEAN
         /\ UNCHANGED <<amount, req, tick, autoPaid>>
  <1>0. /\ adm \in AdmType /\ adm[a].w \in W \cup {0} /\ (adm[a].pc # "idle" => adm[a].w \in W)
        /\ status \in [W -> Statuses] /\ {"none", "approved", "completed", "failed"} \subseteq Statuses
        /\ manualPaid \subseteq W /\ refunds \in [W -> 0 .. 2] /\ lost \in BOOLEAN
        /\ balance \in Int /\ mem \in Int
        /\ 0 \in W \cup {0}
        /\ InHand
    BY DEF TInv, TypeOK, InHand, AdmType, Statuses
  <1>i. /\ IdleAdm \in [pc : {"idle", "approve", "reject", "fail", "complete"},
                        w : W \cup {0}, prev : Statuses]
        /\ IdleAdm.pc = "idle"
    BY <1>0 DEF IdleAdm
  <1>1. CASE BeginApprove(a)
    BY <1>0, <1>1 DEF BeginApprove, Handle, AdmType, InHand
  <1>2. CASE CommitApprove(a)
    BY <1>0, <1>i, <1>2 DEF CommitApprove, AdmType, InHand
  <1>3. CASE BeginReject(a)
    BY <1>0, <1>3 DEF BeginReject, Handle, AdmType, InHand
  <1>4. CASE ReadStatus(a)
    BY <1>0, <1>4 DEF ReadStatus, AdmType, InHand
  <1>5. CASE CommitReject(a)
    <2>1. amount[adm[a].w] \in Int /\ adm[a].w \in W
      BY <1>0, <1>5, AmountInt DEF CommitReject, TInv, TypeOK
    <2>2. balance' \in Int /\ mem' \in Int /\ refunds' \in [W -> 0 .. 2]
      BY <1>0, <1>5, <2>1 DEF CommitReject, Refund, Twice
    <2>3. status' \in [W -> Statuses] /\ adm' \in AdmType /\ InHand'
      BY <1>0, <1>i, <1>5, <2>1 DEF CommitReject, AdmType, InHand
    <2> QED BY <1>0, <1>5, <2>2, <2>3 DEF CommitReject
  <1>6. CASE LoseReject(a)
    <2>1. amount[adm[a].w] \in Int
      BY <1>0, <1>6, AmountInt DEF LoseReject, TInv, TypeOK
    <2> QED BY <1>0, <1>i, <1>6, <2>1 DEF LoseReject, AdmType, InHand
  <1>7. CASE BeginComplete(a)
    BY <1>0, <1>7 DEF BeginComplete, Handle, AdmType, InHand
  <1>8. CASE CommitComplete(a)
    BY <1>0, <1>i, <1>8 DEF CommitComplete, AdmType, InHand
  <1> QED BY <1>1, <1>2, <1>3, <1>4, <1>5, <1>6, <1>7, <1>8 DEF Admin

LEMMA CronTInv ==
  ASSUME TypeOK, NEW t \in Ticks, Cron(t)
  PROVE  /\ status' \in [W -> Statuses]
         /\ tick' \in TickType
         /\ autoPaid' \in [W -> 0 .. 2]
         /\ UNCHANGED <<balance, mem, amount, req, adm, manualPaid, refunds, lost>>
  <1>0. /\ status \in [W -> Statuses] /\ "completed" \in Statuses
        /\ autoPaid \in [W -> 0 .. 2]
        /\ tick \in TickType /\ tick[t].todo \in SUBSET W /\ With("approved") \in SUBSET W
    BY DEF TypeOK, TickType, Statuses, With
  <1>1. CASE TickRead(t)
    BY <1>0, <1>1 DEF TickRead, TickType
  <1>2. CASE TickFail(t)
    BY <1>0, <1>2 DEF TickFail, Skip, TickType
  <1>3. CASE TickEnd(t)
    BY <1>0, <1>3 DEF TickEnd, IdleTick, TickType
  <1>4. ASSUME NEW w \in W, TickSend(t, w)
        PROVE  /\ status' \in [W -> Statuses] /\ tick' \in TickType /\ autoPaid' \in [W -> 0 .. 2]
               /\ UNCHANGED <<balance, mem, amount, req, adm, manualPaid, refunds, lost>>
    BY <1>0, <1>4 DEF TickSend, Twice, TickType
  <1>5. ASSUME NEW w \in W, TickMark(t, w)
        PROVE  /\ status' \in [W -> Statuses] /\ tick' \in TickType /\ autoPaid' \in [W -> 0 .. 2]
               /\ UNCHANGED <<balance, mem, amount, req, adm, manualPaid, refunds, lost>>
    BY <1>0, <1>5 DEF TickMark, TickType
  <1> QED BY <1>1, <1>2, <1>3, <1>4, <1>5 DEF Cron

LEMMA AbortTInv ==
  ASSUME TInv, Abort
  PROVE  /\ req' \in ReqType /\ adm' \in AdmType /\ InHand'
         /\ UNCHANGED <<balance, mem, status, amount, tick, manualPaid, autoPaid, refunds, lost>>
  <1>1. req \in ReqType /\ adm \in AdmType /\ InHand
    BY DEF TInv, TypeOK, ReqType, AdmType
  <1>2. req' \in ReqType
    BY <1>1 DEF Abort, ReqType, IdleReq
  <1>3. adm' \in AdmType /\ InHand'
    BY <1>1 DEF Abort, AdmType, IdleAdm, InHand, Statuses
  <1> QED BY <1>2, <1>3 DEF Abort

LEMMA StepTInv == TInv /\ [Next]_vars => TInv'
  <1> SUFFICES ASSUME TInv, [Next]_vars PROVE TInv'
    OBVIOUS
  <1>0. TypeOK /\ InHand /\ req \in ReqType /\ adm \in AdmType /\ tick \in TickType
    BY DEF TInv, TypeOK, ReqType, AdmType, TickType
  <1>1. CASE UNCHANGED vars
    BY <1>1 DEF vars, held, TInv, TypeOK, InHand
  <1>2. CASE Next
    <2>1. raced' \subseteq W /\ unrecorded' \subseteq W /\ doubled' \in BOOLEAN
      BY <1>0, <1>2 DEF Next, Forgotten, TypeOK, TwoRequests
    <2> DEFINE Good ==
          /\ balance' \in Int /\ mem' \in Int
          /\ status' \in [W -> Statuses] /\ amount' \in [W -> Amounts \cup {0}]
          /\ req' \in ReqType /\ adm' \in AdmType /\ tick' \in TickType /\ InHand'
          /\ manualPaid' \subseteq W /\ autoPaid' \in [W -> 0 .. 2] /\ refunds' \in [W -> 0 .. 2]
          /\ lost' \in BOOLEAN
    <2>2. ASSUME NEW r \in Requests, Player(r) PROVE Good
      BY <1>0, <2>2, PlayerTInv DEF TypeOK, InHand
    <2>3. ASSUME NEW a \in Admins, Admin(a) PROVE Good
      BY <1>0, <2>3, AdminTInv DEF TypeOK
    <2>4. ASSUME NEW t \in Ticks, Cron(t) PROVE Good
      BY <1>0, <2>4, CronTInv DEF TypeOK, InHand
    <2>5. ASSUME Abort PROVE Good
      <3>1. req' \in ReqType /\ adm' \in AdmType /\ InHand'
        BY <2>5, AbortTInv
      <3>2. UNCHANGED <<balance, mem, status, amount, tick, manualPaid, autoPaid, refunds, lost>>
        BY <2>5, AbortTInv
      <3>3. lost' \in BOOLEAN
        BY <1>0, <3>2 DEF TypeOK
      <3> QED BY <1>0, <3>1, <3>2, <3>3 DEF TypeOK
    <2> HIDE DEF Good
    <2>6. Good
      BY <1>2, <2>2, <2>3, <2>4, <2>5 DEF Next, Step
    <2> QED BY <2>1, <2>6 DEF Good, TInv, TypeOK, ReqType, AdmType, TickType
  <1> QED BY <1>1, <1>2

-----------------------------------------------------------------------------
(* One withdrawal                                                          *)

LEMMA InitSound == Init => \A w \in W : Sound(w)
  <1> SUFFICES ASSUME Init, NEW w \in W PROVE Sound(w)
    OBVIOUS
  <1>1. /\ \A a \in Admins : adm[a].pc = "idle"
        /\ \A t \in Ticks : tick[t].todo = {}
        /\ refunds[w] = 0 /\ autoPaid[w] = 0 /\ manualPaid = {}
    BY DEF Init, IdleAdm, IdleTick
  <1>2. ~InTwoHands(w)
    BY <1>1 DEF InTwoHands, AdminsOn, TicksOn
  <1> QED BY <1>1, <1>2 DEF Sound, AsRead, Refunded, Paid, Payments

\* What the history variables say of a withdrawal they leave out.
LEMMA History ==
  ASSUME Next, NEW w \in W
  PROVE  /\ w \notin raced' => w \notin raced /\ ~InTwoHands(w)'
         /\ w \notin unrecorded' =>
              w \notin unrecorded /\ (Marking(w) => Marking(w)' \/ status'[w] = "completed")
  BY DEF Next, Forgotten

\* Alone with w: nobody else holds it.
LEMMA AloneAdmin ==
  ASSUME NEW w \in W, ~InTwoHands(w), NEW a \in Admins, adm[a].pc # "idle", adm[a].w = w
  PROVE  /\ \A b \in Admins : b # a /\ adm[b].pc # "idle" => adm[b].w # w
         /\ \A t \in Ticks : w \notin tick[t].todo
         /\ Marking(w) => adm[a].pc = "complete"
  BY DEF InTwoHands, AdminsOn, TicksOn, Marking, IsFirst

LEMMA AloneTick ==
  ASSUME NEW w \in W, ~InTwoHands(w), NEW t \in Ticks, w \in tick[t].todo
  PROVE  /\ \A u \in Ticks : u # t => w \notin tick[u].todo
         /\ \A a \in Admins : adm[a].pc # "idle" => adm[a].w # w
         /\ Marking(w) => tick[t].pc = "mark"
  BY DEF InTwoHands, AdminsOn, TicksOn, Marking, IsFirst

\* Paid survives a step that neither pays nor refunds w nor reopens it.
LEMMA PaidKept ==
  ASSUME Next, NEW w \in W, w \notin unrecorded', Paid(w),
         Payments(w)' = Payments(w), refunds'[w] = refunds[w],
         status[w] = "completed" => status'[w] = "completed"
  PROVE  Paid(w)'
  BY History DEF Paid

-----------------------------------------------------------------------------
\* The part of Sound(w) a step must re-establish; the history gives the rest.
Kept(w) == AsRead(w) /\ Refunded(w) /\ (w \notin unrecorded => Paid(w))

LEMMA PlayerSound ==
  ASSUME TInv, Next, NEW r \in Requests, Player(r), NEW w \in W, w \notin raced', Sound(w)
  PROVE  Kept(w)' /\ (status[w] \in {"completed", "failed"} => status'[w] = status[w])
  <1>1. /\ AsRead(w) /\ Refunded(w)
        /\ w \notin unrecorded' => Paid(w)
        /\ w \notin raced
    BY History DEF Sound
  <1>2. UNCHANGED <<adm, tick, manualPaid, autoPaid, refunds>>
    BY PlayerTInv DEF TInv
  <1>3. status'[w] = status[w] \/ (status[w] = "none" /\ status'[w] = "pending")
    <2>1. CASE CommitRequest(r)
      BY <2>1 DEF CommitRequest, IsFirst, With, TInv, TypeOK
    <2> QED BY <2>1 DEF Player, ReadPending, ReadBalance, LoseRequest
  <1>4. AsRead(w)' /\ Refunded(w)'
    BY <1>1, <1>2, <1>3 DEF AsRead, Refunded, OpenStatuses
  <1>5. w \notin unrecorded' => Paid(w)'
    BY <1>1, <1>2, <1>3, PaidKept DEF Payments
  <1> QED BY <1>3, <1>4, <1>5 DEF Kept

LEMMA AbortSound ==
  ASSUME TInv, Next, Abort, NEW w \in W, w \notin raced', Sound(w)
  PROVE  Kept(w)' /\ status'[w] = status[w]
  <1>1. /\ AsRead(w) /\ Refunded(w)
        /\ w \notin unrecorded' => Paid(w)
    BY History DEF Sound
  <1>2. UNCHANGED <<tick, status, manualPaid, autoPaid, refunds>>
    BY DEF Abort
  <1>3. \A a \in Admins : adm'[a] = adm[a] \/ adm'[a].pc = "idle"
    BY DEF Abort, TInv, TypeOK, IdleAdm
  <1>4. AsRead(w)' /\ Refunded(w)'
    BY <1>1, <1>2, <1>3 DEF AsRead, Refunded
  <1>5. w \notin unrecorded' => Paid(w)'
    BY <1>1, <1>2, PaidKept DEF Payments
  <1> QED BY <1>2, <1>4, <1>5 DEF Kept

LEMMA CronSound ==
  ASSUME TInv, Next, NEW t \in Ticks, Cron(t), NEW w \in W, w \notin raced', Sound(w)
  PROVE  Kept(w)' /\ (status[w] \in {"completed", "failed"} => status'[w] = status[w])
  <1>1. /\ AsRead(w) /\ Refunded(w) /\ ~InTwoHands(w)
        /\ w \notin unrecorded' => Paid(w)
    BY History DEF Sound
  <1>2. UNCHANGED <<adm, manualPaid, refunds>>
    BY CronTInv DEF TInv
  <1>t. /\ tick \in TickType /\ status \in [W -> Statuses] /\ autoPaid \in [W -> 0 .. 2]
    BY DEF TInv, TypeOK, TickType
  <1>3. CASE TickRead(t) \/ TickFail(t) \/ TickEnd(t)
    <2>1. UNCHANGED <<status, autoPaid>>
      BY <1>3 DEF TickRead, TickFail, TickEnd
    <2>2. \A u \in Ticks : w \in tick'[u].todo => w \in tick[u].todo \/ status[w] = "approved"
      BY <1>3, <1>t DEF TickRead, TickFail, TickEnd, Skip, IdleTick, With, TickType
    <2>3. AsRead(w)' /\ Refunded(w)'
      BY <1>1, <1>2, <2>1, <2>2 DEF AsRead, Refunded
    <2>4. w \notin unrecorded' => Paid(w)'
      BY <1>1, <1>2, <2>1, PaidKept DEF Payments
    <2> QED BY <2>1, <2>3, <2>4 DEF Kept
  <1>4. ASSUME NEW v \in W, TickSend(t, v)
        PROVE  Kept(w)' /\ status'[w] = status[w]
    <2>1. /\ status' = status /\ v \in tick[t].todo
          /\ \A u \in Ticks : tick'[u].todo = tick[u].todo
          /\ autoPaid' = [autoPaid EXCEPT ![v] = Twice(@)]
          /\ tick[t].pc = "send" /\ tick'[t].pc = "mark" /\ IsFirst(v, tick'[t].todo)
      BY <1>4, <1>t DEF TickSend, TickType, IsFirst
    <2>2. AsRead(w)' /\ Refunded(w)'
      BY <1>1, <1>2, <2>1 DEF AsRead, Refunded
    <2>3. CASE v = w
      <3>1. status[w] = "approved"
        BY <1>1, <2>1, <2>3 DEF AsRead
      <3>2. ~Marking(w)
        BY <1>1, <2>1, <2>3, AloneTick
      <3>3. w \notin unrecorded' => ~(Payments(w) > 0)
        BY <1>1, <3>1, <3>2 DEF Paid
      <3>4. w \notin unrecorded' => autoPaid[w] = 0 /\ w \notin manualPaid
        BY <3>3, <1>t DEF Payments
      <3>5. ~(refunds[w] > 0) /\ refunds[w] \in 0 .. 2
        BY <1>1, <3>1 DEF Refunded, TInv, TypeOK
      <3>6. Marking(w)'
        BY <2>1, <2>3 DEF Marking
      <3>7. w \notin unrecorded' => Payments(w)' = 1 /\ refunds'[w] = 0
        BY <1>2, <1>t, <2>1, <2>3, <3>4, <3>5 DEF Payments, Twice
      <3> QED BY <2>1, <2>2, <3>6, <3>7 DEF Kept, Paid
    <2>4. CASE v # w
      <3>1. autoPaid'[w] = autoPaid[w]
        BY <2>1, <2>4, <1>t
      <3>2. w \notin unrecorded' => Paid(w)'
        BY <1>1, <1>2, <2>1, <3>1, PaidKept DEF Payments
      <3> QED BY <2>1, <2>2, <3>2 DEF Kept
    <2> QED BY <2>3, <2>4
  <1>5. ASSUME NEW v \in W, TickMark(t, v)
        PROVE  Kept(w)' /\ (status[w] \in {"completed", "failed"} => status'[w] = status[w])
    <2>1. /\ status' = [status EXCEPT ![v] = "completed"] /\ v \in tick[t].todo
          /\ \A u \in Ticks : tick'[u].todo \subseteq tick[u].todo
          /\ v \notin tick'[t].todo
          /\ autoPaid' = autoPaid
      BY <1>5, <1>t DEF TickMark, TickType, IsFirst
    <2>2. CASE v = w
      <3>1. status[w] = "approved"
        BY <1>1, <2>1, <2>2 DEF AsRead
      <3>2. /\ \A u \in Ticks : u # t => w \notin tick[u].todo
            /\ \A a \in Admins : adm[a].pc # "idle" => adm[a].w # w
        BY <1>1, <2>1, <2>2, AloneTick
      <3>3. AsRead(w)' /\ Refunded(w)'
        BY <1>1, <1>2, <2>1, <2>2, <3>1, <3>2 DEF AsRead, Refunded
      <3>4. status'[w] = "completed"
        BY <2>1, <2>2, <1>t
      <3>5. w \notin unrecorded' => Paid(w)'
        BY <1>1, <1>2, <2>1, <3>4, PaidKept DEF Payments
      <3> QED BY <3>1, <3>3, <3>5 DEF Kept
    <2>3. CASE v # w
      <3>1. status'[w] = status[w]
        BY <2>1, <2>3, <1>t
      <3>2. AsRead(w)' /\ Refunded(w)'
        BY <1>1, <1>2, <2>1, <3>1 DEF AsRead, Refunded
      <3>3. w \notin unrecorded' => Paid(w)'
        BY <1>1, <1>2, <2>1, <3>1, PaidKept DEF Payments
      <3> QED BY <3>1, <3>2, <3>3 DEF Kept
    <2> QED BY <2>2, <2>3
  <1> QED BY <1>3, <1>4, <1>5 DEF Cron, TickRead, TickFail, TickEnd

LEMMA AdminSound ==
  ASSUME TInv, Next, NEW a \in Admins, Admin(a), NEW w \in W, w \notin raced', Sound(w)
  PROVE  Kept(w)' /\ (status[w] \in {"completed", "failed"} => status'[w] = status[w])
  <1>1. /\ AsRead(w) /\ Refunded(w) /\ ~InTwoHands(w) /\ ~InTwoHands(w)'
        /\ w \notin unrecorded' => Paid(w) /\ w \notin unrecorded
    BY History DEF Sound
  <1>2. UNCHANGED <<tick, autoPaid>>
    BY AdminTInv
  <1>t. /\ adm \in AdmType /\ status \in [W -> Statuses] /\ refunds \in [W -> 0 .. 2]
        /\ autoPaid \in [W -> 0 .. 2]
    BY DEF TInv, TypeOK, AdmType
  <1>3. CASE BeginApprove(a) \/ BeginReject(a)
    <2>1. /\ UNCHANGED <<status, refunds, manualPaid>>
          /\ \A b \in Admins : b # a => adm'[b] = adm[b]
          /\ \/ adm'[a].pc = "approve" /\ (adm'[a].w = w => status[w] = "pending")
             \/ adm'[a].pc = "reject" /\ (adm'[a].w = w => status[w] \in OpenStatuses)
      <3>1. CASE BeginApprove(a)
        BY <3>1, <1>t DEF BeginApprove, Handle, Approvable, AdmType
      <3>2. CASE BeginReject(a)
        BY <3>2, <1>t DEF BeginReject, Handle, AdmType
      <3> QED BY <1>3, <3>1, <3>2
    <2>2. AsRead(w)' /\ Refunded(w)'
      BY <1>1, <1>2, <2>1 DEF AsRead, Refunded
    <2>3. w \notin unrecorded' => Paid(w)'
      BY <1>1, <1>2, <2>1, PaidKept DEF Payments
    <2> QED BY <2>1, <2>2, <2>3 DEF Kept
  <1>4. CASE BeginComplete(a)
    <2>1. PICK v \in W : status[v] \in OpenStatuses /\ Handle(a, "complete", v)
                         /\ manualPaid' = manualPaid \cup {v}
      BY <1>4 DEF BeginComplete
    <2>2. /\ UNCHANGED <<status, refunds>>
          /\ \A b \in Admins : b # a => adm'[b] = adm[b]
          /\ adm[a].pc = "idle" /\ adm'[a].pc = "complete" /\ adm'[a].w = v
      BY <1>4, <2>1, <1>t DEF BeginComplete, Handle, AdmType
    <2>3. AsRead(w)' /\ Refunded(w)'
      BY <1>1, <1>2, <2>1, <2>2 DEF AsRead, Refunded
    <2>4. CASE v = w
      <3>1. status[w] # "completed" /\ status[w] # "failed"
        BY <2>1, <2>4 DEF OpenStatuses
      <3>2. /\ \A b \in Admins : b # a /\ adm'[b].pc # "idle" => adm'[b].w # w
            /\ \A t \in Ticks : w \notin tick'[t].todo
        <4>1. \A b \in Admins : b # a /\ adm'[b].pc # "idle" => adm'[b].w # w
          BY <1>1, <2>2, <2>4 DEF InTwoHands, AdminsOn
        <4>2. \A t \in Ticks : w \notin tick'[t].todo
          BY <1>1, <2>2, <2>4 DEF InTwoHands, AdminsOn, TicksOn
        <4> QED BY <4>1, <4>2
      <3>3. ~Marking(w)
        BY <1>2, <2>2, <3>2 DEF Marking, IsFirst
      <3>4. w \notin unrecorded' => ~(Payments(w) > 0)
        BY <1>1, <3>1, <3>3 DEF Paid
      <3>5. w \notin unrecorded' => autoPaid[w] = 0
        BY <3>4, <1>t DEF Payments
      <3>6. ~(refunds[w] > 0) /\ refunds[w] \in 0 .. 2
        BY <1>1, <1>t, <3>1 DEF Refunded
      <3>7. Marking(w)'
        BY <2>2, <2>4 DEF Marking
      <3>8. w \notin unrecorded' => Payments(w)' = 1 /\ refunds'[w] = 0
        BY <1>2, <2>1, <2>2, <2>4, <3>5, <3>6 DEF Payments
      <3> QED BY <2>2, <2>3, <3>7, <3>8 DEF Kept, Paid
    <2>5. CASE v # w
      <3>1. w \in manualPaid' <=> w \in manualPaid
        BY <2>1, <2>5
      <3>2. w \notin unrecorded' => Paid(w)'
        BY <1>1, <1>2, <2>2, <3>1, PaidKept DEF Payments
      <3> QED BY <2>2, <2>3, <3>2 DEF Kept
    <2> QED BY <2>4, <2>5
  <1>5. CASE ReadStatus(a)
    <2>1. /\ UNCHANGED <<status, refunds, manualPaid>>
          /\ adm[a].pc = "reject"
          /\ \A b \in Admins : b # a => adm'[b] = adm[b]
          /\ adm'[a].pc = "fail" /\ adm'[a].w = adm[a].w /\ adm'[a].prev = status[adm[a].w]
      BY <1>5, <1>t DEF ReadStatus, AdmType
    <2>2. AsRead(w)'
      BY <1>1, <1>2, <2>1 DEF AsRead, OpenStatuses
    <2>3. Refunded(w)'
      BY <1>1, <2>1 DEF Refunded
    <2>4. w \notin unrecorded' => Paid(w)'
      BY <1>1, <1>2, <2>1, PaidKept DEF Payments
    <2> QED BY <2>1, <2>2, <2>3, <2>4 DEF Kept
  <1>6. CASE LoseReject(a)
    <2>1. /\ UNCHANGED <<status, refunds, manualPaid>>
          /\ \A b \in Admins : b # a => adm'[b] = adm[b]
          /\ adm'[a].pc = "idle"
      BY <1>6, <1>t DEF LoseReject, AdmType, IdleAdm
    <2>2. AsRead(w)' /\ Refunded(w)'
      BY <1>1, <1>2, <2>1 DEF AsRead, Refunded
    <2>3. w \notin unrecorded' => Paid(w)'
      BY <1>1, <1>2, <2>1, PaidKept DEF Payments
    <2> QED BY <2>1, <2>2, <2>3 DEF Kept
  <1>7. CASE CommitApprove(a) \/ CommitComplete(a) \/ CommitReject(a)
    <2>1. PICK v \in W : v = adm[a].w
      BY <1>7 DEF CommitApprove, CommitComplete, CommitReject, TInv, InHand
    <2>2. /\ adm[a].pc # "idle" /\ adm'[a].pc = "idle"
          /\ \A b \in Admins : b # a => adm'[b] = adm[b]
          /\ manualPaid' = manualPaid
      BY <1>7, <1>t DEF CommitApprove, CommitComplete, CommitReject, AdmType, IdleAdm
    <2>3. CASE v # w
      <3>1. status'[w] = status[w] /\ refunds'[w] = refunds[w]
        BY <1>7, <1>t, <2>1, <2>3 DEF CommitApprove, CommitComplete, CommitReject, Refund
      <3>2. AsRead(w)' /\ Refunded(w)'
        BY <1>1, <1>2, <2>2, <3>1 DEF AsRead, Refunded
      <3>3. w \notin unrecorded' => Paid(w)'
        BY <1>1, <1>2, <2>2, <3>1, PaidKept DEF Payments
      <3> QED BY <3>1, <3>2, <3>3 DEF Kept
    <2>4. CASE v = w
      <3>1. /\ \A b \in Admins : b # a /\ adm[b].pc # "idle" => adm[b].w # w
            /\ \A t \in Ticks : w \notin tick[t].todo
            /\ Marking(w) => adm[a].pc = "complete"
        BY <1>1, <2>1, <2>2, <2>4, AloneAdmin
      <3>2. AsRead(w)'
        BY <1>2, <2>2, <3>1 DEF AsRead
      <3>3. status[w] \in OpenStatuses
        BY <1>1, <1>7, <2>1, <2>4 DEF AsRead, CommitApprove, CommitComplete, CommitReject, OpenStatuses
      <3>4. status[w] # "completed" /\ status[w] # "failed"
        BY <3>3 DEF OpenStatuses
      <3>5. CASE CommitApprove(a) \/ CommitComplete(a)
        <4>1. refunds' = refunds
          BY <3>5 DEF CommitApprove, CommitComplete
        <4>2. Refunded(w)'
          BY <1>1, <3>4, <4>1 DEF Refunded
        <4>3. w \notin unrecorded' => Paid(w)'
          BY <1>1, <1>2, <2>2, <3>4, <4>1, PaidKept DEF Payments
        <4> QED BY <3>2, <3>4, <4>2, <4>3 DEF Kept
      <3>6. CASE CommitReject(a)
        <4>1. adm[a].pc = "fail" /\ adm[a].prev = status[w]
          BY <1>1, <2>1, <2>4, <3>6 DEF AsRead, CommitReject
        <4>2. status' = [status EXCEPT ![w] = "failed"] /\ refunds' = [refunds EXCEPT ![w] = Twice(@)]
          BY <2>1, <2>4, <3>4, <3>6, <4>1 DEF CommitReject, Refundable, Refund
        <4>3. ~(refunds[w] > 0) /\ refunds[w] \in 0 .. 2
          BY <1>1, <1>t, <3>4 DEF Refunded
        <4>4. refunds'[w] = 1 /\ status'[w] = "failed"
          BY <1>t, <4>2, <4>3 DEF Twice
        <4>5. Refunded(w)'
          BY <4>4 DEF Refunded
        <4>6. w \notin unrecorded' => ~(Payments(w) > 0)
          BY <1>1, <3>1, <3>4, <4>1 DEF Paid
        <4>7. w \notin unrecorded' => Paid(w)'
          BY <1>2, <2>2, <4>6 DEF Paid, Payments
        <4> QED BY <3>2, <3>4, <4>5, <4>7 DEF Kept
      <3> QED BY <1>7, <3>5, <3>6
    <2> QED BY <2>3, <2>4
  <1> QED BY <1>3, <1>4, <1>5, <1>6, <1>7 DEF Admin

LEMMA StepSound ==
  ASSUME IInv, [Next]_vars, NEW w \in W
  PROVE  /\ Sound(w)'
         /\ w \notin raced' => (status[w] \in {"completed", "failed"} => status'[w] = status[w])
  <1>1. CASE UNCHANGED vars
    <2>1. Sound(w)
      BY DEF IInv
    <2>2. Sound(w)'
      BY <1>1, <2>1 DEF vars, held, Sound, AsRead, Refunded, Paid, Payments, Marking,
                        InTwoHands, AdminsOn, TicksOn
    <2> QED BY <1>1, <2>2 DEF vars, held
  <1>2. CASE Next
    <2>1. w \notin raced' =>
            Kept(w)' /\ (status[w] \in {"completed", "failed"} => status'[w] = status[w])
      BY <1>2, PlayerSound, AdminSound, CronSound, AbortSound DEF Next, Step, IInv
    <2>2. w \notin raced' => ~InTwoHands(w)'
      BY <1>2, History
    <2>3. Sound(w)'
      BY <2>1, <2>2 DEF Sound, Kept
    <2> QED BY <2>1, <2>3
  <1> QED BY <1>1, <1>2

LEMMA InitIInv == Init => IInv
  BY InitTInv, InitSound DEF IInv

LEMMA NextIInv == IInv /\ [Next]_vars => IInv'
  <1> SUFFICES ASSUME IInv, [Next]_vars PROVE IInv'
    OBVIOUS
  <1>1. TInv'
    BY StepTInv DEF IInv
  <1>2. ASSUME NEW w \in W PROVE Sound(w)'
    BY StepSound
  <1> QED BY <1>1, <1>2 DEF IInv

-----------------------------------------------------------------------------
\* Every column keeps its type.
THEOREM TypeCorrect == Spec => []TypeOK
  <1>1. TInv => TypeOK
    BY DEF TInv
  <1> QED BY <1>1, InitTInv, StepTInv, PTL DEF Spec

\* However many administrators, cron runs and requests of the player there
\* are: a withdrawal that was in one hand at a time and whose payment was
\* recorded is paid at most once, refunded at most once, and never both.
THEOREM SettlesOnce == Spec => []SettledOnce
  <1>1. IInv => SettledOnce
    <2> SUFFICES ASSUME IInv, NEW w \in W \ (raced \cup unrecorded)
                 PROVE  Payments(w) + refunds[w] <= 1
      BY DEF SettledOnce
    <2>1. Paid(w) /\ Refunded(w)
      BY DEF IInv, Sound
    <2>2. refunds[w] \in 0 .. 2 /\ Payments(w) \in 0 .. 3
      BY DEF IInv, TInv, TypeOK, Payments
    <2> QED BY <2>1, <2>2 DEF Paid, Refunded
  <1> QED BY <1>1, InitIInv, NextIInv, PTL DEF Spec

\* A withdrawal that was in one hand at a time stays as it was settled: no
\* handler and no cron run still holds an older reading of it.
THEOREM Settled == Spec => SettledForGood
  <1> DEFINE Keeps == \A w \in W \ raced' :
                        status[w] \in {"completed", "failed"} => status'[w] = status[w]
  <1>1. IInv /\ [Next]_vars => [Keeps]_vars
    BY StepSound
  <1> QED BY <1>1, InitIInv, NextIInv, PTL DEF Spec, SettledForGood

-----------------------------------------------------------------------------
(* The balance                                                             *)

\* The two copies move together.
LEMMA NextInStep == TInv /\ MemoryInStep /\ [Next]_vars => MemoryInStep'
  <1> SUFFICES ASSUME TInv, MemoryInStep, [Next]_vars PROVE MemoryInStep'
    OBVIOUS
  <1>0. balance \in Int /\ mem \in Int
    BY DEF TInv, TypeOK
  <1>1. ASSUME NEW r \in Requests, Player(r) PROVE MemoryInStep'
    <2>1. req[r].amount \in Int
      BY AmountInt DEF TInv, TypeOK
    <2> QED BY <1>0, <1>1, <2>1 DEF Player, ReadPending, ReadBalance, CommitRequest, LoseRequest,
                                    MemoryInStep
  <1>2. ASSUME NEW a \in Admins, Admin(a) PROVE MemoryInStep'
    <2>1. CASE CommitReject(a)
      <3>1. amount[adm[a].w] \in Int
        BY <2>1, AmountInt DEF CommitReject, TInv, TypeOK, InHand
      <3> QED BY <1>0, <2>1, <3>1 DEF CommitReject, Refund, MemoryInStep
    <2>2. CASE LoseReject(a)
      BY <2>2 DEF LoseReject, MemoryInStep
    <2>3. CASE UNCHANGED <<balance, mem, lost>>
      BY <2>3 DEF MemoryInStep
    <2> QED BY <1>2, <2>1, <2>2, <2>3 DEF Admin, BeginApprove, CommitApprove, BeginReject, ReadStatus,
                                          BeginComplete, CommitComplete
  <1>3. ASSUME NEW t \in Ticks, Cron(t) PROVE MemoryInStep'
    BY <1>3, CronTInv DEF TInv, MemoryInStep
  <1> QED BY <1>1, <1>2, <1>3 DEF Next, Step, Abort, vars, held, MemoryInStep

\* The engine's copy follows the row whatever interleaves, unless a commit
\* failed after the callback that changed the copy.
THEOREM InStep == Spec => []MemoryInStep
  <1>1. Init => MemoryInStep
    BY DEF Init, MemoryInStep
  <1> QED BY <1>1, InitTInv, StepTInv, NextInStep, PTL DEF Spec

\* What is taken from the balance, as a sum of integers over a finite set.
LEMMA StandingFinite ==
  ASSUME TypeOK
  PROVE  /\ IsFiniteSet(Standing)
         /\ \A w \in W : amount[w] \in Int
         /\ Total(amount, Standing) \in Int
  <1>1. IsFiniteSet(W)
    BY FS_Interval, MaxWithdrawalsAssumption DEF W
  <1>2. IsFiniteSet(Standing)
    BY <1>1, FS_Subset DEF Standing
  <1>3. \A w \in W : amount[w] \in Int
    BY AmountInt DEF TypeOK
  <1>4. \A w \in Standing : amount[w] \in Int
    BY <1>3 DEF Standing
  <1> QED BY <1>2, <1>3, <1>4, TotalType

\* A step after which the same withdrawals stand.
LEMMA StandingSame ==
  ASSUME Accounting, TypeOK, raced' = {} => raced = {},
         raced' = {} => Standing' = Standing /\ UNCHANGED <<balance, amount>>
  PROVE  Accounting'
  BY DEF Accounting

LEMMA NextAccounting == IInv /\ Accounting /\ [Next]_vars => Accounting'
  <1> SUFFICES ASSUME IInv, Accounting, [Next]_vars, raced' = {} PROVE Accounting'
    BY DEF Accounting
  <1>0. /\ TypeOK /\ TInv
        /\ IsFiniteSet(Standing) /\ \A w \in W : amount[w] \in Int
        /\ Total(amount, Standing) \in Int /\ balance \in Int
        /\ balance = Opening - Total(amount, Standing)
        /\ Opening \in Int /\ status \in [W -> Statuses] /\ amount \in [W -> Amounts \cup {0}]
    <2>1. raced = {}
      BY DEF Next, vars
    <2> QED BY <2>1, StandingFinite, OpeningAssumption DEF IInv, TInv, TypeOK, Accounting
  <1>1. raced = {} /\ \A w \in W : AsRead(w)
    <2>1. raced = {}
      BY DEF Next, vars
    <2> QED BY <2>1 DEF IInv, Sound
  <1>2. CASE UNCHANGED vars
    BY <1>2, StandingSame, <1>0, <1>1 DEF vars, held, Standing
  <1>3. ASSUME NEW r \in Requests, Player(r) PROVE Accounting'
    <2>1. CASE ReadPending(r) \/ ReadBalance(r) \/ LoseRequest(r)
      BY <2>1, StandingSame, <1>0, <1>1 DEF ReadPending, ReadBalance, LoseRequest, Standing
    <2>2. CASE CommitRequest(r)
      <3>0. req[r].amount \in Int
        BY <1>0, AmountInt DEF TypeOK
      <3>1. PICK w \in W : /\ status[w] = "none"
                           /\ status' = [status EXCEPT ![w] = "pending"]
                           /\ amount' = [amount EXCEPT ![w] = req[r].amount]
        BY <2>2 DEF CommitRequest, IsFirst, With, RowAmount
      <3>2. w \notin Standing /\ Standing' = Standing \cup {w}
        BY <1>0, <3>1 DEF Standing
      <3>3. \A v \in Standing \cup {w} : amount'[v] \in Int
        BY <1>0, <3>0, <3>1 DEF Standing
      <3>4. \A v \in Standing : amount[v] \in Int /\ amount[v] = amount'[v]
        BY <1>0, <3>1, <3>2 DEF Standing
      <3>5. Total(amount', Standing) = Total(amount, Standing)
        BY <1>0, <3>4, TotalSame
      <3>6. Total(amount', Standing \cup {w}) = Total(amount', Standing) + amount'[w]
        BY <1>0, <3>2, <3>3, TotalAdd
      <3>7. amount'[w] = req[r].amount /\ balance' = balance - req[r].amount
        BY <1>0, <2>2, <3>1 DEF CommitRequest
      <3> QED BY <1>0, <3>0, <3>2, <3>5, <3>6, <3>7 DEF Accounting
    <2> QED BY <1>3, <2>1, <2>2 DEF Player
  <1>4. ASSUME NEW a \in Admins, Admin(a) PROVE Accounting'
    <2> DEFINE w == adm[a].w
    <2>0. adm[a].pc # "idle" => w \in W /\ AsRead(w)
      BY <1>0, <1>1 DEF TInv, InHand
    <2>1. CASE BeginApprove(a) \/ BeginReject(a) \/ ReadStatus(a) \/ LoseReject(a) \/ BeginComplete(a)
      BY <2>1, StandingSame, <1>0, <1>1
         DEF BeginApprove, BeginReject, ReadStatus, LoseReject, BeginComplete, Standing
    <2>2. CASE CommitApprove(a) \/ CommitComplete(a)
      <3>1. w \in W /\ status[w] \in OpenStatuses
        BY <2>0, <2>2 DEF CommitApprove, CommitComplete, AsRead, OpenStatuses
      <3>2. \E s \in {"approved", "completed"} : status' = [status EXCEPT ![w] = s]
        BY <2>2 DEF CommitApprove, CommitComplete
      <3>3. Standing' = Standing
        BY <1>0, <3>1, <3>2 DEF Standing, OpenStatuses
      <3> QED BY <2>2, <3>3, StandingSame, <1>0, <1>1 DEF CommitApprove, CommitComplete
    <2>3. CASE CommitReject(a)
      <3>1. w \in W /\ status[w] \in OpenStatuses /\ adm[a].prev = status[w]
        BY <2>0, <2>3 DEF CommitReject, AsRead
      <3>2. /\ status' = [status EXCEPT ![w] = "failed"]
            /\ balance' = balance + amount[w] /\ amount' = amount
        BY <2>3, <3>1 DEF CommitReject, Refundable, Refund, OpenStatuses
      <3>3. w \in Standing /\ Standing' = Standing \ {w}
        BY <1>0, <3>1, <3>2 DEF Standing, OpenStatuses
      <3>4. \A v \in Standing : amount[v] \in Int
        BY <1>0 DEF Standing
      <3>5. Total(amount, Standing) = amount[w] + Total(amount, Standing \ {w})
        BY <1>0, <3>3, <3>4, TotalRemove
      <3>6. Total(amount, Standing \ {w}) \in Int
        BY <1>0, <3>4, FS_RemoveElement, TotalType
      <3> QED BY <1>0, <3>1, <3>2, <3>3, <3>5, <3>6 DEF Accounting
    <2> QED BY <1>4, <2>1, <2>2, <2>3 DEF Admin
  <1>5. ASSUME NEW t \in Ticks, Cron(t) PROVE Accounting'
    <2>1. CASE TickRead(t) \/ TickFail(t) \/ TickEnd(t) \/ \E w \in W : TickSend(t, w)
      BY <2>1, StandingSame, <1>0, <1>1 DEF TickRead, TickFail, TickEnd, TickSend, Standing
    <2>2. ASSUME NEW w \in W, TickMark(t, w) PROVE Accounting'
      <3>1. status[w] = "approved" /\ status' = [status EXCEPT ![w] = "completed"]
        BY <1>1, <2>2 DEF TickMark, IsFirst, AsRead
      <3>2. Standing' = Standing
        BY <1>0, <3>1 DEF Standing
      <3> QED BY <2>2, <3>2, StandingSame, <1>0, <1>1 DEF TickMark
    <2> QED BY <1>5, <2>1, <2>2 DEF Cron
  <1>6. CASE Abort
    BY <1>6, StandingSame, <1>0, <1>1 DEF Abort, Standing
  <1> QED BY <1>2, <1>3, <1>4, <1>5, <1>6 DEF Next, Step

\* However many requests, administrators and cron runs there are: the balance
\* is short of exactly the withdrawals that stand, unless a row was in two
\* hands.
THEOREM Accounted == Spec => []Accounting
  <1>1. Init => Accounting
    <2> SUFFICES ASSUME Init PROVE Accounting
      OBVIOUS
    <2>1. Standing = {}
      BY DEF Init, Standing
    <2>2. Total(amount, Standing) = 0 /\ Opening \in Int
      BY <2>1, TotalEmpty, OpeningAssumption
    <2> QED BY <2>2 DEF Init, Accounting
  <1> QED BY <1>1, InitIInv, NextIInv, NextAccounting, PTL DEF Spec

\* What the player's only request has read is still so, or better.
Covered ==
  /\ balance >= 0
  /\ \A v, w \in With("pending") : v = w
  /\ \A q, r \in Requests : q # r /\ req[q].pc # "idle" => req[r].pc = "idle"
  /\ \A r \in Requests :
       /\ req[r].pc # "idle" => With("pending") = {}
       /\ req[r].pc = "commit" => balance >= req[r].amount

LEMMA NextCovered ==
  ASSUME TInv, ~doubled => Covered, [Next]_vars
  PROVE  ~doubled' => Covered'
  <1> SUFFICES ASSUME ~doubled' PROVE Covered'
    OBVIOUS
  <1>0. /\ balance \in Int /\ status \in [W -> Statuses] /\ req \in ReqType /\ adm \in AdmType
        /\ amount \in [W -> Amounts \cup {0}]
    BY DEF TInv, TypeOK, ReqType, AdmType
  <1>1. CASE UNCHANGED vars
    BY <1>1 DEF vars, held, Covered, With
  <1>2. CASE Next
    <2>1. Covered
      BY <1>2 DEF Next
    <2>2. \A q, r \in Requests : q # r /\ req'[q].pc # "idle" => req'[r].pc = "idle"
      BY <1>2 DEF Next, TwoRequests
    \* A step of anybody else: no withdrawal becomes pending, no balance is lost.
    <2>3. ASSUME /\ balance' \in Int /\ balance' >= balance
                 /\ \A w \in W : status'[w] = "pending" => status[w] = "pending"
                 /\ \A r \in Requests : req'[r] = req[r] \/ req'[r].pc = "idle"
          PROVE  Covered'
      <3>1. With("pending")' \subseteq With("pending")
        BY <2>3 DEF With
      <3>2. \A r \in Requests : req[r].amount \in Int
        BY <1>0, AmountInt DEF ReqType
      <3>3. balance' >= 0 /\ \A v, w \in With("pending")' : v = w
        BY <1>0, <2>1, <2>3, <3>1 DEF Covered
      <3>4. ASSUME NEW r \in Requests
            PROVE  /\ req'[r].pc # "idle" => With("pending")' = {}
                   /\ req'[r].pc = "commit" => balance' >= req'[r].amount
        BY <1>0, <2>1, <2>3, <3>1, <3>2 DEF Covered
      <3> QED BY <2>2, <3>3, <3>4 DEF Covered
    <2>4. ASSUME NEW r \in Requests, Player(r) PROVE Covered'
      <3>0. req[r].amount \in Int /\ req[r].amount >= 0 /\ req[r].amount \in Amounts \cup {0}
        BY <1>0, AmountInt DEF ReqType
      <3>1. CASE ReadPending(r)
        <4>1. /\ With("pending")' = {} /\ balance' = balance /\ req'[r].pc = "balance"
              /\ \A q \in Requests : q # r => req'[q] = req[q]
          BY <1>0, <3>1 DEF ReadPending, NonePending, With, ReqType
        <4> QED BY <2>1, <2>2, <4>1 DEF Covered
      <3>2. CASE ReadBalance(r)
        <4>1. /\ With("pending")' = With("pending") /\ balance' = balance
              /\ With("pending") = {}
              /\ req'[r].pc = "commit" => balance >= req'[r].amount
              /\ \A q \in Requests : q # r => req'[q] = req[q]
          BY <1>0, <2>1, <3>2 DEF ReadBalance, Covers, With, ReqType, IdleReq, Covered
        <4> QED BY <2>1, <2>2, <4>1 DEF Covered
      <3>3. CASE CommitRequest(r)
        <4>1. PICK w \in W : status' = [status EXCEPT ![w] = "pending"]
          BY <3>3 DEF CommitRequest
        <4>2. With("pending") = {} /\ balance >= req[r].amount
          BY <2>1, <3>3 DEF Covered, CommitRequest
        <4>3. \A v \in With("pending")' : v = w
          BY <1>0, <4>1, <4>2 DEF With
        <4>4. balance' >= 0
          BY <1>0, <3>0, <3>3, <4>2 DEF CommitRequest
        <4>5. \A q \in Requests : req'[q].pc = "idle"
          BY <1>0, <2>1, <3>3 DEF CommitRequest, Covered, ReqType, IdleReq
        <4> QED BY <2>2, <4>3, <4>4, <4>5 DEF Covered
      <3>4. CASE LoseRequest(r)
        <4>1. \A q \in Requests : req'[q] = req[q] \/ req'[q].pc = "idle"
          BY <1>0, <3>4 DEF LoseRequest, ReqType, IdleReq
        <4> QED BY <1>0, <2>3, <3>4, <4>1 DEF LoseRequest
      <3> QED BY <2>4, <3>1, <3>2, <3>3, <3>4 DEF Player
    <2>5. ASSUME NEW a \in Admins, Admin(a) PROVE Covered'
      <3>1. req' = req
        BY <2>5, AdminTInv
      <3>2. balance' \in Int /\ balance' >= balance
        <4>1. CASE CommitReject(a)
          <5>1. amount[adm[a].w] \in Int /\ amount[adm[a].w] >= 0
            BY <1>0, <4>1, AmountInt DEF CommitReject, TInv, InHand
          <5> QED BY <1>0, <4>1, <5>1 DEF CommitReject, Refund
        <4>2. CASE balance' = balance
          BY <1>0, <4>2
        <4> QED BY <2>5, <4>1, <4>2 DEF Admin, BeginApprove, CommitApprove, BeginReject, ReadStatus,
                                        LoseReject, BeginComplete, CommitComplete
      <3>3. \A w \in W : status'[w] = "pending" => status[w] = "pending"
        BY <1>0, <2>5 DEF Admin, BeginApprove, CommitApprove, BeginReject, ReadStatus, CommitReject,
                          LoseReject, BeginComplete, CommitComplete
      <3> QED BY <2>3, <3>1, <3>2, <3>3
    <2>6. ASSUME NEW t \in Ticks, Cron(t) PROVE Covered'
      <3>1. req' = req /\ balance' = balance
        BY <2>6, CronTInv DEF TInv
      <3>2. \A w \in W : status'[w] = "pending" => status[w] = "pending"
        BY <1>0, <2>6 DEF Cron, TickRead, TickFail, TickEnd, TickSend, TickMark
      <3> QED BY <1>0, <2>3, <3>1, <3>2
    <2>7. CASE Abort
      <3>1. \A r \in Requests : req'[r] = req[r] \/ req'[r].pc = "idle"
        BY <1>0, <2>7 DEF Abort, ReqType, IdleReq
      <3> QED BY <1>0, <2>3, <2>7, <3>1 DEF Abort
    <2> QED BY <1>2, <2>4, <2>5, <2>6, <2>7 DEF Next, Step
  <1> QED BY <1>1, <1>2

\* As long as the player has one request in progress at a time, the balance
\* covers what it debits and nothing is pending beside it, whatever the
\* administrators and the cron runs do between its reads and its commit.
THEOREM RequestCovered == Spec => []OneRequestCovered
  <1> DEFINE Inv == ~doubled => Covered
  <1>1. Init => Inv
    BY OpeningAssumption DEF Init, Covered, With, IdleReq
  <1>2. TInv /\ Inv /\ [Next]_vars => Inv'
    BY NextCovered
  <1>3. Inv => OneRequestCovered
    BY DEF Covered, OneRequestCovered
  <1> HIDE DEF Inv
  <1> QED BY <1>1, <1>2, <1>3, InitTInv, StepTInv, PTL DEF Spec

=============================================================================
