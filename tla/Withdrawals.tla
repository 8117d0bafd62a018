----------------------------- MODULE Withdrawals -----------------------------
(***************************************************************************)
(* Withdrawals of one player: requested over HTTP, settled by an           *)
(* administrator and, when WITHDRAWAL_AUTO_SEND is set, sent on the chain  *)
(* by a cron job.                                                          *)
(*                                                                         *)
(* createWithdrawal checks for a pending withdrawal and for the balance    *)
(* with reads of its own, then debits the balance and inserts the row.     *)
(* The administrator's handlers read the row, decide, and then update it   *)
(* whatever it has become; updateTransactionStatus reads it once more to   *)
(* decide on the refund.  The cron job reads the approved rows once and    *)
(* sends them one after the other.  Each such read is a step of its own.   *)
(*                                                                         *)
(* The engine's copy of the balance (applyUserBalanceDelta) is changed     *)
(* inside the transactions, before they commit.  Transactions of type      *)
(* blk_withdrawal are handled by updateTransactionStatus but nothing       *)
(* creates one, so they are left out.                                      *)
(***************************************************************************)
EXTENDS Integers, FiniteSetsExt, Sums

CONSTANTS
  Requests,        \* the player's HTTP requests in progress
  Admins,          \* administrator HTTP requests in progress
  Ticks,           \* runs of the cron job in progress; {} if it is off
  MaxWithdrawals,  \* bound on the withdrawals requested
  Amounts,         \* amounts a player may ask for (at least WITHDRAW_MIN_POL)
  Opening,         \* the player's balance at the start
  Unsendable       \* withdrawals for which sending always throws

ASSUME MaxWithdrawalsAssumption == MaxWithdrawals \in Nat
ASSUME AmountsAssumption == Amounts \subseteq Nat \ {0}
ASSUME OpeningAssumption == Opening \in Nat
ASSUME UnsendableAssumption == Unsendable \subseteq 1 .. MaxWithdrawals

VARIABLES
  balance,     \* users.pol_balance
  mem,         \* the engine's copy of it
  status,      \* status of each withdrawal, "none" before it is requested
  amount,      \* its amount
  req,         \* the player's requests
  adm,         \* the administrator's requests
  tick,        \* the cron runs
  manualPaid,  \* history: withdrawals the administrator paid by hand
  autoPaid,    \* history: transfers the cron job sent, two standing for more
  refunds,     \* history: refunds, two standing for more
  lost,        \* history: a commit failed after the engine's copy was changed
  raced,       \* history: withdrawals two handlers or cron runs had in hand at a time
  unrecorded,  \* history: withdrawals whose payment was never written to the row
  doubled      \* history: two of the player's requests were in progress at a time

held == <<balance, mem, status, amount, req, adm, tick, manualPaid, autoPaid, refunds, lost>>
vars == <<held, raced, unrecorded, doubled>>

W == 1 .. MaxWithdrawals
Statuses == {"none", "pending", "approved", "completed", "failed"}
OpenStatuses == {"pending", "approved"}

With(s) == {w \in W : status[w] = s}
IsFirst(w, S) == w \in S /\ \A v \in S : w <= v
Twice(n) == IF n = 0 THEN 1 ELSE 2

IdleReq == [pc |-> "idle", amount |-> 0]
IdleAdm == [pc |-> "idle", w |-> 0, prev |-> "none"]
IdleTick == [pc |-> "idle", todo |-> {}]

Init ==
  /\ balance = Opening
  /\ mem = Opening
  /\ status = [w \in W |-> "none"]
  /\ amount = [w \in W |-> 0]
  /\ req = [r \in Requests |-> IdleReq]
  /\ adm = [a \in Admins |-> IdleAdm]
  /\ tick = [t \in Ticks |-> IdleTick]
  /\ manualPaid = {}
  /\ autoPaid = [w \in W |-> 0]
  /\ refunds = [w \in W |-> 0]
  /\ lost = FALSE
  /\ raced = {} /\ unrecorded = {} /\ doubled = FALSE

-----------------------------------------------------------------------------
(* createWithdrawal                                                        *)

\* mutant: an approved withdrawal is looked for instead of a pending one
ApprovedLookedFor == With("approved") = {}

NonePending == With("pending") = {}

\* mutant: any positive balance will do
SomeBalance(n) == balance > 0

Covers(n) == balance >= n

ReadPending(r) ==
  /\ req[r].pc = "idle"
  /\ NonePending
  /\ \E n \in Amounts : req' = [req EXCEPT ![r] = [pc |-> "balance", amount |-> n]]
  /\ UNCHANGED <<balance, mem, status, amount, adm, tick, manualPaid, autoPaid, refunds, lost>>

ReadBalance(r) ==
  /\ req[r].pc = "balance"
  /\ req' = [req EXCEPT ![r] = IF Covers(req[r].amount)
                                 THEN [pc |-> "commit", amount |-> req[r].amount]
                                 ELSE IdleReq]
  /\ UNCHANGED <<balance, mem, status, amount, adm, tick, manualPaid, autoPaid, refunds, lost>>

RowAmount(n) == n

CommitRequest(r) ==
  /\ req[r].pc = "commit"
  /\ \E w \in W : /\ IsFirst(w, With("none"))
                  /\ status' = [status EXCEPT ![w] = "pending"]
                  /\ amount' = [amount EXCEPT ![w] = RowAmount(req[r].amount)]
  /\ balance' = balance - req[r].amount
  /\ mem' = mem - req[r].amount
  /\ req' = [req EXCEPT ![r] = IdleReq]
  /\ UNCHANGED <<adm, tick, manualPaid, autoPaid, refunds, lost>>

\* The callback has run, the commit fails: the engine's copy keeps the debit.
\* (Bound: one such failure in a behaviour.)
LoseRequest(r) ==
  /\ req[r].pc = "commit" /\ ~lost
  /\ mem' = mem - req[r].amount
  /\ lost' = TRUE
  /\ req' = [req EXCEPT ![r] = IdleReq]
  /\ UNCHANGED <<balance, status, amount, adm, tick, manualPaid, autoPaid, refunds>>

-----------------------------------------------------------------------------
(* The administrator's handlers                                            *)

Handle(a, pc, w) == adm' = [adm EXCEPT ![a] = [pc |-> pc, w |-> w, prev |-> "none"]]

\* mutant: any withdrawal can be approved
ApprovableAny(s) == s # "none"

Approvable(s) == s = "pending"

BeginApprove(a) ==
  /\ adm[a].pc = "idle"
  /\ \E w \in W : Approvable(status[w]) /\ Handle(a, "approve", w)
  /\ UNCHANGED <<balance, mem, status, amount, req, tick, manualPaid, autoPaid, refunds, lost>>

CommitApprove(a) ==
  /\ adm[a].pc = "approve"
  /\ status' = [status EXCEPT ![adm[a].w] = "approved"]
  /\ adm' = [adm EXCEPT ![a] = IdleAdm]
  /\ UNCHANGED <<balance, mem, amount, req, tick, manualPaid, autoPaid, refunds, lost>>

\* The administrator does not reject what he has paid.
BeginReject(a) ==
  /\ adm[a].pc = "idle"
  /\ \E w \in W \ manualPaid : status[w] \in OpenStatuses /\ Handle(a, "reject", w)
  /\ UNCHANGED <<balance, mem, status, amount, req, tick, manualPaid, autoPaid, refunds, lost>>

\* updateTransactionStatus(id, "failed"): findUnique
ReadStatus(a) ==
  /\ adm[a].pc = "reject"
  /\ adm' = [adm EXCEPT ![a].pc = "fail", ![a].prev = status[adm[a].w]]
  /\ UNCHANGED <<balance, mem, status, amount, req, tick, manualPaid, autoPaid, refunds, lost>>

\* mutant: only a withdrawal that was never approved is refunded
RefundPending(prev) == prev = "pending"

Refundable(prev) == prev \notin {"failed", "completed"}

\* mutant: the refund does not reach the engine's copy
RefundDatabase(w) ==
  /\ balance' = balance + amount[w]
  /\ refunds' = [refunds EXCEPT ![w] = Twice(@)]
  /\ UNCHANGED mem

Refund(w) ==
  /\ balance' = balance + amount[w]
  /\ refunds' = [refunds EXCEPT ![w] = Twice(@)]
  /\ mem' = mem + amount[w]

CommitReject(a) ==
  /\ adm[a].pc = "fail"
  /\ status' = [status EXCEPT ![adm[a].w] = "failed"]
  /\ IF Refundable(adm[a].prev) THEN Refund(adm[a].w)
                                ELSE UNCHANGED <<balance, mem, refunds>>
  /\ adm' = [adm EXCEPT ![a] = IdleAdm]
  /\ UNCHANGED <<amount, req, tick, manualPaid, autoPaid, lost>>

LoseReject(a) ==
  /\ adm[a].pc = "fail" /\ ~lost
  /\ Refundable(adm[a].prev)
  /\ mem' = mem + amount[adm[a].w]
  /\ lost' = TRUE
  /\ adm' = [adm EXCEPT ![a] = IdleAdm]
  /\ UNCHANGED <<balance, status, amount, req, tick, manualPaid, autoPaid, refunds>>

\* The administrator sends the POL by hand and reports the hash.
BeginComplete(a) ==
  /\ adm[a].pc = "idle"
  /\ \E w \in W : /\ status[w] \in OpenStatuses
                  /\ Handle(a, "complete", w)
                  /\ manualPaid' = manualPaid \cup {w}
  /\ UNCHANGED <<balance, mem, status, amount, req, tick, autoPaid, refunds, lost>>

CommitComplete(a) ==
  /\ adm[a].pc = "complete"
  /\ status' = [status EXCEPT ![adm[a].w] = "completed"]
  /\ adm' = [adm EXCEPT ![a] = IdleAdm]
  /\ UNCHANGED <<balance, mem, amount, req, tick, manualPaid, autoPaid, refunds, lost>>

\* A query throws before the end of the handler.
Abort ==
  /\ \/ \E r \in Requests : /\ req[r].pc # "idle"
                            /\ req' = [req EXCEPT ![r] = IdleReq]
                            /\ UNCHANGED adm
     \/ \E a \in Admins : /\ adm[a].pc # "idle"
                          /\ adm' = [adm EXCEPT ![a] = IdleAdm]
                          /\ UNCHANGED req
  /\ UNCHANGED <<balance, mem, status, amount, tick, manualPaid, autoPaid, refunds, lost>>

-----------------------------------------------------------------------------
(* processPendingWithdrawals                                               *)

TickRead(t) ==
  /\ tick[t].pc = "idle"
  /\ With("approved") # {}
  /\ tick' = [tick EXCEPT ![t] = [pc |-> "send", todo |-> With("approved")]]
  /\ UNCHANGED <<balance, mem, status, amount, req, adm, manualPaid, autoPaid, refunds, lost>>

\* sendTransaction returns: the transfer is on its way.
TickSend(t, w) ==
  /\ tick[t].pc = "send" /\ IsFirst(w, tick[t].todo)
  /\ w \notin Unsendable
  /\ autoPaid' = [autoPaid EXCEPT ![w] = Twice(@)]
  /\ tick' = [tick EXCEPT ![t].pc = "mark"]
  /\ UNCHANGED <<balance, mem, status, amount, req, adm, manualPaid, refunds, lost>>

TickMark(t, w) ==
  /\ tick[t].pc = "mark" /\ IsFirst(w, tick[t].todo)
  /\ status' = [status EXCEPT ![w] = "completed"]
  /\ tick' = [tick EXCEPT ![t] = [pc |-> "send", todo |-> @.todo \ {w}]]
  /\ UNCHANGED <<balance, mem, amount, req, adm, manualPaid, autoPaid, refunds, lost>>

\* mutant: the catch is outside the loop, one failure ends the run
Leave(t, w) == tick' = [tick EXCEPT ![t] = IdleTick]

\* The catch inside the loop: logged, the next withdrawal is tried.
Skip(t, w) == tick' = [tick EXCEPT ![t] = [pc |-> "send", todo |-> @.todo \ {w}]]

\* No address, no funds or no node before the transfer; a database error
\* after it.
TickFail(t) ==
  /\ tick[t].pc \in {"send", "mark"}
  /\ \E w \in W : IsFirst(w, tick[t].todo) /\ Skip(t, w)
  /\ UNCHANGED <<balance, mem, status, amount, req, adm, manualPaid, autoPaid, refunds, lost>>

TickEnd(t) ==
  /\ tick[t].pc = "send" /\ tick[t].todo = {}
  /\ tick' = [tick EXCEPT ![t] = IdleTick]
  /\ UNCHANGED <<balance, mem, status, amount, req, adm, manualPaid, autoPaid, refunds, lost>>

-----------------------------------------------------------------------------
Player(r) == ReadPending(r) \/ ReadBalance(r) \/ CommitRequest(r) \/ LoseRequest(r)

Admin(a) ==
  \/ BeginApprove(a) \/ CommitApprove(a)
  \/ BeginReject(a) \/ ReadStatus(a) \/ CommitReject(a) \/ LoseReject(a)
  \/ BeginComplete(a) \/ CommitComplete(a)

Cron(t) ==
  \/ TickRead(t) \/ TickFail(t) \/ TickEnd(t)
  \/ \E w \in W : TickSend(t, w) \/ TickMark(t, w)

Step ==
  \/ \E r \in Requests : Player(r)
  \/ \E a \in Admins : Admin(a)
  \/ \E t \in Ticks : Cron(t)
  \/ Abort

\* Who has read the row and is not done with it.
AdminsOn(w) == {a \in Admins : adm[a].pc # "idle" /\ adm[a].w = w}
TicksOn(w) == {t \in Ticks : w \in tick[t].todo}

InTwoHands(w) ==
  \/ \E a, b \in AdminsOn(w) : a # b
  \/ \E t, u \in TicksOn(w) : t # u
  \/ AdminsOn(w) # {} /\ TicksOn(w) # {}

\* Paid, and the update of the row is yet to come.
Marking(w) ==
  \/ \E a \in Admins : adm[a].pc = "complete" /\ adm[a].w = w
  \/ \E t \in Ticks : tick[t].pc = "mark" /\ IsFirst(w, tick[t].todo)

Forgotten == {w \in W : Marking(w) /\ ~Marking(w)' /\ status'[w] # "completed"}

TwoRequests == \E q, r \in Requests : q # r /\ req[q].pc # "idle" /\ req[r].pc # "idle"

Next ==
  /\ Step
  /\ raced' = raced \cup {w \in W : InTwoHands(w)}'
  /\ unrecorded' = unrecorded \cup Forgotten
  /\ doubled' = (doubled \/ TwoRequests')

Spec == Init /\ [][Next]_vars

\* node-cron keeps calling the job and the job runs to its end.  A node and a
\* database that answer again and again let each transfer through in the end.
Fairness ==
  \A t \in Ticks :
    /\ WF_held(TickRead(t) \/ TickEnd(t) \/ TickFail(t))
    /\ \A w \in W : SF_held(TickSend(t, w)) /\ SF_held(TickMark(t, w))

FairSpec == Spec /\ Fairness

-----------------------------------------------------------------------------
\* Every column and every handler's record holds a value of its type.
TypeOK ==
  /\ balance \in Int /\ mem \in Int
  /\ status \in [W -> Statuses]
  /\ amount \in [W -> Amounts \cup {0}]
  /\ req \in [Requests -> [pc : {"idle", "balance", "commit"}, amount : Amounts \cup {0}]]
  /\ adm \in [Admins -> [pc : {"idle", "approve", "reject", "fail", "complete"},
                         w : W \cup {0}, prev : Statuses]]
  /\ tick \in [Ticks -> [pc : {"idle", "send", "mark"}, todo : SUBSET W]]
  /\ manualPaid \subseteq W
  /\ autoPaid \in [W -> 0 .. 2]
  /\ refunds \in [W -> 0 .. 2]
  /\ lost \in BOOLEAN /\ doubled \in BOOLEAN
  /\ raced \subseteq W /\ unrecorded \subseteq W

\* Requested and not refunded.
Standing == {w \in W : status[w] \notin {"none", "failed"}}

\* The balance is what it was less every withdrawal that was not refunded,
\* though handlers decide on the refund before they write, unless a row was in
\* two hands.
Accounting == raced = {} => balance = Opening - Total(amount, Standing)

Payments(w) == autoPaid[w] + (IF w \in manualPaid THEN 1 ELSE 0)

\* Two ways to pay and one to refund, each on a row read before: a withdrawal
\* is paid once, or refunded once, or neither, unless it was in two hands or
\* its payment could not be recorded (withdrawalsCron.js sends before it
\* writes, and does not look again).
SettledOnce == \A w \in W \ (raced \cup unrecorded) : Payments(w) + refunds[w] <= 1

\* Completed and failed withdrawals are never reopened, though no update looks
\* at the status again, unless the withdrawal was in two hands.
SettledForGood ==
  [][\A w \in W \ raced' :
       status[w] \in {"completed", "failed"} => status'[w] = status[w]]_vars

\* The engine's copy of the balance moves with the row, unless a commit fails.
MemoryInStep == ~lost => mem = balance

\* createWithdrawal: "Insufficient balance", "Pending withdrawal exists".  One
\* request of the player at a time, and whatever the others do: the balance
\* never goes negative, and one withdrawal at most is pending.
OneRequestCovered ==
  ~doubled => balance >= 0 /\ \A v, w \in With("pending") : v = w

\* withdrawalsCron.js: only withdrawals that are approved are sent.
SentOnlyIfApproved ==
  [][\A w \in W : autoPaid'[w] # autoPaid[w] => status[w] = "approved"]_vars

\* A withdrawal that cannot be sent never keeps the approved ones after it
\* from being sent.
ApprovedSettles ==
  \A w \in W \ Unsendable :
    status[w] = "approved" ~> status[w] \in {"completed", "failed"}

=============================================================================
