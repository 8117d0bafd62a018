---------------------------- MODULE DepositTickets ----------------------------
(***************************************************************************)
(* Deposit tickets beside the deposits they are about.  A player whose     *)
(* transfer did not arrive opens a ticket with its hash; an administrator  *)
(* looks at it, which queries the chain and the transactions table, and    *)
(* then credits the player by hand or rejects the ticket.                  *)
(*                                                                         *)
(* Each handler reads the ticket once and updates it by id at its end.     *)
(* adminGetTicket spends seconds on the chain in between, and puts the     *)
(* ticket to "analyzing" whatever it has become.  The two ways to credit a *)
(* transfer meet in the table only: a ticket's credit leaves a completed   *)
(* row, which verifyOnePendingDeposit looks for, and adminGetTicket shows  *)
(* whether there is one.  A ticket's hash is kept as the player wrote it,  *)
(* and both look-ups, for another ticket and for a completed row, compare  *)
(* it as it is written.                                                    *)
(*                                                                         *)
(* Every ticket of the model names a transfer.  The administrator credits  *)
(* a ticket if its analysis showed a real transfer that is not credited;   *)
(* the code leaves that to him.                                            *)
(***************************************************************************)
EXTENDS Deposits

CONSTANTS
  Staff,           \* administrators' requests in progress
  Drafts,          \* calls of createTicket in progress
  MaxTickets,      \* bound on the tickets
  MaxOpenTickets   \* MAX_TICKETS_OPEN

ASSUME TicketAssumption == MaxTickets \in Nat /\ MaxOpenTickets \in Nat

VARIABLES
  ticket,      \* the tickets: status, "none" before they are created,
  ticketHash,  \*   txHash
  verdict,     \*   and what onchainDataJson says
  draft,       \* calls of createTicket
  staff,       \* calls of adminGetTicket, adminApproveTicket, adminRejectTicket
  paid,        \* history: how often each ticket was credited
  clashed,     \* history: tickets two administrators' requests handled at a time
  crossed      \* history: hashes reviewed and verified or created at a time,
               \*   or for which two tickets were created at a time

tickets == <<ticket, ticketHash, verdict, paid>>
handlers == <<draft, staff>>
allVars == <<vars, tickets, handlers, clashed, crossed>>

Tickets == 1 .. MaxTickets
OpenTicket == {"open", "analyzing"}

IdleDraft == [pc |-> "idle", hash |-> NoHash]
IdleStaff == [pc |-> "idle", ticket |-> 0, seen |-> "none"]

Exists(t) == ticket[t] # "none"

TInit ==
  /\ Init
  /\ ticket = [t \in Tickets |-> "none"]
  /\ ticketHash = [t \in Tickets |-> NoHash]
  /\ verdict = [t \in Tickets |-> "none"]
  /\ draft = [d \in Drafts |-> IdleDraft]
  /\ staff = [a \in Staff |-> IdleStaff]
  /\ paid = [t \in Tickets |-> 0]
  /\ clashed = {} /\ crossed = {}

-----------------------------------------------------------------------------
(* createTicket                                                            *)

TicketOf(h) == {t \in Tickets : Exists(t) /\ ticketHash[t] = h}

\* mutant: only tickets that are still open are looked for
Reported(h) == \E t \in TicketOf(h) : ticket[t] \in OpenTicket

HasTicket(h) == TicketOf(h) # {}

\* The open tickets are counted, then the hash is looked for.
BeginTicket(d, h) ==
  /\ draft[d].pc = "idle"
  /\ Cardinality({t \in Tickets : ticket[t] \in OpenTicket}) < MaxOpenTickets
  /\ ~HasTicket(h)
  /\ draft' = [draft EXCEPT ![d] = [pc |-> "insert", hash |-> h]]
  /\ UNCHANGED <<vars, tickets, staff>>

InsertTicket(d) ==
  /\ draft[d].pc = "insert"
  /\ \E t \in Tickets :
       /\ ~Exists(t) /\ \A u \in Tickets : ~Exists(u) => t <= u
       /\ ticket' = [ticket EXCEPT ![t] = "open"]
       /\ ticketHash' = [ticketHash EXCEPT ![t] = draft[d].hash]
  /\ draft' = [draft EXCEPT ![d] = IdleDraft]
  /\ UNCHANGED <<vars, verdict, paid, staff>>

-----------------------------------------------------------------------------
(* The administrator's handlers                                            *)

Take(a, pc, t) == staff' = [staff EXCEPT ![a] = [pc |-> pc, ticket |-> t, seen |-> "none"]]

BeginGet(a, t) ==
  /\ staff[a].pc = "idle"
  /\ ticket[t] \in OpenTicket
  /\ Take(a, "analyze", t)
  /\ UNCHANGED <<vars, tickets, draft>>

\* mutant: the table is not looked at
NeverCredited(h) == FALSE

AlreadyCredited(h) == Completed(h) # {}

Analysis(h) ==
  IF AlreadyCredited(h) THEN "credited"
  ELSE IF IsMined(h) /\ kind[h] # "invalid" THEN "payable"
  ELSE "missing"

\* analyzeOnChain; an error of the explorer is reported as a transfer not found.
Analyze(a) ==
  /\ staff[a].pc = "analyze"
  /\ \E seen \in {Analysis(ticketHash[staff[a].ticket]), "missing"} :
       staff' = [staff EXCEPT ![a].pc = "save", ![a].seen = seen]
  /\ UNCHANGED <<vars, tickets, draft>>

SaveAnalysis(a) ==
  /\ staff[a].pc = "save"
  /\ ticket' = [ticket EXCEPT ![staff[a].ticket] = "analyzing"]
  /\ verdict' = [verdict EXCEPT ![staff[a].ticket] = staff[a].seen]
  /\ staff' = [staff EXCEPT ![a] = IdleStaff]
  /\ UNCHANGED <<vars, ticketHash, paid, draft>>

\* mutant: only a ticket that was rejected is refused
ApprovableUnlessRejected(t) == Exists(t) /\ ticket[t] # "rejected"

\* A rejected ticket may still be approved.
ApprovableTicket(t) == Exists(t) /\ ticket[t] # "credited"

BeginApprove(a, t) ==
  /\ staff[a].pc = "idle"
  /\ ApprovableTicket(t)
  /\ verdict[t] = "payable"
  /\ Take(a, "credit", t)
  /\ UNCHANGED <<vars, tickets, draft>>

\* mutant: the credit leaves no row behind
NoRow(t) == UNCHANGED rows

LeaveRow(t) == CreateRow(ticketHash[t], "completed")

CommitApprove(a) ==
  /\ staff[a].pc = "credit"
  /\ LET t == staff[a].ticket
     IN  /\ LeaveRow(t)
         /\ ticket' = [ticket EXCEPT ![t] = "credited"]
         /\ paid' = [paid EXCEPT ![t] = @ + 1]
  /\ staff' = [staff EXCEPT ![a] = IdleStaff]
  /\ UNCHANGED <<chain, linked, lastScannedBlock, req, ver, call, sync, history,
                 ticketHash, verdict, draft>>

BeginReject(a, t) ==
  /\ staff[a].pc = "idle"
  /\ ticket[t] \in OpenTicket
  /\ Take(a, "reject", t)
  /\ UNCHANGED <<vars, tickets, draft>>

CommitReject(a) ==
  /\ staff[a].pc = "reject"
  /\ ticket' = [ticket EXCEPT ![staff[a].ticket] = "rejected"]
  /\ staff' = [staff EXCEPT ![a] = IdleStaff]
  /\ UNCHANGED <<vars, ticketHash, verdict, paid, draft>>

\* A query throws.
FailHandler ==
  /\ \/ \E a \in Staff : /\ staff[a].pc # "idle"
                         /\ staff' = [staff EXCEPT ![a] = IdleStaff]
                         /\ UNCHANGED draft
     \/ \E d \in Drafts : /\ draft[d].pc # "idle"
                          /\ draft' = [draft EXCEPT ![d] = IdleDraft]
                          /\ UNCHANGED staff
  /\ UNCHANGED <<vars, tickets>>

-----------------------------------------------------------------------------
RestartAll ==
  /\ Restart
  /\ draft' = [d \in Drafts |-> IdleDraft]
  /\ staff' = [a \in Staff |-> IdleStaff]
  /\ UNCHANGED tickets

Deposit ==
  /\ \/ \E S \in SUBSET {h \in Hashes : ~IsMined(h)} : Mine(S)
     \/ saveWalletAddress
     \/ \E r \in Requests : Submit(r)
     \/ \E v \in Verifiers : VerifyStep(v) \/ \E w \in Rows : BeginVerify(v, w)
     \/ \E c \in Creators : Create(c)
     \/ \E s \in Syncs : Sync(s)
  /\ UNCHANGED <<tickets, handlers>>

Ticket ==
  \/ \E d \in Drafts : (\E h \in Hashes : BeginTicket(d, h)) \/ InsertTicket(d)
  \/ \E a \in Staff, t \in Tickets : BeginGet(a, t) \/ BeginApprove(a, t) \/ BeginReject(a, t)
  \/ \E a \in Staff : Analyze(a) \/ SaveAnalysis(a) \/ CommitApprove(a) \/ CommitReject(a)
  \/ FailHandler

Handling(t) == {a \in Staff : staff[a].pc # "idle" /\ staff[a].ticket = t}

\* From the look at the table until the ticket is credited.
UnderReview(h) ==
  \E t \in TicketOf(h) :
    /\ ticket[t] # "credited"
    /\ verdict[t] = "payable" \/ Handling(t) # {}

Drafting(h) == {d \in Drafts : draft[d].pc # "idle" /\ draft[d].hash = h}

Clashing == {t \in Tickets : \E a, b \in Handling(t) : a # b}

Crossing == {h \in Hashes : \/ UnderReview(h) /\ (Verifying(h) # {} \/ Creating(h) # {})
                            \/ \E d, e \in Drafting(h) : d # e}

TNext ==
  /\ Deposit \/ Ticket \/ RestartAll
  /\ clashed' = clashed \cup Clashing'
  /\ crossed' = crossed \cup Crossing'

TSpec == TInit /\ [][TNext]_allVars

\* Nothing makes an administrator act.
FairTSpec == TSpec /\ Fairness

-----------------------------------------------------------------------------
\* adminApproveTicket: "Ticket já resolvido".  A ticket is credited once and
\* says so ever after, unless two administrators' requests handled it at a
\* time: adminGetTicket puts a ticket credited meanwhile back to "analyzing".
TicketSettledOnce ==
  \A t \in Tickets \ clashed : paid[t] <= 1 /\ (paid[t] = 1 <=> ticket[t] = "credited")

CreditsOf(h) == credits[h] + Cardinality({t \in TicketOf(h) : paid[t] > 0})

\* A hash as it is written is credited by verification, by createDepositRequest
\* or by a ticket and never by two of them, though each only looks at the table
\* before it writes, unless the review of a ticket overlaps a verification or a
\* creation, or two tickets for the hash are created at a time.
CreditedOneWay == \A h \in Hashes \ (overlapped \cup crossed) : CreditsOf(h) <= 1

=============================================================================
