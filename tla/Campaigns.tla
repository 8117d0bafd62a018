------------------------------- MODULE Campaigns -------------------------------
(***************************************************************************)
(* What partners pay for: a Read & Earn campaign, whose code each player   *)
(* redeems once and all of them up to a limit, and an offer of the         *)
(* internal offerwall, which one player completes up to a limit per day,   *)
(* by himself or after a review.                                           *)
(*                                                                         *)
(* The transactions run at Read Committed: what one has read may change    *)
(* before it writes.  Only a redemption has a unique index behind it; the  *)
(* rows of the offerwall are found by their status and updated by their    *)
(* id.  The two have no state in common, and one of them is in use in a    *)
(* behaviour.                                                              *)
(*                                                                         *)
(* Left out: the amounts and kinds of the rewards, and the seconds that an *)
(* offer must be viewed (a submit that comes too early changes nothing).   *)
(***************************************************************************)
EXTENDS Sums

CONSTANTS
  Demand,       \* requests in progress
  Readers,      \* players of Read & Earn
  Maxima,       \* values of maxRedemptions
  MaxOffered,   \* bound on the rows of internal_offerwall_attempts
  Limits,       \* values of dailyLimitPerUser
  MaxPeriod     \* bound on the days

ASSUME CampaignAssumption ==
  /\ Maxima # {} /\ Limits # {}
  /\ IsFiniteSet(Readers) /\ MaxOffered \in Nat
  /\ Maxima \subseteq Nat \ {0} /\ Limits \subseteq Nat \ {0} /\ MaxPeriod \in Nat

VARIABLES
  wall,       \* what is in use
  demand,     \* requests in progress
  campaign,   \* its row: exists, live, max
  redeemed,   \* readEarnRedemption, by player
  redeemPaid, \* how often each player was rewarded
  wallOffer,  \* its row: isActive, completionMode, dailyLimitPerUser
  attempt,    \* the attempts: status and periodKey
  period,     \* today
  paid,       \* how often each attempt was rewarded
  most,       \* history: the highest limit so far, of redemptions or of a day
  rush,       \* history: two redemptions had passed the checks at a time
  met,        \* history: attempts that two requests decided about at a time
  crowded     \* history: days of which a start met another request

readEarn == <<campaign, redeemed, redeemPaid>>
offerwall == <<wallOffer, attempt, period, paid>>
campaignVars == <<wall, demand, readEarn, offerwall, most, rush, met, crowded>>

Attempts == 1 .. MaxOffered
IdleDemand == [pc |-> "idle", of |-> 0, period |-> 0]
Completions == {"USER_SELF_CLAIM", "ADMIN_APPROVAL"}

CampaignInit ==
  /\ wall \in {"read", "offers"}
  /\ demand = [r \in Demand |-> IdleDemand]
  /\ campaign = [exists |-> TRUE, live |-> FALSE, max |-> CHOOSE m \in Maxima : TRUE]
  /\ redeemed = {} /\ redeemPaid = [u \in Readers |-> 0]
  /\ wallOffer = [active |-> FALSE, mode |-> "USER_SELF_CLAIM", limit |-> CHOOSE m \in Limits : TRUE]
  /\ attempt = [a \in Attempts |-> [status |-> "none", period |-> 0]]
  /\ period = 0 /\ paid = [a \in Attempts |-> 0]
  /\ most = IF wall = "read" THEN campaign.max ELSE wallOffer.limit
  /\ rush = FALSE /\ met = {} /\ crowded = {}

Turn(r, from, to) == demand[r].pc = from /\ demand' = [demand EXCEPT ![r].pc = to]
Ask(r, pc, x) ==
  /\ demand[r].pc = "idle"
  /\ demand' = [demand EXCEPT ![r] = [pc |-> pc, of |-> x,
                   period |-> IF pc = "find" THEN period ELSE 0]]
Answer(r) == demand' = [demand EXCEPT ![r] = IdleDemand]

\* A check does not hold, a query throws, or the transaction is rolled back.
Decline(r) == demand[r].pc # "idle" /\ Answer(r) /\ UNCHANGED <<readEarn, offerwall>>

-----------------------------------------------------------------------------
(* Read & Earn                                                             *)

\* isReadEarnCampaignLive; being live stands for the window as well.
Live == campaign.exists /\ campaign.live

Preview(r, u) == Live /\ Ask(r, "check", u) /\ UNCHANGED <<readEarn, offerwall>>

\* The code is compared after the rows were counted, which takes a while.
CheckRedeem(r) ==
  /\ Turn(r, "check", "redeem")
  /\ Live /\ demand[r].of \notin redeemed /\ Cardinality(redeemed) < campaign.max
  /\ UNCHANGED <<readEarn, offerwall>>

\* @@unique([userId, campaignId]), and the foreign key of the campaign.
Unredeemed(u) == u \notin redeemed

WriteRedeem(r) ==
  /\ demand[r].pc = "redeem"
  /\ campaign.exists /\ Unredeemed(demand[r].of)
  /\ redeemed' = redeemed \cup {demand[r].of}
  /\ redeemPaid' = [redeemPaid EXCEPT ![demand[r].of] = @ + 1]
  /\ Answer(r)
  /\ UNCHANGED <<campaign, offerwall>>

adminUpdateReadEarnCampaign ==
  /\ campaign.exists
  /\ \E live \in BOOLEAN, max \in Maxima :
       campaign' = [exists |-> TRUE, live |-> live, max |-> max]
  /\ UNCHANGED <<demand, redeemed, redeemPaid, offerwall>>

\* A campaign without redemptions is deleted, and with it those that were
\* stored meanwhile.
ReadDelete(r) ==
  /\ campaign.exists /\ redeemed = {}
  /\ Ask(r, "delete", 0)
  /\ UNCHANGED <<readEarn, offerwall>>

WriteDelete(r) ==
  /\ demand[r].pc = "delete"
  /\ campaign' = [campaign EXCEPT !.exists = FALSE, !.live = FALSE]
  /\ redeemed' = {}
  /\ Answer(r)
  /\ UNCHANGED <<redeemPaid, offerwall>>

-----------------------------------------------------------------------------
(* The offerwall: userStartOffer                                           *)

Having(statuses, d) == {a \in Attempts : attempt[a].status \in statuses /\ attempt[a].period = d}

ReadCount(r) ==
  /\ wallOffer.active /\ Cardinality(Having({"COMPLETED"}, period)) < wallOffer.limit
  /\ Ask(r, "find", 0)
  /\ UNCHANGED <<readEarn, offerwall>>

\* mutant: an attempt that waits for its review does not count
OnlyStarted == {"STARTED"}

OpenStatuses == {"STARTED", "PENDING_REVIEW"}

\* An open attempt of the day is given again.
FindOpen(r) ==
  /\ Turn(r, "find", "create")
  /\ Having(OpenStatuses, demand[r].period) = {}
  /\ UNCHANGED <<readEarn, offerwall>>

CreateAttempt(r) ==
  /\ demand[r].pc = "create"
  /\ \E a \in Attempts :
       /\ \A b \in Attempts : attempt[b].status = "none" <=> b >= a
       /\ attempt' = [attempt EXCEPT ![a] = [status |-> "STARTED", period |-> demand[r].period]]
  /\ Answer(r)
  /\ UNCHANGED <<readEarn, wallOffer, period, paid>>

\* abandonStaleStartedAttempts, whenever the offers are listed.
Abandon(a) ==
  /\ attempt[a].status = "STARTED" /\ attempt[a].period = period
  /\ attempt' = [attempt EXCEPT ![a].status = "deleted"]
  /\ UNCHANGED <<demand, readEarn, wallOffer, period, paid>>

-----------------------------------------------------------------------------
(* userSubmitAttempt, adminApproveAttempt, adminRejectAttempt              *)

Row(r) == attempt[demand[r].of]
Update(r, status) ==
  /\ Row(r).status # "deleted"
  /\ attempt' = [attempt EXCEPT ![demand[r].of].status = status]

ReadSubmit(r, a) ==
  /\ wallOffer.active /\ attempt[a].status = "STARTED"
  /\ Ask(r, IF wallOffer.mode = "ADMIN_APPROVAL" THEN "review" ELSE "claim", a)
  /\ UNCHANGED <<readEarn, offerwall>>

\* The row becomes pending, whatever it has become.
WriteReview(r) ==
  /\ demand[r].pc = "review"
  /\ Update(r, "PENDING_REVIEW")
  /\ Answer(r)
  /\ UNCHANGED <<readEarn, wallOffer, period, paid>>

ReadApprove(r, a) ==
  /\ wallOffer.active /\ attempt[a].status = "PENDING_REVIEW"
  /\ Ask(r, "approve", a)
  /\ UNCHANGED <<readEarn, offerwall>>

\* Both transactions look for the row again.
Recheck(r) ==
  /\ \/ Turn(r, "claim", "grant") /\ Row(r).status = "STARTED"
     \/ Turn(r, "approve", "grant") /\ Row(r).status = "PENDING_REVIEW"
  /\ UNCHANGED <<readEarn, offerwall>>

WriteGrant(r) ==
  /\ demand[r].pc = "grant"
  /\ Update(r, "COMPLETED")
  /\ paid' = [paid EXCEPT ![demand[r].of] = @ + 1]
  /\ Answer(r)
  /\ UNCHANGED <<readEarn, wallOffer, period>>

ReadReject(r, a) ==
  /\ attempt[a].status = "PENDING_REVIEW"
  /\ Ask(r, "reject", a)
  /\ UNCHANGED <<readEarn, offerwall>>

WriteReject(r) ==
  /\ demand[r].pc = "reject"
  /\ Update(r, "REJECTED")
  /\ Answer(r)
  /\ UNCHANGED <<readEarn, wallOffer, period, paid>>

patchOffer ==
  /\ wallOffer' \in [active : BOOLEAN, mode : Completions, limit : Limits]
  /\ UNCHANGED <<demand, readEarn, attempt, period, paid>>

NextPeriod ==
  /\ period < MaxPeriod
  /\ period' = period + 1
  /\ UNCHANGED <<demand, readEarn, wallOffer, attempt, paid>>

-----------------------------------------------------------------------------
Read(r) ==
  \/ \E u \in Readers : Preview(r, u)
  \/ CheckRedeem(r) \/ WriteRedeem(r) \/ ReadDelete(r) \/ WriteDelete(r)

Offer(r) ==
  \/ ReadCount(r) \/ FindOpen(r) \/ CreateAttempt(r)
  \/ \E a \in Attempts : ReadSubmit(r, a) \/ ReadApprove(r, a) \/ ReadReject(r, a)
  \/ WriteReview(r) \/ Recheck(r) \/ WriteGrant(r) \/ WriteReject(r)

Deciding(a) ==
  {r \in Demand : demand[r].of = a
     /\ demand[r].pc \in {"review", "claim", "approve", "grant", "reject"}}
Beginning == {r \in Demand : demand[r].pc \in {"find", "create"}}
Waiting == {r \in Demand : demand[r].pc # "idle"}

CampaignNext ==
  /\ \/ wall = "read" /\ (adminUpdateReadEarnCampaign \/ \E r \in Demand : Read(r))
     \/ wall = "offers" /\
          (patchOffer \/ NextPeriod \/ (\E a \in Attempts : Abandon(a)) \/ \E r \in Demand : Offer(r))
     \/ \E r \in Demand : Decline(r)
  /\ most' = LET now == IF wall = "read" THEN campaign'.max ELSE wallOffer'.limit
             IN IF now > most THEN now ELSE most
  /\ rush' = (rush \/ \E q, r \in Demand : q # r /\ demand'[q].pc = "redeem" /\ demand'[r].pc = "redeem")
  /\ met' = met \cup {a \in Attempts : \E q, r \in Deciding(a)' : q # r}
  /\ crowded' = crowded \cup
       (IF \E q, r \in Waiting' : q # r THEN {demand'[r].period : r \in Beginning'} ELSE {})
  /\ UNCHANGED wall

CampaignSpec == CampaignInit /\ [][CampaignNext]_campaignVars

-----------------------------------------------------------------------------
\* "REDEEM_ALREADY", "maxRedemptions", "Daily limit reached for this offer",
\* "Attempt was already updated": a code is paid once to a player, and no
\* more often than the campaign allows unless two codes were being compared
\* at a time.  An attempt is paid exactly if it is completed, unless two
\* requests decided about it at a time; and a day has no more paid attempts
\* than the offer allows, unless one of these is among them, or a start was
\* in progress together with another request.
CampaignsPaid ==
  /\ \A u \in Readers : redeemPaid[u] <= 1 /\ (u \in redeemed => redeemPaid[u] = 1)
  /\ wall = "read" /\ ~rush => Total(redeemPaid, Readers) <= most
  /\ \A a \in Attempts \ met : paid[a] = IF attempt[a].status = "COMPLETED" THEN 1 ELSE 0
  /\ \A d \in (0 .. MaxPeriod) \ crowded :
       LET today == {a \in Attempts : attempt[a].period = d}
       IN wall = "offers" /\ today \cap met = {} =>
            Total(paid, today) <= most

=============================================================================
