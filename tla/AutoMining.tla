------------------------------ MODULE AutoMining ------------------------------
(***************************************************************************)
(* Auto Mining V2 of one player.  A session lets him claim hash power once *)
(* per cycle, more of it in turbo mode after a click on a partner's        *)
(* banner, up to a limit per day.                                          *)
(*                                                                         *)
(* Each call takes the time when it starts and uses that to its end.  A    *)
(* claim reads the session, tests what it has read, and moves the session  *)
(* on where it is still as it was read; the grant is written with it.  All *)
(* that a claim reads is read in one step here: whatever changes it in     *)
(* between moves the session on too.  A start ends the sessions it finds;  *)
(* a second start in progress finds the same ones, and both leave theirs.  *)
(*                                                                         *)
(* Time is counted in units of which a cycle has several.                  *)
(***************************************************************************)
EXTENDS Integers, Sequences, FiniteSets, Sums

CONSTANTS
  Taps,           \* requests in progress
  Cycle,          \* CYCLE_SECONDS
  Skew,           \* skewMs
  DayLength,      \* also the life of a grant, GRANT_TTL_MS
  ClickDelay,     \* MIN_CLICK_DELAY_MS
  ClickGrace,     \* CLICK_GRACE_MS
  HashPerCycle,   \* NORMAL_HASH_PER_CYCLE, TURBO_HASH_PER_CYCLE
  DailyLimit,     \* DAILY_LIMIT_HASH
  MaxClock,       \* bound on the time
  MaxSessions,    \* bound on the sessions and
  MaxBanners      \*   on the banner impressions

Modes == {"NORMAL", "TURBO"}

ASSUME CycleAssumption == Cycle \in Nat /\ Skew \in Nat /\ Skew < Cycle /\ DayLength \in Nat
ASSUME HashAssumption == HashPerCycle \in [Modes -> Nat] /\ DailyLimit \in Nat
ASSUME BannerAssumption == ClickDelay \in Nat /\ ClickGrace \in Nat /\ ClickGrace < DayLength
ASSUME AutoBoundAssumption == MaxClock \in Nat /\ MaxSessions \in Nat /\ MaxBanners \in Nat

VARIABLES
  clock,
  sessions,   \* auto_mining_v2_sessions, in the order they were created
  banners,    \* auto_mining_v2_banner_impressions
  granted,    \* the grants, in the order they were written
  kept,       \* those that were not cleaned up
  tap,        \* requests in progress
  crossed     \* history: a start was in progress beside another call

aVars == <<clock, sessions, banners, granted, kept, tap, crossed>>

NoBanner == 0
IdleTap == [pc |-> "idle", now |-> 0, mode |-> "NORMAL", session |-> 0, due |-> 0,
            banner |-> NoBanner, ending |-> {}]

AInit ==
  /\ clock = 0
  /\ sessions = <<>> /\ banners = <<>> /\ granted = <<>>
  /\ kept = {}
  /\ tap = [t \in Taps |-> IdleTap]
  /\ crossed = FALSE

Active == {s \in DOMAIN sessions : sessions[s].active}
Day(time) == time \div DayLength

\* The sum of the grants among those of one day.
GrantedHash == [i \in DOMAIN granted |-> granted[i].hash]
DaySum(among, day) == Total(GrantedHash, {i \in among : Day(granted[i].at) = day})

Touch(t, values) == tap' = [tap EXCEPT ![t] = values]
Release(t) == Touch(t, IdleTap)

\* Prisma ends a transaction after five seconds, far less than a cycle.
Pass ==
  /\ clock < MaxClock
  /\ \A t \in Taps : tap[t].pc = "idle" \/ tap[t].now = clock
  /\ clock' = clock + 1
  /\ UNCHANGED <<sessions, banners, granted, kept, tap>>

\* A request arrives: new Date()
Arrive(t, pc, mode, banner) ==
  /\ tap[t].pc = "idle"
  /\ Touch(t, [IdleTap EXCEPT !.pc = pc, !.now = clock, !.mode = mode, !.banner = banner])
  /\ UNCHANGED <<clock, sessions, banners, granted, kept>>

-----------------------------------------------------------------------------
(* startSession, stopSession                                               *)

Deactivate(t) ==
  /\ tap[t].pc = "start"
  /\ Touch(t, [tap[t] EXCEPT !.pc = "create", !.ending = Active])
  /\ UNCHANGED <<clock, sessions, banners, granted, kept>>

\* mutant: a new session may be claimed from at once
DueAtOnce(now) == now

NextClaim(now) == now + Cycle

CreateSession(t) ==
  /\ tap[t].pc = "create"
  /\ Len(sessions) < MaxSessions
  /\ sessions' =
       Append([s \in DOMAIN sessions |-> IF s \in tap[t].ending
                                           THEN [sessions[s] EXCEPT !.active = FALSE]
                                           ELSE sessions[s]],
              [mode |-> tap[t].mode, due |-> NextClaim(tap[t].now), active |-> TRUE])
  /\ Release(t)
  /\ UNCHANGED <<clock, banners, granted, kept>>

StopSession ==
  /\ Active # {}
  /\ sessions' = [s \in DOMAIN sessions |-> [sessions[s] EXCEPT !.active = FALSE]]
  /\ UNCHANGED <<clock, banners, granted, kept, tap>>

-----------------------------------------------------------------------------
(* What claims and banners test                                            *)

\* isClaimDue
ClaimDue(s, now) == now >= sessions[s].due - Skew

\* sumDailyGrantedHash
UsedToday(now) == DaySum(kept, Day(now))

\* mutant: the limit is tested before what is asked for is added
LimitNotReached(mode, now) == UsedToday(now) < DailyLimit

\* canGrantDaily
CanGrant(mode, now) == UsedToday(now) + HashPerCycle[mode] <= DailyLimit

MayClaim(s, mode, now) ==
  sessions[s].mode = mode /\ ClaimDue(s, now) /\ CanGrant(mode, now)

-----------------------------------------------------------------------------
(* getOrCreateBannerImpression, registerBannerClick                        *)

Open(s, now) ==
  {b \in DOMAIN banners : /\ banners[b].session = s /\ banners[b].grant = 0 /\ banners[b].kept
                          /\ banners[b].shown >= now - ClickGrace}

\* An open impression is returned; there is none.
ShowBanner(t) ==
  /\ tap[t].pc = "banner"
  /\ \E s \in Active :
       /\ MayClaim(s, "TURBO", tap[t].now)
       /\ Open(s, tap[t].now) = {}
       /\ Touch(t, [tap[t] EXCEPT !.pc = "show", !.session = s])
  /\ UNCHANGED <<clock, sessions, banners, granted, kept>>

CreateBanner(t) ==
  /\ tap[t].pc = "show"
  /\ Len(banners) < MaxBanners
  /\ banners' = Append(banners, [session |-> tap[t].session, shown |-> clock, clicked |-> FALSE,
                                 grant |-> 0, kept |-> TRUE])
  /\ Release(t)
  /\ UNCHANGED <<clock, sessions, granted, kept>>

\* The click is recorded by id.  Nothing that happens after the impression
\* was read changes what is written, so reading and writing are one step.
Click(b) ==
  /\ banners[b].kept /\ banners[b].grant = 0 /\ ~banners[b].clicked
  /\ clock - banners[b].shown \in ClickDelay .. ClickGrace
  /\ banners' = [banners EXCEPT ![b].clicked = TRUE]
  /\ UNCHANGED <<clock, sessions, granted, kept, tap>>

\* mutant: an impression may be used again
ClickedOnce(b, now) == banners[b].kept /\ banners[b].clicked

\* validateImpressionForTurboClaim
ValidClick(b, now) ==
  /\ banners[b].kept /\ banners[b].clicked /\ banners[b].grant = 0
  /\ now - banners[b].shown <= ClickGrace

-----------------------------------------------------------------------------
(* claimNormal, claimTurbo                                                 *)

Look(t) ==
  /\ tap[t].pc = "look"
  /\ \E s \in Active :
       /\ MayClaim(s, tap[t].mode, tap[t].now)
       /\ tap[t].mode = "TURBO" =>
            banners[tap[t].banner].session = s /\ ValidClick(tap[t].banner, tap[t].now)
       /\ Touch(t, [tap[t] EXCEPT !.pc = "claim", !.session = s, !.due = sessions[s].due])
  /\ UNCHANGED <<clock, sessions, banners, granted, kept>>

\* mutant: the session is updated by id
SessionThere(t) == TRUE

SessionUnmoved(t) ==
  sessions[tap[t].session].active /\ sessions[tap[t].session].due = tap[t].due

\* The update of an impression that was cleaned up throws.
Claim(t) ==
  /\ tap[t].pc = "claim"
  /\ SessionUnmoved(t)
  /\ tap[t].mode = "TURBO" => banners[tap[t].banner].kept
  /\ sessions' = [sessions EXCEPT ![tap[t].session].due = NextClaim(tap[t].now)]
  /\ granted' = Append(granted, [at |-> tap[t].now, hash |-> HashPerCycle[tap[t].mode],
                                 banner |-> tap[t].banner])
  /\ kept' = kept \cup {Len(granted')}
  /\ banners' = IF tap[t].mode = "TURBO"
                  THEN [banners EXCEPT ![tap[t].banner].grant = Len(granted')] ELSE banners
  /\ Release(t)
  /\ UNCHANGED clock

\* A test fails, the session has moved on, a query throws.
Refuse(t) ==
  /\ tap[t].pc # "idle"
  /\ Release(t)
  /\ UNCHANGED <<clock, sessions, banners, granted, kept>>

-----------------------------------------------------------------------------
\* mutant: grants are deleted before the day is over
ExpiredEarly(i) == granted[i].at + Cycle < clock

Expired(i) == granted[i].at + DayLength < clock

\* startGamePowerCleanup: expired grants go, and an impression that pointed to
\* one points to none (SetNull).
CleanGrants ==
  /\ \E i \in kept : Expired(i)
  /\ kept' = {i \in kept : ~Expired(i)}
  /\ banners' = [b \in DOMAIN banners |->
                   IF banners[b].grant # 0 /\ banners[b].grant \notin kept'
                     THEN [banners[b] EXCEPT !.grant = 0] ELSE banners[b]]
  /\ UNCHANGED <<clock, sessions, granted, tap>>

\* cleanupStaleAutoMiningV2Impressions: after a week, of which all that counts
\* is that no click and no claim is in time any more.
CleanBanners ==
  /\ \E b \in DOMAIN banners : banners[b].kept /\ banners[b].grant = 0
                               /\ banners[b].shown + DayLength < clock
  /\ banners' = [b \in DOMAIN banners |->
                   IF banners[b].grant = 0 /\ banners[b].shown + DayLength < clock
                     THEN [banners[b] EXCEPT !.kept = FALSE] ELSE banners[b]]
  /\ UNCHANGED <<clock, sessions, granted, kept, tap>>

-----------------------------------------------------------------------------
Tap(t) ==
  \/ \E mode \in Modes : Arrive(t, "start", mode, NoBanner)
  \/ Arrive(t, "banner", "TURBO", NoBanner)
  \/ Arrive(t, "look", "NORMAL", NoBanner)
  \/ \E b \in DOMAIN banners : Arrive(t, "look", "TURBO", b)
  \/ Deactivate(t) \/ CreateSession(t)
  \/ ShowBanner(t) \/ CreateBanner(t)
  \/ Look(t) \/ Claim(t) \/ Refuse(t)

Calling == {t \in Taps : tap[t].pc # "idle"}
Starting == {t \in Taps : tap[t].pc \in {"start", "create"}}

ANext ==
  /\ \/ Pass \/ StopSession \/ CleanGrants \/ CleanBanners
     \/ \E b \in DOMAIN banners : Click(b)
     \/ \E t \in Taps : Tap(t)
  /\ crossed' = (crossed \/ (\E t \in Starting : \E u \in Calling : t # u)')

ASpec == AInit /\ [][ANext]_aVars

-----------------------------------------------------------------------------
\* autoMiningV2Domain.js: "Seconds between eligible server-side claims",
\* "Maximum total H/s that may be granted per UTC calendar day".  Grants are a
\* cycle apart and within the limit of their day, whichever calls overlap and
\* whatever was cleaned up, unless a start overlapped another call; and no
\* click is paid for twice.
GrantsPaced ==
  /\ ~crossed =>
       /\ \A i, j \in DOMAIN granted :
            i < j => granted[j].at >= granted[i].at + Cycle - Skew
       /\ \A i \in DOMAIN granted : DaySum(DOMAIN granted, Day(granted[i].at)) <= DailyLimit
  /\ \A i, j \in DOMAIN granted :
       i # j => granted[i].banner = NoBanner \/ granted[i].banner # granted[j].banner

=============================================================================
