------------------------------- MODULE Errands -------------------------------
(***************************************************************************)
(* The small earnings of one player: the short link, the faucet, watching  *)
(* YouTube, and the GPUs of the first auto mining.  Each is paced, by a    *)
(* limit per day, a cooldown or by seconds that heartbeats have credited.  *)
(*                                                                         *)
(* Every handler reads what its checks need, one query after the other,    *)
(* and grants in a transaction that looks at none of it again.  It is      *)
(* modelled as a step that reads and a step that writes; the time it       *)
(* stores is mostly that of its beginning.                                 *)
(*                                                                         *)
(* Videos and GPUs are paid with seconds that heartbeats of their own kind *)
(* credit.  The four have no other state in common, and the player minds   *)
(* one of them in a behaviour.                                             *)
(*                                                                         *)
(* Time goes by in ticks.  A grant is a machine or hash rate.              *)
(***************************************************************************)
EXTENDS Sums

CONSTANTS
  Errand,      \* requests in progress
  MaxTime,     \* bound on the clock
  DayTicks,   \* ticks of a day
  WatchCost,   \* heartbeats that a claim of a video costs,
  GpuCost,     \*   and a GPU
  WatchLimit,  \* DAILY_LIMIT_HASH / REWARD_PER_CLAIM
  GpuLimit,    \* DAILY_LIMIT
  Gpus,        \* rows of auto_mining_gpus that may be made
  Cooldown     \* cooldownMs of the faucet

ASSUME ErrandAssumption ==
  /\ MaxTime \in Nat /\ DayTicks \in Nat \ {0} /\ Cooldown \in Nat
  /\ WatchCost \in Nat /\ GpuCost \in Nat /\ WatchLimit \in Nat /\ GpuLimit \in Nat

VARIABLES
  mind,      \* what the player minds
  moment,
  beat,      \* lastHeartbeatAt
  seconds,   \* ytSecondsBalance and autoMiningSecondsBalance, in heartbeats
  link,      \* shortlink_completions: dailyRuns, completedAt, stepStartedAt (the session)
  faucet,    \* faucet_claims.claimedAt
  visited,   \* openedAt of today's faucet_partner_visits
  gpu,       \* auto_mining_gpus: "none", "available" or "claimed"
  released,  \* releasedAt of the last of them
  errand,    \* requests in progress
  grants,    \* how many grants of each kind have each time
  twice      \* history: kinds of which two requests were in progress at a time

wallet == <<beat, seconds>>
machines == <<gpu, released>>
eVars == <<mind, moment, wallet, link, faucet, visited, machines, errand, grants, twice>>

Times == 0 .. MaxTime
Before == -1          \* never so far
GrantKinds == {"link", "faucet", "watch", "gpu", "youtube", "auto-mining", "release"}
IdleErrand == [kind |-> "none", pc |-> "idle", at |-> 0, gpu |-> 0]

DayOf(t) == t \div DayTicks

ErrandInit ==
  /\ mind \in {"watch", "gpu", "faucet", "link"}
  /\ moment = 0
  /\ beat = Before
  /\ seconds = [type \in {"youtube", "auto-mining"} |-> 0]
  /\ link = [runs |-> 0, completed |-> Before, started |-> Before]
  /\ faucet = Before /\ visited = Before
  /\ gpu = [g \in Gpus |-> "none"] /\ released = Before
  /\ errand = [r \in Errand |-> IdleErrand]
  /\ grants = [k \in GrantKinds \X Times |-> 0]
  /\ twice = {}

GoBy ==
  /\ moment < MaxTime
  /\ moment' = moment + 1
  /\ UNCHANGED <<wallet, link, faucet, visited, machines, errand, grants>>

Take(r, kind, pc, g) ==
  /\ errand[r].pc = "idle"
  /\ errand' = [errand EXCEPT ![r] = [kind |-> kind, pc |-> pc, at |-> moment, gpu |-> g]]

At(r, kind, pc) == errand[r].kind = kind /\ errand[r].pc = pc
GoOn(r, pc) == errand' = [errand EXCEPT ![r].pc = pc]
End(r) == errand' = [errand EXCEPT ![r] = IdleErrand]
Grant(kind, t) == grants' = [grants EXCEPT ![<<kind, t>>] = @ + 1]

\* The grants of a kind in n ticks from a time on.
Granted(kind, t, n) == Total(grants, {kind} \X {u \in Times : t <= u /\ u < t + n})

\* Those of the last 24 hours.
Recent(kind) == Granted(kind, moment - DayTicks + 1, DayTicks)

-----------------------------------------------------------------------------
(* processHeartbeat                                                        *)

\* Less than 8 seconds since the last one: it does not count.
ReadBeat(r, type) ==
  /\ beat < moment
  /\ Take(r, type, "write", 0)
  /\ UNCHANGED <<moment, wallet, link, faucet, visited, machines, grants>>

WriteBeat(r) ==
  /\ errand[r].kind \in DOMAIN seconds /\ errand[r].pc = "write"
  /\ beat' = errand[r].at
  /\ seconds' = [seconds EXCEPT ![errand[r].kind] = @ + 1]
  /\ End(r)
  /\ UNCHANGED <<moment, link, faucet, visited, machines, grants>>

-----------------------------------------------------------------------------
(* claimReward of youtubeController                                        *)

\* mutant: the seconds are not looked at
NoSeconds(type, cost) == TRUE

Enough(type, cost) == seconds[type] >= cost

ReadWatch(r) ==
  /\ Enough("youtube", WatchCost)
  /\ Recent("watch") < WatchLimit
  /\ Take(r, "watch", "write", 0)
  /\ UNCHANGED <<moment, wallet, link, faucet, visited, machines, grants>>

\* createdAt is the time of the insert.
WriteWatch(r) ==
  /\ At(r, "watch", "write")
  /\ Grant("watch", moment)
  /\ seconds' = [seconds EXCEPT !["youtube"] = @ - WatchCost]
  /\ End(r)
  /\ UNCHANGED <<moment, beat, link, faucet, visited, machines>>

-----------------------------------------------------------------------------
(* getAvailableGPUsHandler, claimGPUHandler                                *)

\* A GPU is released every five minutes, if none is waiting.
ReadRelease(r) ==
  /\ \A g \in Gpus : gpu[g] # "available"
  /\ released < moment
  /\ Enough("auto-mining", GpuCost)
  /\ Take(r, "release", "write", 0)
  /\ UNCHANGED <<moment, wallet, link, faucet, visited, machines, grants>>

WriteRelease(r) ==
  /\ At(r, "release", "write")
  /\ \E g \in Gpus : gpu[g] = "none" /\ gpu' = [gpu EXCEPT ![g] = "available"]
  /\ released' = errand[r].at
  /\ End(r)
  /\ UNCHANGED <<moment, wallet, link, faucet, visited, grants>>

ReadGpu(r, g) ==
  /\ gpu[g] = "available"
  /\ Recent("gpu") < GpuLimit
  /\ Enough("auto-mining", GpuCost)
  /\ Take(r, "gpu", "write", g)
  /\ UNCHANGED <<moment, wallet, link, faucet, visited, machines, grants>>

WriteGpu(r) ==
  /\ At(r, "gpu", "write")
  /\ gpu' = [gpu EXCEPT ![errand[r].gpu] = "claimed"]
  /\ seconds' = [seconds EXCEPT !["auto-mining"] = @ - GpuCost]
  /\ Grant("gpu", errand[r].at)
  /\ End(r)
  /\ UNCHANGED <<moment, beat, link, faucet, visited, released>>

-----------------------------------------------------------------------------
(* The faucet: startPartnerVisit, claim                                    *)

startPartnerVisit ==
  /\ visited' = moment
  /\ UNCHANGED <<moment, wallet, link, faucet, machines, errand, grants>>

CooledDown == faucet = Before \/ faucet + Cooldown <= moment

\* A visit of today, since the last claim and at least ten seconds ago.
PartnerReady ==
  visited # Before /\ DayOf(visited) = DayOf(moment) /\ visited > faucet /\ visited < moment

ReadFaucet(r) ==
  /\ CooledDown /\ PartnerReady
  /\ Take(r, "faucet", "write", 0)
  /\ UNCHANGED <<moment, wallet, link, faucet, visited, machines, grants>>

WriteFaucet(r) ==
  /\ At(r, "faucet", "write")
  /\ faucet' = errand[r].at
  /\ Grant("faucet", errand[r].at)
  /\ End(r)
  /\ UNCHANGED <<moment, wallet, link, visited, machines>>

-----------------------------------------------------------------------------
(* The short link: startShortlink, completeShortlinkStep                   *)

\* resetDailyIfNeeded: the last run was completed before today's midnight.
Stale == link.runs > 0 /\ DayOf(link.completed) < DayOf(moment)

LeftToday == link.runs = 0 \/ Stale

\* The page, and each handler before it checks: the runs are set to nothing.
ResetDaily ==
  IF Stale THEN link' = [link EXCEPT !.runs = 0] ELSE UNCHANGED link

getShortlinkStatus ==
  /\ Stale /\ ResetDaily
  /\ UNCHANGED <<moment, wallet, faucet, visited, machines, errand, grants>>

ReadStart(r) ==
  /\ LeftToday /\ ResetDaily
  /\ Take(r, "link", "open", 0)
  /\ UNCHANGED <<moment, wallet, faucet, visited, machines, grants>>

OpenSession(r) ==
  /\ At(r, "link", "open")
  /\ link' = [link EXCEPT !.started = moment]
  /\ End(r)
  /\ UNCHANGED <<moment, wallet, faucet, visited, machines, grants>>

\* completeShortlinkStep takes the time first, of which it says when the run
\* was completed.
BeginLink(r) ==
  /\ Take(r, "link", "read", 0)
  /\ UNCHANGED <<moment, wallet, link, faucet, visited, machines, grants>>

\* With the session's token, and 8 seconds after the step has started.
ReadLink(r) ==
  /\ At(r, "link", "read")
  /\ link.started # Before
  /\ ResetDaily
  /\ IF LeftToday /\ link.started < errand[r].at THEN GoOn(r, "write") ELSE End(r)
  /\ UNCHANGED <<moment, wallet, faucet, visited, machines, grants>>

WriteStep(r) ==
  /\ At(r, "link", "write")
  /\ link' = [link EXCEPT !.started = errand[r].at]
  /\ End(r)
  /\ UNCHANGED <<moment, wallet, faucet, visited, machines, grants>>

WriteLastStep(r) ==
  /\ At(r, "link", "write")
  /\ link' = [runs |-> link.runs + 1, completed |-> errand[r].at, started |-> Before]
  /\ Grant("link", errand[r].at)
  /\ End(r)
  /\ UNCHANGED <<moment, wallet, faucet, visited, machines>>

-----------------------------------------------------------------------------
\* A query throws, or the reward is not configured.
Stumble(r) ==
  /\ errand[r].pc # "idle"
  /\ End(r)
  /\ UNCHANGED <<moment, wallet, link, faucet, visited, machines, grants>>

Run(r) ==
  \/ mind = "watch" /\ (ReadBeat(r, "youtube") \/ ReadWatch(r))
  \/ mind = "gpu" /\
       (ReadBeat(r, "auto-mining") \/ ReadRelease(r) \/ \E g \in Gpus : ReadGpu(r, g))
  \/ mind = "faucet" /\ ReadFaucet(r)
  \/ mind = "link" /\ (ReadStart(r) \/ BeginLink(r))
  \/ WriteBeat(r) \/ WriteWatch(r) \/ WriteRelease(r) \/ WriteGpu(r) \/ WriteFaucet(r)
  \/ OpenSession(r) \/ ReadLink(r) \/ WriteStep(r) \/ WriteLastStep(r)
  \/ Stumble(r)

Together ==
  {k \in {"watch", "gpu", "faucet", "link"} :
     \E q, r \in Errand : q # r /\ \A x \in {q, r} : errand[x].pc # "idle" /\ errand[x].kind = k}

Browse ==
  \/ mind = "faucet" /\ startPartnerVisit
  \/ mind = "link" /\ getShortlinkStatus

ErrandNext ==
  /\ GoBy \/ Browse \/ \E r \in Errand : Run(r)
  /\ twice' = twice \cup Together'
  /\ UNCHANGED mind

ErrandSpec == ErrandInit /\ [][ErrandNext]_eVars

-----------------------------------------------------------------------------
\* "Limite diário", "Cooldown active", "Tempo de atividade focado
\* insuficiente": seconds are spent only if they were earned, and a GPU for
\* one grant; no day has more runs of the short link, no 24 hours more videos
\* or GPUs than their limit, and two claims of the faucet are a cooldown
\* apart, though nothing is looked at again when a grant is written; unless
\* two requests of a kind were in progress at a time.
ErrandsPaced ==
  /\ "watch" \notin twice =>
       /\ seconds["youtube"] >= 0
       /\ \A t \in Times : Granted("watch", t, DayTicks) <= WatchLimit
  /\ "gpu" \notin twice =>
       /\ seconds["auto-mining"] >= 0
       /\ \A t \in Times : Granted("gpu", t, DayTicks) <= GpuLimit
       /\ Granted("gpu", 0, MaxTime + 1) = Cardinality({g \in Gpus : gpu[g] = "claimed"})
  /\ "faucet" \notin twice => \A t \in Times : Granted("faucet", t, Cooldown) <= 1
  /\ "link" \notin twice =>
       \A t \in Times : t % DayTicks = 0 => Granted("link", t, DayTicks) <= 1

=============================================================================
