# Block Miner v3: a formal model

Block Miner is a browser game with a token economy: players own mining
machines, install them in racks, and share a block reward every few minutes in
proportion to their hash rate.  The rewards are POL and BLK, which can be
deposited to and withdrawn from a blockchain; check-ins, games, short links,
videos and partners' offers earn more hash rate.  The server is one Node process
(Express, socket.io, cron timers) over a PostgreSQL database through Prisma,
and one in-memory mining engine; the client is a React application.

This directory holds TLA+ modules translated from the server's source, the TLC
configurations that check them on small instances, and proofs checked by TLAPS.
`PROJECT.json` maps each definition to the lines it translates and lists the
hazards, runs and theorems; this file is the guide to them.

## How the code runs, and how the modules say so

Node runs one JavaScript function at a time, but a handler gives way at every
`await`.  Two HTTP handlers, two cron ticks or a handler and a tick therefore
interleave at awaits, and what a handler read before an await may be stale
after it.  PostgreSQL runs each transaction at READ COMMITTED: each statement
sees what is committed when it starts, a row that another transaction has
written is locked until that one ends, and an update by `increment` applies to
the latest value.  The modules follow one discipline:

* a read whose result is used after an await is a step of its own, which puts
  what was read in the handler's record (`job`, `call`, `demand` and their like);
* the writes of one transaction and its commit are one step.  A guard of that
  step that depends on the latest row (`updateMany` with a condition, deletion
  by id, a unique index) is evaluated in it; a condition the code tested on a
  row it read before is evaluated in the step that read;
* a transaction that throws changes nothing: it is a step that lets the handler go;
* in-memory assignments that follow an await are steps after the commit.

Many promises of this code hold only while no two handlers are at the same row
at a time: nothing in it locks, and the tests call one handler after the other.
Such a property carries its proviso as a history variable (`overlapped`,
`raced`, `crossed`, `together`, `met`...), which a step sets when the overlap
happens and which no guard reads.  The run then takes every interleaving, and
the property says exactly which of them it does not speak about; that is
sharper than a run of its own with one request.

Parts that have no state in common are joined by a root module (`Credits`,
`Engagement`, `Market`, `Background`) with one variable that names the part that
moves.  Interleaving them would multiply the states and show nothing that the
behaviours of each do not.

## The parts of the system

State | Kept by | Changed by
--- | --- | ---
Machines of a player: `user_inventory`, `user_miners`, `user_vault`, `user_owned_machines`, `user_racks`, `user_rooms` | database | inventory, machines, vault and rooms controllers; shop, events, rewards
Balances `users.pol_balance`, `blk_balance`, `blk_locked` and their history | database | wallet, swap, shop, rooms, block rewards, claims
Miners, work of the current block, balances of connected players | `MiningEngine` (memory) | the tick, the reload, socket handlers
Transactions (deposits, withdrawals), deposit tickets, deposit cursor | database | wallet and ticket controllers, admin, three cron jobs
Reward blocks, BLK cycles and their payouts | database | mining cron, BLK cycle cron
Event stock and sales | database | event controller, admin, expiry cron
Sessions, impressions and grants of Auto Mining V2; GPUs of the first version | database | its services, cleanup, heartbeats
Mini pass enrollments, XP ledger, claims; daily tasks; check-ins | database | their services, hooks and a job
Offerwall attempts, read and earn, short links, faucet, YouTube, minigame sessions | database | their controllers and services
Rounds of the memory and match-3 games | memory | socket handlers
Live streams: destinations in rows, pipelines in memory | database, memory, processes | stream runner, admin
Audit outbox, cron state, backups | database, memory, disk | audit worker, cron runner, backup job

### Components, what is hard in them, what makes them correct

* **Machine placement.** Handlers read the row to move, open a transaction
  that creates its new row and deletes the old one, and then reload the engine.
  Hard: what was read is stale at commit; three tables and an owner row per
  machine; racks blocked by a machine id that is not a foreign key; an engine
  that caches a sum.  Correct: a machine is in one place, none is lost, no rack
  refers to a machine that is gone, the engine counts the active machines.
* **Engine ledger.** The engine keeps a balance and the last balance it wrote;
  database writes go both ways.  Hard: an increment that is in flight while the
  next reward is computed, a reload that reads the database between a commit
  and the in-memory update.  Correct: every reward reaches the database once.
* **Withdrawals.** The balance is debited when a request is made; an admin
  approves, rejects or completes it; a cron job can send it on the chain.
  Hard: read-then-write handlers and a slow chain call.  Correct: a request is
  refunded at most once, and a refunded request is not paid.
* **Deposits and tickets.** Four ways credit the same chain transaction: the
  player's submission or the event scan with the verifier, `createDepositRequest`
  called by the wallet scan or by the player himself, a support ticket.  Hard: no
  index and no lock, and hashes compared as they are written.  Correct: one
  credit per chain transaction and per ticket.
* **Block rewards and BLK cycles.** A tick distributes a block; a cron job
  distributes BLK per window.  Correct: one distribution per block and window,
  the sum is not above the pool.
* **Purchases.** Shop, limited event offers, rooms and swap debit a balance and
  grant something.  Correct: no negative balance, no oversold offer, rooms in
  their order.
* **Mini pass and daily tasks.** Signals of check-ins and games that may be
  heard late, twice or never, keys that are unique over all players, a total
  that caches a ledger's sum.  Correct: a signal counts once, the total is the
  sum, a purchase is covered.
* **Check-in.** Four routes and a job confirm a day.  Correct: a confirmed day
  stays so, on a payment of its own.  Hard: a payment goes by a string, which
  can be written in two ways.
* **Auto Mining V2, errands, campaigns, games.** Claims that must be paid once
  and at a pace.  Hard: double clicks, a limit that is read before the grant is
  written, an attempt that a player and an administrator decide about, a round
  that is replaced while the server waits.
* **Streams.** Starts, stops, retries, a watchdog and exits of processes meet
  at two maps.  Correct: what runs can be stopped, what was stopped stays so,
  what should run is tried again.
* **Cron runner, audit outbox, backups.** Jobs that overlap, retry and restart.

## The modules

Module | Models | Checked by | Proved in
--- | --- | --- | ---
`Machines` | placement of machines and the engine's hash rate | `machines` | `Machines_proofs`
`Withdrawals` | requests, settlement by hand, the automatic transfer | `withdrawals`, `withdrawals_stale_send` | `Withdrawals_proofs`
`EngineLedger` | the POL balance in the row and in the engine's memory | `background`, `ledger_rollback` | `EngineLedger_proofs`
`Deposits` | submission, wallet scan, the player's deposit request, event scan, verification | `deposits`, `deposits_double` | `Deposits_proofs`
`DepositTickets` | support tickets beside the deposits they are about | `deposits_tickets` | `Deposits_proofs`
`RewardCycle` | the BLK emission | `background` | `Background_proofs`
`RewardWindows` | what the emission promises, as a specification of its own | `background` (`ImplementsWindows`) | `Background_proofs`
`Purchases` | event offers, shop, swap, rooms | `market` | `Market_proofs`
`Stock` | what the stock of an offer promises | `market` (`ImplementsStock`) | `Market_proofs`
`AutoMining` | Auto Mining V2 | `market` | `Market_proofs`
`Missions` | mini pass and daily tasks | `engagement`, `missions_login` | `Rewards_proofs`
`CheckIn` | the daily check-in and its payments | `engagement` | `Rewards_proofs`
`Errands` | short link, faucet, YouTube, GPUs of the first auto mining | `credits` | `Rewards_proofs`
`Campaigns` | read and earn, internal offerwall | `credits` | `Rewards_proofs`
`Arcade` | Hash Tap Sprint, memory and match-3 games | `credits` | `Rewards_proofs`
`Streams` | the live stream runner | `background` | `Background_proofs`
`Sums` | the sum of a function over a finite set, for the ledgers of the others | | `Sums_proofs`

The roots: `Credits` joins `Errands`, `Campaigns` and `Arcade`;
`Market` joins `Purchases` and `AutoMining`; `Engagement` joins `Missions` and
`CheckIn`; `Background` joins `RewardCycle`, `Streams` and `EngineLedger`.
`DepositTickets` extends `Deposits` and shares its state.

Each `MC...` module extends its component or root and only declares model values
(and constants that a cfg cannot write).  A definition whose comment begins with
`mutant:` is not part of a component: it is a plausible mistake in the
definition after it, kept to show that a property notices it; PROJECT.json
lists which property each one breaks.  Each component has a type invariant where
one is proved; of these only `Machines.TypeOK` is also a run's invariant, as the
others would only repeat what the proofs establish.

### Proofs

Every safety invariant and every action property that a passing run checks is
also a theorem, for all values of the constants; so are the two refinements.
A theorem is about the specification of its component (`ErrandSpec`,
`CampaignSpec`, `MSpec`, `SSpec`...).  That the roots `Background`, `Market`,
`Engagement` and `Credits` keep the properties of their parts is proved too
(`BackgroundKept`, `MarketKept`, `EngagementKept`, `CreditsKept`): a step of the root
is one of the part that moves and leaves the variables of the others alone.

A proofs module states, for each component, the invariant that is preserved, one
lemma per group of actions, and the theorems at its end.  The invariants share one
shape: the provisos are negated history variables, and under them *what a handler
has read is still so when it writes*.  What "so" means is the work of each proof,
and is described below.

Sums over rows and players are `Total(f, S)` of `Sums`, a fold of the community
modules.  The library's induction theorems cannot be instantiated by the
installed provers, so `Sums_proofs` argues by smallest counterexamples: the set of the finite
parts on which a law fails would have a least member (`Smallest`).  It shows that the fold
exists and that a sum does not depend on the order of its terms, and from
there what an element that is added, removed or changed makes of a sum, and how
sums compare.

### Machines

`rows` holds the rows of `user_inventory`, `user_miners` and `user_vault`,
tagged with their table; `owned` is the location column of
`user_owned_machines`; `racks` the two machine columns of `user_racks`;
`engine` the machines counted in the engine's hash rate.  `job[r]` is one HTTP
request: a *Begin* action is its reads and tests, `prev` the extra read of the
vault's transaction (a two-slot machine on the slot before), `commit` the
transaction, `sync` and `assign` the two halves of the reload.  Primary keys
and the unique indexes of the schema are guards of the commit (`Live`,
`SlotFree`, `OwnedFree`); when one fails the transaction throws (`Abort`).
`Grant` and `Discard` stand for every flow outside placement that adds a machine
to the inventory or throws one away.  One account and one unlocked room are
modelled, because every query of these handlers is restricted to the caller.

* `machines`: two requests interleaved at every await, two legacy slots, two
  racks, four ids.  A machine is never in two places, the location column is
  right, no machine is lost and no rack refers to one that is gone.  As long as
  two requests have never been in progress at a time (`overlapped`), racks are
  not both occupied and blocked, and between requests the engine counts the
  active machines unless a reload failed.  Two requests are enough for each pair
  of handlers to meet on the same row, and four ids for a swap of two machines.

`EngineFresh` is false with two requests, since a reload may assign a sum
computed before the other request's commit; nothing in the repository promises
it then.  `RackExclusive` is false with two requests as well, once there is a
fifth id (a machine gets a new row, and a new id, each time it is placed): two
installs that checked the same free rack both commit.  The comment at
`prisma/schema.prisma:422`, that exactly one row points to each owned machine,
holds in one direction only: displacing a machine leaves its owned row behind.

Proved for any number of requests, slots, racks and ids: `TypeOK`,
`OnePlacePerMachine` and `LocationAgrees`.  `OnePlacePerMachine` is not
inductive, since a commit writes a row made of what its request read earlier.
The invariant `IInv` adds why that is safe: ids name one row (`IdsUnique`), are
never reused (`IdsFresh`), and a row that is still there at commit has the owned
machine that was read (`Snapshots`).

`NoDanglingRack` and `MachinesConserved` are proved in the same generality from
`PlacesInv`.  A transaction deletes rows that were read at two different moments, so
that one machine displaced twice would be counted twice; they are different
machines because on an odd slot only small machines stand, and in the slot before it a
large one is looked for (`SeenRows`, `OnSlot`).  That needs `NumSlots <= RoomBase`:
no slot of the legacy racks (80) is taken for one of a room (1000 and up).

`RackExclusive` and `EngineFresh` are proved from `AloneInv`: while requests come
one at a time, what the handlers of a room have checked of their rack still holds
at commit (`RoomAim`), and a reload is about to assign the machines that are active
(`Counted`).

### Withdrawals

`status`, `amount` are the rows; `balance` the player's row and `mem` the
engine's copy; `req`, `adm` and `tick` the requests of the player, those of the
administrator and the runs of the cron job.  `createWithdrawal` reads twice and
then writes (`ReadPending`, `ReadBalance`, `CommitRequest`); the administrator's
handlers read, decide, and update the row by id whatever it has become; the cron
job sends the withdrawals of a list it read once.

* `withdrawals`: two requests of the player, one administrator's, one run of the
  cron job, two withdrawals of which the first can never be sent
  (`Unsendable`).  A withdrawal that was never in two hands (`raced`) and whose
  payment was recorded (`unrecorded`) is paid once, or refunded once, or
  neither, and stays settled; the balance is accounted for; memory moves with
  the row unless a commit fails (`lost`).  With one request of the player at a
  time (`doubled`) the balance is not overdrawn and one withdrawal at most is
  pending, whatever the others do.  The unsendable withdrawal does not keep the
  other from being settled (`ApprovedSettles`).  Two requests at a time can both
  be pending and overdraw the balance: `createWithdrawal` does not prevent it.
* `withdrawals_stale_send`: a withdrawal that is rejected while the cron job
  works through its list is refunded and still sent.

Fairness of `ApprovedSettles`: node-cron keeps starting the job, which runs to
its end (WF), and a node and a database that answer again and again let a
transfer and its update through (SF).  Without the second nothing could be
concluded, since each call may fail.

Proved for any number of requests, administrators, cron runs, withdrawals and
amounts: `TypeOK`, `SettledOnce`, `SettledForGood`, `MemoryInStep`,
`OneRequestCovered`, `Accounting`.  What carries the first ones is that whatever the one hand
has read of a withdrawal is still so (`AsRead`), that a refund has left it failed
(`Refunded`), and that a payment has left it completed or about to be (`Paid`).
`Accounting` follows the balance beside the sum of the withdrawals that stand: a
status that changes moves one term of the sum, and the balance by as much.

Assumptions: the administrator does not reject what he has paid by hand; one
commit at most fails after memory was changed; the counters of refunds and
transfers stop at two, which stands for more.

### EngineLedger

`polBalance` is the row; `balance` and `lastPersistedBalance` the engine's.
`writer` are calls of `persistMinerProfile` (from the 15-second loop, a rig
upgrade, a disconnect), `reader` reloads and joins, `posting` everything that
moves the row by itself: purchases, swaps, deposits, refunds, commissions.
`owed` is a history variable, what the player has all told.  `races` names the
orders of steps after which the books cannot balance:

Name | What happens
--- | ---
`spend` | memory is spent from while a write is under way, whose end then marks the spend as written
`overlap` | two writes carry the same difference
`dropped` | a reload assigns the row over a difference that is not written
`rollback` | a block could not be written and is undone in memory
`stale` | a reload assigns a row that a posting has changed meanwhile
`lost` | a transaction is rolled back after `applyUserBalanceDelta`

* `background` (the part `ledger`): two writes, a reload, a posting, up to three moves.
  Without the first four races, the row and what is still to be written are what
  the player is owed (`BooksBalance`), at every step and not only at rest.
  Without any, the engine never holds more to be in the row than there is
  (`NoPhantomBalance`).  A row that stands above what the player is owed comes
  down to it, unless memory was spent during a write, a reload dropped the spend
  or a block was rolled back (`SpendsWritten`).  This is said of the row and of
  `owed`, and not of the engine's own mark of what is written: a spend that is
  marked and was never sent leaves the row above for good.
  Three moves allow a spend, a block and a posting in any order; each of the
  races already occurs with two, and one posting at a time is enough for each of them.
* `ledger_rollback`: the rollback of a block restores the balance and not the
  mark of what is written, so the next write debits a reward that was never
  paid.

Fairness: the loop calls `persistMinerProfile` every 15 seconds and its
continuation runs (WF); an update tried again and again succeeds (SF).

Proved for any number of calls, amounts and moves: `LTypeOK`, `BooksBalance` and
`NoPhantomBalance`.
`BooksBalance` alone is not inductive because `EndPersist` marks whatever memory
is by then; `InProgress` adds that one write at most is under way and that it
carries exactly what is not written.  `NoPhantomBalance` speaks of the moments when
nothing is under way; its inductive form `Backed` holds in between as well, and
counts what memory is ahead of the row (postings applied and not committed, a block
being written) and behind it (postings committed and not applied, a write that
has reached the row).  The first are a sum over the postings, of which there are
finitely many.

The row is not kept from going negative by the ledger: boosts are checked
against memory, purchases against the row, and a swap of a negative amount
against neither; what a purchase may be is `Purchases`' matter, and a posting is
any amount here.

The server is not restarted here.  A restart forgets spends that are not written yet
(a player pays nothing for a boost of the last seconds) and the reward of a block
whose transaction had not committed; memory then starts from the row, so that the
books are exact again.

### Deposits

`kind`, `mined` and `head` are the chain, `linked` whether the paying wallet is
the player's, `status`, `hashOf` and `attempts` the rows of `transactions`,
`lastScannedBlock` the event scan's cursor.  `req` is `submitDeposit`, `ver`
`verifyOnePendingDeposit`, `call` `createDepositRequest`, `sync`
`runContractDepositSyncOnce`.  One of the calls is `Scanner`, the one that
`scanForNewDeposits` makes under the lock of its cron runner; the others are
`requestDeposit` (`POST /api/wallet/deposit`), of which there are any number at a
time, for any hash.  No index makes a hash unique, so `CreateRow` takes any hash.
A verification holds the row it was listed with (`row`, `attempts`) and each of
its reads is a step; its writes are by id and unconditional.

A hash is a string as it is written.  `Lower` is `toLowerCase`, and the chain
takes either case: what is mined, and of which kind it is, is said of both
spellings alike.  `submitDeposit` stores `Lower[h]`, the scans read lower case
from the chain (`Transfers`), `createDepositRequest` looks for and stores the hash it
is given, and all look-ups compare strings.

* `deposits`: one transfer of any kind, whose hash is written in either case, one
  submission, two verifications, the wallet scan and a deposit request of the
  player, one event scan, two rows, three blocks with a depth of two, one
  restart.  Only real transfers are credited, those to the contract at the
  required depth (`CreditsReal`).  A hash as it is written is credited once and is
  shown as completed exactly if it was credited, provided it was never handled
  twice at a time (`CreditedOnce`, `StatusTruthful`).  The event scan's cursor
  never covers a deposit without a row silently (`CursorHonest`).  Two rows
  suffice for two ways to make a row each, or for a row of each spelling; three
  blocks for a transfer to become deep enough, to be scanned and to be too old
  for a look-back of two.
* `deposits_double` drops the proviso: two verifications of one row both credit.

None of these promises is about a *transfer*, which is credited once for each
spelling of its hash, with one call after the other and no overlap at all: the player
submits it, the verifier credits it, and then he requests a deposit with the hash in
another case (`walletModel.js:75`); or he does the latter twice.  The
`deposits` run has these behaviours.

`overlapped` collects the hashes of which two verifications, two creations, or
one of each, were under way together.  `excused` collects the events the scan let
go: before its first look-back, of a wallet that was not linked, or with an
insert that failed.  They are history variables and guard nothing.

Proved for any number of hashes and spellings, rows and handlers and any settings:
`TypeOK`, `CreditsReal`, `CreditedOnce`, `StatusTruthful`, `CursorHonest`.
`CreditsReal` needs that what a verification has seen of the chain stays true,
since the chain only grows.  `CreditedOnce` needs that a hash not handled
twice at a time has one verification or one creation, and no completed row
once that one has looked (`Once`).  `CursorHonest` needs that every
event up to a scan's height has a row, was let go, or is still on its list
(`Pursued`).

One player, and one restart in a behaviour (`MayRestart`).  Reorganisations of the
chain are not modelled; the code does not handle them.

### DepositTickets

`ticket`, `ticketHash` and `verdict` are the rows of `deposit_tickets` and the
result of the analysis; `draft` are calls of `createTicket`, `staff` those of
`adminGetTicket`, `adminApproveTicket` and `adminRejectTicket`, which read the
ticket once and update it by id at their end.  The rows of `transactions` are
those of `Deposits`: a ticket's credit leaves a completed row there, for which
`verifyOnePendingDeposit` looks, and `adminGetTicket` shows whether there is one.

* `deposits_tickets`: one transfer with a submission, a verification and a call of
  `createDepositRequest`, two tickets, two administrators' requests, two blocks.  A
  ticket that no two administrators' requests handled at a time is credited once
  and says so ever after (`TicketSettledOnce`): `adminGetTicket` may otherwise put
  a credited ticket back to "analyzing", and it can be credited again.  A hash as
  it is written is credited one way, unless the review of a ticket overlaps a
  verification or a creation (`CreditedOneWay`, `crossed`), or two tickets for it
  are created at a time.  Every pending deposit is completed or failed in the end,
  because its attempts are counted even when the node fails (`PendingResolves`).
  Two tickets are enough, as the second is refused while the first has the hash;
  this run is without the event scan and restarts, which `deposits` has.

A ticket's hash is trimmed and keeps its case, and the look-ups for an earlier ticket
and for a completed deposit are exact.  So a ticket in another case, filed after the
transfer was credited, is found payable and its approval credits the transfer again, with
nothing overlapping: to `CreditedOneWay` that is another hash.

Fairness of `PendingResolves`: the timer lists every pending row again and again
(SF, as the row competes for the verifications of the model), a call runs to its
end (WF), a write tried again and again goes through (SF).  The node need never
answer, and nothing makes an administrator act.

The administrator credits a ticket if its analysis showed a real transfer that
is not credited; the code leaves the choice, and the amount, to him.

Proved for any number of tickets, calls, hashes and rows: `TicketSettledOnce`
and `CreditedOneWay`.  A ticket that one request at a time handles is as that
request read it, and a credited one has been paid once.  `OneWay` adds up both ways
of crediting: the credits of the rows and of the tickets are one if a completed row
stands and none otherwise, a hash has one ticket that can still be paid, and
one found payable has no credit yet.  The attempt to prove it for several calls of
`createTicket` showed a hole in the proviso that a run with one call could not: two
calls at a time both see no ticket for the hash, and both create one.  `crossed`
now includes them; the run has one call, the theorem any number.

### RewardCycle and RewardWindows

`RewardWindows` is the promise: each window of time is settled once, and what it
gives a player is added to his balance in the same step.  `RewardCycle` is the
code: `run` are calls of `runBlkRewardCycle` from the timer and the
administrator (a new runner per tick, so its lock holds nobody back), `cycles`
the rows with the amounts of their logs, `told` the reports to mini pass and
daily tasks.  The settings and hash rates are read once in a run and may change
at any time, so a run reads any.  Shares follow the loop: rounded down by user
id, the last gets what remains; floating point may lose a unit per operation.

* `background` (the part `reward`): two players, two runs, two windows of two
  interval settings.  `ImplementsWindows` is the refinement, with the mapping
  `ledger` (the shares of the row of a window).  `WithinPool` bounds the sum of
  the shares from above and below.  `ToldOnce` and `ToldAll` are about the report
  after the commit, which a restart loses (`lost`).

Fairness: a run that has committed goes on to its end, as the loop over the
logs awaits nothing but one query.

Proved for any players, runs, settings and rates: `Spec => ImplementsWindows`,
`ToldOnce`, `WithinPool`, `TypeOK`.  The step that matters is that the row of a window is the
only one (`OneRow`), so that the mapping reads the shares that were credited.
For `WithinPool` a run's plan is taken apart at the last player: the shares of the others
are rounded down, so that their sum is not above the pool, and he gets what remains,
less at most the unit per operation that floating point may lose.

### Purchases and Stock

`bal` are the balances, `rooms` the rooms of each player in the order they were
bought, `offer` and `soldCount` the limited offer of an event, `receipts` the
rows of `event_purchases`.  `call` is one request: `purchaseMiner`,
`executeSwap`, `buyRoom` or the event purchase, each reading the balance and
debiting whatever it has become; the event purchase then reads the claims,
`soldCount`, and updates it where it is still the same, up to ten times
(`incrementSoldCountOptimistic`; `MaxTries`).  The administrator changes the
stock, and the offer ends, at any time.  The amount of a swap is a number of either
sign (`SwapAmounts`), because neither the route nor the controller looks at its
sign: a negative one adds to the balance that is compared with it and takes from the
other.  `reversed` remembers whom, and in which currency, that has happened to.

`Stock` is the promise: sales never exceed the largest stock there was.

* `market` (the part `purchases`): two players with two purchases of any kind in
  progress, swaps of one and of minus one, a stock of one or three, quantities of
  one and two, one change.
  `ImplementsStock` maps the receipts, and not the counter, to what is sold.
  `PurchasesCovered`: rooms are unlocked once and in order however often they
  are wanted at a time; a player with one purchase at a time (`together`) claims a
  free offer as often as he may, and never owes in a currency that no negative
  swap took from (`reversed`).  Two at a time can owe: each debits by `decrement`
  after a check of its own.
  Without the second proviso he can owe with one purchase at a time: a negative
  swap from one currency takes the other below zero.

Proved for any players, calls, prices, stocks, tries and bounds: the refinement
`PSpec => ImplementsStock`.  It needs that a call about to sell has seen a count
that leaves room for its quantity (`Seen`), and that the rows are as many as the
counter says (`Counted`).

`PurchasesCovered` is proved in the same generality from `CoverInv`: a player who is
not in `together` has one call in progress (`Noticed`), whose balance, claims and
quantity are still what it checked (`Paced`); rooms are numbered in their order,
and a call wants one that is there or the next (`Wants`), so the unique index
stops the second of two.  Amounts of swaps are any integers in the proof.

### AutoMining

`sessions`, `banners` and `granted` are the rows of Auto Mining V2, `kept` the
grants that no cleanup has removed; `tap` are requests, which take the time when
they start.  A claim moves the session on where it is still as it was read, in
the transaction that writes the grant.

* `market` (the part `auto mining`): two requests, two sessions, one banner, five
  units of time of which a cycle has two and a day three.  Grants are a cycle
  apart and within the limit of their day, whichever calls overlap, unless a
  start overlaps another call (two starts both leave a session); no click is paid
  for twice (`GrantsPaced`).  A day of three units has a limit that a turbo claim
  alone reaches, so the limit is met within a day and lifted on the next.

Proved for any requests, sessions, banners, cycles, limits and times:
`GrantsPaced`.  A claim that finds its session as it read it is the first since,
because a claim always moves the session on: that needs `Skew < Cycle` (the code's 5
and 60 seconds).  No click is paid for twice although grants are cleaned up, because
a grant is kept for a day and a click counts for less: `ClickGrace < DayLength` (3
minutes).  `GrantInv` says so of each request (`Holds`), of the banners paid for
(`BannersOnce`), of the one active session (`Orderly`) and of the sum of the day
(`Frugal`).

### Missions

`ticks` are the dedupe rows, `value`, `done` and `rewarded` the progress of
missions and tasks, `xpOwner` and `bought` the rows of the XP ledger, `totalXp` the
cached sum.  Signals come from a call nobody awaits: they are heard at any time,
never, or again.  `xpOwner` has one owner per key, because the idempotency key of a
mission's XP names the mission and the period and not the player.  `counted` is
what has counted: each signal with the period it counted in.

* `engagement` (the part `missions`): two players, a mission and a task for
  check-ins, a mission for a game, two days, two purchases.  The total agrees with the
  ledger (`XpAgrees`).  The progress of a player at a goal in a period is the number
  of his signals that count there, and none of them counts in a second period, so
  that one that is told twice adds nothing, on the same day or after a retry on the
  next; and one that was heard and not counted was so because its key was used or
  the mission paid to another player (`SignalsCounted`).  A purchase is covered by the balance and within the cap
  unless another purchase or a mission came between (`PassCovered`, `overtaken`).
* `missions_login`: "After daily check-in is confirmed - counts toward LOGIN_DAY
  missions".  The dedupe key of a check-in is its date, so only the first player of the
  day is counted.

Proved for any players, missions, tasks, games, days and prices: `XpAgrees`, `SignalsCounted`,
`PassCovered`.  The invariant adds that the ledger rows of a player are finitely many
(`XpFinite`), each dedupe row is that of a signal that counted (`TicksCounted`), so that
a signal whose row is not there yet is new to the count (`BumpCounts`), and
a purchase that nothing overtook is still covered when it is committed (`BuyCovered`).

### CheckIn

`row` are the rows of `daily_checkins`, `mined` the payments with a receipt,
`visit` the requests and runs of the job, `earned` the milestones.  Four routes
confirm a day: for free, by a payment that is submitted (two ways), by a later
look at the page, and by the job every 45 seconds; each reads the row and writes
it by its key whatever it has become.  A payment is a hash as it is written
(`Payments`), and `Transaction` says which one the node finds for it: the hash is
trimmed at most, and both the look-up and the unique index compare strings.

* `engagement` (the part `check-in`): two visits, a good payment in two spellings and a
  bad one, two days, a milestone of two.  A confirmed day stays so, for free or for a
  payment that is on the chain and whose hash, as it is written, is on no other
  day, and a milestone is earned by as many consecutive days, unless two visits
  handled the row at a time (`CheckinEarned`, `raced`).

  A *transaction* does confirm two days, without any race, when its hash is written in
  another case on the second: the run has that behaviour, and `CheckinEarned` says no
  more than the index keeps.

Proved for any visits, payments, days and milestones: `CheckinEarned`.  A day that no
two visits have handled at a time has one handler at most (`OneHandler`), whose copy of
the row is what the row still says (`InHand`), and a confirmed day's hash is the
free one or a good payment's (`Paid`); a hash is on one row whatever was raced,
as it is written, by the unique index (`OwnHash`); a streak that was counted still stands when its
milestone is granted (`StreakStands`).  Assumed are that the hash of a free
check-in is not a payment and that neither is the placeholder of a missing row:
payments are hashes of transactions, and a string in the form of a free check-in's hash
is not submitted for one.

### Errands

The player minds one of four: `watch` (YouTube: heartbeats credit seconds that a
claim spends), `gpu` (releases and claims of the first auto mining, paid the same
way), `faucet` (with its partner visit), `link` (the short link with its steps and
its daily reset).  Every handler reads, one query after the other, and grants in
a transaction that looks at none of it again: a step that reads and a step that
writes.

* `credits` (the part `errands`): two requests, four points of time of which a day
  has two.  `ErrandsPaced`: seconds are spent only if earned, a GPU is granted
  once, and limits and cooldowns hold, unless two requests of the kind were in
  progress at a time (`twice`).  Four points of time have two days and two
  cooldowns.

Proved for any requests, GPUs, costs, limits, cooldowns and times: `ErrandSpec => []ErrandsPaced`.  A kind of
errand that is not in `twice` has one request in progress (`AloneUnlessTwice`), for
which what it read still holds: the seconds are there, the GPU is available, no grant
is later than its time and the window that ends there has room (`WatchHeld`, `GpuHeld`).
A limit of any 24 hours follows from the one that ends at the last grant, as grants
are in the order of their times.  The rows of the faucet and of the short link hold the last claim
(`FaucetHeld`, `LinkHeld`), and whoever has a session of the short link has no run of
that day.

### Campaigns

`campaign`, `redeemed` and `redeemPaid` are read and earn; `wallOffer`, `attempt`
and `paid` an offer of the internal offerwall.  Only a redemption has a unique
index behind it; the attempts are found by their status and updated by their id.

* `credits` (the part `campaigns`): two requests, two players, two attempts,
  limits of one and two, two days.  A code is paid once to a player, and no more
  often than the campaign allows unless two redemptions had passed the checks at a
  time (`rush`); an attempt is paid exactly if it is completed unless two requests
  decided about it at a time (`met`), and a day has no more paid attempts than the
  offer allows unless a start met another request (`crowded`).

Proved for any requests, players, attempts, limits and days:
`CampaignSpec => []CampaignsPaid`.  The limit meant is the highest so far
(`MostSoFar`), since an administrator may lower it.  A redemption that has passed the
checks alone finds fewer rows than that, and what was paid for the rows that go with
a deleted campaign is not paid again (`ReadPaid`); whoever decides about an attempt
alone finds it open, or deleted (`Decided`); the attempts of a day that are completed
or may be stay within the limit, which a start in progress alone has counted
(`DayLimited`).

### Arcade

Hash Tap Sprint: `session` are the rows of `minigame_sessions`, and a request does
all it does in one transaction with the player's row locked, at the time it took
before (`hand[r].at`).  The games over sockets: `desk` are the rounds of
`GAME_SESSIONS`, `lastFinish` the cooldown.  A start checks the cooldown, waits for
the database (`ReadGame`, `SetGame`) and puts a round at its socket whatever has
happened there meanwhile.

* `credits` (the part `games`): two requests, two sockets, four points of time
  with a cooldown and a duration of two.  `GamesPaced`: a session is rewarded at most once, in its
  window, a cooldown after every other; wins over sockets are so unless two rounds were
  under way at a time or the server forgot them (`doubled`); a round ends with its
  socket and two cards that do not match are turned back, unless a start came
  between (`odd`).

What the provisos stand for: a disconnect sets no cooldown; a start that finishes
after its socket has closed leaves its round behind; and a start that is refused
has cleared the timer of the round before, so that a memory round with two cards
up stays so until the next start.

Proved for any requests, sockets, cooldown, duration and windows:
`ArcadeSpec => []GamesPaced`, where `ArcadeSpec` is the module's own
specification.  `Tapped` says why the order in which requests take the lock does not matter:
there is one active session at most, it was started a cooldown after every
completed one, and it is rewarded no earlier than it was started, since
`MINIGAME_COMPLETE_EARLY_MS` is not more than the duration.  `Carded` says that
while no two rounds are under way, one that is began a cooldown after the last
finish, and no win is later than that; `Kept` is what holds of each socket.

### Streams

`destination` is the row (enabled, desired), `active`, `starting` and `timer` the
maps of `streamRunner`, `xvfb` and `ffmpeg` the processes of a pipeline.  Starts are
called by the administrator, at boot, by the watchdog and by the timer of a
failure; `retries` are the handlers of a failure, which read the row before they
schedule.

* `background` (the part `streams`): two pipelines at a time, one stop in progress, one
  automatic restart, two failures in progress.  What runs can be stopped
  (`StreamsHeld`), what was stopped stays so (`StopsHold`), what should run runs or
  is tried again and again (`KeepsTrying`).

`mishaps` names what upsets the maps: `crossed`, an exit that removed the entry of
another pipeline; `left`, an ffmpeg that exited by itself, whose Xvfb keeps the
display, so that the "Auto-retry scheduled" afterwards cannot succeed until the
server restarts; `unnoticed`, an ffmpeg killed by a signal while it booted, which is
taken for a running one.

Fairness: timers fire, what was called or awaited goes on, an ffmpeg that is told
to end does (WF each).  Nothing makes the administrator act.

Proved for any number of pipelines, stops and attempts: `StreamsHeld` and `StopsHold`.
A start is under way only while nothing is active and boots a pipeline of its own
(`Alone`); a pipeline that was told to end is not the active one (`Running`); and after
a stop that met no start, any start there may be ends before it launches anything,
because the row is not desired (`Quiet`).

### The roots and their bounds

Run | Parts | Why the bounds are enough
--- | --- | ---
`credits` | errands, campaigns, games | see each part
`engagement` | missions, check-in | two players for one key, two days for two periods and a streak, two spellings of a payment
`market` | purchases, auto mining | two calls meet at one stock, balance or session; it has the most states of the project (4.5 million)
`background` | reward cycle, streams, ledger | two runs meet at one window; two pipelines at one display; two writes, a reload and a posting at one balance

`CHECK_DEADLOCK FALSE` is set where a bound ends the behaviour (ids, days, moves,
points of time).  `ledger_rollback`, the runs of `Deposits` and that of `DepositTickets`
can always do something and are checked for deadlock.

## Where the code does not do what it says

Run | What is said | What happens
--- | --- | ---
`withdrawals_stale_send` | only approved withdrawals are sent | one that was rejected and refunded after the list was read is sent
`ledger_rollback` | a block that could not be written is rolled back | the mark of what is written is not, and the next write debits the reward
`deposits_double` | a hash is credited once | two verifications of its row credit it twice
`missions_login` | a check-in counts towards the missions of the day | only the first player's of the day does

PROJECT.json quotes the lines.  Four more disagreements are in the models and carved
out of the properties by their wording, without a run of their own: hashes are
compared as they are written, so that a transfer is credited again under another
spelling by `createDepositRequest` ("Check if txHash already exists to prevent double
spend", `walletModel.js:73`) and by a ticket (`depositTicketController.js:302`), and a
payment confirms another day ("already used for a previous check-in day",
`checkinController.js:320`); and a swap of a negative amount passes "Insufficient POL
balance" (`swapController.js:53`) and leaves a player owing.

## What is only model-checked

* Liveness (`ApprovedSettles`, `SpendsWritten`, `PendingResolves`, `ToldAll`,
  `KeepsTrying`): the prover does not treat fairness.
* The runs that expect a violation, which show one behaviour each.

ENABLED, induction over data, and RECURSIVE operators are out of the prover's
reach; no module has the last.

## What is not modelled

* Amounts are small integers; Decimal columns and JavaScript numbers are exact
  in the models, except for the rounding in `RewardCycle`.
* Sessions, roles, rate limits, validation of formats, wording, logging and
  notifications.
* The conversion of POL to BLK: `convertPolToBlk` (`models/blkWalletModel.js:68`) is
  never called, only its estimate is.
* The edits of seasons, missions, events and machines by an administrator.
* The boards of the games: a pair or a swap is good or not, and a match-3 cascade
  (`findMatches`, `processCascades`) is some number of points.
* Of the offerwall: the mark of the opened partner page and the seconds an offer
  must be viewed.
* The cron runner (`cron/cronActionRunner.js`): it catches every error of an action
  and skips a call while one is in flight in the same runner.  What the actions do
  when they overlap all the same is modelled with each of them.
* The audit outbox: its rows carry the status of their event, while the worker
  fetches those with the status PENDING, so nothing moves.
* Refresh tokens: they are created and never looked up.
* The reset job of the short links and the callback queue, which nothing fills;
  the CommonJS cron and utilities of the first auto mining, `wallet/autoWithdraw.js`,
  `app/routes/registerAppRoutes.js` and the SQLite layer, which are not reached from
  `server.js`; PTP, whose router is commented out at `server.js:286`.
* The deposit contract: a vault of one balance whose methods each run in one
  transaction of the chain.
* Statistics, ranking, chat, support tickets, content management: no invariant
  relates them to the economy.
* The client, the encoder of a stream, deployment.  The client alone is half of the
  repository's lines of code: views over the API, which keep no state of the economy.

PROJECT.json lists every part with its status.

## Plan

Done, in the order of their weight: placement, withdrawals, the engine's ledger,
deposits, the BLK cycle; then tickets, purchases, missions, check-in, Auto Mining,
streams, errands, campaigns and games; and the proofs of their safety properties.
Left, in that order:

1. `Purchases` composed with `EngineLedger`: two copies of one balance, each checked
   on its own.
2. Match-3 cascades as pure functions against a reference definition, in a module
   without theorems.
3. The administrator's edits of seasons and events.
