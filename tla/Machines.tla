------------------------------ MODULE Machines ------------------------------
(***************************************************************************)
(* Where a player's mining machines are: the inventory, a slot of the      *)
(* legacy racks, a rack of a room, or the vault ("warehouse").             *)
(*                                                                         *)
(* A place is a row of user_inventory, user_miners or user_vault; each row *)
(* points to a canonical row of user_owned_machines.  Handlers of          *)
(* inventoryController, machinesController, vaultController and            *)
(* roomsController read rows, then open a transaction that creates the row *)
(* of the new place and deletes the row of the old one, and then reload    *)
(* the engine's hash rate.  Node runs the handlers of several HTTP         *)
(* requests interleaved at every await, so what a handler read may be      *)
(* stale when its transaction commits: a read is a step here, a commit is  *)
(* a step, and the reload is two more.                                     *)
(*                                                                         *)
(* One account and one unlocked room are modelled: every query of these    *)
(* handlers is restricted to the caller's rows.  The three tables are one  *)
(* set of rows tagged with their table, and their autoincrement ids are    *)
(* one counter.                                                            *)
(***************************************************************************)
EXTENDS Integers, FiniteSets

CONSTANTS
  Requests,   \* HTTP requests the server may be handling at the same time
  NumSlots,   \* slots of the legacy racks (80 in the code)
  NumRacks,   \* racks of the room (RACKS_PER_ROOM, 192 in the code)
  MaxId       \* bound on the ids the model may allocate

ASSUME NumSlotsAssumption == NumSlots \in Nat /\ NumSlots % 2 = 0
ASSUME NumRacksAssumption == NumRacks \in Nat
ASSUME MaxIdAssumption == MaxId \in Nat /\ MaxId >= 2

VARIABLES
  rows,     \* user_inventory, user_miners and user_vault, tagged with tbl
  owned,    \* location column of user_owned_machines, "none" if no such row
  racks,    \* user_racks of the room: userMinerId and blockedByMinerId
  nextId,   \* next autoincrement id
  engine,   \* ids of the machines counted in the engine's baseHashRate
  job,      \* what each request is doing
  count,    \* history: machines granted minus machines discarded
  missed,   \* history: a reload failed and none has completed since
  overlapped \* history: two requests were in progress at a time

held == <<rows, owned, racks, nextId, engine, job, count, missed>>
vars == <<held, overlapped>>

Null == 0        \* a null foreign key; ids start at 1
NoSlot == -1
RoomBase == 1000 \* slotIndex offset of machines installed in room racks

\* No slot of the legacy racks is a slot of the room.
ASSUME RoomBaseAssumption == NumSlots <= RoomBase

Tables == {"INVENTORY", "RACK", "WAREHOUSE"}
LegacySlots == 0 .. NumSlots - 1
Positions == 0 .. NumRacks - 1
Slots == LegacySlots \cup {RoomBase + p : p \in Positions} \cup {NoSlot}
Ids == 1 .. MaxId

Row == [id : Ids, tbl : Tables, om : Ids \cup {Null}, size : {1, 2},
        slot : Slots, active : BOOLEAN]
Ops == {"install", "retrieveRack", "move", "remove", "storeInventory",
        "storeRack", "retrieveInventory", "roomInstall", "roomUninstall",
        "toggleOn", "toggleOff"}
Steps == {"prev", "commit", "sync", "assign"}

NoRow == [id |-> 1, tbl |-> "INVENTORY", om |-> Null, size |-> 1,
          slot |-> NoSlot, active |-> FALSE]
At(pc) == [pc |-> pc, op |-> "none", row |-> NoRow, slot |-> NoSlot,
           seen |-> {}, hash |-> {}]
Idle == At("idle")

In(tbl) == {x \in rows : x.tbl = tbl}
IdsOf(S) == {x.id : x \in S}
Targets(slot, size) == slot .. slot + size - 1
MinersAt(slots) == {m \in In("RACK") : m.slot \in slots}
Without(ids) == {x \in rows : x.id \notin ids}
ActiveIds == {m.id : m \in {x \in In("RACK") : x.active}}

\* mutant: deleteMany instead of delete, which ignores a row that is gone
LiveIgnored(S) == TRUE

\* Prisma's delete and update by id throw P2025 when the row is gone.
Live(S) == IdsOf(S) \subseteq IdsOf(rows)

\* @@unique([userId, slotIndex]) of user_miners
SlotFree(S, slot) == \A x \in S : x.slot # slot

\* ownedMachineId is @unique in each of the three tables
OwnedFree(S, tbl, om) == \A x \in S : x.tbl = tbl => x.om # om

\* mutant: only the rack that holds the machine is released
ReleaseHolder(ids) ==
  [p \in Positions |->
     [racks[p] EXCEPT !.miner = IF @ \in ids THEN Null ELSE @]]

\* releaseUserMinerFromRacksTx: the two updateMany by miner id
Release(ids) ==
  [p \in Positions |->
     [miner   |-> IF racks[p].miner \in ids THEN Null ELSE racks[p].miner,
      blocked |-> IF racks[p].blocked \in ids THEN Null ELSE racks[p].blocked]]

\* ensureOwnedMachine...Tx: rows older than user_owned_machines have no
\* ownedMachineId and are given a fresh one (n)
EnsureOwned(row, n) == IF row.om # Null THEN row.om ELSE n

\* mutant: the slot number of the UI, which counts from one
NewRowOneBased(n, tbl, om, size, slot) ==
  [id |-> n, tbl |-> tbl, om |-> om, size |-> size, slot |-> slot + 1,
   active |-> tbl = "RACK"]

NewRow(n, tbl, om, size, slot) ==
  [id |-> n, tbl |-> tbl, om |-> om, size |-> size, slot |-> slot,
   active |-> tbl = "RACK"]

\* createInventoryWithOwnedMachineTx: an inventory row with a NEW owned row
FreshInventory(n, size) == NewRow(n, "INVENTORY", n, size, NoSlot)

\* mutant: the location is written when the row is created and never again
LocatedOnce(fresh, om, loc) ==
  [o \in Ids |-> IF o = om /\ owned[o] = "none" THEN loc
                 ELSE IF o \in fresh THEN "INVENTORY" ELSE owned[o]]

\* syncOwnedMachineSnapshotTx, and the creation of the owned rows "fresh"
Located(fresh, om, loc) ==
  [o \in Ids |-> IF o = om THEN loc
                 ELSE IF o \in fresh THEN "INVENTORY" ELSE owned[o]]

\* The displaced machines are inserted in the order findMany returned them,
\* which the query leaves open.
Numberings(S) ==
  {f \in [S -> nextId .. nextId + Cardinality(S) - 1] :
     \A x, y \in S : f[x] = f[y] => x = y}

-----------------------------------------------------------------------------
(* Reads: what a handler fetches before it opens its transaction.          *)

Begin(r, op, pc, row, slot, seen) ==
  /\ job[r].pc = "idle"
  /\ job' = [job EXCEPT ![r] = [pc |-> pc, op |-> op, row |-> row,
                                slot |-> slot, seen |-> seen, hash |-> {}]]
  /\ UNCHANGED <<rows, owned, racks, nextId, engine, count, missed>>

\* A large machine must start on an even slot.
Fits(size, slot) == size = 2 => slot % 2 = 0

BeginInstall(r) ==
  \E i \in In("INVENTORY"), s \in LegacySlots :
    /\ Fits(i.size, s)
    /\ Begin(r, "install", IF s % 2 = 1 THEN "prev" ELSE "commit", i, s,
             MinersAt(Targets(s, i.size)))

BeginMove(r) ==
  \E m \in In("RACK"), s \in LegacySlots :
    /\ Fits(m.size, s)
    /\ Begin(r, "move", IF s % 2 = 1 THEN "prev" ELSE "commit", m, s,
             MinersAt(Targets(s, m.size)) \ {m})

\* Unlike the other two, this handler never looks at the previous slot.
BeginRetrieveToRack(r) ==
  \E v \in In("WAREHOUSE"), s \in LegacySlots :
    /\ Fits(v.size, s)
    /\ Begin(r, "retrieveRack", "commit", v, s, MinersAt(Targets(s, v.size)))

BeginRetrieveToInventory(r) ==
  \E v \in In("WAREHOUSE") : Begin(r, "retrieveInventory", "commit", v, NoSlot, {})

BeginStoreInventory(r) ==
  \E i \in In("INVENTORY") : Begin(r, "storeInventory", "commit", i, NoSlot, {})

BeginStoreRack(r) ==
  \E m \in In("RACK") : Begin(r, "storeRack", "commit", m, NoSlot, {})

BeginRemove(r) ==
  \E m \in In("RACK") : Begin(r, "remove", "commit", m, NoSlot, {})

BeginToggle(r) ==
  \E m \in In("RACK"), op \in {"toggleOn", "toggleOff"} :
    Begin(r, op, "commit", m, NoSlot, {})

\* mutant: a rack blocked by a large machine counts as free
RackUnoccupied(p) == racks[p].miner = Null

RackFree(p) == racks[p].miner = Null /\ racks[p].blocked = Null

BeginRoomInstall(r) ==
  \E p \in Positions, i \in In("INVENTORY") :
    /\ RackFree(p)
    /\ i.size = 2 => p + 1 \in Positions /\ RackFree(p + 1)
    /\ Begin(r, "roomInstall", "commit", i, RoomBase + p, {})

BeginRoomUninstall(r) ==
  \E p \in Positions, m \in In("RACK") :
    /\ racks[p].miner = m.id
    /\ Begin(r, "roomUninstall", "commit", m, RoomBase + p, {})

(* The transaction's own read: a 2-slot machine on the slot before an odd  *)
(* target is displaced too.                                                *)
ReadPrev(r) ==
  /\ job[r].pc = "prev"
  /\ LET before == {m \in In("RACK") : /\ m.slot = job[r].slot - 1
                                       /\ m.size = 2
                                       /\ m.id # job[r].row.id}
     IN  job' = [job EXCEPT ![r].pc = "commit", ![r].seen = @ \cup before]
  /\ UNCHANGED <<rows, owned, racks, nextId, engine, count, missed>>

-----------------------------------------------------------------------------
(* Commits: the writes of one transaction, which all apply or none does.   *)

Committing(r, op) == job[r].pc = "commit" /\ job[r].op = op

Done(r) == job' = [job EXCEPT ![r] = Idle]

\* mutant: the handler answers without reloading the engine
ToSyncSkipped(r) == Done(r)

ToSync(r) == job' = [job EXCEPT ![r] = At("sync")]

\* Put the job's machine on its slot as a new user_miners row, sending the
\* machines it found there to the inventory.
PlaceOnSlot(r) ==
  LET j    == job[r]
      n    == nextId + Cardinality(j.seen)
      om   == EnsureOwned(j.row, n)
      kept == Without(IdsOf(j.seen) \cup {j.row.id})
  IN  /\ n <= MaxId
      /\ Live(j.seen \cup {j.row})
      /\ SlotFree(kept, j.slot)
      /\ OwnedFree(rows, "RACK", om)
      /\ \E f \in Numberings(j.seen) :
           /\ rows' = kept \cup {FreshInventory(f[m], m.size) : m \in j.seen}
                           \cup {NewRow(n, "RACK", om, j.row.size, j.slot)}
           /\ owned' = Located({f[m] : m \in j.seen}, om, "RACK")
      /\ racks' = Release(IdsOf(j.seen))
      /\ nextId' = n + 1
      /\ ToSync(r)
      /\ UNCHANGED <<engine, count, missed>>

CommitInstall(r) == Committing(r, "install") /\ PlaceOnSlot(r)

CommitRetrieveToRack(r) == Committing(r, "retrieveRack") /\ PlaceOnSlot(r)

CommitMove(r) ==
  /\ Committing(r, "move")
  /\ LET j    == job[r]
         n    == nextId + Cardinality(j.seen)
         kept == Without(IdsOf(j.seen) \cup {j.row.id})
     IN  /\ n <= MaxId + 1
         /\ Live(j.seen \cup {j.row})
         /\ SlotFree(kept, j.slot)
         /\ \E f \in Numberings(j.seen) :
              /\ rows' = kept \cup {FreshInventory(f[m], m.size) : m \in j.seen}
                              \cup {[x EXCEPT !.slot = j.slot] :
                                      x \in {y \in rows : y.id = j.row.id}}
              /\ owned' = Located({f[m] : m \in j.seen}, Null, "RACK")
         /\ racks' = Release(IdsOf(j.seen))
         /\ nextId' = n
  /\ ToSync(r)
  /\ UNCHANGED <<engine, count, missed>>

\* Create the machine's row in table "to", delete the row it was read from.
Transfer(r, to) ==
  LET j    == job[r]
      om   == EnsureOwned(j.row, nextId)
  IN  /\ nextId <= MaxId
      /\ Live({j.row})
      /\ OwnedFree(rows, to, om)
      /\ rows' = Without({j.row.id})
                   \cup {NewRow(nextId, to, om, j.row.size, NoSlot)}
      /\ owned' = Located({}, om, to)
      /\ nextId' = nextId + 1
      /\ UNCHANGED <<engine, count, missed>>

CommitStoreInventory(r) ==
  Committing(r, "storeInventory") /\ Transfer(r, "WAREHOUSE") /\ ToSync(r) /\ UNCHANGED racks

CommitStoreRack(r) ==
  /\ Committing(r, "storeRack")
  /\ Transfer(r, "WAREHOUSE")
  /\ racks' = Release({job[r].row.id})
  /\ ToSync(r)

CommitRemove(r) ==
  /\ Committing(r, "remove")
  /\ Transfer(r, "INVENTORY")
  /\ racks' = Release({job[r].row.id})
  /\ ToSync(r)

\* The only handler that does not reload the engine: no rack changed.
CommitRetrieveToInventory(r) ==
  Committing(r, "retrieveInventory") /\ Transfer(r, "INVENTORY") /\ Done(r) /\ UNCHANGED racks

\* The rack is emptied whatever is on it now; racks blocked by the machine
\* that was read are freed, and deleting that machine's row sets the
\* userMinerId of a rack that still points to it to null.
CommitRoomUninstall(r) ==
  /\ Committing(r, "roomUninstall")
  /\ Transfer(r, "INVENTORY")
  /\ racks' = [Release({job[r].row.id}) EXCEPT ![job[r].slot - RoomBase].miner = Null]
  /\ ToSync(r)

CommitRoomInstall(r) ==
  /\ Committing(r, "roomInstall")
  /\ LET j  == job[r]
         p  == j.slot - RoomBase
         om == EnsureOwned(j.row, nextId)
     IN  /\ nextId <= MaxId
         /\ Live({j.row})
         /\ SlotFree(rows, j.slot)
         /\ OwnedFree(rows, "RACK", om)
         /\ rows' = Without({j.row.id})
                      \cup {NewRow(nextId, "RACK", om, j.row.size, j.slot)}
         /\ owned' = Located({}, om, "RACK")
         /\ racks' = [q \in Positions |->
                        [miner   |-> IF q = p THEN nextId ELSE racks[q].miner,
                         blocked |-> IF j.row.size = 2 /\ q = p + 1
                                       THEN nextId ELSE racks[q].blocked]]
         /\ nextId' = nextId + 1
  /\ ToSync(r)
  /\ UNCHANGED <<engine, count, missed>>

\* updateMachineActive runs outside a transaction.
CommitToggle(r) ==
  /\ Committing(r, "toggleOn") \/ Committing(r, "toggleOff")
  /\ Live({job[r].row})
  /\ rows' = {[x EXCEPT !.active = IF x.id = job[r].row.id
                                     THEN job[r].op = "toggleOn" ELSE x.active] : x \in rows}
  /\ ToSync(r)
  /\ UNCHANGED <<owned, racks, nextId, engine, count, missed>>

\* The transaction is rolled back: a row it deletes or updates is gone, a
\* unique constraint is violated, or the database fails.
Abort(r) ==
  /\ job[r].pc \in {"prev", "commit"}
  /\ Done(r)
  /\ UNCHANGED <<rows, owned, racks, nextId, engine, count, missed>>

-----------------------------------------------------------------------------
(* After the commit: syncUserBaseHashRate sums the active machines, and    *)
(* reloadMinerProfile assigns the sum to the engine's miner.               *)

SyncRead(r) ==
  /\ job[r].pc = "sync"
  /\ job' = [job EXCEPT ![r].pc = "assign", ![r].hash = ActiveIds]
  /\ UNCHANGED <<rows, owned, racks, nextId, engine, count, missed>>

SyncAssign(r) ==
  /\ job[r].pc = "assign"
  /\ engine' = job[r].hash
  /\ missed' = FALSE
  /\ Done(r)
  /\ UNCHANGED <<rows, owned, racks, nextId, count>>

\* Data already saved, the reload fails.
SyncFail(r) ==
  /\ job[r].pc \in {"sync", "assign"}
  /\ missed' = TRUE
  /\ Done(r)
  /\ UNCHANGED <<rows, owned, racks, nextId, engine, count>>

-----------------------------------------------------------------------------
(* Shop, events, boxes and rewards add machines to the inventory; the      *)
(* player may throw an inventory machine away.                             *)

Grant ==
  /\ nextId <= MaxId
  /\ \E size \in {1, 2} : rows' = rows \cup {FreshInventory(nextId, size)}
  /\ owned' = Located({nextId}, Null, "INVENTORY")
  /\ nextId' = nextId + 1
  /\ count' = count + 1
  /\ UNCHANGED <<racks, engine, job, missed>>

\* removeInventoryItem: the row is read and deleted in one transaction, and
\* its owned machine may only go when nothing else points to it (Restrict).
Discard ==
  \E i \in In("INVENTORY") :
    /\ \A x \in rows \ {i} : i.om # Null => x.om # i.om
    /\ rows' = rows \ {i}
    /\ owned' = Located({}, i.om, "none")
    /\ count' = count - 1
    /\ UNCHANGED <<racks, nextId, engine, job, missed>>

-----------------------------------------------------------------------------
Placed(id, tbl, om, size, slot) ==
  [id |-> id, tbl |-> tbl, om |-> om, size |-> size, slot |-> slot, active |-> tbl = "RACK"]

\* An account with no machine; one older than user_owned_machines, and one
\* newer, each with a machine in the inventory and a large one on the rack;
\* one with a large and a small machine in the inventory.
Accounts ==
  {{},
   {Placed(1, "INVENTORY", Null, 1, NoSlot), Placed(2, "RACK", Null, 2, 0)},
   {Placed(1, "INVENTORY", 1, 2, NoSlot), Placed(2, "RACK", 2, 2, 0)},
   {Placed(1, "INVENTORY", 1, 2, NoSlot), Placed(2, "INVENTORY", 2, 1, NoSlot)}}

Init ==
  /\ rows \in Accounts
  /\ \A x \in rows : x.slot \in LegacySlots \cup {NoSlot}
  /\ owned = [o \in Ids |-> IF \E x \in rows : x.om = o /\ x.tbl = "INVENTORY" THEN "INVENTORY"
                            ELSE IF \E x \in rows : x.om = o THEN "RACK" ELSE "none"]
  /\ racks = [p \in Positions |-> [miner |-> Null, blocked |-> Null]]
  /\ nextId = 3
  /\ engine = {m.id : m \in {x \in rows : x.active}}
  /\ job = [r \in Requests |-> Idle]
  /\ count = Cardinality(rows)
  /\ missed = FALSE
  /\ overlapped = FALSE

Reads(r) ==
  \/ BeginInstall(r) \/ BeginMove(r) \/ BeginRetrieveToRack(r)
  \/ BeginRetrieveToInventory(r) \/ BeginStoreInventory(r) \/ BeginStoreRack(r)
  \/ BeginRemove(r) \/ BeginToggle(r) \/ BeginRoomInstall(r)
  \/ BeginRoomUninstall(r) \/ ReadPrev(r)

Commits(r) ==
  \/ CommitInstall(r) \/ CommitMove(r) \/ CommitRetrieveToRack(r)
  \/ CommitRetrieveToInventory(r) \/ CommitStoreInventory(r) \/ CommitStoreRack(r)
  \/ CommitRemove(r) \/ CommitToggle(r) \/ CommitRoomInstall(r)
  \/ CommitRoomUninstall(r)

Step ==
  \/ \E r \in Requests : \/ Reads(r) \/ Commits(r) \/ Abort(r)
                         \/ SyncRead(r) \/ SyncAssign(r) \/ SyncFail(r)
  \/ Grant
  \/ Discard

Overlap == \E q, r \in Requests : q # r /\ job[q].pc # "idle" /\ job[r].pc # "idle"

Next == Step /\ overlapped' = (overlapped \/ Overlap')

Spec == Init /\ [][Next]_vars

-----------------------------------------------------------------------------
Job == [pc : Steps \cup {"idle"}, op : Ops \cup {"none"}, row : Row,
        slot : Slots, seen : SUBSET Row, hash : SUBSET Ids]

Columns ==
  /\ rows \subseteq Row
  /\ owned \in [Ids -> Tables \cup {"none"}]
  /\ racks \in [Positions -> [miner : Ids \cup {Null}, blocked : Ids \cup {Null}]]
  /\ nextId \in 1 .. MaxId + 1
  /\ engine \subseteq Ids
  /\ job \in [Requests -> Job]
  /\ count \in Int
  /\ missed \in BOOLEAN

\* Every column holds a value of its type, whatever the handlers interleave.
TypeOK == Columns /\ overlapped \in BOOLEAN

\* No interleaving of placement handlers duplicates a machine: one owned
\* machine is never in two places, though uniqueness is a constraint within
\* each table only and handlers act on rows they read before.
OnePlacePerMachine ==
  \A x, y \in rows : x.om # Null /\ x.om = y.om => x = y

\* The location column of user_owned_machines is the table of the row that
\* points to it (syncOwnedMachineSnapshotTx runs in every placement).
LocationAgrees ==
  \A x \in rows : x.om # Null => owned[x.om] = x.tbl

\* Placement, displacement and rollback never lose or duplicate a machine:
\* the rows are as many as were granted and not thrown away.
MachinesConserved == Cardinality(rows) = count

\* A rack is never blocked or occupied by a machine that is no longer placed:
\* blocked_by_miner_id has no foreign key, releaseUserMinerFromRacksTx is all
\* that clears it.
NoDanglingRack ==
  \A p \in Positions :
    \A m \in {racks[p].miner, racks[p].blocked} \ {Null} :
      \E x \in In("RACK") : x.id = m

\* One request at a time: a rack is not both occupied and blocked, and the
\* machine that blocks a rack is the one on the rack before it.
RackExclusive ==
  ~overlapped => \A p \in Positions :
    racks[p].blocked # Null =>
      /\ racks[p].miner = Null
      /\ p - 1 \in Positions /\ racks[p - 1].miner = racks[p].blocked

\* One request at a time: between requests the engine counts exactly the
\* active machines, unless a reload failed.
EngineFresh ==
  ~overlapped /\ (\A r \in Requests : job[r] = Idle) /\ ~missed => engine = ActiveIds

=============================================================================
