-------------------------- MODULE Machines_proofs ---------------------------
(***************************************************************************)
(* Theorems about Machines, for every set of requests, every size of the   *)
(* racks and every bound on the ids.                                       *)
(*                                                                         *)
(* OnePlacePerMachine is not inductive: a commit creates a row from what   *)
(* its request READ.  What makes it safe is that an id names one row only, *)
(* is never reused, and that the owned machine of a row never changes      *)
(* while the row exists, so that a row that is still there at commit is    *)
(* the row that was read (Snapshots).                                      *)
(***************************************************************************)
EXTENDS Machines, FiniteSetTheorems, TLAPS

InTransaction(r) == job[r].pc \in {"prev", "commit"}

RowsFinite ==
  /\ IsFiniteSet(rows)
  /\ \A r \in Requests : IsFiniteSet(job[r].seen)

IdsUnique == \A x, y \in rows : x.id = y.id => x = y

IdsFresh == \A x \in rows : x.id < nextId /\ x.om < nextId

Snapshots ==
  \A r \in Requests : InTransaction(r) =>
    /\ job[r].row.id < nextId
    /\ job[r].row.om < nextId
    /\ \A x \in rows : x.id = job[r].row.id => x.om = job[r].row.om

IInv ==
  /\ Columns
  /\ RowsFinite
  /\ IdsUnique
  /\ IdsFresh
  /\ Snapshots
  /\ OnePlacePerMachine
  /\ LocationAgrees

-----------------------------------------------------------------------------
\* The ids given to displaced machines: fresh, distinct, below the bound n.
LEMMA NumberingFacts ==
  ASSUME NEW S, IsFiniteSet(S), nextId \in Nat,
         NEW f \in Numberings(S)
  PROVE  /\ Cardinality(S) \in Nat
         /\ \A m \in S : /\ f[m] \in Int
                         /\ nextId <= f[m]
                         /\ f[m] < nextId + Cardinality(S)
         /\ \A x, y \in S : f[x] = f[y] => x = y
  <1>1. Cardinality(S) \in Nat
    BY FS_CardinalityType
  <1>2. f \in [S -> nextId .. nextId + Cardinality(S) - 1]
    BY DEF Numberings
  <1>3. \A m \in S : f[m] \in nextId .. nextId + Cardinality(S) - 1
    BY <1>2
  <1>4. \A x, y \in S : f[x] = f[y] => x = y
    BY DEF Numberings
  <1> QED BY <1>1, <1>3, <1>4

\* A new row of table tbl is well formed.
LEMMA NewRowType ==
  ASSUME NEW n \in Ids, NEW tbl \in Tables, NEW om \in Ids \cup {Null},
         NEW size \in {1, 2}, NEW slot \in Slots
  PROVE  NewRow(n, tbl, om, size, slot) \in Row
  BY DEF NewRow, Row

\* The idle record and the start of a handler are well typed.
LEMMA IdleType == Idle \in Job /\ At("sync") \in Job
  <1> USE MaxIdAssumption
  <1>1. NoRow \in Row
    BY DEF NoRow, Row, Ids, Tables, Null, Slots, NoSlot
  <1>2. NoSlot \in Slots
    BY DEF Slots
  <1> QED BY <1>1, <1>2 DEF Idle, At, Job, Steps, Ops

LEMMA InitIInv == Init => IInv
  <1> SUFFICES ASSUME Init PROVE IInv
    OBVIOUS
  <1> USE NumSlotsAssumption, NumRacksAssumption, MaxIdAssumption
  <1>0. PICK a, b : /\ rows \subseteq {a, b}
                    /\ rows # {} =>
                         /\ a.id = 1 /\ b.id = 2
                         /\ a.tbl = "INVENTORY" /\ b.tbl \in {"INVENTORY", "RACK"}
                         /\ \/ a.om = Null /\ b.om = Null
                            \/ a.om = 1 /\ b.om = 2
                         /\ a \in Row /\ (b.slot \in Slots => b \in Row)
    <2>1. /\ 1 \in Ids /\ 2 \in Ids /\ Null \in Ids \cup {Null}
          /\ "RACK" \in Tables /\ "INVENTORY" \in Tables /\ NoSlot \in Slots
      BY DEF Ids, Tables, Slots
    <2>2. ASSUME NEW om1, NEW om2, NEW size \in {1, 2}, NEW size2 \in {1, 2},
                 NEW tbl \in {"INVENTORY", "RACK"}, NEW slot,
                 (om1 = Null /\ om2 = Null) \/ (om1 = 1 /\ om2 = 2),
                 rows = {Placed(1, "INVENTORY", om1, size, NoSlot), Placed(2, tbl, om2, size2, slot)}
          PROVE  \E a, b : /\ rows \subseteq {a, b}
                           /\ rows # {} =>
                                /\ a.id = 1 /\ b.id = 2
                                /\ a.tbl = "INVENTORY" /\ b.tbl \in {"INVENTORY", "RACK"}
                                /\ \/ a.om = Null /\ b.om = Null
                                   \/ a.om = 1 /\ b.om = 2
                                /\ a \in Row /\ (b.slot \in Slots => b \in Row)
      <3> DEFINE a == Placed(1, "INVENTORY", om1, size, NoSlot)
                 b == Placed(2, tbl, om2, size2, slot)
      <3>1. /\ a.id = 1 /\ b.id = 2
            /\ a.tbl = "INVENTORY" /\ b.tbl = tbl
            /\ a.om = om1 /\ b.om = om2
        BY DEF Placed
      <3>2. a \in Row /\ (b.slot \in Slots => b \in Row)
        BY <2>1, <2>2 DEF Placed, Row
      <3>3. rows \subseteq {a, b}
        BY <2>2
      <3> HIDE DEF a, b
      <3> WITNESS a, b
      <3> QED BY <2>2, <3>1, <3>2, <3>3
    <2>3. CASE rows = {}
      BY <2>3
    <2>4. CASE rows = {Placed(1, "INVENTORY", Null, 1, NoSlot), Placed(2, "RACK", Null, 2, 0)}
      BY <2>2, <2>4
    <2>5. CASE rows = {Placed(1, "INVENTORY", 1, 2, NoSlot), Placed(2, "RACK", 2, 2, 0)}
      BY <2>2, <2>5
    <2>6. CASE rows = {Placed(1, "INVENTORY", 1, 2, NoSlot), Placed(2, "INVENTORY", 2, 1, NoSlot)}
      BY <2>2, <2>6
    <2> QED BY <2>3, <2>4, <2>5, <2>6 DEF Init, Accounts
  <1>1. rows \subseteq Row
    <2>1. \A x \in rows : x.slot \in Slots
      BY DEF Init, Slots
    <2> QED BY <1>0, <2>1
  <1>2. \A x \in rows : x.id < 3 /\ x.om < 3
    BY <1>0 DEF Null
  <1>3. IdsUnique
    BY <1>0 DEF IdsUnique
  <1>4. IsFiniteSet(rows)
    <2>1. IsFiniteSet({a} \cup {b})
      BY FS_Singleton, FS_AddElement
    <2> QED BY <1>0, <2>1, FS_Subset
  <1>5. IsFiniteSet({})
    BY FS_EmptySet
  <1>6. RowsFinite
    BY <1>4, <1>5 DEF Init, RowsFinite, Idle, At
  <1>7. count \in Int
    BY <1>4, FS_CardinalityType DEF Init
  <1>8. engine \subseteq Ids
    BY <1>1 DEF Init, Row
  <1>9. Columns
    <2>1. nextId \in 1 .. MaxId + 1
      BY DEF Init
    <2>2. job \in [Requests -> Job]
      BY IdleType DEF Init
    <2>3. owned \in [Ids -> Tables \cup {"none"}]
      BY DEF Init, Tables
    <2>4. racks \in [Positions -> [miner : Ids \cup {Null}, blocked : Ids \cup {Null}]]
      BY DEF Init
    <2> QED BY <1>1, <1>7, <1>8, <2>1, <2>2, <2>3, <2>4 DEF Init, Columns
  <1>10. IdsFresh /\ Snapshots
    BY <1>2 DEF Init, IdsFresh, Snapshots, InTransaction, Idle, At
  <1>11. OnePlacePerMachine
    BY <1>0 DEF OnePlacePerMachine, Null
  <1>12. LocationAgrees
    <2> SUFFICES ASSUME NEW x \in rows, x.om # Null
                 PROVE  owned[x.om] = x.tbl
      BY DEF LocationAgrees
    <2>1. x.om \in Ids
      BY <1>1 DEF Row
    <2>2. \A y \in rows : y.om = x.om => y = x
      BY <1>11 DEF OnePlacePerMachine
    <2>3. x.tbl \in {"INVENTORY", "RACK"}
      BY <1>0
    <2> QED BY <2>1, <2>2, <2>3 DEF Init
  <1> QED BY <1>3, <1>6, <1>9, <1>10, <1>11, <1>12 DEF IInv

-----------------------------------------------------------------------------
\* A step that only moves request r on, to a record outside its transaction.
LEMMA LeaveTransaction ==
  ASSUME IInv, NEW r \in Requests, NEW J \in Job,
         J.pc \notin {"prev", "commit"}, IsFiniteSet(J.seen),
         job' = [job EXCEPT ![r] = J],
         UNCHANGED <<rows, owned, racks, nextId, count>>,
         engine' \subseteq Ids, missed' \in BOOLEAN
  PROVE  IInv'
  <1>1. Columns'
    BY DEF IInv, Columns
  <1>2. RowsFinite'
    BY DEF IInv, RowsFinite, Columns
  <1>3. Snapshots'
    BY DEF IInv, Snapshots, InTransaction, Columns
  <1> QED BY <1>1, <1>2, <1>3 DEF IInv, IdsUnique, IdsFresh, OnePlacePerMachine, LocationAgrees

\* A handler that starts from a row it has just read.
LEMMA BeginIInv ==
  ASSUME IInv, NEW r \in Requests, NEW op \in Ops, NEW pc \in {"prev", "commit"},
         NEW row \in rows, NEW slot \in Slots, NEW seen \in SUBSET rows,
         Begin(r, op, pc, row, slot, seen)
  PROVE  IInv'
  <1> DEFINE J == [pc |-> pc, op |-> op, row |-> row, slot |-> slot,
                   seen |-> seen, hash |-> {}]
  <1>1. J \in Job
    BY DEF IInv, Columns, Job, Steps
  <1>2. job' = [job EXCEPT ![r] = J] /\ UNCHANGED <<rows, owned, racks, nextId, engine, count, missed>>
    BY DEF Begin
  <1>3. Columns'
    BY <1>1, <1>2 DEF IInv, Columns
  <1>4. IsFiniteSet(seen)
    BY FS_Subset DEF IInv, RowsFinite
  <1>5. RowsFinite'
    BY <1>2, <1>4 DEF IInv, RowsFinite, Columns
  <1>6. Snapshots'
    BY <1>2 DEF IInv, Snapshots, InTransaction, Columns, IdsUnique, IdsFresh
  <1> QED BY <1>2, <1>3, <1>5, <1>6 DEF IInv, IdsUnique, IdsFresh, OnePlacePerMachine, LocationAgrees

LEMMA ReadsIInv ==
  ASSUME IInv, NEW r \in Requests, Reads(r)
  PROVE  IInv'
  <1> USE NumSlotsAssumption, NumRacksAssumption
  <1>0. /\ \A tbl : In(tbl) \subseteq rows
        /\ \A slots : MinersAt(slots) \subseteq rows
        /\ LegacySlots \subseteq Slots
        /\ NoSlot \in Slots
        /\ \A p \in Positions : RoomBase + p \in Slots
    BY DEF In, MinersAt, Slots
  <1>1. CASE BeginInstall(r)
    <2>1. PICK i \in In("INVENTORY"), s \in LegacySlots :
            Begin(r, "install", IF s % 2 = 1 THEN "prev" ELSE "commit", i, s,
                  MinersAt(Targets(s, i.size)))
      BY <1>1 DEF BeginInstall
    <2> DEFINE pc == IF s % 2 = 1 THEN "prev" ELSE "commit"
    <2>2. pc \in {"prev", "commit"}
      OBVIOUS
    <2>3. "install" \in Ops
      BY DEF Ops
    <2> HIDE DEF pc
    <2>4. Begin(r, "install", pc, i, s, MinersAt(Targets(s, i.size)))
      BY <2>1 DEF pc
    <2> QED BY <2>2, <2>3, <2>4, <1>0, BeginIInv
  <1>2. CASE BeginMove(r)
    <2>1. PICK m \in In("RACK"), s \in LegacySlots :
            Begin(r, "move", IF s % 2 = 1 THEN "prev" ELSE "commit", m, s,
                  MinersAt(Targets(s, m.size)) \ {m})
      BY <1>2 DEF BeginMove
    <2> DEFINE pc == IF s % 2 = 1 THEN "prev" ELSE "commit"
    <2>2. pc \in {"prev", "commit"}
      OBVIOUS
    <2>3. "move" \in Ops
      BY DEF Ops
    <2> HIDE DEF pc
    <2>4. Begin(r, "move", pc, m, s, MinersAt(Targets(s, m.size)) \ {m})
      BY <2>1 DEF pc
    <2>5. MinersAt(Targets(s, m.size)) \ {m} \in SUBSET rows
      BY <1>0
    <2> QED BY <2>2, <2>3, <2>4, <2>5, <1>0, BeginIInv
  <1>3. CASE BeginRetrieveToRack(r)
    <2>1. PICK v \in In("WAREHOUSE"), s \in LegacySlots :
            Begin(r, "retrieveRack", "commit", v, s, MinersAt(Targets(s, v.size)))
      BY <1>3 DEF BeginRetrieveToRack
    <2>2. "retrieveRack" \in Ops
      BY DEF Ops
    <2> QED BY <2>1, <2>2, <1>0, BeginIInv
  <1>4. CASE BeginRetrieveToInventory(r)
    BY <1>4, <1>0, BeginIInv DEF BeginRetrieveToInventory, Ops
  <1>5. CASE BeginStoreInventory(r)
    BY <1>5, <1>0, BeginIInv DEF BeginStoreInventory, Ops
  <1>6. CASE BeginStoreRack(r)
    BY <1>6, <1>0, BeginIInv DEF BeginStoreRack, Ops
  <1>7. CASE BeginRemove(r)
    BY <1>7, <1>0, BeginIInv DEF BeginRemove, Ops
  <1>8. CASE BeginToggle(r)
    BY <1>8, <1>0, BeginIInv DEF BeginToggle, Ops
  <1>9. CASE BeginRoomInstall(r)
    BY <1>9, <1>0, BeginIInv DEF BeginRoomInstall, Ops
  <1>10. CASE BeginRoomUninstall(r)
    BY <1>10, <1>0, BeginIInv DEF BeginRoomUninstall, Ops
  <1>11. CASE ReadPrev(r)
    <2> DEFINE before == {m \in In("RACK") : /\ m.slot = job[r].slot - 1
                                             /\ m.size = 2
                                             /\ m.id # job[r].row.id}
    <2>1. /\ job[r].pc = "prev"
          /\ job' = [job EXCEPT ![r].pc = "commit", ![r].seen = @ \cup before]
          /\ UNCHANGED <<rows, owned, racks, nextId, engine, count, missed>>
      BY <1>11 DEF ReadPrev
    <2>2. before \subseteq rows
      BY <1>0
    <2>3. job[r] \in Job
      BY DEF IInv, Columns
    <2> HIDE DEF before
    <2>4. /\ job'[r] = [job[r] EXCEPT !.pc = "commit", !.seen = job[r].seen \cup before]
          /\ \A q \in Requests \ {r} : job'[q] = job[q]
          /\ DOMAIN job' = Requests
      BY <2>1 DEF IInv, Columns
    <2>5. job'[r] \in Job
      BY <2>2, <2>3, <2>4 DEF Job, Steps, IInv, Columns
    <2>6. Columns'
      BY <2>1, <2>4, <2>5 DEF IInv, Columns
    <2>7. IsFiniteSet(job'[r].seen)
      <3>1. IsFiniteSet(before) /\ IsFiniteSet(job[r].seen)
        BY <2>2, FS_Subset DEF IInv, RowsFinite
      <3>2. job'[r].seen = job[r].seen \cup before
        BY <2>3, <2>4 DEF Job
      <3> QED BY <3>1, <3>2, FS_Union
    <2>8. RowsFinite'
      BY <2>1, <2>4, <2>7 DEF IInv, RowsFinite
    <2>9. Snapshots'
      BY <2>1, <2>3, <2>4 DEF IInv, Snapshots, InTransaction, Job
    <2> QED BY <2>1, <2>6, <2>8, <2>9
            DEF IInv, IdsUnique, IdsFresh, OnePlacePerMachine, LocationAgrees
  <1> QED BY <1>1, <1>2, <1>3, <1>4, <1>5, <1>6, <1>7, <1>8, <1>9, <1>10, <1>11 DEF Reads
-----------------------------------------------------------------------------
\* The image of a finite set under an operator given as a function is finite.
LEMMA FiniteImage ==
  ASSUME NEW S, IsFiniteSet(S), NEW f, DOMAIN f = S
  PROVE  IsFiniteSet({f[x] : x \in S})
  <1> DEFINE T == {f[x] : x \in S}
             g == [x \in S |-> f[x]]
  <1>1. g \in Surjection(S, T)
    BY DEF Surjection
  <1> QED BY <1>1, FS_Surjection

(***************************************************************************)
(* The shape of every commit and of Grant and Discard: each row afterwards *)
(* is a row from before, perhaps with another slot or switch, or a row     *)
(* with a fresh id.                                                        *)
(***************************************************************************)
LEMMA RewriteIInv ==
  ASSUME IInv,
         NEW born,
         Columns', RowsFinite', IdsUnique',
         nextId <= nextId',
         \A y \in rows' : \/ y \in born
                          \/ \E x \in rows : /\ x.id = y.id /\ x.om = y.om /\ x.tbl = y.tbl
                                             /\ x.om # Null =>
                                                  /\ owned'[x.om] = owned[x.om]
                                                  /\ \A b \in born : b.om # x.om,
         \A b \in born : nextId <= b.id /\ b.id < nextId' /\ b.om < nextId',
         \A b, c \in born : b.om # Null /\ b.om = c.om => b = c,
         \A b \in born : b.om # Null => owned'[b.om] = b.tbl,
         \A r \in Requests : job'[r] = job[r] \/ job'[r].pc \notin {"prev", "commit"}
  PROVE  IInv'
  <1>1. nextId \in Int /\ nextId' \in Int
    BY DEF IInv, Columns
  <1>2. \A x \in rows : x.id \in Int /\ x.om \in Int
    BY DEF IInv, Columns, Row, Ids, Null
  <1>3. \A y \in rows' : y.id \in Int /\ y.om \in Int
    BY DEF Columns, Row, Ids, Null
  <1>4. IdsFresh'
    BY <1>1, <1>2, <1>3 DEF IdsFresh, IInv
  <1>5. Snapshots'
    <2> SUFFICES ASSUME NEW r \in Requests, InTransaction(r)'
                 PROVE  /\ job'[r].row.id < nextId'
                        /\ job'[r].row.om < nextId'
                        /\ \A y \in rows' : y.id = job'[r].row.id => y.om = job'[r].row.om
      BY DEF Snapshots
    <2>1. job'[r] = job[r] /\ InTransaction(r)
      BY DEF InTransaction
    <2>2. job[r].row.id \in Int /\ job[r].row.om \in Int
      BY DEF IInv, Columns, Job, Row, Ids, Null
    <2>3. job[r].row.id < nextId /\ job[r].row.om < nextId
      BY <2>1 DEF IInv, Snapshots
    <2>4. \A x \in rows : x.id = job[r].row.id => x.om = job[r].row.om
      BY <2>1 DEF IInv, Snapshots
    <2>5. \A b \in born : b \in rows' => b.id # job[r].row.id
      BY <1>1, <1>3, <2>2, <2>3
    <2> QED BY <1>1, <2>1, <2>2, <2>3, <2>4, <2>5
  <1>6. OnePlacePerMachine'
    <2> SUFFICES ASSUME NEW y \in rows', NEW z \in rows', y.om # Null, y.om = z.om
                 PROVE  y = z
      BY DEF OnePlacePerMachine
    <2>1. CASE y \in born
      BY <2>1
    <2>2. CASE z \in born
      BY <2>2
    <2>3. CASE y \notin born /\ z \notin born
      BY <2>3 DEF IInv, OnePlacePerMachine, IdsUnique
    <2> QED BY <2>1, <2>2, <2>3
  <1>7. LocationAgrees'
    BY DEF IInv, LocationAgrees
  <1> QED BY <1>4, <1>5, <1>6, <1>7 DEF IInv

\* What a request in its transaction knows.
LEMMA SnapshotFacts ==
  ASSUME IInv, NEW r \in Requests, InTransaction(r)
  PROVE  /\ job[r] \in Job /\ job[r].row \in Row /\ job[r].slot \in Slots
         /\ job[r].seen \subseteq Row
         /\ IsFiniteSet(job[r].seen)
         /\ \A x \in rows : x.id = job[r].row.id => x.om = job[r].row.om
         /\ job[r].row.om < nextId
  BY DEF IInv, Columns, Job, RowsFinite, Snapshots

-----------------------------------------------------------------------------
\* Transfer: the machine's row leaves one table and enters another.
LEMMA TransferIInv ==
  ASSUME IInv, NEW r \in Requests, NEW to \in Tables, NEW slot \in Slots,
         NEW om, NEW J \in Job,
         InTransaction(r),
         J.pc \notin {"prev", "commit"}, J.seen = {},
         om = EnsureOwned(job[r].row, nextId),
         nextId <= MaxId,
         job[r].row.id \in IdsOf(rows),
         rows' = Without({job[r].row.id}) \cup {NewRow(nextId, to, om, job[r].row.size, slot)},
         owned' = Located({}, om, to),
         nextId' = nextId + 1,
         racks' \in [Positions -> [miner : Ids \cup {Null}, blocked : Ids \cup {Null}]],
         job' = [job EXCEPT ![r] = J],
         UNCHANGED <<engine, count, missed>>
  PROVE  IInv'
  <1> DEFINE new == NewRow(nextId, to, om, job[r].row.size, slot)
             born == {new}
  <1>1. nextId \in Ids /\ nextId \in Int
    BY MaxIdAssumption DEF IInv, Columns, Ids
  <1>2. om \in Ids /\ om # Null /\ om <= nextId
    BY <1>1, SnapshotFacts, MaxIdAssumption DEF EnsureOwned, Row, Null, Ids
  <1>3. new \in Row
    BY <1>1, <1>2, SnapshotFacts, NewRowType DEF Row
  <1>4. new.id = nextId /\ new.om = om /\ new.tbl = to
    BY DEF NewRow
  <1> HIDE DEF new
  <1>5. Columns'
    <2>1. rows' \subseteq Row
      BY <1>3 DEF Without, IInv, Columns, new
    <2>2. owned' \in [Ids -> Tables \cup {"none"}]
      BY DEF Located, IInv, Columns
    <2>3. nextId' \in 1 .. MaxId + 1
      BY <1>1, MaxIdAssumption DEF Ids
    <2>4. job' \in [Requests -> Job]
      BY DEF IInv, Columns
    <2> QED BY <2>1, <2>2, <2>3, <2>4 DEF IInv, Columns
  <1>6. RowsFinite'
    <2>1. IsFiniteSet(Without({job[r].row.id}))
      BY FS_Subset DEF Without, IInv, RowsFinite
    <2>2. IsFiniteSet(rows')
      BY <2>1, FS_AddElement DEF new
    <2> QED BY <2>2, FS_EmptySet DEF IInv, RowsFinite, Columns
  <1>7. \A x \in Without({job[r].row.id}) : x \in rows /\ x.id # nextId /\ x.om # om
    <2> SUFFICES ASSUME NEW x \in rows, x.id # job[r].row.id
                 PROVE  x.id # nextId /\ x.om # om
      BY DEF Without
    <2>1. x.id < nextId /\ x.om < nextId /\ x.id \in Int /\ x.om \in Int
      BY DEF IInv, IdsFresh, Columns, Row, Ids, Null
    <2>2. PICK old \in rows : old.id = job[r].row.id
      BY DEF IdsOf
    <2>3. CASE job[r].row.om = Null
      BY <1>1, <2>1, <2>3 DEF EnsureOwned
    <2>4. CASE job[r].row.om # Null
      <3>1. om = job[r].row.om /\ old.om = om
        BY <2>2, <2>4, SnapshotFacts DEF EnsureOwned
      <3>2. x.om # om
        BY <2>2, <3>1, <1>2 DEF IInv, OnePlacePerMachine
      <3> QED BY <1>1, <2>1, <3>2
    <2> QED BY <2>3, <2>4
  <1>8. IdsUnique'
    <2>1. \A x \in rows' : x = new \/ x \in Without({job[r].row.id})
      BY DEF new
    <2>2. \A x, y \in Without({job[r].row.id}) : x.id = y.id => x = y
      BY <1>7 DEF IInv, IdsUnique
    <2>3. \A x \in Without({job[r].row.id}) : x.id # new.id
      BY <1>4, <1>7
    <2> QED BY <2>1, <2>2, <2>3 DEF IdsUnique
  <1>9. \A y \in rows' : \/ y \in born
                         \/ \E x \in rows : /\ x.id = y.id /\ x.om = y.om /\ x.tbl = y.tbl
                                            /\ x.om # Null =>
                                                 /\ owned'[x.om] = owned[x.om]
                                                 /\ \A b \in born : b.om # x.om
    <2> SUFFICES ASSUME NEW y \in Without({job[r].row.id})
                 PROVE  y \in rows /\ (y.om # Null => /\ owned'[y.om] = owned[y.om]
                                                      /\ new.om # y.om)
      BY DEF new
    <2>1. y.om \in Ids \cup {Null}
      BY <1>7 DEF IInv, Columns, Row
    <2> QED BY <1>4, <1>7, <2>1 DEF Located
  <1>10. \A b \in born : b.om # Null => owned'[b.om] = b.tbl
    BY <1>2, <1>4 DEF Located
  <1>11. \A b \in born : nextId <= b.id /\ b.id < nextId' /\ b.om < nextId'
    BY <1>1, <1>2, <1>4 DEF Ids
  <1>12. \A q \in Requests : job'[q] = job[q] \/ job'[q].pc \notin {"prev", "commit"}
    BY DEF IInv, Columns
  <1>13. nextId <= nextId'
    BY <1>1
  <1>14. \A b, c \in born : b.om # Null /\ b.om = c.om => b = c
    OBVIOUS
  <1> HIDE DEF born
  <1> QED BY <1>5, <1>6, <1>8, <1>9, <1>10, <1>11, <1>12, <1>13, <1>14, RewriteIInv

\* The inventory rows of the machines a request displaces, their ids under
\* the numbering f, and the first id above them.
Ceiling(r) == nextId + Cardinality(job[r].seen)
Out(r, f) == {FreshInventory(f[m], m.size) : m \in job[r].seen}
Im(r, f) == {f[m] : m \in job[r].seen}

-----------------------------------------------------------------------------
\* The rows a displacement creates: fresh inventory rows with fresh machines.
LEMMA DisplacedFacts ==
  ASSUME IInv, NEW r \in Requests, InTransaction(r), Ceiling(r) <= MaxId + 1,
         NEW f \in Numberings(job[r].seen)
  PROVE  /\ Ceiling(r) \in Int /\ nextId <= Ceiling(r)
         /\ Out(r, f) \subseteq Row
         /\ IsFiniteSet(Out(r, f))
         /\ \A b \in Out(r, f) : /\ b.id = b.om /\ b.tbl = "INVENTORY"
                                 /\ nextId <= b.id /\ b.id < Ceiling(r)
                                 /\ b.om \in Im(r, f)
         /\ \A b, c \in Out(r, f) : b.id = c.id => b = c
         /\ Im(r, f) \subseteq nextId .. Ceiling(r) - 1
  <1> DEFINE S   == job[r].seen
             n   == Ceiling(r)
             out == Out(r, f)
  <1>1. nextId \in Nat /\ IsFiniteSet(S) /\ S \subseteq Row
    BY SnapshotFacts DEF IInv, Columns
  <1>2. /\ Cardinality(S) \in Nat
        /\ \A m \in S : f[m] \in Int /\ nextId <= f[m] /\ f[m] < nextId + Cardinality(S)
        /\ \A x, y \in S : f[x] = f[y] => x = y
    BY <1>1, NumberingFacts
  <1>3. \A m \in S : f[m] \in Ids /\ f[m] < n /\ nextId <= f[m] /\ f[m] \in Int
    BY <1>1, <1>2, MaxIdAssumption DEF Ids, IInv, Columns, Ceiling
  <1>4. \A b \in out : \E m \in S : b = FreshInventory(f[m], m.size)
    BY DEF Out
  <1>5. \A m \in S : /\ FreshInventory(f[m], m.size).id = f[m]
                     /\ FreshInventory(f[m], m.size).om = f[m]
                     /\ FreshInventory(f[m], m.size).tbl = "INVENTORY"
    BY DEF FreshInventory, NewRow
  <1>6. out \subseteq Row
    <2>1. \A m \in S : FreshInventory(f[m], m.size) \in Row
      BY <1>1, <1>3, NewRowType DEF FreshInventory, Tables, Slots, Row
    <2> QED BY <2>1 DEF Out
  <1>7. IsFiniteSet(out)
    <2> DEFINE g == [m \in S |-> FreshInventory(f[m], m.size)]
    <2>1. DOMAIN g = S
      OBVIOUS
    <2>2. out = {g[m] : m \in S}
      BY DEF Out
    <2> HIDE DEF g
    <2>3. IsFiniteSet({g[m] : m \in S})
      BY <1>1, <2>1, FiniteImage
    <2> QED BY <2>2, <2>3
  <1>8. \A b, c \in out : b.id = c.id => b = c
    BY <1>2, <1>4, <1>5
  <1>9. n \in Int /\ nextId <= n
    BY <1>1, <1>2 DEF Ceiling
  <1>10. \A b \in out : /\ b.id = b.om /\ b.tbl = "INVENTORY"
                        /\ nextId <= b.id /\ b.id < n
                        /\ b.om \in Im(r, f)
    BY <1>3, <1>4, <1>5 DEF Im
  <1>11. Im(r, f) \subseteq nextId .. n - 1
    BY <1>1, <1>3, <1>9 DEF Im
  <1> QED BY <1>6, <1>7, <1>8, <1>9, <1>10, <1>11

LEMMA ReleaseType ==
  ASSUME Columns, NEW ids
  PROVE  Release(ids) \in [Positions -> [miner : Ids \cup {Null}, blocked : Ids \cup {Null}]]
  BY DEF Release, Columns

LEMMA PlaceIInv ==
  ASSUME IInv, NEW r \in Requests, InTransaction(r), PlaceOnSlot(r)
  PROVE  IInv'
  <1> DEFINE S    == job[r].seen
             n    == Ceiling(r)
             om   == EnsureOwned(job[r].row, n)
             gone == IdsOf(S) \cup {job[r].row.id}
             new  == NewRow(n, "RACK", om, job[r].row.size, job[r].slot)
  <1>1. /\ n <= MaxId
        /\ job[r].row.id \in IdsOf(rows)
        /\ racks' = Release(IdsOf(S))
        /\ nextId' = n + 1
        /\ job' = [job EXCEPT ![r] = At("sync")]
        /\ UNCHANGED <<engine, count, missed>>
    BY DEF PlaceOnSlot, Live, IdsOf, ToSync, Ceiling
  <1>2. PICK f \in Numberings(S) :
          /\ rows' = Without(gone) \cup Out(r, f) \cup {new}
          /\ owned' = Located(Im(r, f), om, "RACK")
    BY DEF PlaceOnSlot, Ceiling, Out, Im
  <1> DEFINE out  == Out(r, f)
             im   == Im(r, f)
             born == out \cup {new}
  <1>3. /\ n \in Int /\ nextId <= n
        /\ out \subseteq Row
        /\ IsFiniteSet(out)
        /\ \A b \in out : /\ b.id = b.om /\ b.tbl = "INVENTORY"
                          /\ nextId <= b.id /\ b.id < n
                          /\ b.om \in im
        /\ \A b, c \in out : b.id = c.id => b = c
        /\ im \subseteq nextId .. n - 1
    <2>1. n <= MaxId + 1
      BY <1>1, SnapshotFacts, FS_CardinalityType, MaxIdAssumption DEF IInv, Columns, Ceiling
    <2> QED BY <2>1, DisplacedFacts
  <1>4. nextId \in Int /\ nextId >= 1 /\ n \in Ids
    BY <1>1, <1>3, MaxIdAssumption DEF IInv, Columns, Ids
  <1>5. om \in Ids /\ om # Null /\ om <= n /\ om \notin im
    BY <1>3, <1>4, SnapshotFacts, MaxIdAssumption DEF EnsureOwned, Row, Null, Ids
  <1>6. new \in Row /\ new.id = n /\ new.om = om /\ new.tbl = "RACK"
    <2>1. new \in Row
      BY <1>4, <1>5, SnapshotFacts, NewRowType DEF Row, Tables
    <2> QED BY <2>1 DEF NewRow
  <1>7. \A x \in Without(gone) : /\ x \in rows /\ x.id < nextId /\ x.om < nextId
                                 /\ x.id \in Int /\ x.om \in Ids \cup {Null} /\ x.om # om
    <2> SUFFICES ASSUME NEW x \in rows, x.id # job[r].row.id
                 PROVE  /\ x.id < nextId /\ x.om < nextId
                        /\ x.id \in Int /\ x.om \in Ids \cup {Null} /\ x.om # om
      BY DEF Without
    <2>1. /\ x.id < nextId /\ x.om < nextId
          /\ x.id \in Int /\ x.om \in Int /\ x.om \in Ids \cup {Null}
      BY DEF IInv, IdsFresh, Columns, Row, Ids, Null
    <2>2. PICK old \in rows : old.id = job[r].row.id
      BY <1>1 DEF IdsOf
    <2>3. CASE job[r].row.om = Null
      BY <1>3, <1>4, <2>1, <2>3 DEF EnsureOwned
    <2>4. CASE job[r].row.om # Null
      <3>1. om = job[r].row.om /\ old.om = om
        BY <2>2, <2>4, SnapshotFacts DEF EnsureOwned
      <3>2. x.om # om
        BY <2>2, <3>1, <1>5 DEF IInv, OnePlacePerMachine
      <3> QED BY <2>1, <3>2
    <2> QED BY <2>3, <2>4
  <1> HIDE DEF new, n, om, out, im, S
  <1>8. Columns'
    <2>1. rows' \subseteq Row
      BY <1>2, <1>3, <1>6, <1>7 DEF IInv, Columns, out
    <2>2. owned' \in [Ids -> Tables \cup {"none"}]
      BY <1>2 DEF Located, IInv, Columns, Tables
    <2>3. nextId' \in 1 .. MaxId + 1
      BY <1>1, <1>4, MaxIdAssumption DEF Ids
    <2>4. job' \in [Requests -> Job]
      BY <1>1, IdleType DEF IInv, Columns
    <2> QED BY <1>1, <2>1, <2>2, <2>3, <2>4, ReleaseType DEF IInv, Columns
  <1>9. rows' = Without(gone) \cup born
    BY <1>2 DEF out
  <1>10. owned' = Located(im, om, "RACK")
    BY <1>2 DEF im
  <1>11. RowsFinite'
    <2>1. IsFiniteSet(Without(gone))
      BY FS_Subset DEF Without, IInv, RowsFinite
    <2>2. IsFiniteSet(born)
      BY <1>3, FS_AddElement
    <2>3. IsFiniteSet(rows')
      BY <1>9, <2>1, <2>2, FS_Union
    <2> QED BY <1>1, <2>3, FS_EmptySet DEF IInv, RowsFinite, Columns, At
  <1>12. \A b \in born : nextId <= b.id /\ b.id < nextId' /\ b.om < nextId' /\ b.id \in Int
    BY <1>1, <1>3, <1>4, <1>5, <1>6 DEF Ids, Row
  <1>13. \A b, c \in born : b.id = c.id => b = c
    BY <1>3, <1>4, <1>6 DEF Ids, Row
  <1>14. \A b, c \in born : b.om # Null /\ b.om = c.om => b = c
    BY <1>3, <1>5, <1>6
  <1>15. IdsUnique'
    BY <1>4, <1>7, <1>9, <1>12, <1>13 DEF IInv, IdsUnique
  <1>16. \A y \in rows' : \/ y \in born
                          \/ \E x \in rows : /\ x.id = y.id /\ x.om = y.om /\ x.tbl = y.tbl
                                             /\ x.om # Null =>
                                                  /\ owned'[x.om] = owned[x.om]
                                                  /\ \A b \in born : b.om # x.om
    <2> SUFFICES ASSUME NEW y \in Without(gone), y.om # Null
                 PROVE  /\ owned'[y.om] = owned[y.om]
                        /\ \A b \in born : b.om # y.om
      BY <1>7, <1>9
    <2>1. y.om \in Ids /\ y.om # om /\ y.om \notin im
      BY <1>3, <1>4, <1>7 DEF Ids
    <2>2. owned'[y.om] = owned[y.om]
      BY <1>10, <2>1 DEF Located
    <2> QED BY <1>3, <1>6, <2>1, <2>2
  <1>17. \A b \in born : b.om # Null => owned'[b.om] = b.tbl
    BY <1>3, <1>5, <1>6, <1>10 DEF Located, Row
  <1>18. \A q \in Requests : job'[q] = job[q] \/ job'[q].pc \notin {"prev", "commit"}
    BY <1>1 DEF IInv, Columns, At
  <1>19. nextId <= nextId'
    BY <1>1, <1>3, <1>4
  <1> HIDE DEF born
  <1> QED BY <1>8, <1>11, <1>12, <1>14, <1>15, <1>16, <1>17, <1>18, <1>19, RewriteIInv

\* Moving keeps the machine's row and changes its slot only.
LEMMA MoveIInv ==
  ASSUME IInv, NEW r \in Requests, InTransaction(r), CommitMove(r)
  PROVE  IInv'
  <1> DEFINE S     == job[r].seen
             n     == Ceiling(r)
             gone  == IdsOf(S) \cup {job[r].row.id}
             moved == {[x EXCEPT !.slot = job[r].slot] : x \in {y \in rows : y.id = job[r].row.id}}
  <1>1. /\ n <= MaxId + 1
        /\ racks' = Release(IdsOf(S))
        /\ nextId' = n
        /\ job' = [job EXCEPT ![r] = At("sync")]
        /\ UNCHANGED <<engine, count, missed>>
    BY DEF CommitMove, ToSync, Ceiling
  <1>2. PICK f \in Numberings(S) :
          /\ rows' = Without(gone) \cup Out(r, f) \cup moved
          /\ owned' = Located(Im(r, f), Null, "RACK")
    BY DEF CommitMove, Out, Im
  <1> DEFINE out == Out(r, f)
             im  == Im(r, f)
  <1>3. /\ n \in Int /\ nextId <= n
        /\ out \subseteq Row
        /\ IsFiniteSet(out)
        /\ \A b \in out : /\ b.id = b.om /\ b.tbl = "INVENTORY"
                          /\ nextId <= b.id /\ b.id < n
                          /\ b.om \in im
        /\ \A b, c \in out : b.id = c.id => b = c
        /\ im \subseteq nextId .. n - 1
    <2>1. n <= MaxId + 1
      BY <1>1
    <2> HIDE DEF moved, gone
    <2> QED BY <2>1, DisplacedFacts
  <1>4. nextId \in Int /\ nextId >= 1
    BY DEF IInv, Columns
  <1>5. \A x \in rows : /\ x \in Row /\ x.id < nextId /\ x.om < nextId
                        /\ x.id \in Int /\ x.om \in Int /\ x.om \in Ids \cup {Null}
    BY DEF IInv, IdsFresh, Columns, Row, Ids, Null
  <1>6. \A y \in moved : \E x \in rows : /\ x.id = job[r].row.id
                                         /\ y = [x EXCEPT !.slot = job[r].slot]
    OBVIOUS
  <1>7. \A y \in moved : /\ y \in Row /\ y.id = job[r].row.id
                         /\ \E x \in rows : x.id = y.id /\ x.om = y.om /\ x.tbl = y.tbl
    BY <1>5, <1>6, SnapshotFacts DEF Row
  <1>8. \A y, z \in moved : y = z
    BY <1>6 DEF IInv, IdsUnique
  <1>9. IsFiniteSet(moved)
    <2>1. CASE moved = {}
      BY <2>1, FS_EmptySet
    <2>2. CASE moved # {}
      <3>1. PICK y : y \in moved
        BY <2>2
      <3>2. moved = {y}
        BY <3>1, <1>8
      <3> QED BY <3>2, FS_Singleton
    <2> QED BY <2>1, <2>2
  <1> HIDE DEF n, out, im, S, moved
  <1>10. rows' = Without(gone) \cup out \cup moved
    BY <1>2 DEF out
  <1>11. Columns'
    <2>1. rows' \subseteq Row
      BY <1>3, <1>5, <1>7, <1>10 DEF Without
    <2>2. owned' \in [Ids -> Tables \cup {"none"}]
      BY <1>2 DEF Located, IInv, Columns, Tables
    <2>3. nextId' \in 1 .. MaxId + 1
      BY <1>1, <1>3, <1>4, MaxIdAssumption
    <2>4. job' \in [Requests -> Job]
      BY <1>1, IdleType DEF IInv, Columns
    <2> QED BY <1>1, <2>1, <2>2, <2>3, <2>4, ReleaseType DEF IInv, Columns
  <1>12. RowsFinite'
    <2>1. IsFiniteSet(Without(gone))
      BY FS_Subset DEF Without, IInv, RowsFinite
    <2>2. IsFiniteSet(Without(gone) \cup out)
      BY <1>3, <2>1, FS_Union
    <2>3. IsFiniteSet(rows')
      BY <1>9, <1>10, <2>2, FS_Union
    <2> QED BY <1>1, <2>3, FS_EmptySet DEF IInv, RowsFinite, Columns, At
  <1>13. \A x \in Without(gone) : x \in rows /\ x.id # job[r].row.id
    BY DEF Without
  <1>14. IdsUnique'
    <2>1. \A y \in Without(gone) \cup moved : y.id < nextId /\ y.id \in Int
      BY <1>5, <1>7, <1>13
    <2>3. \A b \in out : b.id \in Int /\ nextId <= b.id
      BY <1>3 DEF Row, Ids
    <2>4. \A b \in out : \A y \in Without(gone) \cup moved : b.id # y.id
      BY <1>4, <2>1, <2>3
    <2>2. \A y \in rows' : \A z \in rows' : y.id = z.id => y = z
      <3> SUFFICES ASSUME NEW y \in rows', NEW z \in rows', y.id = z.id PROVE y = z
        OBVIOUS
      <3>1. CASE y \in out
        BY <1>3, <1>10, <2>4, <3>1
      <3>2. CASE z \in out
        BY <1>3, <1>10, <2>4, <3>2
      <3>3. CASE y \notin out /\ z \notin out
        BY <1>7, <1>8, <1>10, <1>13, <3>3 DEF IInv, IdsUnique
      <3> QED BY <3>1, <3>2, <3>3
    <2> QED BY <2>2 DEF IdsUnique
  <1>15. \A y \in rows' : \/ y \in out
                          \/ \E x \in rows : /\ x.id = y.id /\ x.om = y.om /\ x.tbl = y.tbl
                                             /\ x.om # Null =>
                                                  /\ owned'[x.om] = owned[x.om]
                                                  /\ \A b \in out : b.om # x.om
    <2>1. \A x \in rows : x.om # Null => x.om \in Ids /\ x.om \notin im
      BY <1>3, <1>4, <1>5
    <2>2. \A x \in rows : x.om # Null => owned'[x.om] = owned[x.om]
      BY <1>2, <2>1 DEF Located, im, Ids, Null
    <2>3. \A x \in rows : x.om # Null => \A b \in out : b.om # x.om
      BY <1>3, <2>1
    <2> QED BY <1>7, <1>10, <1>13, <2>2, <2>3
  <1>16. \A b \in out : nextId <= b.id /\ b.id < nextId' /\ b.om < nextId'
    BY <1>1, <1>3
  <1>17. \A b, c \in out : b.om # Null /\ b.om = c.om => b = c
    BY <1>3
  <1>18. \A b \in out : b.om # Null => owned'[b.om] = b.tbl
    <2>1. \A b \in out : b.om \in Ids /\ b.om \in im
      BY <1>3 DEF Row, Ids
    <2> QED BY <1>2, <1>3, <2>1 DEF Located, im, Null
  <1>19. \A q \in Requests : job'[q] = job[q] \/ job'[q].pc \notin {"prev", "commit"}
    BY <1>1 DEF IInv, Columns, At
  <1>20. nextId <= nextId'
    BY <1>1, <1>3
  <1> QED BY <1>11, <1>12, <1>14, <1>15, <1>16, <1>17, <1>18, <1>19, <1>20, RewriteIInv

\* Toggling a machine changes its switch only.
LEMMA ToggleIInv ==
  ASSUME IInv, NEW r \in Requests, CommitToggle(r)
  PROVE  IInv'
  <1> DEFINE g == [x \in rows |-> [x EXCEPT !.active = IF x.id = job[r].row.id
                                     THEN job[r].op = "toggleOn" ELSE x.active]]
  <1>1. /\ rows' = {g[x] : x \in rows}
        /\ job' = [job EXCEPT ![r] = At("sync")]
        /\ UNCHANGED <<owned, racks, nextId, engine, count, missed>>
    BY DEF CommitToggle, ToSync
  <1>2. \A x \in rows : /\ g[x] \in Row
                        /\ g[x].id = x.id /\ g[x].om = x.om /\ g[x].tbl = x.tbl
    BY DEF IInv, Columns, Row
  <1>3. IsFiniteSet(rows')
    <2>2. DOMAIN g = rows /\ IsFiniteSet(rows)
      BY DEF IInv, RowsFinite
    <2> HIDE DEF g
    <2>1. IsFiniteSet({g[x] : x \in rows})
      BY <2>2, FiniteImage
    <2> QED BY <1>1, <2>1
  <1> HIDE DEF g
  <1>4. Columns'
    BY <1>1, <1>2, IdleType DEF IInv, Columns
  <1>5. RowsFinite'
    BY <1>1, <1>3, FS_EmptySet DEF IInv, RowsFinite, Columns, At
  <1>6. IdsUnique'
    BY <1>1, <1>2 DEF IInv, IdsUnique
  <1>7. \A q \in Requests : job'[q] = job[q] \/ job'[q].pc \notin {"prev", "commit"}
    BY <1>1 DEF IInv, Columns, At
  <1>8. nextId <= nextId'
    BY <1>1 DEF IInv, Columns
  <1>9. \A y \in rows' : \E x \in rows : x.id = y.id /\ x.om = y.om /\ x.tbl = y.tbl
    BY <1>1, <1>2
  <1>10. \A y \in rows' : \E x \in rows :
           /\ x.id = y.id /\ x.om = y.om /\ x.tbl = y.tbl
           /\ x.om # Null => /\ owned'[x.om] = owned[x.om]
                            /\ \A b \in {} : b.om # x.om
    BY <1>1, <1>9
  <1> QED
    <2> DEFINE born == {}
    <2>1. /\ \A b \in born : nextId <= b.id /\ b.id < nextId' /\ b.om < nextId'
          /\ \A b, c \in born : b.om # Null /\ b.om = c.om => b = c
          /\ \A b \in born : b.om # Null => owned'[b.om] = b.tbl
      OBVIOUS
    <2>2. \A y \in rows' : \/ y \in born
                           \/ \E x \in rows :
                                /\ x.id = y.id /\ x.om = y.om /\ x.tbl = y.tbl
                                /\ x.om # Null => /\ owned'[x.om] = owned[x.om]
                                                 /\ \A b \in born : b.om # x.om
      BY <1>10
    <2> HIDE DEF born
    <2> QED BY <1>4, <1>5, <1>6, <1>7, <1>8, <2>1, <2>2, RewriteIInv

-----------------------------------------------------------------------------
\* Every transaction keeps the invariant.
LEMMA CommitsIInv ==
  ASSUME IInv, NEW r \in Requests, Commits(r)
  PROVE  IInv'
  <1> DEFINE RacksType == [Positions -> [miner : Ids \cup {Null}, blocked : Ids \cup {Null}]]
             Moved(to, slot, J) ==
               /\ InTransaction(r)
               /\ to \in Tables /\ slot \in Slots /\ J \in Job
               /\ J.pc \notin {"prev", "commit"} /\ J.seen = {}
               /\ nextId <= MaxId
               /\ job[r].row.id \in IdsOf(rows)
               /\ rows' = Without({job[r].row.id})
                            \cup {NewRow(nextId, to, EnsureOwned(job[r].row, nextId),
                                         job[r].row.size, slot)}
               /\ owned' = Located({}, EnsureOwned(job[r].row, nextId), to)
               /\ nextId' = nextId + 1
               /\ racks' \in RacksType
               /\ job' = [job EXCEPT ![r] = J]
               /\ UNCHANGED <<engine, count, missed>>
  <1>1. ASSUME NEW to, NEW slot, NEW J, Moved(to, slot, J) PROVE IInv'
    BY <1>1, TransferIInv
  <1>2. /\ NoSlot \in Slots
        /\ "RACK" \in Tables /\ "INVENTORY" \in Tables /\ "WAREHOUSE" \in Tables
        /\ At("sync") \in Job /\ At("sync").pc = "sync" /\ At("sync").seen = {}
        /\ Idle \in Job /\ Idle.pc = "idle" /\ Idle.seen = {}
        /\ racks \in RacksType
        /\ \A ids : Release(ids) \in RacksType
    BY IdleType, ReleaseType DEF Slots, Tables, At, Idle, IInv, Columns
  <1>3. ASSUME NEW op, Committing(r, op) PROVE InTransaction(r)
    BY <1>3 DEF Committing, InTransaction
  <1>4. CASE CommitInstall(r)
    BY <1>3, <1>4, PlaceIInv DEF CommitInstall
  <1>5. CASE CommitRetrieveToRack(r)
    BY <1>3, <1>5, PlaceIInv DEF CommitRetrieveToRack
  <1>6. CASE CommitMove(r)
    BY <1>3, <1>6, MoveIInv DEF CommitMove
  <1>7. CASE CommitToggle(r)
    BY <1>7, ToggleIInv
  <1>8. ASSUME NEW to, Transfer(r, to)
        PROVE  /\ nextId <= MaxId
               /\ job[r].row.id \in IdsOf(rows)
               /\ rows' = Without({job[r].row.id})
                            \cup {NewRow(nextId, to, EnsureOwned(job[r].row, nextId),
                                         job[r].row.size, NoSlot)}
               /\ owned' = Located({}, EnsureOwned(job[r].row, nextId), to)
               /\ nextId' = nextId + 1
               /\ UNCHANGED <<engine, count, missed>>
    BY <1>8 DEF Transfer, Live, IdsOf
  <1>9. CASE CommitStoreInventory(r)
    <2>1. Moved("WAREHOUSE", NoSlot, At("sync"))
      BY <1>2, <1>3, <1>8, <1>9 DEF CommitStoreInventory, ToSync
    <2> QED BY <1>1, <2>1
  <1>10. CASE CommitStoreRack(r)
    <2>1. Moved("WAREHOUSE", NoSlot, At("sync"))
      BY <1>2, <1>3, <1>8, <1>10 DEF CommitStoreRack, ToSync
    <2> QED BY <1>1, <2>1
  <1>11. CASE CommitRemove(r)
    <2>1. Moved("INVENTORY", NoSlot, At("sync"))
      BY <1>2, <1>3, <1>8, <1>11 DEF CommitRemove, ToSync
    <2> QED BY <1>1, <2>1
  <1>12. CASE CommitRetrieveToInventory(r)
    <2>1. Moved("INVENTORY", NoSlot, Idle)
      BY <1>2, <1>3, <1>8, <1>12 DEF CommitRetrieveToInventory, Done
    <2> QED BY <1>1, <2>1
  <1>13. CASE CommitRoomUninstall(r)
    <2> DEFINE rel == Release({job[r].row.id})
               p   == job[r].slot - RoomBase
    <2>1. racks' = [rel EXCEPT ![p].miner = Null]
      BY <1>13 DEF CommitRoomUninstall
    <2>2. rel \in RacksType
      BY <1>2
    <2> HIDE DEF rel, p
    <2>3. racks' \in RacksType
      BY <2>1, <2>2
    <2>4. Moved("INVENTORY", NoSlot, At("sync"))
      BY <1>2, <1>3, <1>8, <1>13, <2>3 DEF CommitRoomUninstall, ToSync
    <2> QED BY <1>1, <2>4
  <1>14. CASE CommitRoomInstall(r)
    <2>1. Committing(r, "roomInstall") /\ InTransaction(r)
      BY <1>3, <1>14 DEF CommitRoomInstall
    <2>2. job[r].slot \in Slots
      BY <2>1, SnapshotFacts
    <2>3. nextId \in Ids
      BY <1>14, MaxIdAssumption DEF CommitRoomInstall, IInv, Columns, Ids
    <2>4. \A q \in Positions : /\ racks[q].miner \in Ids \cup {Null}
                               /\ racks[q].blocked \in Ids \cup {Null}
      BY <1>2
    <2>5. racks' \in RacksType
      BY <1>14, <2>3, <2>4 DEF CommitRoomInstall
    <2>6. job[r].row.id \in IdsOf(rows)
      BY <1>14 DEF CommitRoomInstall, Live, IdsOf
    <2>7. Moved("RACK", job[r].slot, At("sync"))
      BY <1>2, <1>14, <2>1, <2>2, <2>5, <2>6 DEF CommitRoomInstall, ToSync
    <2> QED BY <1>1, <2>7
  <1> QED BY <1>4, <1>5, <1>6, <1>7, <1>9, <1>10, <1>11, <1>12, <1>13, <1>14 DEF Commits

\* A machine enters the inventory from a purchase or a reward.
LEMMA GrantIInv ==
  ASSUME IInv, Grant
  PROVE  IInv'
  <1>1. PICK size \in {1, 2} : rows' = rows \cup {FreshInventory(nextId, size)}
    BY DEF Grant
  <1> DEFINE new  == FreshInventory(nextId, size)
             born == {new}
  <1>2. nextId \in Ids /\ nextId \in Int
    BY MaxIdAssumption DEF Grant, IInv, Columns, Ids
  <1>3. new \in Row
    BY <1>2, NewRowType DEF FreshInventory, Tables, Slots
  <1>4. new.id = nextId /\ new.om = nextId /\ new.tbl = "INVENTORY"
    BY DEF FreshInventory, NewRow
  <1>5. /\ owned' = Located({nextId}, Null, "INVENTORY")
        /\ nextId' = nextId + 1
        /\ count' = count + 1
        /\ UNCHANGED <<racks, engine, job, missed>>
    BY DEF Grant
  <1> HIDE DEF new
  <1>6. rows' = rows \cup born
    BY <1>1 DEF new
  <1>7. Columns'
    <2>1. owned' \in [Ids -> Tables \cup {"none"}]
      BY <1>5 DEF Located, IInv, Columns, Tables
    <2>2. rows' \subseteq Row
      BY <1>3, <1>6 DEF IInv, Columns
    <2>3. nextId' \in 1 .. MaxId + 1
      BY <1>2, <1>5, MaxIdAssumption DEF Ids
    <2>4. /\ racks' \in [Positions -> [miner : Ids \cup {Null}, blocked : Ids \cup {Null}]]
          /\ engine' \subseteq Ids
          /\ job' \in [Requests -> Job]
          /\ missed' \in BOOLEAN
      BY <1>5 DEF IInv, Columns
    <2>5. count' \in Int
      BY <1>5 DEF IInv, Columns
    <2> QED BY <2>1, <2>2, <2>3, <2>4, <2>5 DEF Columns
  <1>8. RowsFinite'
    <2>1. IsFiniteSet(rows')
      BY <1>6, FS_AddElement DEF IInv, RowsFinite
    <2> QED BY <1>5, <2>1 DEF IInv, RowsFinite
  <1>9. \A x \in rows : /\ x.id < nextId /\ x.om < nextId
                        /\ x.id \in Int /\ x.om \in Ids \cup {Null}
    BY DEF IInv, IdsFresh, Columns, Row, Ids
  <1>10. IdsUnique'
    BY <1>2, <1>4, <1>6, <1>9 DEF IInv, IdsUnique
  <1>11. \A y \in rows' : \/ y \in born
                          \/ \E x \in rows : /\ x.id = y.id /\ x.om = y.om /\ x.tbl = y.tbl
                                             /\ x.om # Null =>
                                                  /\ owned'[x.om] = owned[x.om]
                                                  /\ \A b \in born : b.om # x.om
    <2> SUFFICES ASSUME NEW y \in rows, y.om # Null
                 PROVE  owned'[y.om] = owned[y.om] /\ new.om # y.om
      BY <1>6
    <2>1. y.om \in Ids /\ y.om # nextId
      BY <1>2, <1>9
    <2> QED BY <1>4, <1>5, <2>1 DEF Located, Null
  <1>12. /\ \A b \in born : nextId <= b.id /\ b.id < nextId' /\ b.om < nextId'
         /\ \A b, c \in born : b.om # Null /\ b.om = c.om => b = c
         /\ \A b \in born : b.om # Null => owned'[b.om] = b.tbl
         /\ nextId <= nextId'
    BY <1>2, <1>4, <1>5 DEF Located
  <1>13. \A q \in Requests : job'[q] = job[q] \/ job'[q].pc \notin {"prev", "commit"}
    BY <1>5
  <1> HIDE DEF born
  <1> QED BY <1>7, <1>8, <1>10, <1>11, <1>12, <1>13, RewriteIInv

\* The player throws an inventory machine away.
LEMMA DiscardIInv ==
  ASSUME IInv, Discard
  PROVE  IInv'
  <1>1. PICK i \in In("INVENTORY") :
          /\ \A x \in rows \ {i} : i.om # Null => x.om # i.om
          /\ rows' = rows \ {i}
          /\ owned' = Located({}, i.om, "none")
          /\ count' = count - 1
          /\ UNCHANGED <<racks, nextId, engine, job, missed>>
    BY DEF Discard
  <1>2. Columns'
    <2>1. owned' \in [Ids -> Tables \cup {"none"}]
      BY <1>1 DEF Located, IInv, Columns
    <2> QED BY <1>1, <2>1 DEF IInv, Columns
  <1>3. RowsFinite'
    BY <1>1, FS_Subset DEF IInv, RowsFinite
  <1>4. IdsUnique'
    BY <1>1 DEF IInv, IdsUnique
  <1> DEFINE born == {}
  <1>5. \A y \in rows' : \/ y \in born
                         \/ \E x \in rows : /\ x.id = y.id /\ x.om = y.om /\ x.tbl = y.tbl
                                            /\ x.om # Null =>
                                                 /\ owned'[x.om] = owned[x.om]
                                                 /\ \A b \in born : b.om # x.om
    <2> SUFFICES ASSUME NEW y \in rows \ {i}, y.om # Null
                 PROVE  owned'[y.om] = owned[y.om]
      BY <1>1
    <2>1. y.om \in Ids /\ y.om # i.om
      BY <1>1 DEF IInv, Columns, Row
    <2> QED BY <1>1, <2>1 DEF Located
  <1>6. /\ \A b \in born : nextId <= b.id /\ b.id < nextId' /\ b.om < nextId'
        /\ \A b, c \in born : b.om # Null /\ b.om = c.om => b = c
        /\ \A b \in born : b.om # Null => owned'[b.om] = b.tbl
    OBVIOUS
  <1>7. \A q \in Requests : job'[q] = job[q] \/ job'[q].pc \notin {"prev", "commit"}
    BY <1>1
  <1>8. nextId <= nextId'
    BY <1>1 DEF IInv, Columns
  <1> HIDE DEF born
  <1> QED BY <1>2, <1>3, <1>4, <1>5, <1>6, <1>7, <1>8, RewriteIInv

\* The reload of the engine, and a transaction that is rolled back.
LEMMA LeavesIInv ==
  ASSUME IInv, NEW r \in Requests,
         Abort(r) \/ SyncRead(r) \/ SyncAssign(r) \/ SyncFail(r)
  PROVE  IInv'
  <1>1. /\ Idle \in Job /\ Idle.pc = "idle" /\ IsFiniteSet(Idle.seen)
        /\ engine \subseteq Ids /\ missed \in BOOLEAN
        /\ job[r] \in Job /\ IsFiniteSet(job[r].seen)
    BY IdleType, FS_EmptySet DEF Idle, At, IInv, Columns, RowsFinite
  <1>2. CASE Abort(r)
    BY <1>1, <1>2, LeaveTransaction DEF Abort, Done
  <1>3. CASE SyncRead(r)
    <2> DEFINE J == [job[r] EXCEPT !.pc = "assign", !.hash = ActiveIds]
    <2>1. ActiveIds \subseteq Ids
      BY DEF ActiveIds, In, IInv, Columns, Row
    <2>2. J \in Job /\ J.pc = "assign" /\ J.seen = job[r].seen
      BY <1>1, <2>1 DEF Job, Steps
    <2>3. job' = [job EXCEPT ![r] = J]
      BY <1>3 DEF SyncRead
    <2>4. UNCHANGED <<rows, owned, racks, nextId, engine, count, missed>>
      BY <1>3 DEF SyncRead
    <2> HIDE DEF J
    <2> QED BY <1>1, <2>2, <2>3, <2>4, LeaveTransaction
  <1>4. CASE SyncAssign(r)
    <2>1. job[r].hash \subseteq Ids
      BY <1>1 DEF Job
    <2> QED BY <1>1, <1>4, <2>1, LeaveTransaction DEF SyncAssign, Done
  <1>5. CASE SyncFail(r)
    BY <1>1, <1>5, LeaveTransaction DEF SyncFail, Done
  <1> QED BY <1>2, <1>3, <1>4, <1>5

LEMMA NextIInv == IInv /\ [Next]_vars => IInv'
  <1> SUFFICES ASSUME IInv, [Next]_vars PROVE IInv'
    OBVIOUS
  <1>1. ASSUME NEW r \in Requests,
               Reads(r) \/ Commits(r) \/ Abort(r) \/ SyncRead(r) \/ SyncAssign(r) \/ SyncFail(r)
        PROVE  IInv'
    BY <1>1, ReadsIInv, CommitsIInv, LeavesIInv
  <1>2. CASE Grant
    BY <1>2, GrantIInv
  <1>3. CASE Discard
    BY <1>3, DiscardIInv
  <1>4. CASE UNCHANGED vars
    BY <1>4 DEF vars, held, IInv, Columns, RowsFinite, IdsUnique, IdsFresh, Snapshots,
                InTransaction, OnePlacePerMachine, LocationAgrees
  <1> QED BY <1>1, <1>2, <1>3, <1>4 DEF Next, Step

\* The strengthened invariant holds whatever the handlers interleave.
THEOREM Inductive == Spec => []IInv
  BY InitIInv, NextIInv, PTL DEF Spec

\* Every column keeps its type under the handlers' interleavings.
THEOREM TypeCorrect == Spec => []TypeOK
  <1> DEFINE Flag == overlapped \in BOOLEAN
  <1>1. Init => Flag
    BY DEF Init
  <1>2. Flag /\ [Next]_vars => Flag'
    BY DEF Next, Overlap, vars
  <1>3. IInv /\ Flag => TypeOK
    BY DEF IInv, TypeOK
  <1> HIDE DEF Flag
  <1> QED BY <1>1, <1>2, <1>3, Inductive, PTL DEF Spec

\* No interleaving of installs, moves, stores and retrievals puts an owned
\* machine in two places.
THEOREM OnePlace == Spec => []OnePlacePerMachine
  <1>1. IInv => OnePlacePerMachine
    BY DEF IInv
  <1> QED BY <1>1, Inductive, PTL

\* The location recorded for an owned machine is the table of its row.
THEOREM LocationCorrect == Spec => []LocationAgrees
  <1>1. IInv => LocationAgrees
    BY DEF IInv
  <1> QED BY <1>1, Inductive, PTL

-----------------------------------------------------------------------------
(***************************************************************************)
(* How many machines there are, and which the racks of the room hold.      *)
(*                                                                         *)
(* Both need what a request knows of the rows it is about to delete: that  *)
(* the row it places is still in the table it was read from, and that the  *)
(* rows it displaces are different ones, though the transaction of install *)
(* and move reads the slot before the target later than the target.  They  *)
(* are: on an odd slot only small machines stand, and before it a large    *)
(* one is looked for.                                                      *)
(***************************************************************************)
TableOf(op) ==
  IF op \in {"install", "storeInventory", "roomInstall"} THEN "INVENTORY"
  ELSE IF op \in {"retrieveRack", "retrieveInventory"} THEN "WAREHOUSE" ELSE "RACK"

ReadRow ==
  \A r \in Requests : InTransaction(r) =>
    \A x \in rows : x.id = job[r].row.id =>
      x.tbl = TableOf(job[r].op) /\ x.size = job[r].row.size

\* What request r knows of a row y that it displaces.
Displaces(r, y) ==
  /\ y.id < nextId
  /\ y.id # job[r].row.id
  /\ job[r].pc = "prev" => y.size = 1
  /\ \A x \in rows : x.id = y.id => x.size = y.size
  /\ \A z \in job[r].seen : y.id = z.id => y = z

RoomSlots == {RoomBase + p : p \in Positions}

\* The slots a handler may have checked for a machine of this size.
AimOf(op, size, slot) ==
  /\ op \in {"install", "move", "retrieveRack"} => Fits(size, slot)
  /\ op \in {"roomInstall", "roomUninstall"} => slot \in RoomSlots

SeenRows ==
  \A r \in Requests : InTransaction(r) =>
    /\ AimOf(job[r].op, job[r].row.size, job[r].slot)
    /\ \A y \in job[r].seen : Displaces(r, y)

OnSlot(x) == x.tbl = "RACK" /\ x.slot \in LegacySlots => Fits(x.size, x.slot)

PlacesInv ==
  /\ ReadRow
  /\ SeenRows
  /\ \A x \in rows : OnSlot(x)
  /\ NoDanglingRack
  /\ MachinesConserved

-----------------------------------------------------------------------------
\* Rows are as many as their ids.
LEMMA CountIds ==
  ASSUME NEW S, IsFiniteSet(S), \A x, y \in S : x.id = y.id => x = y
  PROVE  IsFiniteSet(IdsOf(S)) /\ Cardinality(IdsOf(S)) = Cardinality(S)
  <1> DEFINE g == [x \in S |-> x.id]
  <1>1. g \in Bijection(S, IdsOf(S))
    BY DEF Bijection, Injection, Surjection, IsInjective, IdsOf
  <1>2. ExistsBijection(S, IdsOf(S))
    BY <1>1 DEF ExistsBijection
  <1> QED BY <1>2, FS_Bijection

\* As many ids are handed out as machines are displaced.
LEMMA CountNumbering ==
  ASSUME NEW S, IsFiniteSet(S), NEW f \in Numberings(S)
  PROVE  LET im == {f[x] : x \in S}
         IN  IsFiniteSet(im) /\ Cardinality(im) = Cardinality(S)
  <1> DEFINE im == {f[x] : x \in S}
             g  == [x \in S |-> f[x]]
  <1>0. \A x, y \in S : f[x] = f[y] => x = y
    BY DEF Numberings
  <1>1. g \in Bijection(S, im)
    BY <1>0 DEF Bijection, Injection, Surjection, IsInjective
  <1>2. ExistsBijection(S, im)
    BY <1>1 DEF ExistsBijection
  <1> QED BY <1>2, FS_Bijection

\* As many come as go.
LEMMA CountExchange ==
  ASSUME NEW S, IsFiniteSet(S), NEW gone \in SUBSET S, NEW new,
         IsFiniteSet(new), Cardinality(new) = Cardinality(gone), new \cap S = {}
  PROVE  Cardinality((S \ gone) \cup new) = Cardinality(S)
  <1>1. IsFiniteSet(gone) /\ IsFiniteSet(S \ gone)
    BY FS_Subset
  <1>2. Cardinality(S \ gone) = Cardinality(S) - Cardinality(gone)
    <2>1. S \cap gone = gone
      OBVIOUS
    <2> QED BY <1>1, <2>1, FS_Difference
  <1>3. (S \ gone) \cap new = {}
    OBVIOUS
  <1>4. Cardinality((S \ gone) \cup new) = Cardinality(S \ gone) + Cardinality(new)
    <2>1. Cardinality({}) = 0
      BY FS_EmptySet
    <2>2. Cardinality(S \ gone) \in Nat /\ Cardinality(new) \in Nat
      BY <1>1, FS_CardinalityType
    <2> DEFINE left == S \ gone
    <2> HIDE DEF left
    <2>3. Cardinality(left \cup new)
            = Cardinality(left) + Cardinality(new) - Cardinality(left \cap new)
      BY <1>1, FS_Union DEF left
    <2>4. left \cap new = {} /\ Cardinality(left) \in Nat
      BY <1>3, <2>2 DEF left
    <2>5. Cardinality(left \cap new) = 0
      BY <2>1, <2>4, Zenon
    <2>6. Cardinality(left \cup new) = Cardinality(left) + Cardinality(new)
      BY <2>2, <2>3, <2>4, <2>5
    <2> QED BY <2>6 DEF left
  <1> QED BY <1>1, <1>2, <1>4, FS_CardinalityType

(***************************************************************************)
(* The shape of a commit: the ids gone are those of the rows it deletes,   *)
(* as many as the fresh ids new of the rows it creates; any other row      *)
(* keeps its table and its size; a rack holds what it held, unless that is *)
(* gone, or a machine just placed in the room.                             *)
(***************************************************************************)
Commit(r, gone, new) ==
  /\ gone \subseteq IdsOf(rows)
  /\ IsFiniteSet(gone) /\ IsFiniteSet(new) /\ Cardinality(new) = Cardinality(gone)
  /\ \A i \in new : i \in Int /\ nextId <= i
  /\ IdsOf(rows') = (IdsOf(rows) \ gone) \cup new
  /\ \A y \in rows' :
       /\ y.id \in new \/ \E x \in rows : x.id = y.id /\ x.tbl = y.tbl /\ x.size = y.size
       /\ OnSlot(y)
  /\ \A p \in Positions : \A m \in {racks'[p].miner, racks'[p].blocked} \ {Null} :
       \/ \E y \in In("RACK")' : y.id = m
       \/ m \in {racks[p].miner, racks[p].blocked} \ gone
  /\ nextId' >= nextId /\ count' = count
  /\ \A q \in Requests : q # r => job'[q] = job[q]
  /\ job'[r].pc \notin {"prev", "commit"}

LEMMA RowTypes ==
  ASSUME IInv
  PROVE  /\ nextId \in Int
         /\ \A x \in rows : /\ x \in Row /\ x.id \in Int /\ x.id < nextId
                            /\ x.size \in {1, 2} /\ x.id \in Ids
         /\ \A r \in Requests : /\ job[r] \in Job
                                /\ job[r].row.id \in Int /\ job[r].slot \in Slots
                                /\ job[r].row.size \in {1, 2}
                                /\ job[r].seen \subseteq Row
         /\ \A r \in Requests : \A y \in job[r].seen : y.id \in Int /\ y.size \in {1, 2}
  BY DEF IInv, Columns, IdsFresh, Job, Row, Ids

LEMMA CommitPlaces ==
  ASSUME IInv, PlacesInv, IInv', NEW r \in Requests, NEW gone, NEW new,
         Commit(r, gone, new)
  PROVE  PlacesInv'
  <1>1. \A x \in rows : x.id \notin new
    BY RowTypes DEF Commit
  <1>2. \A y \in rows' : y.id < nextId =>
          \E x \in rows : x.id = y.id /\ x.tbl = y.tbl /\ x.size = y.size
    BY RowTypes DEF Commit
  <1>3. \A q \in Requests : InTransaction(q)' => job'[q] = job[q] /\ InTransaction(q)
    BY DEF Commit, InTransaction
  <1>4. nextId' \in Int /\ nextId \in Int /\ nextId <= nextId'
    BY RowTypes DEF Commit, IInv, Columns
  <1>5. ReadRow'
    <2> SUFFICES ASSUME NEW q \in Requests, InTransaction(q)',
                        NEW y \in rows', y.id = job'[q].row.id
                 PROVE  y.tbl = TableOf(job'[q].op) /\ y.size = job'[q].row.size
      BY DEF ReadRow
    <2>1. job'[q] = job[q] /\ InTransaction(q)
      BY <1>3
    <2>2. job[q].row.id < nextId
      BY <2>1 DEF IInv, Snapshots
    <2> QED BY <1>2, <2>1, <2>2 DEF PlacesInv, ReadRow
  <1>6. SeenRows'
    <2> SUFFICES ASSUME NEW q \in Requests, InTransaction(q)'
                 PROVE  /\ AimOf(job'[q].op, job'[q].row.size, job'[q].slot)
                        /\ \A y \in job'[q].seen : Displaces(q, y)'
      BY DEF SeenRows
    <2>1. job'[q] = job[q] /\ InTransaction(q)
      BY <1>3
    <2>2. \A y \in job[q].seen : Displaces(q, y)
      BY <2>1 DEF PlacesInv, SeenRows
    <2>3. \A y \in job[q].seen : y.id \in Int
      BY RowTypes
    <2>4. ASSUME NEW y \in job[q].seen PROVE Displaces(q, y)'
      <3>1. \A x \in rows' : x.id = y.id => x.size = y.size
        BY <1>2, <2>2 DEF Displaces
      <3> QED BY <1>4, <2>1, <2>2, <2>3, <3>1 DEF Displaces
    <2> QED BY <2>1, <2>4 DEF PlacesInv, SeenRows
  <1>7. NoDanglingRack'
    <2> SUFFICES ASSUME NEW p \in Positions,
                        NEW m \in {racks'[p].miner, racks'[p].blocked} \ {Null},
                        m \in {racks[p].miner, racks[p].blocked} \ gone
                 PROVE  \E y \in In("RACK")' : y.id = m
      BY DEF NoDanglingRack, Commit
    <2>1. PICK x \in rows : x.tbl = "RACK" /\ x.id = m
      BY DEF PlacesInv, NoDanglingRack, In
    <2>2. PICK y \in rows' : y.id = m
      BY <2>1 DEF Commit, IdsOf
    <2>3. y.tbl = "RACK"
      BY <1>1, <2>1, <2>2 DEF Commit, IInv, IdsUnique
    <2> QED BY <2>2, <2>3 DEF In
  <1>8. MachinesConserved'
    <2>1. /\ IsFiniteSet(IdsOf(rows)) /\ Cardinality(IdsOf(rows)) = Cardinality(rows)
      BY CountIds DEF IInv, IdsUnique, RowsFinite
    <2>2. Cardinality(IdsOf(rows')) = Cardinality(rows')
      BY CountIds DEF IInv, IdsUnique, RowsFinite
    <2>3. new \cap IdsOf(rows) = {}
      BY <1>1 DEF IdsOf
    <2>4. Cardinality((IdsOf(rows) \ gone) \cup new) = Cardinality(IdsOf(rows))
      BY <2>1, <2>3, CountExchange DEF Commit
    <2> QED BY <2>1, <2>2, <2>4 DEF Commit, PlacesInv, MachinesConserved
  <1>9. \A y \in rows' : OnSlot(y)
    BY DEF Commit
  <1> QED BY <1>5, <1>6, <1>7, <1>8, <1>9 DEF PlacesInv, OnSlot

-----------------------------------------------------------------------------
\* A step that leaves the rows and racks alone and takes no request into its
\* transaction.
LEMMA SamePlaces ==
  ASSUME IInv, PlacesInv, UNCHANGED <<rows, racks, nextId, count>>,
         \A q \in Requests : job'[q] = job[q] \/ job'[q].pc \notin {"prev", "commit"}
  PROVE  PlacesInv'
  <1>1. \A q \in Requests : InTransaction(q)' => job'[q] = job[q] /\ InTransaction(q)
    BY DEF InTransaction
  <1>2. ReadRow'
    BY <1>1 DEF PlacesInv, ReadRow
  <1>3. SeenRows'
    BY <1>1 DEF PlacesInv, SeenRows, Displaces
  <1> QED BY <1>2, <1>3 DEF PlacesInv, OnSlot, NoDanglingRack, In, MachinesConserved

\* A handler that starts from rows it has just read.
LEMMA BeginPlaces ==
  ASSUME IInv, PlacesInv, NEW r \in Requests, NEW op, NEW pc,
         NEW row \in rows, NEW slot, NEW seen \in SUBSET rows,
         Begin(r, op, pc, row, slot, seen),
         row.tbl = TableOf(op),
         AimOf(op, row.size, slot),
         row \notin seen,
         pc = "prev" => \A y \in seen : y.size = 1
  PROVE  PlacesInv'
  <1>1. /\ job'[r] = [pc |-> pc, op |-> op, row |-> row, slot |-> slot, seen |-> seen, hash |-> {}]
        /\ \A q \in Requests : q # r => job'[q] = job[q]
        /\ UNCHANGED <<rows, racks, nextId, count>>
    BY DEF Begin, IInv, Columns
  <1>2. \A x, y \in rows : x.id = y.id => x = y
    BY DEF IInv, IdsUnique
  <1>3. ReadRow'
    BY <1>1, <1>2 DEF PlacesInv, ReadRow, InTransaction
  <1>4. SeenRows'
    <2> SUFFICES ASSUME NEW q \in Requests, InTransaction(q)'
                 PROVE  /\ AimOf(job'[q].op, job'[q].row.size, job'[q].slot)
                        /\ \A y \in job'[q].seen : Displaces(q, y)'
      BY DEF SeenRows
    <2>1. CASE q # r
      BY <1>1, <2>1 DEF PlacesInv, SeenRows, InTransaction, Displaces
    <2>2. CASE q = r
      <3>1. \A y \in seen : y.id < nextId
        BY RowTypes
      <3> QED BY <1>1, <1>2, <2>2, <3>1 DEF Displaces
    <2> QED BY <2>1, <2>2
  <1> QED BY <1>1, <1>3, <1>4 DEF PlacesInv, OnSlot, NoDanglingRack, In, MachinesConserved

\* On an odd slot only small machines stand.
LEMMA OddSlot ==
  ASSUME IInv, PlacesInv, NEW s \in LegacySlots, s % 2 = 1, NEW size \in {1, 2}, Fits(size, s)
  PROVE  \A y \in MinersAt(Targets(s, size)) : y.size = 1
  <1>1. s \in Int
    BY NumSlotsAssumption DEF LegacySlots
  <1>2. size = 1
    BY DEF Fits
  <1>3. Targets(s, size) = {s}
    BY <1>1, <1>2 DEF Targets
  <1>4. \A y \in MinersAt(Targets(s, size)) : y \in rows /\ y.slot = s /\ y.tbl = "RACK"
    BY <1>3 DEF MinersAt, In
  <1>5. \A y \in MinersAt(Targets(s, size)) : Fits(y.size, s)
    BY <1>4 DEF PlacesInv, OnSlot
  <1> QED BY <1>4, <1>5, RowTypes DEF Fits

LEMMA ReadsPlaces ==
  ASSUME IInv, PlacesInv, NEW r \in Requests, Reads(r)
  PROVE  PlacesInv'
  <1>0. /\ \A tbl : \A x \in In(tbl) : x \in rows /\ x.tbl = tbl
        /\ \A slots : \A x \in MinersAt(slots) : x \in rows /\ x.tbl = "RACK"
        /\ \A x \in rows : x.size \in {1, 2}
    BY RowTypes DEF In, MinersAt
  <1>1. CASE BeginInstall(r)
    <2>1. PICK i \in In("INVENTORY"), s \in LegacySlots :
            /\ Fits(i.size, s)
            /\ Begin(r, "install", IF s % 2 = 1 THEN "prev" ELSE "commit", i, s,
                     MinersAt(Targets(s, i.size)))
      BY <1>1 DEF BeginInstall
    <2> DEFINE pc == IF s % 2 = 1 THEN "prev" ELSE "commit"
    <2>2. pc = "prev" => \A y \in MinersAt(Targets(s, i.size)) : y.size = 1
      BY <1>0, <2>1, OddSlot
    <2>3. i \notin MinersAt(Targets(s, i.size)) /\ MinersAt(Targets(s, i.size)) \in SUBSET rows
      BY <1>0
    <2>4. i \in rows /\ i.tbl = TableOf("install") /\ AimOf("install", i.size, s)
      BY <1>0, <2>1 DEF TableOf, AimOf
    <2>5. Begin(r, "install", pc, i, s, MinersAt(Targets(s, i.size)))
      BY <2>1
    <2> HIDE DEF pc
    <2> QED BY <2>1, <2>2, <2>3, <2>4, <2>5, BeginPlaces
  <1>2. CASE BeginMove(r)
    <2>1. PICK m \in In("RACK"), s \in LegacySlots :
            /\ Fits(m.size, s)
            /\ Begin(r, "move", IF s % 2 = 1 THEN "prev" ELSE "commit", m, s,
                     MinersAt(Targets(s, m.size)) \ {m})
      BY <1>2 DEF BeginMove
    <2> DEFINE pc   == IF s % 2 = 1 THEN "prev" ELSE "commit"
               seen == MinersAt(Targets(s, m.size)) \ {m}
    <2>2. pc = "prev" => \A y \in seen : y.size = 1
      BY <1>0, <2>1, OddSlot
    <2>3. m \notin seen /\ seen \in SUBSET rows
      BY <1>0
    <2>4. m \in rows /\ m.tbl = TableOf("move") /\ AimOf("move", m.size, s)
      BY <1>0, <2>1 DEF TableOf, AimOf
    <2>5. Begin(r, "move", pc, m, s, seen)
      BY <2>1
    <2> HIDE DEF pc, seen
    <2> QED BY <2>1, <2>2, <2>3, <2>4, <2>5, BeginPlaces
  <1>3. CASE BeginRetrieveToRack(r)
    <2>1. PICK v \in In("WAREHOUSE"), s \in LegacySlots :
            /\ Fits(v.size, s)
            /\ Begin(r, "retrieveRack", "commit", v, s, MinersAt(Targets(s, v.size)))
      BY <1>3 DEF BeginRetrieveToRack
    <2>3. v \notin MinersAt(Targets(s, v.size)) /\ MinersAt(Targets(s, v.size)) \in SUBSET rows
      BY <1>0
    <2>4. v \in rows /\ v.tbl = TableOf("retrieveRack") /\ AimOf("retrieveRack", v.size, s)
      BY <1>0, <2>1 DEF TableOf, AimOf
    <2> QED BY <2>1, <2>3, <2>4, BeginPlaces
  <1>4. ASSUME NEW op \in {"retrieveInventory", "storeInventory", "storeRack", "remove", "toggleOn",
                           "toggleOff", "roomInstall", "roomUninstall"},
               NEW x \in In(TableOf(op)), NEW slot, Begin(r, op, "commit", x, slot, {}),
               op \in {"roomInstall", "roomUninstall"} => slot \in RoomSlots
        PROVE  PlacesInv'
    BY <1>0, <1>4, BeginPlaces DEF AimOf
  <1>5. CASE BeginRetrieveToInventory(r) \/ BeginStoreInventory(r)
    <2>1. TableOf("retrieveInventory") = "WAREHOUSE" /\ TableOf("storeInventory") = "INVENTORY"
      BY DEF TableOf
    <2> QED BY <1>4, <1>5, <2>1 DEF BeginRetrieveToInventory, BeginStoreInventory
  <1>6. CASE BeginStoreRack(r) \/ BeginRemove(r)
    <2>1. TableOf("storeRack") = "RACK" /\ TableOf("remove") = "RACK"
      BY DEF TableOf
    <2> QED BY <1>4, <1>6, <2>1 DEF BeginStoreRack, BeginRemove
  <1>7. CASE BeginToggle(r)
    <2>1. TableOf("toggleOn") = "RACK" /\ TableOf("toggleOff") = "RACK"
      BY DEF TableOf
    <2> QED BY <1>4, <1>7, <2>1 DEF BeginToggle
  <1>8. CASE BeginRoomInstall(r) \/ BeginRoomUninstall(r)
    <2>1. TableOf("roomInstall") = "INVENTORY" /\ TableOf("roomUninstall") = "RACK"
      BY DEF TableOf
    <2>2. \A p \in Positions : RoomBase + p \in RoomSlots
      BY DEF RoomSlots
    <2> QED BY <1>4, <1>8, <2>1, <2>2 DEF BeginRoomInstall, BeginRoomUninstall
  <1>9. CASE ReadPrev(r)
    <2> DEFINE before == {m \in In("RACK") : /\ m.slot = job[r].slot - 1
                                             /\ m.size = 2
                                             /\ m.id # job[r].row.id}
    <2>1. /\ job[r].pc = "prev" /\ InTransaction(r)
          /\ job' = [job EXCEPT ![r].pc = "commit", ![r].seen = @ \cup before]
          /\ UNCHANGED <<rows, racks, nextId, count>>
      BY <1>9 DEF ReadPrev, InTransaction
    <2>2. \A x \in before : x \in rows /\ x.size = 2 /\ x.id # job[r].row.id
      BY <1>0
    <2>3. job[r] \in Job
      BY RowTypes
    <2> HIDE DEF before
    <2>4. /\ job'[r] = [job[r] EXCEPT !.pc = "commit", !.seen = job[r].seen \cup before]
          /\ \A q \in Requests \ {r} : job'[q] = job[q]
      BY <2>1 DEF IInv, Columns
    <2>5. /\ job'[r].pc = "commit" /\ job'[r].seen = job[r].seen \cup before
          /\ job'[r].row = job[r].row /\ job'[r].op = job[r].op /\ job'[r].slot = job[r].slot
      BY <2>3, <2>4 DEF Job
    <2>11. UNCHANGED <<rows, racks, nextId, count>> /\ InTransaction(r)
      BY <2>1
    <2>6. ReadRow'
      <3> SUFFICES ASSUME NEW q \in Requests, InTransaction(q)',
                          NEW x \in rows, x.id = job'[q].row.id
                   PROVE  x.tbl = TableOf(job'[q].op) /\ x.size = job'[q].row.size
        BY <2>11 DEF ReadRow
      <3>1. CASE q = r
        BY <2>11, <2>5, <3>1 DEF PlacesInv, ReadRow
      <3>2. CASE q # r
        BY <2>4, <3>2 DEF PlacesInv, ReadRow, InTransaction
      <3> QED BY <3>1, <3>2
    <2>7. \A y \in job[r].seen : Displaces(r, y) /\ y.size = 1
      BY <2>1 DEF PlacesInv, SeenRows, Displaces
    <2>8. \A x, y \in rows : x.id = y.id => x = y
      BY DEF IInv, IdsUnique
    <2>9. \A y \in job'[r].seen : Displaces(r, y)'
      <3> SUFFICES ASSUME NEW y \in job[r].seen \cup before PROVE Displaces(r, y)'
        BY <2>5
      <3>1. CASE y \in job[r].seen
        <4>1. \A z \in before : z.id # y.id
          BY <2>2, <2>7, <3>1 DEF Displaces
        <4> QED BY <2>1, <2>5, <2>7, <3>1, <4>1 DEF Displaces
      <3>2. CASE y \in before
        <4>1. \A z \in job[r].seen : z.id # y.id
          BY <2>2, <2>7, <3>2 DEF Displaces
        <4>2. y.id < nextId
          BY <2>2, <3>2, RowTypes
        <4> QED BY <2>1, <2>2, <2>5, <2>8, <3>2, <4>1, <4>2 DEF Displaces
      <3> QED BY <3>1, <3>2
    <2>10. SeenRows'
      <3> SUFFICES ASSUME NEW q \in Requests, InTransaction(q)'
                   PROVE  /\ AimOf(job'[q].op, job'[q].row.size, job'[q].slot)
                          /\ \A y \in job'[q].seen : Displaces(q, y)'
        BY DEF SeenRows
      <3>1. CASE q = r
        BY <2>11, <2>5, <2>9, <3>1 DEF PlacesInv, SeenRows
      <3>2. CASE q # r
        BY <2>11, <2>4, <3>2 DEF PlacesInv, SeenRows, InTransaction, Displaces
      <3> QED BY <3>1, <3>2
    <2> QED BY <2>11, <2>6, <2>10 DEF PlacesInv, OnSlot, NoDanglingRack, In, MachinesConserved
  <1> QED BY <1>1, <1>2, <1>3, <1>5, <1>6, <1>7, <1>8, <1>9 DEF Reads

-----------------------------------------------------------------------------
\* What every transaction does to the other requests, and to its own.
LEMMA CommitJobs ==
  ASSUME IInv, NEW r \in Requests, ToSync(r) \/ Done(r)
  PROVE  /\ \A q \in Requests : q # r => job'[q] = job[q]
         /\ job'[r].pc \notin {"prev", "commit"}
  BY DEF IInv, Columns, ToSync, Done, Idle, At

\* The racks after a release point to machines they held.
LEMMA ReleaseHolds ==
  ASSUME NEW ids, racks' = Release(ids)
  PROVE  \A p \in Positions : \A m \in {racks'[p].miner, racks'[p].blocked} \ {Null} :
           m \in {racks[p].miner, racks[p].blocked} \ ids
  BY DEF Release

\* A machine changes its table.
LEMMA TransferPlaces ==
  ASSUME IInv, PlacesInv, IInv', NEW r \in Requests, InTransaction(r),
         NEW to, NEW slot, NEW om,
         job[r].row.id \in IdsOf(rows),
         rows' = Without({job[r].row.id}) \cup {NewRow(nextId, to, om, job[r].row.size, slot)},
         to = "RACK" => slot \notin LegacySlots,
         nextId' = nextId + 1, count' = count,
         \A q \in Requests : q # r => job'[q] = job[q],
         job'[r].pc \notin {"prev", "commit"},
         \A p \in Positions : \A m \in {racks'[p].miner, racks'[p].blocked} \ {Null} :
           \/ m = nextId /\ to = "RACK"
           \/ m \in {racks[p].miner, racks[p].blocked} \ {job[r].row.id}
  PROVE  PlacesInv'
  <1> DEFINE old == job[r].row.id
             new == NewRow(nextId, to, om, job[r].row.size, slot)
  <1>1. new.id = nextId /\ new.tbl = to /\ new.slot = slot
    BY DEF NewRow
  <1> HIDE DEF new
  <1>2. /\ nextId \in Int /\ old \in Int /\ old < nextId
        /\ \A x \in rows : x.id \in Int /\ x.id < nextId
    BY RowTypes DEF IInv, Snapshots
  <1>3. rows' = Without({old}) \cup {new}
    BY DEF new
  <1>4. IdsOf(rows') = (IdsOf(rows) \ {old}) \cup {nextId}
    BY <1>1, <1>3 DEF IdsOf, Without
  <1>5. \A y \in rows' :
          /\ y.id \in {nextId} \/ \E x \in rows : x.id = y.id /\ x.tbl = y.tbl /\ x.size = y.size
          /\ OnSlot(y)
    BY <1>1, <1>3 DEF Without, OnSlot, PlacesInv
  <1>6. \A p \in Positions : \A m \in {racks'[p].miner, racks'[p].blocked} \ {Null} :
           \/ \E y \in In("RACK")' : y.id = m
           \/ m \in {racks[p].miner, racks[p].blocked} \ {old}
    BY <1>1, <1>3 DEF In
  <1>7. /\ IsFiniteSet({old}) /\ IsFiniteSet({nextId})
        /\ Cardinality({old}) = Cardinality({nextId})
    BY FS_Singleton
  <1> DEFINE gone == {old}
             born == {nextId}
  <1>8. Commit(r, gone, born)
    <2>1. gone \subseteq IdsOf(rows) /\ nextId' >= nextId
      BY <1>2
    <2>2. \A i \in born : i \in Int /\ nextId <= i
      BY <1>2
    <2> HIDE DEF gone, born
    <2> QED BY <1>4, <1>5, <1>6, <1>7, <2>1, <2>2 DEF Commit, gone, born
  <1> QED BY <1>8, CommitPlaces

\* What the numbering of the displaced machines adds to the ids.
LEMMA DisplacedIds ==
  ASSUME IInv, PlacesInv, NEW r \in Requests, InTransaction(r), Ceiling(r) <= MaxId + 1,
         NEW f \in Numberings(job[r].seen)
  PROVE  /\ IdsOf(Out(r, f)) = Im(r, f)
         /\ IsFiniteSet(Im(r, f)) /\ IsFiniteSet(IdsOf(job[r].seen))
         /\ Cardinality(Im(r, f)) = Cardinality(IdsOf(job[r].seen))
         /\ job[r].row.id \notin IdsOf(job[r].seen)
         /\ \A i \in Im(r, f) : i \in Int /\ nextId <= i /\ i < Ceiling(r)
         /\ \A b \in Out(r, f) : b.tbl = "INVENTORY" /\ b.id \in Im(r, f)
         /\ nextId <= Ceiling(r) /\ Ceiling(r) \in Int
  <1>1. IsFiniteSet(job[r].seen)
    BY SnapshotFacts
  <1>2. \A y, z \in job[r].seen : y.id = z.id => y = z
    BY DEF PlacesInv, SeenRows, Displaces
  <1>3. IsFiniteSet(IdsOf(job[r].seen)) /\ Cardinality(IdsOf(job[r].seen)) = Cardinality(job[r].seen)
    BY <1>1, <1>2, CountIds
  <1>4. IsFiniteSet(Im(r, f)) /\ Cardinality(Im(r, f)) = Cardinality(job[r].seen)
    BY <1>1, CountNumbering DEF Im
  <1>5. job[r].row.id \notin IdsOf(job[r].seen)
    BY DEF PlacesInv, SeenRows, Displaces, IdsOf
  <1>6. IdsOf(Out(r, f)) = Im(r, f)
    <2>1. \A m \in job[r].seen : FreshInventory(f[m], m.size).id = f[m]
      BY DEF FreshInventory, NewRow
    <2> QED BY <2>1 DEF IdsOf, Out, Im
  <1>7. /\ nextId <= Ceiling(r) /\ Ceiling(r) \in Int /\ nextId \in Int
        /\ Im(r, f) \subseteq nextId .. Ceiling(r) - 1
        /\ \A b \in Out(r, f) : b.tbl = "INVENTORY" /\ b.id = b.om /\ b.om \in Im(r, f)
    BY DisplacedFacts, RowTypes
  <1>8. \A b \in Out(r, f) : b.tbl = "INVENTORY" /\ b.id \in Im(r, f)
    BY <1>7
  <1>9. \A i \in Im(r, f) : i \in Int /\ nextId <= i /\ i < Ceiling(r)
    BY <1>7
  <1> QED BY <1>3, <1>4, <1>5, <1>6, <1>7, <1>8, <1>9

LEMMA PlacePlaces ==
  ASSUME IInv, PlacesInv, IInv', NEW r \in Requests, InTransaction(r),
         job[r].op \in {"install", "retrieveRack"}, PlaceOnSlot(r)
  PROVE  PlacesInv'
  <1> DEFINE S    == IdsOf(job[r].seen)
             n    == Ceiling(r)
             old  == job[r].row.id
             om   == EnsureOwned(job[r].row, n)
             new  == NewRow(n, "RACK", om, job[r].row.size, job[r].slot)
  <1>1. /\ n <= MaxId
        /\ old \in IdsOf(rows) /\ S \subseteq IdsOf(rows)
        /\ racks' = Release(S)
        /\ nextId' = n + 1 /\ count' = count
        /\ ToSync(r)
    BY DEF PlaceOnSlot, Live, IdsOf, Ceiling
  <1>2. PICK f \in Numberings(job[r].seen) : rows' = Without(S \cup {old}) \cup Out(r, f) \cup {new}
    BY DEF PlaceOnSlot, Ceiling, Out
  <1>3. n <= MaxId + 1
    BY <1>1, SnapshotFacts, FS_CardinalityType, MaxIdAssumption DEF IInv, Columns, Ceiling
  <1> DEFINE im   == Im(r, f)
             out  == Out(r, f)
             gone == S \cup {old}
             born == im \cup {n}
  <1>4. /\ IdsOf(out) = im
        /\ IsFiniteSet(im) /\ IsFiniteSet(S) /\ Cardinality(im) = Cardinality(S)
        /\ old \notin S
        /\ \A i \in im : i \in Int /\ nextId <= i /\ i < n
        /\ \A b \in out : b.tbl = "INVENTORY" /\ b.id \in im
        /\ nextId <= n /\ n \in Int
    BY <1>3, DisplacedIds
  <1>5. new.id = n /\ new.size = job[r].row.size /\ new.slot = job[r].slot /\ new.tbl = "RACK"
    BY DEF NewRow
  <1>6. Fits(job[r].row.size, job[r].slot)
    BY DEF PlacesInv, SeenRows, AimOf
  <1> HIDE DEF S, n, old, new, im, out
  <1>7. rows' = Without(gone) \cup out \cup {new}
    BY <1>2 DEF out
  <1>8. /\ IsFiniteSet(gone) /\ IsFiniteSet(born) /\ Cardinality(born) = Cardinality(gone)
    <2>1. n \notin im
      BY <1>4
    <2>2. IsFiniteSet(born) /\ Cardinality(born) = Cardinality(im) + 1
      BY <1>4, <2>1, FS_AddElement
    <2>3. IsFiniteSet(gone) /\ Cardinality(gone) = Cardinality(S) + 1
      BY <1>4, FS_AddElement
    <2> QED BY <1>4, <2>2, <2>3
  <1>9. IdsOf(rows') = (IdsOf(rows) \ gone) \cup born
    <2>1. IdsOf(rows') = IdsOf(Without(gone)) \cup IdsOf(out) \cup IdsOf({new})
      BY <1>7 DEF IdsOf
    <2>2. IdsOf(Without(gone)) = IdsOf(rows) \ gone
      BY DEF IdsOf, Without
    <2>3. IdsOf({new}) = {n}
      BY <1>5 DEF IdsOf
    <2> QED BY <1>4, <2>1, <2>2, <2>3
  <1>10. \A y \in rows' :
          /\ y.id \in born \/ \E x \in rows : x.id = y.id /\ x.tbl = y.tbl /\ x.size = y.size
          /\ OnSlot(y)
    BY <1>4, <1>5, <1>6, <1>7 DEF Without, OnSlot, PlacesInv
  <1>11. \A p \in Positions : \A m \in {racks'[p].miner, racks'[p].blocked} \ {Null} :
           m \in {racks[p].miner, racks[p].blocked} \ gone
    <2> SUFFICES ASSUME NEW p \in Positions,
                        NEW m \in {racks[p].miner, racks[p].blocked} \ {Null}
                 PROVE  m # old
      BY <1>1, ReleaseHolds
    <2>1. PICK x \in rows : x.tbl = "RACK" /\ x.id = m
      BY DEF PlacesInv, NoDanglingRack, In
    <2>2. \A y \in rows : y.id = old => y.tbl # "RACK"
      BY DEF PlacesInv, ReadRow, TableOf, old
    <2> QED BY <2>1, <2>2
  <1>12. Commit(r, gone, born)
    <2>1. gone \subseteq IdsOf(rows)
      BY <1>1
    <2>2. \A i \in born : i \in Int /\ nextId <= i
      BY <1>4
    <2>3. nextId' >= nextId
      BY <1>1, <1>4, RowTypes
    <2> HIDE DEF gone, born
    <2> QED BY <1>1, <1>8, <1>9, <1>10, <1>11, <2>1, <2>2, <2>3, CommitJobs DEF Commit
  <1> QED BY <1>12, CommitPlaces

LEMMA MovePlaces ==
  ASSUME IInv, PlacesInv, IInv', NEW r \in Requests, InTransaction(r),
         job[r].op = "move", CommitMove(r)
  PROVE  PlacesInv'
  <1> DEFINE S     == IdsOf(job[r].seen)
             n     == Ceiling(r)
             old   == job[r].row.id
             moved == {[x EXCEPT !.slot = job[r].slot] : x \in {y \in rows : y.id = old}}
  <1>1. /\ n <= MaxId + 1
        /\ old \in IdsOf(rows) /\ S \subseteq IdsOf(rows)
        /\ racks' = Release(S)
        /\ nextId' = n /\ count' = count
        /\ ToSync(r)
    BY DEF CommitMove, Live, IdsOf, Ceiling
  <1>2. PICK f \in Numberings(job[r].seen) : rows' = Without(S \cup {old}) \cup Out(r, f) \cup moved
    BY DEF CommitMove, Out
  <1> DEFINE im  == Im(r, f)
             out == Out(r, f)
  <1>3. /\ IdsOf(out) = im
        /\ IsFiniteSet(im) /\ IsFiniteSet(S) /\ Cardinality(im) = Cardinality(S)
        /\ old \notin S
        /\ \A i \in im : i \in Int /\ nextId <= i
        /\ \A b \in out : b.tbl = "INVENTORY" /\ b.id \in im
        /\ nextId <= n /\ n \in Int
    <2>1. n <= MaxId + 1
      BY <1>1
    <2> HIDE DEF moved
    <2> QED BY <2>1, DisplacedIds
  <1>4. Fits(job[r].row.size, job[r].slot)
    BY DEF PlacesInv, SeenRows, AimOf
  <1>5. \A y \in moved : \E x \in rows : x.id = old /\ y = [x EXCEPT !.slot = job[r].slot]
    OBVIOUS
  <1>6. \A x \in rows : x \in Row
    BY RowTypes
  <1>7. \A y \in moved : /\ y.id = old /\ y.slot = job[r].slot
                         /\ \E x \in rows : x.id = y.id /\ x.tbl = y.tbl /\ x.size = y.size
    BY <1>5, <1>6 DEF Row
  <1>8. IdsOf(moved) = {old}
    <2>1. PICK x \in rows : x.id = old
      BY <1>1 DEF IdsOf
    <2>2. moved # {}
      BY <2>1
    <2> QED BY <1>7, <2>2 DEF IdsOf
  <1> HIDE DEF S, n, im, out, moved
  <1>9. rows' = Without(S \cup {old}) \cup out \cup moved
    BY <1>2 DEF out
  <1>10. IdsOf(rows') = (IdsOf(rows) \ S) \cup im
    <2>1. IdsOf(rows') = IdsOf(Without(S \cup {old})) \cup IdsOf(out) \cup IdsOf(moved)
      BY <1>9 DEF IdsOf
    <2>2. IdsOf(Without(S \cup {old})) = IdsOf(rows) \ (S \cup {old})
      BY DEF IdsOf, Without
    <2> QED BY <1>1, <1>3, <1>8, <2>1, <2>2
  <1>11. \A y \in rows' :
          /\ y.id \in im \/ \E x \in rows : x.id = y.id /\ x.tbl = y.tbl /\ x.size = y.size
          /\ OnSlot(y)
    <2> SUFFICES ASSUME NEW y \in rows'
                 PROVE  /\ y.id \in im \/ \E x \in rows : x.id = y.id /\ x.tbl = y.tbl /\ x.size = y.size
                        /\ OnSlot(y)
      OBVIOUS
    <2>1. CASE y \in Without(S \cup {old})
      BY <2>1 DEF Without, PlacesInv
    <2>2. CASE y \in out
      BY <1>3, <2>2 DEF OnSlot
    <2>3. CASE y \in moved
      <3>1. PICK x \in rows : x.id = y.id /\ x.tbl = y.tbl /\ x.size = y.size
        BY <1>7, <2>3
      <3>2. y.tbl = "RACK" /\ y.slot = job[r].slot
        BY <1>7, <2>3, <3>1 DEF PlacesInv, ReadRow, TableOf
      <3>3. y.size = job[r].row.size
        BY <1>7, <2>3, <3>1 DEF PlacesInv, ReadRow
      <3> QED BY <1>4, <3>1, <3>2, <3>3 DEF OnSlot
    <2> QED BY <1>9, <2>1, <2>2, <2>3
  <1>12. \A p \in Positions : \A m \in {racks'[p].miner, racks'[p].blocked} \ {Null} :
           m \in {racks[p].miner, racks[p].blocked} \ S
    BY <1>1, ReleaseHolds
  <1>13. Commit(r, S, im)
    <2>1. nextId' >= nextId
      BY <1>1, <1>3, RowTypes
    <2> HIDE DEF old
    <2> QED BY <1>1, <1>3, <1>10, <1>11, <1>12, <2>1, CommitJobs DEF Commit
  <1> QED BY <1>13, CommitPlaces

LEMMA TogglePlaces ==
  ASSUME IInv, PlacesInv, IInv', NEW r \in Requests, CommitToggle(r)
  PROVE  PlacesInv'
  <1> DEFINE g(x) == [x EXCEPT !.active = IF x.id = job[r].row.id
                                    THEN job[r].op = "toggleOn" ELSE x.active]
             none == {}
  <1>1. /\ rows' = {g(x) : x \in rows}
        /\ ToSync(r)
        /\ UNCHANGED <<racks, nextId, count>>
    BY DEF CommitToggle
  <1>2. \A x \in rows : g(x).id = x.id /\ g(x).tbl = x.tbl /\ g(x).size = x.size /\ g(x).slot = x.slot
    BY RowTypes DEF Row
  <1> HIDE DEF g
  <1>3. \A y \in rows' : \E x \in rows : y = g(x)
    BY <1>1
  <1>4. \A y \in rows' : /\ \E x \in rows : x.id = y.id /\ x.tbl = y.tbl /\ x.size = y.size
                         /\ OnSlot(y)
    BY <1>2, <1>3 DEF OnSlot, PlacesInv
  <1>5. IdsOf(rows') = IdsOf(rows)
    BY <1>1, <1>2 DEF IdsOf
  <1>6. \A p \in Positions : \A m \in {racks'[p].miner, racks'[p].blocked} \ {Null} :
           m \in {racks[p].miner, racks[p].blocked}
    BY <1>1
  <1>7. IsFiniteSet(none) /\ IdsOf(rows') = (IdsOf(rows) \ none) \cup none
    BY <1>5, FS_EmptySet
  <1>8. Commit(r, none, none)
    <2>1. /\ none \subseteq IdsOf(rows)
          /\ \A i \in none : i \in Int /\ nextId <= i
          /\ \A p \in Positions : \A m \in {racks'[p].miner, racks'[p].blocked} \ {Null} :
               m \in {racks[p].miner, racks[p].blocked} \ none
      BY <1>6
    <2>2. nextId' >= nextId /\ count' = count
      BY <1>1, RowTypes
    <2> HIDE DEF none
    <2> QED BY <1>1, <1>4, <1>7, <2>1, <2>2, CommitJobs DEF Commit
  <1> HIDE DEF none
  <1> QED BY <1>8, CommitPlaces

LEMMA CommitsPlaces ==
  ASSUME IInv, PlacesInv, IInv', NEW r \in Requests, Commits(r)
  PROVE  PlacesInv'
  <1> DEFINE old == job[r].row.id
             Held(p, m) == m \in {racks[p].miner, racks[p].blocked} \ {old}
             Moved(to, slot) ==
               /\ InTransaction(r)
               /\ old \in IdsOf(rows)
               /\ \E om : rows' = Without({old}) \cup {NewRow(nextId, to, om, job[r].row.size, slot)}
               /\ to = "RACK" => slot \notin LegacySlots
               /\ nextId' = nextId + 1 /\ count' = count
               /\ ToSync(r) \/ Done(r)
               /\ \A p \in Positions : \A m \in {racks'[p].miner, racks'[p].blocked} \ {Null} :
                    (m = nextId /\ to = "RACK") \/ Held(p, m)
  <1>1. ASSUME NEW to, NEW slot, Moved(to, slot) PROVE PlacesInv'
    <2>1. PICK om : rows' = Without({old}) \cup {NewRow(nextId, to, om, job[r].row.size, slot)}
      BY <1>1
    <2>2. /\ \A q \in Requests : q # r => job'[q] = job[q]
          /\ job'[r].pc \notin {"prev", "commit"}
      BY <1>1, CommitJobs
    <2>3. /\ InTransaction(r) /\ old \in IdsOf(rows)
          /\ to = "RACK" => slot \notin LegacySlots
          /\ nextId' = nextId + 1 /\ count' = count
          /\ \A p \in Positions : \A m \in {racks'[p].miner, racks'[p].blocked} \ {Null} :
               (m = nextId /\ to = "RACK") \/ Held(p, m)
      BY <1>1
    <2> QED BY <2>1, <2>2, <2>3, TransferPlaces
  <1>2. ASSUME NEW op, Committing(r, op) PROVE InTransaction(r) /\ job[r].op = op
    BY <1>2 DEF Committing, InTransaction
  <1>3. ASSUME NEW to, Transfer(r, to)
        PROVE  /\ old \in IdsOf(rows)
               /\ \E om : rows' = Without({old}) \cup {NewRow(nextId, to, om, job[r].row.size, NoSlot)}
               /\ nextId' = nextId + 1 /\ count' = count
    BY <1>3 DEF Transfer, Live, IdsOf
  <1>4. NoSlot \notin LegacySlots
    BY NumSlotsAssumption DEF NoSlot, LegacySlots
  <1>5. ASSUME InTransaction(r), TableOf(job[r].op) # "RACK", NEW p \in Positions,
               NEW m \in {racks[p].miner, racks[p].blocked} \ {Null}
        PROVE  Held(p, m)
    <2>1. PICK x \in rows : x.tbl = "RACK" /\ x.id = m
      BY DEF PlacesInv, NoDanglingRack, In
    <2>2. x.id # old
      BY <1>5, <2>1 DEF PlacesInv, ReadRow
    <2> QED BY <1>5, <2>1, <2>2
  <1>6. CASE CommitInstall(r)
    BY <1>2, <1>6, PlacePlaces DEF CommitInstall
  <1>7. CASE CommitRetrieveToRack(r)
    BY <1>2, <1>7, PlacePlaces DEF CommitRetrieveToRack
  <1>8. CASE CommitMove(r)
    BY <1>2, <1>8, MovePlaces DEF CommitMove
  <1>9. CASE CommitToggle(r)
    BY <1>9, TogglePlaces
  <1>10. CASE CommitStoreInventory(r)
    <2>1. job[r].op = "storeInventory" /\ InTransaction(r) /\ racks' = racks
      BY <1>2, <1>10 DEF CommitStoreInventory
    <2>2. \A p \in Positions : \A m \in {racks'[p].miner, racks'[p].blocked} \ {Null} : Held(p, m)
      BY <1>5, <2>1 DEF TableOf
    <2>3. Moved("WAREHOUSE", NoSlot)
      BY <1>3, <1>10, <2>1, <2>2 DEF CommitStoreInventory
    <2> QED BY <1>1, <2>3
  <1>11. CASE CommitRetrieveToInventory(r)
    <2>1. job[r].op = "retrieveInventory" /\ InTransaction(r) /\ racks' = racks
      BY <1>2, <1>11 DEF CommitRetrieveToInventory
    <2>2. \A p \in Positions : \A m \in {racks'[p].miner, racks'[p].blocked} \ {Null} : Held(p, m)
      BY <1>5, <2>1 DEF TableOf
    <2>3. Moved("INVENTORY", NoSlot)
      BY <1>3, <1>11, <2>1, <2>2 DEF CommitRetrieveToInventory
    <2> QED BY <1>1, <2>3
  <1>12. CASE CommitStoreRack(r)
    <2>1. \A p \in Positions : \A m \in {racks'[p].miner, racks'[p].blocked} \ {Null} : Held(p, m)
      BY <1>12, ReleaseHolds DEF CommitStoreRack
    <2>2. Moved("WAREHOUSE", NoSlot)
      BY <1>2, <1>3, <1>12, <2>1 DEF CommitStoreRack
    <2> QED BY <1>1, <2>2
  <1>13. CASE CommitRemove(r)
    <2>1. \A p \in Positions : \A m \in {racks'[p].miner, racks'[p].blocked} \ {Null} : Held(p, m)
      BY <1>13, ReleaseHolds DEF CommitRemove
    <2>2. Moved("INVENTORY", NoSlot)
      BY <1>2, <1>3, <1>13, <2>1 DEF CommitRemove
    <2> QED BY <1>1, <2>2
  <1>14. CASE CommitRoomUninstall(r)
    <2>1. \A p \in Positions : \A m \in {racks'[p].miner, racks'[p].blocked} \ {Null} : Held(p, m)
      <3>1. racks' = [Release({old}) EXCEPT ![job[r].slot - RoomBase].miner = Null]
        BY <1>14 DEF CommitRoomUninstall
      <3>2. \A p \in Positions :
              /\ racks'[p].miner \in {Null, Release({old})[p].miner}
              /\ racks'[p].blocked = Release({old})[p].blocked
        BY <3>1 DEF Release
      <3>3. \A p \in Positions : \A m \in {Release({old})[p].miner, Release({old})[p].blocked} \ {Null} :
              Held(p, m)
        BY DEF Release
      <3> HIDE DEF Held
      <3> QED BY <3>2, <3>3
    <2>2. Moved("INVENTORY", NoSlot)
      BY <1>2, <1>3, <1>14, <2>1 DEF CommitRoomUninstall
    <2> QED BY <1>1, <2>2
  <1>15. CASE CommitRoomInstall(r)
    <2>1. job[r].op = "roomInstall" /\ InTransaction(r)
      BY <1>2, <1>15 DEF CommitRoomInstall
    <2>2. job[r].slot \notin LegacySlots
      BY <2>1, NumSlotsAssumption, NumRacksAssumption, RoomBaseAssumption
         DEF PlacesInv, SeenRows, AimOf, RoomSlots, Positions, LegacySlots, RoomBase
    <2>3. \A p \in Positions : \A m \in {racks'[p].miner, racks'[p].blocked} \ {Null} :
            m = nextId \/ Held(p, m)
      <3>1. \A p \in Positions : /\ racks'[p].miner \in {nextId, racks[p].miner}
                                 /\ racks'[p].blocked \in {nextId, racks[p].blocked}
        BY <1>15 DEF CommitRoomInstall
      <3>2. \A p \in Positions : \A m \in {racks[p].miner, racks[p].blocked} \ {Null} : Held(p, m)
        BY <1>5, <2>1 DEF TableOf
      <3> HIDE DEF Held
      <3> QED BY <3>1, <3>2
    <2>4. Moved("RACK", job[r].slot)
      BY <1>15, <2>1, <2>2, <2>3 DEF CommitRoomInstall, Live, IdsOf
    <2> QED BY <1>1, <2>4
  <1> QED BY <1>6, <1>7, <1>8, <1>9, <1>10, <1>11, <1>12, <1>13, <1>14, <1>15 DEF Commits

LEMMA GrantPlaces ==
  ASSUME IInv, PlacesInv, IInv', Grant
  PROVE  PlacesInv'
  <1>1. PICK size \in {1, 2} : rows' = rows \cup {FreshInventory(nextId, size)}
    BY DEF Grant
  <1> DEFINE new == FreshInventory(nextId, size)
  <1>2. new.id = nextId /\ new.tbl = "INVENTORY"
    BY DEF FreshInventory, NewRow
  <1> HIDE DEF new
  <1>3. /\ rows' = rows \cup {new}
        /\ nextId' = nextId + 1 /\ count' = count + 1
        /\ racks' = racks /\ job' = job
    BY <1>1 DEF Grant, new
  <1>4. nextId \in Int /\ \A x \in rows : x.id < nextId /\ x.id \in Int
    BY RowTypes
  <1>5. ReadRow'
    <2> SUFFICES ASSUME NEW q \in Requests, InTransaction(q), NEW y \in rows', y.id = job[q].row.id
                 PROVE  y.tbl = TableOf(job[q].op) /\ y.size = job[q].row.size
      BY <1>3 DEF ReadRow, InTransaction
    <2>1. job[q].row.id < nextId
      BY DEF IInv, Snapshots
    <2> QED BY <1>2, <1>3, <1>4, <2>1 DEF PlacesInv, ReadRow
  <1>6. SeenRows'
    <2> SUFFICES ASSUME NEW q \in Requests, InTransaction(q)
                 PROVE  \A y \in job[q].seen : Displaces(q, y)'
      BY <1>3 DEF SeenRows, PlacesInv, InTransaction
    <2>1. \A y \in job[q].seen : Displaces(q, y) /\ y.id \in Int
      BY RowTypes DEF PlacesInv, SeenRows
    <2> QED BY <1>2, <1>3, <1>4, <2>1 DEF Displaces
  <1>7. \A y \in rows' : OnSlot(y)
    BY <1>2, <1>3 DEF OnSlot, PlacesInv
  <1>8. NoDanglingRack'
    BY <1>3 DEF NoDanglingRack, In, PlacesInv
  <1>9. MachinesConserved'
    <2>1. new \notin rows
      BY <1>2, <1>4
    <2>2. Cardinality(rows \cup {new}) = Cardinality(rows) + 1
      BY <2>1, FS_AddElement DEF IInv, RowsFinite
    <2> QED BY <1>3, <2>2 DEF PlacesInv, MachinesConserved
  <1> QED BY <1>5, <1>6, <1>7, <1>8, <1>9 DEF PlacesInv, OnSlot

LEMMA DiscardPlaces ==
  ASSUME IInv, PlacesInv, IInv', Discard
  PROVE  PlacesInv'
  <1>1. PICK i \in In("INVENTORY") : rows' = rows \ {i}
    BY DEF Discard
  <1>2. /\ i \in rows /\ i.tbl = "INVENTORY"
        /\ UNCHANGED <<racks, nextId, job>> /\ count' = count - 1
    BY DEF Discard, In
  <1>3. ReadRow'
    BY <1>1, <1>2 DEF PlacesInv, ReadRow, InTransaction
  <1>4. SeenRows'
    BY <1>1, <1>2 DEF PlacesInv, SeenRows, InTransaction, Displaces
  <1>5. \A y \in rows' : OnSlot(y)
    BY <1>1 DEF PlacesInv
  <1>6. NoDanglingRack'
    BY <1>1, <1>2 DEF NoDanglingRack, In, PlacesInv
  <1>7. MachinesConserved'
    <2>1. Cardinality(rows \ {i}) = Cardinality(rows) - 1
      BY <1>2, FS_RemoveElement DEF IInv, RowsFinite
    <2> QED BY <1>1, <1>2, <2>1 DEF PlacesInv, MachinesConserved
  <1> QED BY <1>3, <1>4, <1>5, <1>6, <1>7 DEF PlacesInv, OnSlot

LEMMA InitPlaces == Init => PlacesInv
  <1> SUFFICES ASSUME Init PROVE PlacesInv
    OBVIOUS
  <1>1. ReadRow /\ SeenRows
    BY DEF Init, ReadRow, SeenRows, InTransaction, Idle, At
  <1>2. NoDanglingRack /\ MachinesConserved
    BY DEF Init, NoDanglingRack, MachinesConserved
  <1>3. \A x \in rows : OnSlot(x)
    <2>1. ASSUME NEW id, NEW tbl, NEW om, NEW size, NEW slot \in {NoSlot, 0}
          PROVE  OnSlot(Placed(id, tbl, om, size, slot))
      <3>1. NoSlot \notin LegacySlots
        BY NumSlotsAssumption DEF NoSlot, LegacySlots
      <3>2. Fits(size, 0)
        BY DEF Fits
      <3> QED BY <3>1, <3>2 DEF OnSlot, Placed
    <2> QED BY <2>1 DEF Init, Accounts
  <1> QED BY <1>1, <1>2, <1>3 DEF PlacesInv

LEMMA NextPlaces == IInv /\ PlacesInv /\ [Next]_vars => PlacesInv'
  <1> SUFFICES ASSUME IInv, PlacesInv, [Next]_vars PROVE PlacesInv'
    OBVIOUS
  <1>1. IInv'
    BY NextIInv
  <1>2. ASSUME NEW r \in Requests, Abort(r) \/ SyncRead(r) \/ SyncAssign(r) \/ SyncFail(r)
        PROVE  PlacesInv'
    <2>1. UNCHANGED <<rows, racks, nextId, count>>
      BY <1>2 DEF Abort, SyncRead, SyncAssign, SyncFail
    <2>2. /\ \A q \in Requests : q # r => job'[q] = job[q]
          /\ job'[r].pc \notin {"prev", "commit"}
      BY <1>2, RowTypes DEF Abort, SyncRead, SyncAssign, SyncFail, Done, Idle, At, IInv, Columns, Job
    <2> QED BY <2>1, <2>2, SamePlaces
  <1>3. ASSUME NEW r \in Requests, Reads(r) PROVE PlacesInv'
    BY <1>3, ReadsPlaces
  <1>4. ASSUME NEW r \in Requests, Commits(r) PROVE PlacesInv'
    BY <1>1, <1>4, CommitsPlaces
  <1>5. CASE Grant
    BY <1>1, <1>5, GrantPlaces
  <1>6. CASE Discard
    BY <1>1, <1>6, DiscardPlaces
  <1>7. CASE UNCHANGED vars
    BY <1>7, SamePlaces DEF vars, held
  <1> QED BY <1>2, <1>3, <1>4, <1>5, <1>6, <1>7 DEF Next, Step

LEMMA Places == Spec => []PlacesInv
  BY InitPlaces, NextPlaces, Inductive, PTL DEF Spec

\* A rack of the room is occupied or blocked by a machine that is placed: every
\* deletion of a row on the racks releases what points to it.
THEOREM RacksReleased == Spec => []NoDanglingRack
  <1>1. PlacesInv => NoDanglingRack
    BY DEF PlacesInv
  <1> QED BY <1>1, Places, PTL

\* No placement, displacement or rollback loses a machine or makes two of it.
THEOREM Conserved == Spec => []MachinesConserved
  <1>1. PlacesInv => MachinesConserved
    BY DEF PlacesInv
  <1> QED BY <1>1, Places, PTL

-----------------------------------------------------------------------------
(***************************************************************************)
(* One request at a time.  What a request has checked before its           *)
(* transaction still holds when it commits, and between two reloads no     *)
(* rack changes.                                                           *)
(***************************************************************************)
Alone == \A q, r \in Requests : q = r \/ job[q].pc = "idle" \/ job[r].pc = "idle"

\* What the handlers of the room have checked of the rack they are about to
\* change.
RoomAim(r) ==
  LET p == job[r].slot - RoomBase
  IN  /\ InTransaction(r) /\ job[r].op = "roomInstall" =>
           /\ RackFree(p)
           /\ job[r].row.size = 2 => p + 1 \in Positions /\ RackFree(p + 1)
      /\ InTransaction(r) /\ job[r].op = "roomUninstall" => racks[p].miner = job[r].row.id

\* What a reload in progress is about to assign, and what was assigned.
Counted ==
  /\ \A r \in Requests : job[r].pc = "assign" => job[r].hash = ActiveIds
  /\ ~missed /\ (\A r \in Requests : job[r].pc \notin {"sync", "assign"}) => engine = ActiveIds

AloneInv ==
  /\ ~overlapped => Alone /\ Counted /\ \A r \in Requests : RoomAim(r)
  /\ RackExclusive

Blocks(p) ==
  racks[p].blocked # Null =>
    /\ racks[p].miner = Null
    /\ p - 1 \in Positions /\ racks[p - 1].miner = racks[p].blocked

-----------------------------------------------------------------------------
\* A release frees the rack a machine blocks together with the one it is on.
LEMMA ReleaseExclusive ==
  ASSUME Columns, NEW ids, racks' = Release(ids), \A p \in Positions : Blocks(p)
  PROVE  \A p \in Positions : Blocks(p)'
  <1> SUFFICES ASSUME NEW p \in Positions, racks'[p].blocked # Null
               PROVE  /\ racks'[p].miner = Null
                      /\ p - 1 \in Positions /\ racks'[p - 1].miner = racks'[p].blocked
    BY DEF Blocks
  <1>1. /\ racks'[p].blocked = racks[p].blocked /\ racks[p].blocked \notin ids
        /\ racks'[p].miner = IF racks[p].miner \in ids THEN Null ELSE racks[p].miner
    BY DEF Release
  <1>2. racks[p].miner = Null /\ p - 1 \in Positions /\ racks[p - 1].miner = racks[p].blocked
    BY <1>1 DEF Blocks
  <1>3. racks'[p - 1].miner = IF racks[p - 1].miner \in ids THEN Null ELSE racks[p - 1].miner
    BY <1>2 DEF Release
  <1> QED BY <1>1, <1>2, <1>3

\* The racks after the only request there is has committed.
LEMMA CommitsExclusive ==
  ASSUME IInv, PlacesInv, AloneInv, ~overlapped, NEW r \in Requests, Commits(r)
  PROVE  \A p \in Positions : Blocks(p)'
  <1>1. \A p \in Positions : Blocks(p)
    BY DEF AloneInv, RackExclusive, Blocks
  <1>2. Columns
    BY DEF IInv
  <1>3. ASSUME UNCHANGED racks PROVE \A p \in Positions : Blocks(p)'
    BY <1>1, <1>3 DEF Blocks
  <1>4. ASSUME NEW ids, racks' = Release(ids) PROVE \A p \in Positions : Blocks(p)'
    BY <1>1, <1>2, <1>4, ReleaseExclusive
  <1>5. CASE CommitInstall(r) \/ CommitRetrieveToRack(r)
    BY <1>4, <1>5 DEF CommitInstall, CommitRetrieveToRack, PlaceOnSlot
  <1>6. CASE CommitMove(r)
    BY <1>4, <1>6 DEF CommitMove
  <1>7. CASE CommitRetrieveToInventory(r) \/ CommitStoreInventory(r) \/ CommitToggle(r)
    BY <1>3, <1>7 DEF CommitRetrieveToInventory, CommitStoreInventory, CommitToggle
  <1>8. CASE CommitStoreRack(r) \/ CommitRemove(r)
    BY <1>4, <1>8 DEF CommitStoreRack, CommitRemove
  <1>9. CASE CommitRoomUninstall(r)
    <2> DEFINE ids == {job[r].row.id}
               p   == job[r].slot - RoomBase
    <2>1. racks' = [Release(ids) EXCEPT ![p].miner = Null]
      BY <1>9 DEF CommitRoomUninstall
    <2>2. racks[p].miner = job[r].row.id
      BY <1>9 DEF CommitRoomUninstall, Committing, InTransaction, AloneInv, RoomAim
    <2>3. Release(ids) \in [Positions -> [miner : Ids \cup {Null}, blocked : Ids \cup {Null}]]
      BY <1>2, ReleaseType
    <2>4. p \in Positions => Release(ids)[p].miner = Null
      BY <2>2 DEF Release
    <2> HIDE DEF ids, p
    <2>5. racks' = Release(ids)
      BY <2>1, <2>3, <2>4
    <2> QED BY <1>4, <2>5
  <1>10. CASE CommitRoomInstall(r)
    <2> DEFINE p    == job[r].slot - RoomBase
               size == job[r].row.size
    <2>1. racks' = [q \in Positions |->
                      [miner   |-> IF q = p THEN nextId ELSE racks[q].miner,
                       blocked |-> IF size = 2 /\ q = p + 1 THEN nextId ELSE racks[q].blocked]]
      BY <1>10 DEF CommitRoomInstall
    <2>2. RackFree(p) /\ (size = 2 => p + 1 \in Positions /\ RackFree(p + 1))
      BY <1>10 DEF CommitRoomInstall, Committing, InTransaction, AloneInv, RoomAim
    <2>3. p \in Positions /\ p \in Int
      <3>1. job[r].slot \in RoomSlots
        BY <1>10 DEF CommitRoomInstall, Committing, InTransaction, PlacesInv, SeenRows, AimOf
      <3>2. PICK q \in Positions : job[r].slot = RoomBase + q
        BY <3>1 DEF RoomSlots
      <3>3. q \in Int
        BY NumRacksAssumption DEF Positions
      <3> QED BY <3>2, <3>3 DEF RoomBase
    <2>4. nextId # Null
      BY <1>2 DEF Columns, Null
    <2> HIDE DEF p, size
    <2> SUFFICES ASSUME NEW q \in Positions, racks'[q].blocked # Null
                 PROVE  /\ racks'[q].miner = Null
                        /\ q - 1 \in Positions /\ racks'[q - 1].miner = racks'[q].blocked
      BY DEF Blocks
    <2>5. q \in Int
      BY NumRacksAssumption DEF Positions
    <2>6. CASE size = 2 /\ q = p + 1
      BY <2>1, <2>2, <2>3, <2>6 DEF RackFree
    <2>7. CASE ~ (size = 2 /\ q = p + 1)
      <3>1. racks'[q].blocked = racks[q].blocked
        BY <2>1, <2>7
      <3>2. racks[q].miner = Null /\ q - 1 \in Positions /\ racks[q - 1].miner = racks[q].blocked
        BY <1>1, <3>1 DEF Blocks
      <3>3. q # p /\ q - 1 # p
        BY <2>2, <3>1, <3>2 DEF RackFree
      <3> QED BY <2>1, <3>1, <3>2, <3>3
    <2> QED BY <2>6, <2>7
  <1> QED BY <1>5, <1>6, <1>7, <1>8, <1>9, <1>10 DEF Commits

\* No rack changes: a machine enters or leaves the inventory, or goes there
\* from the vault.
LEMMA SameActive ==
  ASSUME IInv, PlacesInv,
         Grant \/ Discard \/ \E r \in Requests : CommitRetrieveToInventory(r)
  PROVE  ActiveIds' = ActiveIds
  <1>1. ASSUME \A x : x.tbl = "RACK" => (x \in rows' <=> x \in rows)
        PROVE  ActiveIds' = ActiveIds
    BY <1>1 DEF ActiveIds, In
  <1>2. CASE Grant
    BY <1>1, <1>2 DEF Grant, FreshInventory, NewRow
  <1>3. CASE Discard
    BY <1>1, <1>3 DEF Discard, In
  <1>4. ASSUME NEW r \in Requests, CommitRetrieveToInventory(r) PROVE ActiveIds' = ActiveIds
    <2>1. job[r].op = "retrieveInventory" /\ InTransaction(r)
      BY <1>4 DEF CommitRetrieveToInventory, Committing, InTransaction
    <2>2. \A x \in rows : x.id = job[r].row.id => x.tbl = "WAREHOUSE"
      BY <2>1 DEF PlacesInv, ReadRow, TableOf
    <2>3. PICK om : rows' = Without({job[r].row.id})
                               \cup {NewRow(nextId, "INVENTORY", om, job[r].row.size, NoSlot)}
      BY <1>4 DEF CommitRetrieveToInventory, Transfer
    <2>4. NewRow(nextId, "INVENTORY", om, job[r].row.size, NoSlot).tbl = "INVENTORY"
      BY DEF NewRow
    <2> QED BY <1>1, <2>2, <2>3, <2>4 DEF Without
  <1> QED BY <1>2, <1>3, <1>4

\* A request on its own, that reads.
LEMMA ReadsAlone ==
  ASSUME IInv, AloneInv, ~overlapped, NEW r \in Requests, Reads(r)
  PROVE  /\ UNCHANGED <<rows, racks, engine, missed>>
         /\ InTransaction(r)'
         /\ job[r].pc \in {"idle", "prev"}
         /\ \A q \in Requests : q # r => job'[q] = job[q]
         /\ RoomAim(r)'
  <1>1. ASSUME NEW op, NEW pc \in {"prev", "commit"}, NEW row, NEW slot, NEW seen,
               Begin(r, op, pc, row, slot, seen),
               op = "roomInstall" => /\ RackFree(slot - RoomBase)
                                     /\ row.size = 2 => /\ slot - RoomBase + 1 \in Positions
                                                        /\ RackFree(slot - RoomBase + 1),
               op = "roomUninstall" => racks[slot - RoomBase].miner = row.id
        PROVE  /\ UNCHANGED <<rows, racks, engine, missed>>
               /\ InTransaction(r)'
               /\ job[r].pc \in {"idle", "prev"}
               /\ \A q \in Requests : q # r => job'[q] = job[q]
               /\ RoomAim(r)'
    <2>1. /\ job'[r] = [pc |-> pc, op |-> op, row |-> row, slot |-> slot, seen |-> seen, hash |-> {}]
          /\ \A q \in Requests : q # r => job'[q] = job[q]
          /\ job[r].pc = "idle"
          /\ UNCHANGED <<rows, racks, engine, missed>>
      BY <1>1 DEF Begin, IInv, Columns
    <2>2. RoomAim(r)'
      BY <1>1, <2>1 DEF RoomAim, RackFree
    <2> QED BY <1>1, <2>1, <2>2 DEF InTransaction
  <1>2. \A s : (IF s % 2 = 1 THEN "prev" ELSE "commit") \in {"prev", "commit"}
    OBVIOUS
  <1>3. CASE BeginInstall(r)
    BY <1>1, <1>2, <1>3 DEF BeginInstall
  <1>4. CASE BeginMove(r)
    BY <1>1, <1>2, <1>4 DEF BeginMove
  <1>5. CASE BeginRetrieveToRack(r) \/ BeginRetrieveToInventory(r) \/ BeginStoreInventory(r)
    BY <1>1, <1>5 DEF BeginRetrieveToRack, BeginRetrieveToInventory, BeginStoreInventory
  <1>6. CASE BeginStoreRack(r) \/ BeginRemove(r) \/ BeginToggle(r)
    BY <1>1, <1>6 DEF BeginStoreRack, BeginRemove, BeginToggle
  <1>7. CASE BeginRoomInstall(r)
    <2>1. PICK p \in Positions, i \in In("INVENTORY") :
            /\ RackFree(p)
            /\ i.size = 2 => p + 1 \in Positions /\ RackFree(p + 1)
            /\ Begin(r, "roomInstall", "commit", i, RoomBase + p, {})
      BY <1>7 DEF BeginRoomInstall
    <2> DEFINE s == RoomBase + p
    <2>2. s - RoomBase = p
      BY NumRacksAssumption DEF Positions, RoomBase
    <2>3. Begin(r, "roomInstall", "commit", i, s, {})
      BY <2>1
    <2> HIDE DEF s
    <2> QED BY <1>1, <2>1, <2>2, <2>3
  <1>8. CASE BeginRoomUninstall(r)
    <2>1. PICK p \in Positions, m \in In("RACK") :
            /\ racks[p].miner = m.id
            /\ Begin(r, "roomUninstall", "commit", m, RoomBase + p, {})
      BY <1>8 DEF BeginRoomUninstall
    <2> DEFINE s == RoomBase + p
    <2>2. s - RoomBase = p
      BY NumRacksAssumption DEF Positions, RoomBase
    <2>3. Begin(r, "roomUninstall", "commit", m, s, {})
      BY <2>1
    <2> HIDE DEF s
    <2> QED BY <1>1, <2>1, <2>2, <2>3
  <1>9. CASE ReadPrev(r)
    <2>1. /\ job'[r].pc = "commit" /\ job[r].pc = "prev"
          /\ job'[r].row = job[r].row /\ job'[r].op = job[r].op /\ job'[r].slot = job[r].slot
      BY <1>9, RowTypes DEF ReadPrev, Job, IInv, Columns
    <2>2. UNCHANGED <<rows, racks, engine, missed>>
      BY <1>9 DEF ReadPrev
    <2>3. \A q \in Requests : q # r => job'[q] = job[q]
      BY <1>9 DEF ReadPrev, IInv, Columns
    <2>4. RoomAim(r)'
      BY <2>1, <2>2 DEF AloneInv, RoomAim, InTransaction, RackFree
    <2> QED BY <2>1, <2>2, <2>3, <2>4 DEF InTransaction
  <1> QED BY <1>3, <1>4, <1>5, <1>6, <1>7, <1>8, <1>9 DEF Reads

LEMMA InitAlone == Init => AloneInv
  <1> SUFFICES ASSUME Init PROVE AloneInv
    OBVIOUS
  <1>1. \A r \in Requests : job[r].pc = "idle"
    BY DEF Init, Idle, At
  <1>2. Alone /\ \A r \in Requests : RoomAim(r)
    BY <1>1 DEF Alone, RoomAim, InTransaction
  <1>3. RackExclusive
    BY DEF Init, RackExclusive
  <1>4. \A x \in rows : x.active = (x.tbl = "RACK")
    <2>1. \A id, tbl, om, size, slot : LET x == Placed(id, tbl, om, size, slot)
                                      IN  x.active = (x.tbl = "RACK")
      BY DEF Placed
    <2>2. rows \in Accounts
      BY DEF Init
    <2> QED BY <2>1, <2>2 DEF Accounts
  <1>5. engine = ActiveIds
    <2>1. {x \in rows : x.active} = {x \in In("RACK") : x.active}
      BY <1>4 DEF In
    <2> QED BY <2>1 DEF Init, ActiveIds
  <1> QED BY <1>1, <1>2, <1>3, <1>5 DEF AloneInv, Counted

\* The requests other than r are idle, and r is where it was or moves on.
LEMMA NextAlone == IInv /\ PlacesInv /\ AloneInv /\ [Next]_vars => AloneInv'
  <1> SUFFICES ASSUME IInv, PlacesInv, AloneInv, [Next]_vars PROVE AloneInv'
    OBVIOUS
  <1>1. CASE UNCHANGED vars
    BY <1>1 DEF vars, held, AloneInv, Alone, Counted, RoomAim, RackExclusive, InTransaction, ActiveIds,
                In, RackFree
  <1>2. CASE Next /\ overlapped'
    BY <1>2 DEF AloneInv, RackExclusive
  <1>3. CASE Next /\ ~ overlapped'
    <2>1. ~ overlapped /\ Alone' /\ Alone /\ Counted
      BY <1>3 DEF Next, Overlap, Alone, AloneInv
    <2>2. \A p \in Positions : Blocks(p)
      BY <2>1 DEF AloneInv, RackExclusive, Blocks
    <2>3. SUFFICES Counted' /\ (\A r \in Requests : RoomAim(r)') /\ \A p \in Positions : Blocks(p)'
      BY <1>3, <2>1 DEF AloneInv, RackExclusive, Blocks
    <2>4. \A r \in Requests : RoomAim(r)
      BY <2>1 DEF AloneInv
    <2>5. ASSUME NEW r \in Requests, Reads(r)
          PROVE  Counted' /\ (\A q \in Requests : RoomAim(q)') /\ \A p \in Positions : Blocks(p)'
      <3>1. /\ UNCHANGED <<rows, racks, engine, missed>>
            /\ InTransaction(r)'
            /\ job[r].pc \in {"idle", "prev"}
            /\ \A q \in Requests : q # r => job'[q] = job[q]
            /\ RoomAim(r)'
        BY <2>1, <2>5, ReadsAlone
      <3>2. \A q \in Requests : RoomAim(q)'
        BY <2>4, <3>1 DEF RoomAim, InTransaction, RackFree
      <3>3. Counted'
        BY <2>1, <3>1 DEF Counted, ActiveIds, In, InTransaction
      <3> QED BY <2>2, <3>1, <3>2, <3>3 DEF Blocks
    <2>6. ASSUME NEW r \in Requests,
                 Commits(r) \/ Abort(r) \/ SyncRead(r) \/ SyncAssign(r) \/ SyncFail(r)
          PROVE  /\ \A q \in Requests : q # r => job'[q] = job[q] /\ job[q].pc = "idle"
                 /\ job'[r].pc \notin {"prev", "commit"}
                 /\ \A q \in Requests : RoomAim(q)'
      <3>1. job[r].pc # "idle"
        BY <2>6 DEF Commits, CommitInstall, CommitMove, CommitRetrieveToRack, CommitRetrieveToInventory,
                    CommitStoreInventory, CommitStoreRack, CommitRemove, CommitToggle, CommitRoomInstall,
                    CommitRoomUninstall, Committing, Abort, SyncRead, SyncAssign, SyncFail
      <3>2. \A q \in Requests : q # r => job[q].pc = "idle"
        BY <2>1, <3>1 DEF Alone
      <3>3. (\A q \in Requests : q # r => job'[q] = job[q]) /\ job'[r].pc \notin {"prev", "commit"}
        <4>1. CASE Commits(r)
          <5>1. ToSync(r) \/ Done(r)
            BY <4>1 DEF Commits, CommitInstall, CommitMove, CommitRetrieveToRack, CommitRetrieveToInventory,
                        CommitStoreInventory, CommitStoreRack, CommitRemove, CommitToggle, CommitRoomInstall,
                        CommitRoomUninstall, PlaceOnSlot
          <5> QED BY <5>1, CommitJobs
        <4>2. CASE Abort(r) \/ SyncRead(r) \/ SyncAssign(r) \/ SyncFail(r)
          BY <4>2, RowTypes DEF Abort, SyncRead, SyncAssign, SyncFail, Done, Idle, At, IInv, Columns, Job
        <4> QED BY <2>6, <4>1, <4>2
      <3>4. \A q \in Requests : ~ InTransaction(q)'
        BY <3>2, <3>3 DEF InTransaction
      <3> QED BY <3>2, <3>3, <3>4 DEF RoomAim
    <2>7. ASSUME NEW r \in Requests, Commits(r) PROVE Counted' /\ \A p \in Positions : Blocks(p)'
      <3>1. \A p \in Positions : Blocks(p)'
        BY <2>1, <2>7, CommitsExclusive
      <3>2. CASE CommitRetrieveToInventory(r)
        <4>1. ActiveIds' = ActiveIds /\ UNCHANGED <<engine, missed>> /\ job[r].pc = "commit"
          BY <3>2, SameActive DEF CommitRetrieveToInventory, Transfer, Committing
        <4>2. job'[r].pc = "idle"
          BY <3>2 DEF CommitRetrieveToInventory, Done, Idle, At, IInv, Columns
        <4> QED BY <2>1, <2>6, <2>7, <3>1, <4>1, <4>2 DEF Counted
      <3>3. CASE ~ CommitRetrieveToInventory(r)
        <4>1. ToSync(r)
          BY <2>7, <3>3 DEF Commits, CommitInstall, CommitMove, CommitRetrieveToRack,
                            CommitStoreInventory, CommitStoreRack, CommitRemove, CommitToggle,
                            CommitRoomInstall, CommitRoomUninstall, PlaceOnSlot
        <4>2. job'[r].pc = "sync"
          BY <4>1 DEF ToSync, At, IInv, Columns
        <4> QED BY <2>6, <2>7, <3>1, <4>2 DEF Counted
      <3> QED BY <3>2, <3>3
    <2>8. ASSUME NEW r \in Requests, Abort(r) \/ SyncRead(r) \/ SyncAssign(r) \/ SyncFail(r)
          PROVE  Counted' /\ \A p \in Positions : Blocks(p)'
      <3>1. UNCHANGED <<rows, racks>>
        BY <2>8 DEF Abort, SyncRead, SyncAssign, SyncFail
      <3>2. ActiveIds' = ActiveIds /\ \A p \in Positions : Blocks(p)'
        BY <2>2, <3>1 DEF ActiveIds, In, Blocks
      <3>3. \A q \in Requests : q # r => job'[q].pc = "idle" /\ job[q].pc = "idle"
        BY <2>6, <2>8
      <3>4. CASE Abort(r)
        <4>1. job[r].pc \in {"prev", "commit"} /\ job'[r].pc = "idle" /\ UNCHANGED <<engine, missed>>
          BY <3>4 DEF Abort, Done, Idle, At, IInv, Columns
        <4> QED BY <2>1, <3>2, <3>3, <4>1 DEF Counted
      <3>5. CASE SyncRead(r)
        <4>1. job'[r].pc = "assign" /\ job'[r].hash = ActiveIds
          BY <3>5, RowTypes DEF SyncRead, IInv, Columns, Job
        <4> QED BY <3>2, <3>3, <4>1 DEF Counted
      <3>6. CASE SyncAssign(r)
        <4>1. job[r].pc = "assign" /\ job'[r].pc = "idle" /\ engine' = job[r].hash
          BY <3>6 DEF SyncAssign, Done, Idle, At, IInv, Columns
        <4> QED BY <2>1, <3>2, <3>3, <4>1 DEF Counted
      <3>7. CASE SyncFail(r)
        <4>1. missed' /\ job'[r].pc = "idle"
          BY <3>7 DEF SyncFail, Done, Idle, At, IInv, Columns
        <4> QED BY <3>2, <3>3, <4>1 DEF Counted
      <3> QED BY <2>8, <3>4, <3>5, <3>6, <3>7
    <2>9. ASSUME Grant \/ Discard
          PROVE  Counted' /\ (\A r \in Requests : RoomAim(r)') /\ \A p \in Positions : Blocks(p)'
      <3>1. UNCHANGED <<racks, engine, job, missed>> /\ ActiveIds' = ActiveIds
        BY <2>9, SameActive DEF Grant, Discard
      <3> QED BY <2>1, <2>2, <2>4, <3>1 DEF Counted, RoomAim, InTransaction, RackFree, Blocks
    <2> QED BY <1>3, <2>5, <2>6, <2>7, <2>8, <2>9 DEF Next, Step
  <1> QED BY <1>1, <1>2, <1>3 DEF Next, Overlap, AloneInv

LEMMA OneAtATime == Spec => []AloneInv
  BY InitAlone, NextAlone, Inductive, Places, PTL DEF Spec

\* While requests come one at a time, a rack is not both occupied and blocked,
\* and the machine that blocks it stands on the rack before it.
THEOREM RacksConsistent == Spec => []RackExclusive
  <1>1. AloneInv => RackExclusive
    BY DEF AloneInv
  <1> QED BY <1>1, OneAtATime, PTL

\* While requests come one at a time, the engine counts exactly the machines
\* that are switched on, whenever no request is in progress, unless a reload
\* has failed.
THEOREM EngineCounts == Spec => []EngineFresh
  <1>1. AloneInv => EngineFresh
    BY DEF AloneInv, EngineFresh, Counted, Idle, At
  <1> QED BY <1>1, OneAtATime, PTL

=============================================================================
