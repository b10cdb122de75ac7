---------------------------- MODULE BuildingRecords ----------------------------
(***************************************************************************)
(* The records of the building registry as values: when one supersedes     *)
(* another, which announcement upsert_building takes and what it makes of   *)
(* the registry, and which file contents load_building_manifest takes.      *)
(*                                                                          *)
(* A registry is building_records_: a record, or NoRecord, for every        *)
(* foundation id.  A record's rectangle is a member of Plot, in blocks of    *)
(* the world; sums of coordinates are those of int64_t, in which none        *)
(* overflows.                                                               *)
(***************************************************************************)
EXTENDS Integers, FiniteSets

CONSTANTS
    Building,       \* foundation ids, 0 excluded
    Plot,           \* rectangles: min_x, min_z, width, depth
    HalfWord,       \* 2^31 in the code: half of the values of 32 bits
    Center,         \* guardian_center_chunk_x, guardian_center_chunk_z
    RegionChunks,   \* 100: the chunks along a side of a region
    chunk_size_blocks,
    NoRecord,       \* an id that building_records_ does not have
    LastRevision    \* UINT64_MAX

(* Ids are 64 bits wide. *)
ASSUME BuildingAssumption == IsFiniteSet(Building)

Int32 == -HalfWord .. HalfWord - 1

UInt32 == 0 .. 2 * HalfWord - 1

ASSUME PlotAssumption ==
    /\ HalfWord \in Nat \ {0}
    /\ Plot \subseteq [min_x : Int32, min_z : Int32, width : UInt32, depth : UInt32]

(* validate_config does not look at chunk_size_blocks; with 0 a region has  *)
(* no blocks.                                                               *)
ASSUME RegionAssumption ==
    /\ Center \in Int32 \X Int32
    /\ RegionChunks \in Nat \ {0}
    /\ chunk_size_blocks \in Nat \ {0}

ASSUME LastRevisionAssumption == LastRevision \in Nat \ {0}

Revision == 0 .. LastRevision

(* A record is refused at first sight if its flags are neither 0 nor 1, its *)
(* id is 0, or its content hash does not fit its active_revision.           *)
Flag == {"built", "removed", "refused"}

Record ==
    [ id     : Building,
      plot   : Plot,
      flags  : Flag,
      active : Nat,     \* active_revision
      slot   : Nat ]    \* updated_slot, 0 in files of version 1

ASSUME NoRecordAssumption == NoRecord \notin Record

Registry == [Building -> Record \cup {NoRecord}]

EmptyRegistry == [b \in Building |-> NoRecord]

Known(reg) == {b \in Building : reg[b] # NoRecord}

-----------------------------------------------------------------------------

(* building_record_is_newer: active_revision decides only between records  *)
(* that were never given a slot.                                            *)
IsNewer(next, previous) ==
    IF next.slot # 0 \/ previous.slot # 0
    THEN next.slot > previous.slot
    ELSE next.active > previous.active

MaxX(p) == p.min_x + p.width - 1

MaxZ(p) == p.min_z + p.depth - 1

(* building_rectangles_overlap *)
Overlaps(r, s) ==
    LET p == r.plot
        q == s.plot
    IN  /\ p.min_x <= MaxX(q) /\ MaxX(p) >= q.min_x
        /\ p.min_z <= MaxZ(q) /\ MaxZ(p) >= q.min_z

(* building_region_x_ and _z_ of a chunk: floor_div.                        *)
RegionOf(c) == c \div RegionChunks

(* The first and the last block of the region, along either axis.           *)
RegionMin(c) == RegionOf(c) * RegionChunks * chunk_size_blocks

RegionMax(c) == (RegionOf(c) * RegionChunks + RegionChunks) * chunk_size_blocks - 1

(* A rectangle ends in the world and meets the region. *)
MeetsRegion(p) ==
    /\ MaxX(p) < HalfWord /\ MaxZ(p) < HalfWord
    /\ p.min_x <= RegionMax(Center[1]) /\ MaxX(p) >= RegionMin(Center[1])
    /\ p.min_z <= RegionMax(Center[2]) /\ MaxZ(p) >= RegionMin(Center[2])

IsValid(r) ==
    r.flags = "built" /\ r.plot.width >= 2 /\ r.plot.depth >= 2 /\ MeetsRegion(r.plot)

(* Faulty variant: a known building may move over its neighbours. *)
UncheckedWhenKnown(reg, r) ==
    reg[r.id] # NoRecord \/ \A b \in Known(reg) : ~Overlaps(reg[b], r)

(* No other building is in the way. *)
HasRoom(reg, r) ==
    \A b \in Known(reg) \ {r.id} : ~Overlaps(reg[b], r)

(* upsert_building takes r: a removal of a record it has, an update of one, *)
(* or a new one if the registry is not full.                                *)
AcceptsRemoval(reg, r) ==
    /\ r.flags = "removed"
    /\ reg[r.id] # NoRecord
    /\ IsNewer(r, reg[r.id])

(* Faulty variant: an update need not be newer. *)
AcceptsAnyUpdate(reg, r) ==
    /\ IsValid(r)
    /\ reg[r.id] # NoRecord
    /\ HasRoom(reg, r)

AcceptsUpdate(reg, r) ==
    /\ IsValid(r)
    /\ reg[r.id] # NoRecord
    /\ IsNewer(r, reg[r.id])
    /\ HasRoom(reg, r)

AcceptsNew(reg, r, capacity) ==
    /\ IsValid(r)
    /\ reg[r.id] = NoRecord
    /\ Cardinality(Known(reg)) < capacity
    /\ HasRoom(reg, r)

Accepts(reg, r, capacity) ==
    \/ AcceptsRemoval(reg, r)
    \/ AcceptsUpdate(reg, r)
    \/ AcceptsNew(reg, r, capacity)

Upsert(reg, r) ==
    [reg EXCEPT ![r.id] = IF r.flags = "removed" THEN NoRecord ELSE r]

(* Faulty variant: the revision wraps to 0. *)
RevisionModulo(revision) ==
    IF revision = LastRevision THEN 0 ELSE revision + 1

NextRevision(revision) ==
    IF revision = LastRevision THEN 1 ELSE revision + 1

-----------------------------------------------------------------------------

NoOverlaps(reg) ==
    \A a, b \in Known(reg) : Overlaps(reg[a], reg[b]) => a = b

AllValid(reg) == \A b \in Known(reg) : reg[b].id = b /\ IsValid(reg[b])

(* load_building_manifest takes the records of a file all together or not   *)
(* at all.                                                                  *)
Loadable(reg, capacity) ==
    /\ Cardinality(Known(reg)) <= capacity
    /\ AllValid(reg)
    /\ NoOverlaps(reg)

-----------------------------------------------------------------------------
(* What the tests of rectangles are for. *)

(* The blocks that a building stands on. *)
Ground(p) == (p.min_x .. MaxX(p)) \X (p.min_z .. MaxZ(p))

(* The chunk of a block is in the same region as the Guardian's chunk.      *)
InRegion(b) ==
    /\ RegionOf(b[1] \div chunk_size_blocks) = RegionOf(Center[1])
    /\ RegionOf(b[2] \div chunk_size_blocks) = RegionOf(Center[2])

(* No two buildings stand on the same block. *)
Disjoint(reg) ==
    \A a, b \in Known(reg) : a # b => Ground(reg[a].plot) \cap Ground(reg[b].plot) = {}

(* Buildings are on the map, each at least partly in the region. *)
OnTheMap(reg) ==
    \A a \in Known(reg) :
        /\ Ground(reg[a].plot) \subseteq Int32 \X Int32
        /\ \E b \in Ground(reg[a].plot) : InRegion(b)

=============================================================================
