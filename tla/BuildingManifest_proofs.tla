------------------------ MODULE BuildingManifest_proofs ------------------------
(***************************************************************************)
(* Proofs about the building registry, for any foundations, rectangles,     *)
(* clients, capacities, files of older programs, and outcomes of writes.    *)
(***************************************************************************)
EXTENDS BuildingManifest, FiniteSetTheorems, TLAPS

(* The order of building_record_is_newer is strict: two announcements of a  *)
(* building cannot supersede each other in turns, and a chain of updates    *)
(* never comes back to where it was.                                        *)
THEOREM NewerIsStrictOrder ==
    ASSUME NEW r \in Record, NEW s \in Record, NEW t \in Record
    PROVE  /\ ~IsNewer(r, r)
           /\ IsNewer(r, s) => ~IsNewer(s, r)
           /\ IsNewer(r, s) /\ IsNewer(s, t) => IsNewer(r, t)
  BY DEF IsNewer, Record

-----------------------------------------------------------------------------
(* The ground *)

LEMMA PlotTyped ==
    ASSUME NEW p \in Plot
    PROVE  /\ p.min_x \in Int32 /\ p.min_z \in Int32 /\ Int32 \subseteq Int
           /\ p.width \in Nat /\ p.depth \in Nat
           /\ MaxX(p) \in Int /\ MaxZ(p) \in Int
<1>1. HalfWord \in Nat
  BY PlotAssumption
<1>2. /\ p.min_x \in Int32 /\ p.min_z \in Int32
      /\ p.width \in UInt32 /\ p.depth \in UInt32
  BY PlotAssumption
<1>3. Int32 \subseteq Int /\ UInt32 \subseteq Nat
  BY <1>1 DEF Int32, UInt32
<1>4. p.min_x \in Int /\ p.min_z \in Int /\ p.width \in Nat /\ p.depth \in Nat
  BY <1>2, <1>3
<1>5. MaxX(p) \in Int /\ MaxZ(p) \in Int
  BY <1>4 DEF MaxX, MaxZ
<1> QED BY <1>2, <1>3, <1>4, <1>5

LEMMA OverlapsSymmetric ==
    ASSUME NEW r, r.plot \in Plot, NEW s, s.plot \in Plot, Overlaps(r, s)
    PROVE  Overlaps(s, r)
<1> DEFINE p == r.plot
           q == s.plot
<1>1. /\ p.min_x \in Int /\ p.min_z \in Int /\ MaxX(p) \in Int /\ MaxZ(p) \in Int
      /\ q.min_x \in Int /\ q.min_z \in Int /\ MaxX(q) \in Int /\ MaxZ(q) \in Int
  BY PlotTyped
<1>2. /\ p.min_x <= MaxX(q) /\ MaxX(p) >= q.min_x
      /\ p.min_z <= MaxZ(q) /\ MaxZ(p) >= q.min_z
  BY DEF Overlaps
<1>3. /\ q.min_x <= MaxX(p) /\ MaxX(q) >= p.min_x
      /\ q.min_z <= MaxZ(p) /\ MaxZ(q) >= p.min_z
  BY <1>1, <1>2
<1> QED BY <1>3 DEF Overlaps

(* Two rectangles that are not empty overlap by the test of                 *)
(* building_rectangles_overlap if and only if some block is on both: no      *)
(* building takes the ground of another, and none is turned down for a      *)
(* neighbour that it does not touch.                                        *)
THEOREM OverlapIsSharedGround ==
    ASSUME NEW r, r.plot \in Plot, NEW s, s.plot \in Plot,
           r.plot.width >= 1, r.plot.depth >= 1, s.plot.width >= 1, s.plot.depth >= 1
    PROVE  Overlaps(r, s) <=> Ground(r.plot) \cap Ground(s.plot) # {}
<1> DEFINE p == r.plot
           q == s.plot
<1>1. /\ p.min_x \in Int /\ p.min_z \in Int /\ MaxX(p) \in Int /\ MaxZ(p) \in Int
      /\ q.min_x \in Int /\ q.min_z \in Int /\ MaxX(q) \in Int /\ MaxZ(q) \in Int
  BY PlotTyped
<1>2. /\ p.min_x <= MaxX(p) /\ p.min_z <= MaxZ(p)
      /\ q.min_x <= MaxX(q) /\ q.min_z <= MaxZ(q)
  BY <1>1, PlotTyped DEF MaxX, MaxZ
<1>3. ASSUME Overlaps(r, s)
      PROVE  Ground(p) \cap Ground(q) # {}
  <2> DEFINE x == IF p.min_x <= q.min_x THEN q.min_x ELSE p.min_x
             z == IF p.min_z <= q.min_z THEN q.min_z ELSE p.min_z
  <2>1. /\ p.min_x <= MaxX(q) /\ MaxX(p) >= q.min_x
        /\ p.min_z <= MaxZ(q) /\ MaxZ(p) >= q.min_z
    BY <1>3 DEF Overlaps
  <2> HIDE DEF p, q
  <2>2. x \in p.min_x .. MaxX(p) /\ x \in q.min_x .. MaxX(q)
    BY <1>1, <1>2, <2>1
  <2>3. z \in p.min_z .. MaxZ(p) /\ z \in q.min_z .. MaxZ(q)
    BY <1>1, <1>2, <2>1
  <2> HIDE DEF x, z
  <2>4. <<x, z>> \in Ground(p) /\ <<x, z>> \in Ground(q)
    BY <2>2, <2>3 DEF Ground
  <2> QED BY <2>4
<1>4. ASSUME NEW b \in Ground(p) \cap Ground(q)
      PROVE  Overlaps(r, s)
  <2>1. /\ b[1] \in p.min_x .. MaxX(p) /\ b[1] \in q.min_x .. MaxX(q)
        /\ b[2] \in p.min_z .. MaxZ(p) /\ b[2] \in q.min_z .. MaxZ(q)
    BY DEF Ground
  <2>2. /\ p.min_x <= MaxX(q) /\ MaxX(p) >= q.min_x
        /\ p.min_z <= MaxZ(q) /\ MaxZ(p) >= q.min_z
    BY <1>1, <2>1
  <2> QED BY <2>2 DEF Overlaps
<1> QED BY <1>3, <1>4

(* Blocks n to n + w - 1 are what divided by w is n \div w. *)
LEMMA Quotient ==
    ASSUME NEW w \in Nat \ {0}, NEW n \in Int, NEW k \in Int
    PROVE  n \div w = k <=> k * w <= n /\ n < k * w + w
OBVIOUS

(* RegionMin and RegionMax are the ends of the region's blocks along either *)
(* axis.                                                                    *)
LEMMA RegionEnds ==
    ASSUME NEW c \in Int, NEW n \in Int
    PROVE  /\ RegionMin(c) \in Int /\ RegionMax(c) \in Int /\ RegionMin(c) <= RegionMax(c)
           /\ RegionOf(n \div chunk_size_blocks) = RegionOf(c)
                 <=> RegionMin(c) <= n /\ n <= RegionMax(c)
<1> DEFINE s == chunk_size_blocks
           k == RegionChunks
           g == RegionOf(c)
           m == n \div s
           e == g * k
<1>1. s \in Nat \ {0} /\ k \in Nat \ {0}
  BY RegionAssumption
<1>2. g \in Int /\ m \in Int
  BY <1>1 DEF RegionOf
<1>3. RegionOf(m) = g <=> g * k <= m /\ m < g * k + k
  BY <1>1, <1>2, Quotient DEF RegionOf
<1>4. RegionMin(c) = e * s /\ RegionMax(c) = (e + k) * s - 1
  BY DEF RegionMin, RegionMax
<1>5. e \in Int
  BY <1>1, <1>2
<1>6. m * s <= n /\ n < m * s + s
  BY <1>1, <1>2, Quotient
<1> HIDE DEF s, k, g, m, e
<1>7. e <= m <=> e * s <= n
  <2>1. ASSUME e <= m PROVE e * s <= m * s
    BY <1>1, <1>2, <1>5, <2>1
  <2>2. ASSUME m + 1 <= e PROVE (m + 1) * s <= e * s
    BY <1>1, <1>2, <1>5, <2>2
  <2>3. (m + 1) * s = m * s + s /\ m * s \in Int /\ e * s \in Int
    BY <1>1, <1>2, <1>5
  <2> DEFINE ms == m * s
             es == e * s
             ms1 == (m + 1) * s
  <2> HIDE DEF ms, es, ms1
  <2>4. /\ e <= m => es <= ms
        /\ m + 1 <= e => ms1 <= es
        /\ ms1 = ms + s /\ ms \in Int /\ es \in Int
        /\ ms <= n /\ n < ms + s
    BY <1>6, <2>1, <2>2, <2>3 DEF ms, es, ms1
  <2>5. e <= m <=> es <= n
    BY <1>1, <1>2, <1>5, <2>4
  <2> QED BY <2>5 DEF es
<1>8. m < e + k <=> n < (e + k) * s
  <2> DEFINE f == e + k
  <2>1. f \in Int
    BY <1>1, <1>5
  <2> HIDE DEF f
  <2>2. ASSUME m + 1 <= f PROVE (m + 1) * s <= f * s
    BY <1>1, <1>2, <2>1, <2>2
  <2>3. ASSUME f <= m PROVE f * s <= m * s
    BY <1>1, <1>2, <2>1, <2>3
  <2>4. (m + 1) * s = m * s + s /\ m * s \in Int /\ f * s \in Int
    BY <1>1, <1>2, <2>1
  <2> DEFINE ms == m * s
             fs == f * s
             ms1 == (m + 1) * s
  <2> HIDE DEF ms, fs, ms1
  <2>5. /\ f <= m => fs <= ms
        /\ m + 1 <= f => ms1 <= fs
        /\ ms1 = ms + s /\ ms \in Int /\ fs \in Int
        /\ ms <= n /\ n < ms + s
    BY <1>6, <2>2, <2>3, <2>4 DEF ms, fs, ms1
  <2>6. m < f <=> n < fs
    BY <1>1, <1>2, <2>1, <2>5
  <2> QED BY <2>6 DEF f, fs
<1>9. e * s \in Int /\ (e + k) * s \in Int /\ e * s <= (e + k) * s - 1
  <2>1. (e + k) * s = e * s + k * s /\ k * s \in Nat \ {0} /\ e * s \in Int
    BY <1>1, <1>5
  <2> DEFINE es == e * s
             ks == k * s
  <2> HIDE DEF es, ks
  <2>2. es \in Int /\ ks \in Nat \ {0} /\ (e + k) * s = es + ks
    BY <2>1 DEF es, ks
  <2>3. es <= es + ks - 1 /\ es + ks \in Int
    BY <2>2
  <2> QED BY <2>2, <2>3 DEF es
<1>10. RegionOf(m) = g <=> e * s <= n /\ n < (e + k) * s
  BY <1>3, <1>7, <1>8 DEF e
<1>11. n < (e + k) * s <=> n <= (e + k) * s - 1
  BY <1>9
<1> QED BY <1>4, <1>9, <1>10, <1>11 DEF m, s, g

(* A rectangle that is not empty has a block in the region if and only if   *)
(* valid_building_record finds that it meets the region.                    *)
THEOREM MeetsRegionByGround ==
    ASSUME NEW p \in Plot, p.width >= 1, p.depth >= 1
    PROVE  MeetsRegion(p) <=> /\ Ground(p) \subseteq Int32 \X Int32
                              /\ \E b \in Ground(p) : InRegion(b)
<1> DEFINE x0 == RegionMin(Center[1])
           x1 == RegionMax(Center[1])
           z0 == RegionMin(Center[2])
           z1 == RegionMax(Center[2])
           x == IF p.min_x <= x0 THEN x0 ELSE p.min_x
           z == IF p.min_z <= z0 THEN z0 ELSE p.min_z
<1>1. HalfWord \in Nat /\ Center[1] \in Int /\ Center[2] \in Int
  BY PlotAssumption, RegionAssumption DEF Int32
<1>2. /\ p.min_x \in Int /\ p.min_z \in Int /\ MaxX(p) \in Int /\ MaxZ(p) \in Int
      /\ p.min_x >= -HalfWord /\ p.min_z >= -HalfWord
  BY <1>1, PlotTyped DEF Int32
<1>3. p.min_x <= MaxX(p) /\ p.min_z <= MaxZ(p)
  BY <1>2, PlotTyped DEF MaxX, MaxZ
<1>4. x0 \in Int /\ x1 \in Int /\ x0 <= x1 /\ z0 \in Int /\ z1 \in Int /\ z0 <= z1
  BY <1>1, RegionEnds
<1>5. \A b \in Int \X Int : InRegion(b) <=> /\ x0 <= b[1] /\ b[1] <= x1
                                            /\ z0 <= b[2] /\ b[2] <= z1
  BY <1>1, RegionEnds DEF InRegion
<1>6. MeetsRegion(p) <=> /\ MaxX(p) < HalfWord /\ MaxZ(p) < HalfWord
                         /\ p.min_x <= x1 /\ MaxX(p) >= x0
                         /\ p.min_z <= z1 /\ MaxZ(p) >= z0
  BY DEF MeetsRegion
<1> HIDE DEF x0, x1, z0, z1
<1>7. Ground(p) \subseteq Int \X Int
  BY <1>2 DEF Ground
<1>8. ASSUME MeetsRegion(p)
      PROVE  Ground(p) \subseteq Int32 \X Int32 /\ \E b \in Ground(p) : InRegion(b)
  <2>1. /\ p.min_x .. MaxX(p) \subseteq Int32
        /\ p.min_z .. MaxZ(p) \subseteq Int32
    BY <1>1, <1>2, <1>6, <1>8 DEF Int32
  <2>2. x \in p.min_x .. MaxX(p) /\ x0 <= x /\ x <= x1
    BY <1>2, <1>3, <1>4, <1>6, <1>8
  <2>3. z \in p.min_z .. MaxZ(p) /\ z0 <= z /\ z <= z1
    BY <1>2, <1>3, <1>4, <1>6, <1>8
  <2> HIDE DEF x, z
  <2>4. <<x, z>> \in Ground(p)
    BY <2>2, <2>3 DEF Ground
  <2>5. InRegion(<<x, z>>)
    BY <1>5, <1>7, <2>2, <2>3, <2>4
  <2> QED BY <2>1, <2>4, <2>5 DEF Ground
<1>9. ASSUME Ground(p) \subseteq Int32 \X Int32, NEW b \in Ground(p), InRegion(b)
      PROVE  MeetsRegion(p)
  <2>1. /\ b[1] \in p.min_x .. MaxX(p) /\ b[2] \in p.min_z .. MaxZ(p)
        /\ x0 <= b[1] /\ b[1] <= x1 /\ z0 <= b[2] /\ b[2] <= z1
    BY <1>5, <1>7, <1>9 DEF Ground
  <2>2. <<MaxX(p), MaxZ(p)>> \in Ground(p)
    BY <1>2, <1>3 DEF Ground
  <2>3. MaxX(p) < HalfWord /\ MaxZ(p) < HalfWord
    BY <1>1, <1>2, <1>9, <2>2 DEF Int32
  <2>4. /\ p.min_x <= x1 /\ MaxX(p) >= x0
        /\ p.min_z <= z1 /\ MaxZ(p) >= z0
    BY <1>2, <1>4, <2>1
  <2> QED BY <1>6, <2>3, <2>4
<1> QED BY <1>8, <1>9

(* A registry whose records pass the tests is sound. *)
LEMMA PassingIsSound ==
    ASSUME NEW reg \in Registry, AllValid(reg), NoOverlaps(reg)
    PROVE  Disjoint(reg) /\ OnTheMap(reg)
<1>1. ASSUME NEW a \in Known(reg)
      PROVE  /\ reg[a].plot \in Plot /\ MeetsRegion(reg[a].plot)
             /\ reg[a].plot.width >= 1 /\ reg[a].plot.depth >= 1
  <2>1. reg[a] \in Record
    BY DEF Known, Registry
  <2>2. reg[a].plot \in Plot
    BY <2>1 DEF Record
  <2>3. /\ reg[a].plot.width >= 2 /\ reg[a].plot.depth >= 2 /\ MeetsRegion(reg[a].plot)
    BY DEF AllValid, IsValid
  <2>4. reg[a].plot.width \in Nat /\ reg[a].plot.depth \in Nat
    BY <2>2, PlotTyped
  <2> QED BY <2>2, <2>3, <2>4
<1>2. OnTheMap(reg)
  BY <1>1, MeetsRegionByGround DEF OnTheMap
<1>3. ASSUME NEW a \in Known(reg), NEW b \in Known(reg), a # b
      PROVE  Ground(reg[a].plot) \cap Ground(reg[b].plot) = {}
  <2>1. ~Overlaps(reg[a], reg[b])
    BY <1>3 DEF NoOverlaps
  <2> QED BY <1>1, <2>1, OverlapIsSharedGround
<1> QED BY <1>2, <1>3 DEF Disjoint

-----------------------------------------------------------------------------
(* The registry *)

(* The registry that knows no building is one, and is sound. *)
LEMMA EmptyIsSound ==
    /\ EmptyRegistry \in Registry
    /\ AllValid(EmptyRegistry)
    /\ NoOverlaps(EmptyRegistry)
    /\ Cardinality(Known(EmptyRegistry)) = 0
<1>1. Known(EmptyRegistry) = {}
  BY DEF Known, EmptyRegistry
<1>2. Cardinality(Known(EmptyRegistry)) = 0
  BY <1>1, FS_EmptySet
<1>3. EmptyRegistry \in Registry
  BY DEF EmptyRegistry, Registry
<1> QED
  BY <1>1, <1>2, <1>3 DEF AllValid, NoOverlaps

(* How many buildings there are is a number. *)
LEMMA KnownFinite ==
    ASSUME NEW reg \in Registry
    PROVE  IsFiniteSet(Known(reg)) /\ Cardinality(Known(reg)) \in Nat
<1>1. Known(reg) \subseteq Building
  BY DEF Known
<1>2. IsFiniteSet(Known(reg))
  BY <1>1, BuildingAssumption, FS_Subset
<1> QED
  BY <1>2, FS_CardinalityType

(* upsert_building keeps the registry sound, whatever it accepts. *)
LEMMA UpsertKeepsSound ==
    ASSUME NEW reg \in Registry, NEW r \in Record, NEW limit \in Nat,
           AllValid(reg), NoOverlaps(reg), Cardinality(Known(reg)) <= limit,
           Accepts(reg, r, limit)
    PROVE  /\ Upsert(reg, r) \in Registry
           /\ AllValid(Upsert(reg, r))
           /\ NoOverlaps(Upsert(reg, r))
           /\ Cardinality(Known(Upsert(reg, r))) <= limit
<1> DEFINE new == Upsert(reg, r)
<1>1. r.id \in Building
  BY DEF Record
<1>2. new \in Registry
  BY <1>1 DEF Upsert, Registry
<1>3. \A b \in Building : new[b] = IF b = r.id
                                   THEN IF r.flags = "removed" THEN NoRecord ELSE r
                                   ELSE reg[b]
  BY <1>1 DEF Upsert, Registry
<1>4. r # NoRecord
  BY NoRecordAssumption
<1>5. IsFiniteSet(Known(reg)) /\ Cardinality(Known(reg)) \in Nat
  BY KnownFinite
<1>6. CASE AcceptsRemoval(reg, r)
  <2>1. r.flags = "removed"
    BY <1>6 DEF AcceptsRemoval
  <2>2. Known(new) \subseteq Known(reg) /\ \A b \in Known(new) : new[b] = reg[b]
    BY <1>3, <2>1 DEF Known
  <2>3. AllValid(new)
    BY <2>2 DEF AllValid
  <2>4. NoOverlaps(new)
    BY <2>2 DEF NoOverlaps
  <2>5. Cardinality(Known(new)) <= Cardinality(Known(reg)) /\ Cardinality(Known(new)) \in Nat
    BY <1>2, <1>5, <2>2, FS_Subset, KnownFinite
  <2> QED BY <1>2, <1>5, <2>3, <2>4, <2>5
<1>7. CASE AcceptsUpdate(reg, r) \/ AcceptsNew(reg, r, limit)
  <2>1. r.flags # "removed" /\ IsValid(r) /\ HasRoom(reg, r)
    BY <1>7 DEF AcceptsUpdate, AcceptsNew, IsValid
  <2>2. Known(new) = Known(reg) \cup {r.id}
    BY <1>1, <1>3, <1>4, <2>1 DEF Known
  <2>3. /\ new[r.id] = r
        /\ \A b \in Known(reg) \ {r.id} : new[b] = reg[b]
    BY <1>1, <1>3, <2>1 DEF Known
  <2>4. AllValid(new)
    BY <2>1, <2>2, <2>3 DEF AllValid
  <2>5. NoOverlaps(new)
    <3>1. \A b \in Known(reg) \ {r.id} : ~Overlaps(reg[b], r)
      BY <2>1 DEF HasRoom
    <3>2. \A b \in Known(reg) : reg[b].plot \in Plot
      BY DEF Known, Registry, Record
    <3>3. r.plot \in Plot
      BY DEF Record
    <3>4. \A b \in Known(reg) \ {r.id} : ~Overlaps(r, reg[b])
      BY <3>1, <3>2, <3>3, OverlapsSymmetric
    <3> QED BY <2>2, <2>3, <3>1, <3>4 DEF NoOverlaps
  <2>6. Cardinality(Known(new)) <= limit
    <3>1. CASE AcceptsUpdate(reg, r)
      <4>1. Known(new) = Known(reg)
        BY <1>1, <2>2, <3>1 DEF AcceptsUpdate, Known
      <4> QED BY <4>1
    <3>2. CASE AcceptsNew(reg, r, limit)
      <4>1. r.id \notin Known(reg) /\ Cardinality(Known(reg)) < limit
        BY <3>2 DEF AcceptsNew, Known
      <4>2. Cardinality(Known(new)) = Cardinality(Known(reg)) + 1
        BY <1>5, <2>2, <4>1, FS_AddElement
      <4> QED BY <1>5, <4>1, <4>2
    <3> QED BY <1>7, <3>1, <3>2
  <2> QED BY <1>2, <2>4, <2>5, <2>6
<1> QED
  BY <1>6, <1>7 DEF Accepts

-----------------------------------------------------------------------------
(* The invariant.  Files never say revision 0 of buildings, which is what   *)
(* RevisionZeroIsEmpty needs across a restart.                              *)

FileRevisionZeroIsEmpty(f) ==
    f \in Files /\ f.version = "current" /\ f.revision = 0
        => f.records = EmptyRegistry

RegistryPasses ==
    /\ AllValid(records)
    /\ NoOverlaps(records)
    /\ Cardinality(Known(records)) <= capacity

IInv ==
    /\ TypeOK
    /\ RegistryPasses
    /\ RevisionZeroIsEmpty
    /\ FileRevisionZeroIsEmpty(file)
    /\ FileRevisionZeroIsEmpty(temporary)

(* NextRevision skips 0. *)
LEMMA NextRevisionPositive ==
    ASSUME NEW n \in Revision
    PROVE  NextRevision(n) \in Revision /\ NextRevision(n) # 0
  BY LastRevisionAssumption DEF NextRevision, Revision

(* What a process starts with is sound, whatever the file holds. *)
LEMMA RecoveredIsSound ==
    ASSUME NEW f \in Files \cup {NoFile, TornFile}, NEW limit \in Capacities,
           FileRevisionZeroIsEmpty(f)
    PROVE  LET loaded == Recovered(f, limit)
           IN  /\ loaded.revision \in Revision
               /\ loaded.records \in Registry
               /\ AllValid(loaded.records)
               /\ NoOverlaps(loaded.records)
               /\ Cardinality(Known(loaded.records)) <= limit
               /\ loaded.revision = 0 => loaded.records = EmptyRegistry
<1> DEFINE loaded == Recovered(f, limit)
<1>1. CASE IsManifestFile(f) /\ Loadable(f.records, limit)
  <2>1. f \in Files
    BY <1>1 DEF IsManifestFile
  <2>2. f.records \in Registry /\ f.revision \in Revision /\ f.version \in {"old", "current"}
    BY <2>1 DEF Files
  <2>3. /\ loaded.records = f.records
        /\ loaded.revision = IF f.version = "old" THEN NextRevision(f.revision)
                                                  ELSE f.revision
    BY <1>1 DEF Recovered
  <2>4. AllValid(f.records) /\ NoOverlaps(f.records) /\ Cardinality(Known(f.records)) <= limit
    BY <1>1 DEF Loadable
  <2>5. NextRevision(f.revision) \in Revision /\ NextRevision(f.revision) # 0
    BY <2>2, NextRevisionPositive
  <2> HIDE DEF loaded
  <2>6. loaded.revision = 0 => loaded.records = EmptyRegistry
    BY <2>1, <2>2, <2>3, <2>5 DEF FileRevisionZeroIsEmpty
  <2>7. loaded.revision \in Revision
    BY <2>2, <2>3, <2>5
  <2> QED BY <2>2, <2>3, <2>4, <2>6, <2>7 DEF loaded
<1>2. CASE ~(IsManifestFile(f) /\ Loadable(f.records, limit))
  <2>1. loaded.records = EmptyRegistry /\ loaded.revision = 0
    BY <1>2 DEF Recovered
  <2>2. limit \in Nat /\ 0 \in Revision
    BY CapacitiesAssumption, LastRevisionAssumption DEF Revision
  <2>3. 0 <= limit
    BY <2>2
  <2> HIDE DEF loaded
  <2> QED BY <2>1, <2>2, <2>3, EmptyIsSound DEF loaded
<1> QED
  BY <1>1, <1>2

(* A file just written says of the registry what the registry says. *)
LEMMA CurrentFileIsFaithful ==
    ASSUME TypeOK, RevisionZeroIsEmpty
    PROVE  CurrentFile \in Files /\ FileRevisionZeroIsEmpty(CurrentFile)
  BY DEF TypeOK, RevisionZeroIsEmpty, CurrentFile, Files, FileRevisionZeroIsEmpty

LEMMA InitImpliesIInv == Init => IInv
<1> SUFFICES ASSUME Init PROVE IInv
  OBVIOUS
<1>1. 0 \in Revision
  BY LastRevisionAssumption DEF Revision
<1>2. capacity \in Nat /\ 0 <= capacity
  BY CapacitiesAssumption DEF Init
<1>3. \A f \in OldFiles : f \in Files /\ f.version = "old"
  BY OldFilesAssumption DEF Files
<1>4. TypeOK
  BY <1>1, <1>3, EmptyIsSound DEF Init, TypeOK
<1>5. RegistryPasses
  BY <1>2, EmptyIsSound DEF Init, RegistryPasses
<1>6. FileRevisionZeroIsEmpty(file)
  BY <1>3, NoFileAssumption DEF Init, FileRevisionZeroIsEmpty
<1>7. FileRevisionZeroIsEmpty(temporary)
  BY NoFileAssumption DEF Init, FileRevisionZeroIsEmpty
<1> QED
  BY <1>4, <1>5, <1>6, <1>7 DEF Init, IInv, RevisionZeroIsEmpty

(* Every step keeps the invariant: memory changes when a process starts or *)
(* ends and when it takes an announcement, the files only in a save.        *)
LEMMA IInvInductive == IInv /\ [Next]_vars => IInv'
<1> SUFFICES ASSUME IInv, [Next]_vars PROVE IInv'
  OBVIOUS
<1> USE DEF memory, disk, clients
<1>0. /\ TypeOK /\ RegistryPasses /\ RevisionZeroIsEmpty
      /\ FileRevisionZeroIsEmpty(file) /\ FileRevisionZeroIsEmpty(temporary)
  BY DEF IInv
<1>1. ASSUME NEW limit \in Capacities, Start(limit) PROVE IInv'
  <2> DEFINE loaded == Recovered(file, limit)
  <2>1. file \in Files \cup {NoFile, TornFile}
    BY <1>0 DEF TypeOK
  <2>2. /\ loaded.revision \in Revision
        /\ loaded.records \in Registry
        /\ AllValid(loaded.records)
        /\ NoOverlaps(loaded.records)
        /\ Cardinality(Known(loaded.records)) <= limit
        /\ loaded.revision = 0 => loaded.records = EmptyRegistry
    BY <1>0, <2>1, RecoveredIsSound
  <2>3. /\ capacity' = limit /\ records' = loaded.records
        /\ revision' = loaded.revision /\ hash' = loaded.records
        /\ phase' \in {"open", "idle"} /\ migrating' \in BOOLEAN
        /\ file' = file /\ temporary' = temporary /\ told' = told /\ held' = held
    BY <1>1 DEF Start
  <2> HIDE DEF loaded
  <2>4. TypeOK'
    BY <1>0, <2>2, <2>3 DEF TypeOK
  <2>5. RegistryPasses' /\ RevisionZeroIsEmpty'
    BY <2>2, <2>3 DEF RegistryPasses, RevisionZeroIsEmpty
  <2>6. FileRevisionZeroIsEmpty(file)' /\ FileRevisionZeroIsEmpty(temporary)'
    BY <1>0, <2>3 DEF FileRevisionZeroIsEmpty
  <2> QED BY <2>4, <2>5, <2>6 DEF IInv
<1>2. ASSUME Crash PROVE IInv'
  <2>1. capacity \in Nat /\ 0 <= capacity /\ 0 \in Revision
    BY <1>0, CapacitiesAssumption, LastRevisionAssumption DEF TypeOK, Revision
  <2>2. TypeOK'
    BY <1>0, <1>2, <2>1, EmptyIsSound DEF TypeOK, Crash
  <2>3. RegistryPasses' /\ RevisionZeroIsEmpty'
    BY <1>2, <2>1, EmptyIsSound DEF Crash, RegistryPasses, RevisionZeroIsEmpty
  <2>4. FileRevisionZeroIsEmpty(file)' /\ FileRevisionZeroIsEmpty(temporary)'
    BY <1>0, <1>2 DEF Crash, FileRevisionZeroIsEmpty
  <2> QED BY <2>2, <2>3, <2>4 DEF IInv
<1>3. ASSUME NEW r \in Announced, Announce(r) PROVE IInv'
  <2>1. r \in Record /\ capacity \in Nat
    BY <1>0, AnnouncedAssumption, CapacitiesAssumption DEF TypeOK
  <2>2. records \in Registry /\ AllValid(records) /\ NoOverlaps(records)
        /\ Cardinality(Known(records)) <= capacity
    BY <1>0 DEF TypeOK, RegistryPasses
  <2>3. Accepts(records, r, capacity)
    BY <1>3 DEF Announce
  <2>4. /\ Upsert(records, r) \in Registry
        /\ AllValid(Upsert(records, r))
        /\ NoOverlaps(Upsert(records, r))
        /\ Cardinality(Known(Upsert(records, r))) <= capacity
    BY <2>1, <2>2, <2>3, UpsertKeepsSound
  <2>5. NextRevision(revision) \in Revision /\ NextRevision(revision) # 0
    BY <1>0, NextRevisionPositive DEF TypeOK
  <2>6. TypeOK'
    BY <1>0, <1>3, <2>4, <2>5 DEF TypeOK, Announce, HashAfter
  <2>7. RegistryPasses'
    BY <1>3, <2>4 DEF Announce, RegistryPasses
  <2>8. RevisionZeroIsEmpty'
    BY <1>3, <2>5 DEF Announce, RevisionZeroIsEmpty
  <2>9. FileRevisionZeroIsEmpty(file)' /\ FileRevisionZeroIsEmpty(temporary)'
    BY <1>0, <1>3 DEF Announce, FileRevisionZeroIsEmpty
  <2> QED BY <2>6, <2>7, <2>8, <2>9 DEF IInv
<1>4. ASSUME UNCHANGED memory, UNCHANGED disk, TypeOK' PROVE IInv'
  BY <1>0, <1>4 DEF IInv, RegistryPasses, RevisionZeroIsEmpty, FileRevisionZeroIsEmpty
<1>5. ASSUME NEW c \in Client, NEW r \in Announced, AnnounceRefused(c, r) PROVE IInv'
  <2>1. TypeOK'
    BY <1>0, <1>5 DEF TypeOK, AnnounceRefused
  <2> QED BY <1>4, <1>5, <2>1 DEF AnnounceRefused
<1>14. ASSUME NEW c \in Client, Hello(c) PROVE IInv'
  <2>1. TypeOK'
    BY <1>0, <1>14 DEF TypeOK, Hello
  <2> QED BY <1>4, <1>14, <2>1 DEF Hello
<1>6. ASSUME OpenTemporary PROVE IInv'
  <2>1. TypeOK'
    BY <1>0, <1>6 DEF TypeOK, OpenTemporary
  <2>2. RegistryPasses' /\ RevisionZeroIsEmpty'
    BY <1>0, <1>6 DEF OpenTemporary, RegistryPasses, RevisionZeroIsEmpty
  <2>3. FileRevisionZeroIsEmpty(file)' /\ FileRevisionZeroIsEmpty(temporary)'
    BY <1>0, <1>6, NoFileAssumption DEF OpenTemporary, FileRevisionZeroIsEmpty
  <2> QED BY <2>1, <2>2, <2>3 DEF IInv
<1>7. ASSUME WriteTemporary PROVE IInv'
  <2>1. CurrentFile \in Files /\ FileRevisionZeroIsEmpty(CurrentFile)
    BY <1>0, CurrentFileIsFaithful
  <2>2. /\ temporary' = CurrentFile \/ temporary' = temporary
        /\ phase' \in {"rename", "idle", "publish"}
        /\ migrating' \in BOOLEAN
    BY <1>7 DEF WriteTemporary, AfterSave
  <2>3. UNCHANGED <<memory, file, clients>>
    BY <1>7 DEF WriteTemporary
  <2>4. TypeOK'
    BY <1>0, <2>1, <2>2, <2>3 DEF TypeOK
  <2>5. RegistryPasses' /\ RevisionZeroIsEmpty' /\ FileRevisionZeroIsEmpty(file)'
    BY <1>0, <2>3 DEF RegistryPasses, RevisionZeroIsEmpty, FileRevisionZeroIsEmpty
  <2>6. FileRevisionZeroIsEmpty(temporary)'
    BY <1>0, <2>1, <2>2 DEF FileRevisionZeroIsEmpty
  <2> QED BY <2>4, <2>5, <2>6 DEF IInv
<1>8. ASSUME RenameTemporary PROVE IInv'
  <2>1. /\ \/ file' = temporary /\ temporary' = NoFile
           \/ UNCHANGED disk
        /\ phase' \in {"idle", "publish"}
        /\ migrating' \in BOOLEAN
        /\ UNCHANGED <<memory, clients>>
    BY <1>8 DEF RenameTemporary, AfterSave
  <2>2. TypeOK'
    BY <1>0, <2>1 DEF TypeOK
  <2>3. RegistryPasses' /\ RevisionZeroIsEmpty'
    BY <1>0, <2>1 DEF RegistryPasses, RevisionZeroIsEmpty
  <2>4. FileRevisionZeroIsEmpty(file)' /\ FileRevisionZeroIsEmpty(temporary)'
    BY <1>0, <2>1, NoFileAssumption DEF FileRevisionZeroIsEmpty
  <2> QED BY <2>2, <2>3, <2>4 DEF IInv
<1>9. ASSUME NEW C \in SUBSET Client, Publish(C) PROVE IInv'
  <2>1. TypeOK'
    BY <1>0, <1>9 DEF TypeOK, Publish
  <2> QED BY <1>4, <1>9, <2>1 DEF Publish
<1>10. Manifest \in Manifests
  BY <1>0 DEF TypeOK, Manifest, Manifests
<1>11. ASSUME NEW c \in Client, Request(c) PROVE IInv'
  <2>1. TypeOK'
    BY <1>0, <1>10, <1>11 DEF TypeOK, Request
  <2> QED BY <1>4, <1>11, <2>1 DEF Request
<1>12. ASSUME NEW c \in Client, GetManifest(c) PROVE IInv'
  <2>1. TypeOK'
    BY <1>0, <1>10, <1>12 DEF TypeOK, GetManifest
  <2> QED BY <1>4, <1>12, <2>1 DEF GetManifest
<1>13. CASE UNCHANGED vars
  <2>1. TypeOK'
    BY <1>0, <1>13 DEF TypeOK, vars
  <2> QED BY <1>4, <1>13, <2>1 DEF vars
<1> QED
  BY <1>1, <1>2, <1>3, <1>5, <1>6, <1>7, <1>8, <1>9, <1>11, <1>12, <1>13, <1>14 DEF Next

(* Revisions stay in 64 bits, and files and manifests hold registries. *)
THEOREM TypeCorrect == Spec => []TypeOK
<1>1. IInv => TypeOK
  BY DEF IInv
<1> QED
  BY InitImpliesIInv, IInvInductive, <1>1, PTL DEF Spec

(* The buildings are valid, few enough and apart from each other, whatever  *)
(* is announced and whatever becomes of the files.                          *)
THEOREM RegistryAlwaysSound == Spec => []RegistryIsSound
<1>1. IInv => RegistryIsSound
  <2> SUFFICES ASSUME IInv PROVE RegistryIsSound
    OBVIOUS
  <2>1. records \in Registry /\ AllValid(records) /\ NoOverlaps(records)
        /\ Cardinality(Known(records)) <= capacity
    BY DEF IInv, TypeOK, RegistryPasses
  <2>2. Disjoint(records) /\ OnTheMap(records)
    BY <2>1, PassingIsSound
  <2> QED BY <2>1, <2>2 DEF RegistryIsSound
<1> QED
  BY InitImpliesIInv, IInvInductive, <1>1, PTL DEF Spec

(* Revision 0 is never that of a registry with buildings, even after the    *)
(* counter wrapped or a restart brought back an old file.                   *)
THEOREM RevisionZeroAlwaysEmpty == Spec => []RevisionZeroIsEmpty
<1>1. IInv => RevisionZeroIsEmpty
  BY DEF IInv
<1> QED
  BY InitImpliesIInv, IInvInductive, <1>1, PTL DEF Spec

-----------------------------------------------------------------------------
(* The hash *)

(* The hash is that of the records, in memory and in every copy that was    *)
(* ever handed out, whichever process did it.                               *)
HashIsOfRecords ==
    /\ hash = records
    /\ \A c \in Client : held[c] # NoManifest => held[c].hash = held[c].records

LEMMA HashInvariant == Spec => [](TypeOK /\ HashIsOfRecords)
<1>1. Init => HashIsOfRecords
  BY DEF Init, HashIsOfRecords
<1>2. IInv /\ HashIsOfRecords /\ [Next]_vars => HashIsOfRecords'
  <2> SUFFICES ASSUME IInv, HashIsOfRecords, [Next]_vars
               PROVE  HashIsOfRecords'
    OBVIOUS
  <2> USE DEF memory, disk, clients
  <2>1. TypeOK
    BY DEF IInv
  <2>2. ASSUME UNCHANGED held, hash' = records' PROVE HashIsOfRecords'
    BY <2>2 DEF HashIsOfRecords
  <2>3. CASE \E limit \in Capacities : Start(limit)
    BY <2>2, <2>3 DEF Start
  <2>4. CASE Crash
    BY <2>2, <2>4 DEF Crash
  <2>5. CASE \E r \in Announced : Announce(r)
    BY <2>2, <2>5 DEF Announce, HashAfter
  <2>6. ASSUME UNCHANGED <<records, hash>>,
               \A c \in Client : held'[c] = held[c] \/ held'[c] = Manifest
        PROVE  HashIsOfRecords'
    BY <2>6 DEF HashIsOfRecords, Manifest
  <2>7. CASE \E c \in Client : Request(c) \/ GetManifest(c)
    BY <2>1, <2>6, <2>7 DEF Request, GetManifest, TypeOK
  <2>8. CASE \/ UNCHANGED vars \/ OpenTemporary \/ WriteTemporary \/ RenameTemporary
             \/ \E C \in SUBSET Client : Publish(C)
             \/ \E c \in Client : Hello(c)
             \/ \E c \in Client, r \in Announced : AnnounceRefused(c, r)
    BY <2>6, <2>8 DEF vars, OpenTemporary, WriteTemporary, RenameTemporary, Publish,
                      Hello, AnnounceRefused
  <2> QED BY <2>3, <2>4, <2>5, <2>7, <2>8 DEF Next
<1>3. IInv => TypeOK
  BY DEF IInv
<1> QED
  BY <1>1, <1>2, <1>3, InitImpliesIInv, IInvInductive, PTL DEF Spec

(* A client whose copy is confirmed by its ETag has the buildings there     *)
(* are, whatever became of saves and processes since it was fetched.        *)
THEOREM ValidatedCopyAlwaysCurrent == Spec => []ValidatedCopyIsCurrent
<1>1. TypeOK /\ HashIsOfRecords => ValidatedCopyIsCurrent
  BY DEF HashIsOfRecords, ValidatedCopyIsCurrent, CopyValidates
<1> QED
  BY <1>1, HashInvariant, PTL

-----------------------------------------------------------------------------
(* Announcements *)

(* A building that is there before and after an announcement is replaced    *)
(* by a newer record or not at all, whatever announcements come late, twice *)
(* or out of order (upsert_building, building_record_is_newer).             *)
THEOREM BuildingsAlwaysGetNewer == Spec => BuildingsOnlyGetNewer
<1>1. IInv /\ [Next]_vars =>
         (phase # "down" =>
            \A b \in Known(records) \cap Known(records') :
                records'[b] # records[b] => IsNewer(records'[b], records[b]))
  <2> SUFFICES ASSUME IInv, [Next]_vars, phase # "down",
                      NEW b \in Known(records) \cap Known(records'),
                      records'[b] # records[b]
               PROVE  IsNewer(records'[b], records[b])
    OBVIOUS
  <2> USE DEF memory, disk, clients
  <2>1. b \in Building /\ records[b] # NoRecord /\ records'[b] # NoRecord
    BY DEF Known
  <2>2. records \in Registry
    BY DEF IInv, TypeOK
  <2>3. ASSUME NEW r \in Announced, Announce(r)
        PROVE  IsNewer(records'[b], records[b])
    <3>1. Accepts(records, r, capacity) /\ records' = Upsert(records, r)
      BY <2>3 DEF Announce
    <3>2. records' = [records EXCEPT ![r.id] = IF r.flags = "removed" THEN NoRecord ELSE r]
      BY <3>1 DEF Upsert
    <3>3. DOMAIN records = Building
      BY <2>2 DEF Registry
    <3>4. b = r.id /\ records'[b] = r
      BY <2>1, <3>2, <3>3
    <3>5. AcceptsUpdate(records, r)
      <4>1. r.flags # "removed"
        BY <2>1, <3>2, <3>3, <3>4
      <4> QED BY <2>1, <3>1, <3>4, <4>1 DEF Accepts, AcceptsRemoval, AcceptsNew
    <3> QED BY <3>4, <3>5 DEF AcceptsUpdate
  <2>4. CASE Crash
    BY <2>1, <2>4 DEF Crash, EmptyRegistry
  <2>5. CASE \/ UNCHANGED vars \/ OpenTemporary \/ WriteTemporary \/ RenameTemporary
             \/ \E C \in SUBSET Client : Publish(C)
             \/ \E c \in Client : Hello(c) \/ Request(c) \/ GetManifest(c)
             \/ \E c \in Client, r \in Announced : AnnounceRefused(c, r)
    BY <2>5 DEF vars, OpenTemporary, WriteTemporary, RenameTemporary, Publish,
                Hello, Request, GetManifest, AnnounceRefused
  <2>6. CASE \E limit \in Capacities : Start(limit)
    BY <2>6 DEF Start
  <2> QED BY <2>3, <2>4, <2>5, <2>6 DEF Next
<1> QED
  BY <1>1, InitImpliesIInv, IInvInductive, PTL DEF Spec, BuildingsOnlyGetNewer

-----------------------------------------------------------------------------
(* The durable manifest.  What follows holds of a file system that does its *)
(* part, one capacity for all processes (a smaller one turns the file       *)
(* down), and fewer announcements than there are revisions.                 *)

Reliable ==
    /\ WriteOutcomes \subseteq {"written"}
    /\ \A k, l \in Capacities : k = l
    /\ MaxRevision \in Nat /\ MaxRevision <= LastRevision

(* What a restart would make of the file. *)
OnDisk == Recovered(file, capacity)

IsSaved == revision = OnDisk.revision /\ records = OnDisk.records

(* Memory is what the file says, or one announcement ahead while the save   *)
(* is under way; nothing is handed out before it is the former.             *)
SavedInTime ==
    /\ phase \in {"idle", "publish"} => IsSaved
    /\ phase \in {"open", "write", "rename"} /\ migrating => IsSaved
    /\ phase \in {"open", "write", "rename"} /\ ~migrating
           => revision = OnDisk.revision + 1
    /\ phase = "rename" => temporary = CurrentFile
    /\ migrating => phase \in {"open", "write", "rename"}

(* No client is ahead of the file. *)
KnownHeld ==
    \A c \in Client : held[c] # NoManifest =>
        /\ held[c].revision <= OnDisk.revision
        /\ held[c].revision = OnDisk.revision => held[c].records = OnDisk.records

LEMMA OnDiskIsSound ==
    IInv => /\ OnDisk.revision \in Revision /\ OnDisk.revision \in Nat
            /\ OnDisk.records \in Registry
<1> SUFFICES ASSUME IInv
             PROVE  /\ OnDisk.revision \in Revision /\ OnDisk.revision \in Nat
                    /\ OnDisk.records \in Registry
  OBVIOUS
<1>1. file \in Files \cup {NoFile, TornFile} /\ capacity \in Capacities
      /\ FileRevisionZeroIsEmpty(file)
  BY DEF IInv, TypeOK
<1>2. Revision \subseteq Nat
  BY LastRevisionAssumption DEF Revision
<1> QED BY <1>1, <1>2, RecoveredIsSound DEF OnDisk

LEMMA OnDiskUntouched ==
    ASSUME UNCHANGED <<file, capacity>>
    PROVE  OnDisk' = OnDisk
BY DEF OnDisk, Recovered, IsManifestFile, Loadable, AllValid, NoOverlaps, Known,
       Overlaps, MaxX, MaxZ, IsValid, MeetsRegion, RegionMin, RegionMax, RegionOf,
       NextRevision

(* A file just renamed says what memory says. *)
LEMMA RenamedIsSaved ==
    ASSUME IInv, file' = CurrentFile, UNCHANGED memory
    PROVE  IsSaved'
<1>1. CurrentFile \in Files
  BY CurrentFileIsFaithful DEF IInv
<1>2. IsManifestFile(CurrentFile)
  BY <1>1, NoFileAssumption DEF IsManifestFile
<1>3. Loadable(records, capacity)
  BY DEF IInv, RegistryPasses, Loadable
<1>4. Recovered(CurrentFile, capacity) = [revision |-> revision, records |-> records]
  BY <1>2, <1>3 DEF Recovered, CurrentFile
<1>5. OnDisk' = Recovered(CurrentFile, capacity)
  BY DEF OnDisk, memory
<1> QED BY <1>4, <1>5 DEF IsSaved, memory

(* The file changes in one step, which makes the next revision of it or     *)
(* says in this version's layout what it said in an older one.              *)
LEMMA DiskStep ==
    ASSUME Reliable, IInv, SavedInTime, [Next]_vars
    PROVE  /\ SavedInTime'
           /\ \/ OnDisk' = OnDisk
              \/ /\ RenameTemporary
                 /\ OnDisk'.revision = OnDisk.revision + 1
<1> USE DEF memory, disk, clients
<1>1. TypeOK
  BY DEF IInv
<1>2. ASSUME UNCHANGED <<phase, migrating, memory, disk>>
      PROVE  SavedInTime' /\ OnDisk' = OnDisk
  <2>1. OnDisk' = OnDisk
    BY <1>2, OnDiskUntouched
  <2> QED BY <1>2, <2>1 DEF SavedInTime, IsSaved, CurrentFile
<1>3. ASSUME NEW limit \in Capacities, Start(limit)
      PROVE  SavedInTime' /\ OnDisk' = OnDisk
  <2>1. limit = capacity
    BY <1>1 DEF Reliable, TypeOK
  <2>2. UNCHANGED <<file, capacity>>
    BY <1>3, <2>1 DEF Start
  <2>3. OnDisk' = OnDisk
    BY <2>2, OnDiskUntouched
  <2>4. /\ revision' = OnDisk.revision /\ records' = OnDisk.records
        /\ (phase' = "idle" /\ ~migrating') \/ (phase' = "open" /\ migrating')
    BY <1>3, <2>1 DEF Start, OnDisk
  <2> QED BY <2>3, <2>4 DEF SavedInTime, IsSaved
<1>4. CASE Crash
  <2>1. OnDisk' = OnDisk /\ phase' = "down" /\ ~migrating'
    BY <1>4, OnDiskUntouched DEF Crash
  <2> QED BY <2>1 DEF SavedInTime
<1>5. ASSUME NEW r \in Announced, Announce(r)
      PROVE  SavedInTime' /\ OnDisk' = OnDisk
  <2>1. OnDisk' = OnDisk
    BY <1>5, OnDiskUntouched DEF Announce
  <2>2. phase = "idle" /\ phase' = "open" /\ revision' = NextRevision(revision)
        /\ revision < MaxRevision /\ migrating' = migrating
    BY <1>5 DEF Announce
  <2>3. revision \in Nat /\ revision # LastRevision
    BY <1>1, <2>2, LastRevisionAssumption DEF Reliable, TypeOK, Revision
  <2>4. revision' = OnDisk.revision + 1
    BY <2>2, <2>3 DEF NextRevision, SavedInTime, IsSaved
  <2>5. ~migrating
    BY <2>2 DEF SavedInTime
  <2> QED BY <2>1, <2>2, <2>4, <2>5 DEF SavedInTime
<1>6. CASE OpenTemporary
  <2>1. OnDisk' = OnDisk
    BY <1>6, OnDiskUntouched DEF OpenTemporary
  <2> QED BY <1>6, <2>1 DEF OpenTemporary, SavedInTime, IsSaved
<1>7. CASE WriteTemporary
  <2>1. OnDisk' = OnDisk
    BY <1>7, OnDiskUntouched DEF WriteTemporary
  <2>2. /\ phase = "write" /\ phase' = "rename" /\ temporary' = CurrentFile
        /\ migrating' = migrating /\ UNCHANGED memory
    BY <1>1, <1>7 DEF WriteTemporary, Reliable, TypeOK
  <2>3. CurrentFile' = CurrentFile
    BY <2>2 DEF CurrentFile
  <2> QED BY <2>1, <2>2, <2>3 DEF SavedInTime, IsSaved
<1>8. CASE RenameTemporary
  <2>1. /\ phase = "rename" /\ phase' = AfterSave /\ file' = temporary /\ ~migrating'
        /\ UNCHANGED memory
    BY <1>8 DEF RenameTemporary, Reliable
  <2>2. IsSaved'
    BY <2>1, RenamedIsSaved DEF SavedInTime
  <2>3. SavedInTime'
    BY <2>1, <2>2 DEF SavedInTime, AfterSave
  <2>4. CASE migrating
    <3>1. OnDisk'.revision = OnDisk.revision /\ OnDisk'.records = OnDisk.records
      BY <2>1, <2>2, <2>4 DEF SavedInTime, IsSaved
    <3>2. OnDisk = [revision |-> OnDisk.revision, records |-> OnDisk.records]
      BY DEF OnDisk, Recovered
    <3>3. OnDisk' = [revision |-> OnDisk'.revision, records |-> OnDisk'.records]
      BY DEF OnDisk, Recovered
    <3> QED BY <2>3, <3>1, <3>2, <3>3
  <2>5. CASE ~migrating
    BY <1>8, <2>1, <2>2, <2>3, <2>5 DEF SavedInTime, IsSaved
  <2> QED BY <2>4, <2>5
<1>9. ASSUME NEW C \in SUBSET Client, Publish(C)
      PROVE  SavedInTime' /\ OnDisk' = OnDisk
  <2>1. OnDisk' = OnDisk
    BY <1>9, OnDiskUntouched DEF Publish
  <2> QED BY <1>9, <2>1 DEF Publish, SavedInTime, IsSaved
<1>10. ASSUME NEW c \in Client,
              \/ Hello(c) \/ Request(c) \/ GetManifest(c)
              \/ \E r \in Announced : AnnounceRefused(c, r)
       PROVE  SavedInTime' /\ OnDisk' = OnDisk
  BY <1>2, <1>10 DEF Hello, Request, GetManifest, AnnounceRefused
<1>11. CASE UNCHANGED vars
  BY <1>2, <1>11 DEF vars
<1> QED
  BY <1>3, <1>4, <1>5, <1>6, <1>7, <1>8, <1>9, <1>10, <1>11 DEF Next

(* What every client holds, seen without the hash, as Durable sees it.      *)
HeldContents ==
    [c \in Client |-> IF held[c] = NoManifest THEN NoManifest
                      ELSE [revision |-> held[c].revision, contents |-> held[c].records]]

DiskContents == [revision |-> OnDisk.revision, contents |-> OnDisk.records]

(* A client that fetches gets what is on the disk. *)
LEMMA FetchFromDisk ==
    ASSUME IInv, SavedInTime, phase = "idle", NEW c \in Client,
           held' = [held EXCEPT ![c] = Manifest]
    PROVE  /\ HeldContents' = [HeldContents EXCEPT ![c] = DiskContents]
           /\ held'[c].revision = OnDisk.revision
           /\ held'[c].records = OnDisk.records
           /\ \A d \in Client \ {c} : held'[d] = held[d]
<1>1. Manifest \in Manifests
  BY DEF IInv, TypeOK, Manifest, Manifests
<1>2. Manifest # NoManifest
  BY <1>1, NoManifestAssumption
<1>3. Manifest.revision = OnDisk.revision /\ Manifest.records = OnDisk.records
  BY DEF SavedInTime, IsSaved, Manifest
<1>4. held \in [Client -> Manifests \cup {NoManifest}]
  BY DEF IInv, TypeOK
<1>5. held'[c] = Manifest /\ \A d \in Client \ {c} : held'[d] = held[d]
  BY <1>4
<1>6. \A d \in Client :
         HeldContents'[d] = IF d = c THEN DiskContents ELSE HeldContents[d]
  BY <1>2, <1>3, <1>5 DEF HeldContents, DiskContents
<1>7. /\ HeldContents = [d \in Client |-> HeldContents[d]]
      /\ HeldContents' = [d \in Client |-> HeldContents'[d]]
  BY DEF HeldContents
<1>8. HeldContents' = [HeldContents EXCEPT ![c] = DiskContents]
  BY <1>6, <1>7
<1> QED BY <1>3, <1>5, <1>8

LEMMA InitRefines == Init => Durable!Init
<1> SUFFICES ASSUME Init PROVE Durable!Init
  OBVIOUS
<1>1. IInv
  BY InitImpliesIInv
<1>2. DiskContents \in [revision : Nat, contents : Registry]
  BY <1>1, OnDiskIsSound DEF DiskContents
<1>3. HeldContents = [c \in Client |-> NoManifest]
  BY DEF Init, HeldContents
<1> QED BY <1>2, <1>3 DEF Init, Durable!Init, DiskContents, OnDisk, HeldContents

LEMMA StepRefines ==
    ASSUME Reliable, IInv, SavedInTime, [Next]_vars
    PROVE  [Durable!Next]_<<DiskContents, told, HeldContents>>
<1> USE DEF memory, disk, clients
<1>1. TypeOK
  BY DEF IInv
<1>2. ASSUME UNCHANGED <<told, held>>, OnDisk' = OnDisk
      PROVE  UNCHANGED <<DiskContents, told, HeldContents>>
  BY <1>2 DEF DiskContents, HeldContents
<1>3. CASE RenameTemporary
  <2>1. UNCHANGED <<told, held>>
    BY <1>3 DEF RenameTemporary
  <2>2. CASE OnDisk' = OnDisk
    BY <1>2, <2>1, <2>2
  <2>3. CASE OnDisk'.revision = OnDisk.revision + 1
    <3>1. OnDisk'.records \in Registry
      <4>1. IInv'
        BY IInvInductive
      <4>2. /\ file' \in Files \cup {NoFile, TornFile} /\ capacity' \in Capacities
            /\ FileRevisionZeroIsEmpty(file')
        BY <4>1 DEF IInv, TypeOK
      <4>3. Recovered(file', capacity').records \in Registry
        BY <4>2, RecoveredIsSound
      <4> QED BY <4>3 DEF OnDisk
    <3>2. DiskContents' \in [revision : {DiskContents.revision + 1}, contents : Registry]
      BY <2>3, <3>1 DEF DiskContents
    <3>3. UNCHANGED <<told, HeldContents>>
      BY <2>1 DEF HeldContents
    <3>4. Durable!Commit
      BY <3>2, <3>3 DEF Durable!Commit, DiskContents, OnDisk, HeldContents
    <3> QED BY <3>4 DEF Durable!Next
  <2> QED BY <2>2, <2>3, DiskStep
<1>4. ASSUME NEW C \in SUBSET Client,
             told' = [c \in Client |-> IF c \in C THEN OnDisk.revision ELSE told[c]],
             UNCHANGED held, OnDisk' = OnDisk
      PROVE  Durable!Next
  <2>1. UNCHANGED <<DiskContents, HeldContents>>
    BY <1>4 DEF DiskContents, HeldContents
  <2>2. Durable!Tell(C)
    BY <1>4, <2>1 DEF Durable!Tell, DiskContents, OnDisk, HeldContents
  <2> QED BY <2>2 DEF Durable!Next
<1>5. ASSUME NEW c \in Client, phase = "idle", told' = [told EXCEPT ![c] = revision],
             UNCHANGED held, OnDisk' = OnDisk
      PROVE  Durable!Next
  <2>1. told \in [Client -> Revision] /\ revision = OnDisk.revision
    BY <1>1, <1>5 DEF TypeOK, SavedInTime, IsSaved
  <2>2. told' = [d \in Client |-> IF d \in {c} THEN OnDisk.revision ELSE told[d]]
    BY <1>5, <2>1
  <2> QED BY <1>4, <1>5, <2>2
<1>6. ASSUME NEW c \in Client, phase = "idle", told' = [told EXCEPT ![c] = revision],
             held' = [held EXCEPT ![c] = Manifest], OnDisk' = OnDisk
      PROVE  Durable!Next
  <2>1. HeldContents' = [HeldContents EXCEPT ![c] = DiskContents]
    BY <1>6, FetchFromDisk
  <2>2. told' = [told EXCEPT ![c] = DiskContents.revision]
    BY <1>6 DEF SavedInTime, IsSaved, DiskContents
  <2>3. UNCHANGED DiskContents
    BY <1>6 DEF DiskContents
  <2>4. Durable!Fetch(c)
    BY <2>1, <2>2, <2>3 DEF Durable!Fetch, DiskContents, OnDisk, HeldContents
  <2> QED BY <2>4 DEF Durable!Next
<1>7. CASE ~RenameTemporary
  <2>1. OnDisk' = OnDisk
    BY <1>7, DiskStep
  <2>2. ASSUME NEW C \in SUBSET Client, Publish(C)
        PROVE  Durable!Next
    <3>1. told' = [c \in Client |-> IF c \in C THEN OnDisk.revision ELSE told[c]]
      BY <2>2 DEF Publish, SavedInTime, IsSaved
    <3> QED BY <1>4, <2>1, <2>2, <3>1 DEF Publish
  <2>3. ASSUME NEW c \in Client, NEW r \in Announced, AnnounceRefused(c, r)
        PROVE  Durable!Next
    BY <1>5, <2>1, <2>3 DEF AnnounceRefused
  <2>4. ASSUME NEW c \in Client, Hello(c)
        PROVE  Durable!Next
    BY <1>5, <2>1, <2>4 DEF Hello
  <2>5. ASSUME NEW c \in Client, Request(c)
        PROVE  Durable!Next
    BY <1>5, <1>6, <2>1, <2>5 DEF Request
  <2>6. ASSUME NEW c \in Client, GetManifest(c)
        PROVE  Durable!Next
    BY <1>6, <2>1, <2>6 DEF GetManifest
  <2>7. ASSUME \/ UNCHANGED vars \/ Crash \/ OpenTemporary \/ WriteTemporary
               \/ \E limit \in Capacities : Start(limit)
               \/ \E r \in Announced : Announce(r)
        PROVE  UNCHANGED <<DiskContents, told, HeldContents>>
    BY <1>2, <2>1, <2>7 DEF vars, Crash, OpenTemporary, WriteTemporary, Start, Announce
  <2> QED BY <1>7, <2>2, <2>3, <2>4, <2>5, <2>6, <2>7 DEF Next
<1> QED BY <1>3, <1>7

LEMMA AlwaysSavedInTime ==
    ASSUME Reliable
    PROVE  Spec => [](IInv /\ SavedInTime)
<1>1. Init => SavedInTime
  BY DEF Init, SavedInTime
<1>2. IInv /\ SavedInTime /\ [Next]_vars => SavedInTime'
  BY DiskStep
<1> QED BY <1>1, <1>2, InitImpliesIInv, IInvInductive, PTL DEF Spec

(* With writes that succeed the registry, its temporary file and its        *)
(* restarts at any point are one manifest whose every change is kept: the   *)
(* rename is where a change happens, and no client is told or sent anything *)
(* that a crash could take back (save_building_manifest,                    *)
(* load_building_manifest, handle_building_announce).                       *)
THEOREM ManifestIsDurable ==
    ASSUME Reliable
    PROVE  Spec => ImplementsDurableManifest
<1>1. IInv /\ SavedInTime /\ [Next]_vars
         => [Durable!Next]_<<DiskContents, told, HeldContents>>
  BY StepRefines
<1> QED
  BY <1>1, InitRefines, AlwaysSavedInTime, PTL
     DEF Spec, ImplementsDurableManifest, Durable!Spec, Durable!vars, DiskContents, OnDisk,
         HeldContents

(* A client that is answered "you have it all" holds what there is, in the  *)
(* same process or after any number of crashes                              *)
(* (handle_building_manifest_request).                                      *)
THEOREM KnownRevisionAlwaysExact ==
    ASSUME Reliable
    PROVE  Spec => []KnownRevisionIsExact
<1>1. Init => KnownHeld
  BY DEF Init, KnownHeld
<1>2. IInv /\ SavedInTime /\ KnownHeld /\ [Next]_vars => KnownHeld'
  <2> SUFFICES ASSUME IInv, SavedInTime, KnownHeld, [Next]_vars PROVE KnownHeld'
    OBVIOUS
  <2> USE DEF memory, disk, clients
  <2>1. /\ held \in [Client -> Manifests \cup {NoManifest}]
        /\ \A c \in Client : held[c] # NoManifest => held[c].revision \in Nat
    <3>1. Revision \subseteq Nat
      BY LastRevisionAssumption DEF Revision
    <3>2. held \in [Client -> Manifests \cup {NoManifest}]
      BY DEF IInv, TypeOK
    <3> QED BY <3>1, <3>2 DEF Manifests
  <2>2. OnDisk.revision \in Nat
    BY OnDiskIsSound
  <2>3. ASSUME NEW c \in Client, phase = "idle", held' = [held EXCEPT ![c] = Manifest],
               OnDisk' = OnDisk
        PROVE  KnownHeld'
    <3>1. /\ held'[c].revision = OnDisk.revision
          /\ held'[c].records = OnDisk.records
          /\ \A d \in Client \ {c} : held'[d] = held[d]
      BY <2>3, FetchFromDisk
    <3> QED BY <2>2, <2>3, <3>1 DEF KnownHeld
  <2>4. ASSUME UNCHANGED held PROVE KnownHeld'
    <3>1. OnDisk' = OnDisk \/ OnDisk'.revision = OnDisk.revision + 1
      BY DiskStep
    <3> QED BY <2>1, <2>2, <2>4, <3>1 DEF KnownHeld
  <2>5. ASSUME NEW c \in Client, Request(c) \/ GetManifest(c)
        PROVE  KnownHeld'
    <3>1. OnDisk' = OnDisk
      BY <2>5, OnDiskUntouched DEF Request, GetManifest
    <3> QED BY <2>3, <2>4, <2>5, <3>1 DEF Request, GetManifest
  <2>6. CASE ~ \E c \in Client : Request(c) \/ GetManifest(c)
    <3>1. UNCHANGED held
      BY <2>6 DEF Next, vars, Start, Crash, Announce, AnnounceRefused, OpenTemporary,
                  WriteTemporary, RenameTemporary, Publish, Hello
    <3> QED BY <2>4, <3>1
  <2> QED BY <2>5, <2>6
<1>3. SavedInTime /\ KnownHeld => KnownRevisionIsExact
  BY DEF SavedInTime, IsSaved, KnownHeld, KnownRevisionIsExact
<1> QED
  BY <1>1, <1>2, <1>3, AlwaysSavedInTime, PTL DEF Spec

=============================================================================
