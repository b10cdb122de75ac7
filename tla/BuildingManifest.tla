--------------------------- MODULE BuildingManifest ---------------------------
(***************************************************************************)
(* The building registry as a service: records in memory with a revision    *)
(* and a hash, a manifest file that is replaced by way of a temporary file, *)
(* a process that may be killed at any moment and started again, perhaps    *)
(* with another max_building_records, and the clients that are told of the  *)
(* revision and fetch the manifest, over WebSocket or HTTP.                 *)
(*                                                                          *)
(* Callbacks of the loop do not interleave, but the process can end in the  *)
(* middle of one, so the callback of BUILDING_ANNOUNCE is divided at every  *)
(* point that a restart can tell apart, and "phase" says what it does next: *)
(*   down     there is no process                                           *)
(*   idle     no callback runs                                              *)
(*   open     save_building_manifest is about to open the temporary file    *)
(*   write    ... is about to write and close it                            *)
(*   rename   ... is about to rename it                                     *)
(*   publish  the new digest is about to be published                       *)
(*                                                                          *)
(* An empty building_manifest_file is a file that is never there and a save *)
(* that is always refused.  The region is that of the file; a file of       *)
(* another region is turned down whole, as one with too many records is.    *)
(***************************************************************************)
EXTENDS BuildingRecords

CONSTANTS
    Client,          \* clients, which outlive connections and processes
    Announced,       \* the records that clients announce
    OldFiles,        \* files that programs before version 3 may have left
    Capacities,      \* values that max_building_records may be given
    WriteOutcomes,   \* what may become of a write: see WriteTemporary
    NoManifest,      \* what a client holds that never fetched a manifest
    NoFile,          \* there is no file
    TornFile,        \* a file that is not a whole manifest
    MaxRevision      \* bound of the model: revisions an announcement reaches

Outcome == {"written", "refused", "cut", "unrenamed"}

ASSUME AnnouncedAssumption == Announced \subseteq Record

ASSUME OldFilesAssumption ==
    OldFiles \subseteq [version : {"old"}, revision : Revision, records : Registry]

ASSUME CapacitiesAssumption == Capacities \subseteq Nat \ {0}

ASSUME WriteOutcomesAssumption == WriteOutcomes \subseteq Outcome

Files ==
    [version : {"old", "current"}, revision : Revision, records : Registry]

ASSUME NoFileAssumption ==
    NoFile \notin Files /\ TornFile \notin Files /\ NoFile # TornFile

(* Manifests as clients hold them, the hash with them (see hash). *)
Manifests == [revision : Revision, hash : Registry, records : Registry]

ASSUME NoManifestAssumption == NoManifest \notin Manifests

VARIABLES
    phase,       \* where the process is
    migrating,   \* whether the save under way is that of the constructor
    capacity,    \* cfg_.max_building_records
    records,     \* building_records_
    revision,    \* building_revision_
    hash,        \* building_hash_, as the records it was computed from
    file,        \* building_manifest_file
    temporary,   \* building_manifest_file + ".tmp"
    told,        \* the last revision each client was told
    held         \* the last manifest each client fetched

memory == <<capacity, records, revision, hash>>
disk == <<file, temporary>>
clients == <<told, held>>

vars == <<phase, migrating, memory, disk, clients>>

-----------------------------------------------------------------------------

Manifest == [revision |-> revision, hash |-> hash, records |-> records]

CurrentFile == [version |-> "current", revision |-> revision, records |-> records]

IsManifestFile(f) == f # NoFile /\ f # TornFile

(* What the constructor makes of a file: its revision and records, with    *)
(* the next revision for a file of an older version; nothing at all if the *)
(* file as a whole cannot be taken.                                         *)
Recovered(f, limit) ==
    IF IsManifestFile(f) /\ Loadable(f.records, limit)
    THEN [ revision |-> IF f.version = "old" THEN NextRevision(f.revision)
                                             ELSE f.revision,
           records  |-> f.records ]
    ELSE [ revision |-> 0, records |-> EmptyRegistry ]

Init ==
    /\ phase = "down"
    /\ migrating = FALSE
    /\ capacity \in Capacities
    /\ records = EmptyRegistry
    /\ revision = 0
    /\ hash = EmptyRegistry
    /\ file \in {NoFile} \cup OldFiles
    /\ temporary = NoFile
    /\ told = [c \in Client |-> 0]
    /\ held = [c \in Client |-> NoManifest]

(* The process starts: load_building_manifest.  A file of an older version *)
(* is saved again before anything else happens.                             *)
Start(limit) ==
    LET loaded == Recovered(file, limit)
        resave == /\ IsManifestFile(file)
                  /\ file.version = "old"
                  /\ Loadable(file.records, limit)
    IN  /\ phase = "down"
        /\ capacity' = limit
        /\ records' = loaded.records
        /\ revision' = loaded.revision
        /\ hash' = loaded.records
        /\ phase' = IF resave THEN "open" ELSE "idle"
        /\ migrating' = resave
        /\ UNCHANGED <<disk, clients>>

(* The process ends: killed, crashed, or stopped by its operator. *)
Crash ==
    /\ phase # "down"
    /\ phase' = "down"
    /\ migrating' = FALSE
    /\ records' = EmptyRegistry
    /\ revision' = 0
    /\ hash' = EmptyRegistry
    /\ UNCHANGED <<capacity, disk, clients>>

-----------------------------------------------------------------------------
(* BUILDING_ANNOUNCE *)

(* Faulty variant: the hash is not computed again after a removal. *)
HashAfterInsert(r) ==
    IF r.flags = "removed" THEN hash ELSE Upsert(records, r)

HashAfter(r) == Upsert(records, r)

(* Faulty variant: the digest is published before the manifest is saved. *)
AnnounceUnsaved(r) ==
    /\ phase = "idle"
    /\ Accepts(records, r, capacity)
    /\ revision < MaxRevision
    /\ records' = Upsert(records, r)
    /\ revision' = NextRevision(revision)
    /\ hash' = HashAfter(r)
    /\ phase' = "publish"
    /\ UNCHANGED <<migrating, capacity, disk, clients>>

(* upsert_building takes the record; saving it is next. *)
Announce(r) ==
    /\ phase = "idle"
    /\ Accepts(records, r, capacity)
    /\ revision < MaxRevision
    /\ records' = Upsert(records, r)
    /\ revision' = NextRevision(revision)
    /\ hash' = HashAfter(r)
    /\ phase' = "open"
    /\ UNCHANGED <<migrating, capacity, disk, clients>>

(* ... or does not, and its sender is answered with the digest. *)
AnnounceRefused(c, r) ==
    /\ phase = "idle"
    /\ ~Accepts(records, r, capacity)
    /\ told' = [told EXCEPT ![c] = revision]
    /\ UNCHANGED <<phase, migrating, memory, disk, held>>

AfterSave == IF migrating THEN "idle" ELSE "publish"

(* Faulty variant: the manifest is written over the old one. *)
OpenInPlace ==
    /\ phase = "open"
    /\ file' = TornFile
    /\ phase' = "write"
    /\ UNCHANGED <<migrating, memory, temporary, clients>>

(* ofstream with trunc: the temporary file is empty now, or could not be   *)
(* opened, which the test after the write notices.                          *)
OpenTemporary ==
    /\ phase = "open"
    /\ temporary' = TornFile
    /\ phase' = "write"
    /\ UNCHANGED <<migrating, memory, file, clients>>

(* The bytes are written whole; or the stream fails and the save ends in   *)
(* silence; or the destructor fails to flush what the stream buffered,      *)
(* which nothing notices.                                                   *)
WriteTemporary ==
    /\ phase = "write"
    /\ \/ /\ "written" \in WriteOutcomes
          /\ temporary' = CurrentFile
          /\ phase' = "rename"
       \/ /\ "refused" \in WriteOutcomes
          /\ phase' = AfterSave
          /\ UNCHANGED temporary
       \/ /\ "cut" \in WriteOutcomes
          /\ phase' = "rename"
          /\ UNCHANGED temporary
    /\ migrating' = (migrating /\ phase' = "rename")
    /\ UNCHANGED <<memory, file, clients>>

(* The result of rename is not looked at. *)
RenameTemporary ==
    /\ phase = "rename"
    /\ \/ /\ file' = temporary
          /\ temporary' = NoFile
       \/ /\ "unrenamed" \in WriteOutcomes
          /\ UNCHANGED disk
    /\ phase' = AfterSave
    /\ migrating' = FALSE
    /\ UNCHANGED <<memory, clients>>

(* The digest goes to the clients that are connected. *)
Publish(C) ==
    /\ phase = "publish"
    /\ told' = [c \in Client |-> IF c \in C THEN revision ELSE told[c]]
    /\ phase' = "idle"
    /\ UNCHANGED <<migrating, memory, disk, held>>

-----------------------------------------------------------------------------
(* Reading *)

(* HELLO is answered with the digest, after HELLO_ACK. *)
Hello(c) ==
    /\ phase = "idle"
    /\ told' = [told EXCEPT ![c] = revision]
    /\ UNCHANGED <<phase, migrating, memory, disk, held>>

KnownRevision(c) == IF held[c] = NoManifest THEN 0 ELSE held[c].revision

(* BUILDING_MANIFEST_REQUEST with the revision the client holds: the digest *)
(* if it is the current one, otherwise all pages.                           *)
Request(c) ==
    /\ phase = "idle"
    /\ told' = [told EXCEPT ![c] = revision]
    /\ held' = IF KnownRevision(c) = revision
               THEN held
               ELSE [held EXCEPT ![c] = Manifest]
    /\ UNCHANGED <<phase, migrating, memory, disk>>

(* GET /buildings with the ETag of the copy the client holds, if it holds   *)
(* one: 304, and nothing changes, if that is the hash ...                   *)
CopyValidates(c) ==
    IF held[c] = NoManifest THEN FALSE ELSE held[c].hash = hash

(* ... and otherwise the manifest. *)
GetManifest(c) ==
    /\ phase = "idle"
    /\ ~CopyValidates(c)
    /\ held' = [held EXCEPT ![c] = Manifest]
    /\ told' = [told EXCEPT ![c] = revision]
    /\ UNCHANGED <<phase, migrating, memory, disk>>

-----------------------------------------------------------------------------

Next ==
    \/ \E limit \in Capacities : Start(limit)
    \/ Crash
    \/ \E r \in Announced : Announce(r)
    \/ \E c \in Client, r \in Announced : AnnounceRefused(c, r)
    \/ OpenTemporary
    \/ WriteTemporary
    \/ RenameTemporary
    \/ \E C \in SUBSET Client : Publish(C)
    \/ \E c \in Client : Hello(c) \/ Request(c) \/ GetManifest(c)

Spec == Init /\ [][Next]_vars

-----------------------------------------------------------------------------
(* Properties *)

(* Revisions are numbers, manifests and files hold registries. *)
TypeOK ==
    /\ phase \in {"down", "idle", "open", "write", "rename", "publish"}
    /\ migrating \in BOOLEAN
    /\ capacity \in Capacities
    /\ records \in Registry
    /\ revision \in Revision
    /\ hash \in Registry
    /\ file \in Files \cup {NoFile, TornFile}
    /\ temporary \in Files \cup {NoFile, TornFile}
    /\ told \in [Client -> Revision]
    /\ held \in [Client -> Manifests \cup {NoManifest}]

(* Whatever is announced, saved, lost and loaded again, with whatever      *)
(* capacity: the buildings are valid and few enough, no block of the world   *)
(* has two of them, and each has a block in a chunk of the region.          *)
RegistryIsSound ==
    /\ AllValid(records)
    /\ Disjoint(records)
    /\ OnTheMap(records)
    /\ Cardinality(Known(records)) <= capacity

(* Revision 0 is that of a registry that never held anything, so a client  *)
(* that fetched nothing yet and asks with 0 is never told "you have it all" *)
(* of a manifest with buildings.                                            *)
RevisionZeroIsEmpty == revision = 0 => records = EmptyRegistry

(* A client whose copy is confirmed over HTTP has the buildings there are,  *)
(* even if saves failed, revisions came back after a restart, or its copy    *)
(* is from another process.                                                 *)
ValidatedCopyIsCurrent ==
    \A c \in Client :
        phase = "idle" /\ CopyValidates(c) => held[c].records = records

(* A building changes only for a newer record of it: an announcement that   *)
(* arrives late or twice does not undo a later one while the building is    *)
(* there, across restarts too as far as memory goes.                        *)
BuildingsOnlyGetNewer ==
    [][phase # "down" =>
          \A b \in Known(records) \cap Known(records') :
              records'[b] # records[b] => IsNewer(records'[b], records[b])]_vars

(* Equal revisions mean equal buildings: a client that is answered with the *)
(* digest alone holds what there is.                                        *)
KnownRevisionIsExact ==
    \A c \in Client :
        phase = "idle" /\ held[c] # NoManifest /\ held[c].revision = revision
            => held[c].records = records

(* With writes that succeed the service is the durable manifest, wherever   *)
(* the process is killed: the manifest is what a restart would load, and    *)
(* no client is told of a revision, or fetches one, that can still be lost. *)
Durable ==
    INSTANCE DurableManifest WITH
        Contents <- Registry,
        manifest <- [ revision |-> Recovered(file, capacity).revision,
                      contents |-> Recovered(file, capacity).records ],
        held     <- [c \in Client |->
                       IF held[c] = NoManifest THEN NoManifest
                       ELSE [ revision |-> held[c].revision,
                              contents |-> held[c].records ]]

ImplementsDurableManifest == Durable!Spec

=============================================================================
