-------------------------------- MODULE Batches --------------------------------
(***************************************************************************)
(* How the Guardian divides what does not fit into one frame: the moves and  *)
(* digs of a batch, and the pages of the building manifest.                  *)
(***************************************************************************)
EXTENDS Integers, SequencesExt

CONSTANT kBuildingManifestPageRecords   \* 128 in the code

ASSUME PageAssumption == kBuildingManifestPageRecords \in Nat \ {0}

kBuildingRecordSize == 56

(* The runs of at most size items that the loops of flush_pending_moves,     *)
(* handle_dig_batch and building_manifest_pages take.                       *)
Run(items, size, k) ==
    SubSeq(items, size * (k - 1) + 1,
           IF size * k < Len(items) THEN size * k ELSE Len(items))

(* Faulty variant: the encoder cuts to one batch, so one is sent. *)
RunsFirst(items, size) == << Run(items, size, 1) >>

(* Faulty variant: a run that is not full is not sent. *)
RunsFull(items, size) == [k \in 1 .. Len(items) \div size |-> Run(items, size, k)]

Runs(items, size) ==
    [k \in 1 .. (Len(items) + size - 1) \div size |-> Run(items, size, k)]

(* There is a first page of an empty manifest. *)
Pages(records) ==
    IF records = <<>> THEN << <<>> >> ELSE Runs(records, kBuildingManifestPageRecords)

================================================================================
