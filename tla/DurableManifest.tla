---------------------------- MODULE DurableManifest ----------------------------
(***************************************************************************)
(* What the building registry promises to its clients when the file system *)
(* does its part, with no process, file or crash in sight: there is one     *)
(* manifest, every change of it gets the next revision and is never undone, *)
(* clients are told its revision and fetch it whole.                        *)
(***************************************************************************)
EXTENDS Integers

CONSTANTS
    Client,      \* who asks for the manifest
    Contents,    \* what a manifest can hold
    NoManifest   \* what a client holds that never fetched one

VARIABLES
    manifest,    \* [revision, contents]
    told,        \* the last revision each client was told
    held         \* the manifest each client holds

vars == <<manifest, told, held>>

Init ==
    /\ manifest \in [revision : Nat, contents : Contents]
    /\ told = [c \in Client |-> 0]
    /\ held = [c \in Client |-> NoManifest]

Commit ==
    /\ manifest' \in [revision : {manifest.revision + 1}, contents : Contents]
    /\ UNCHANGED <<told, held>>

Tell(C) ==
    /\ told' = [c \in Client |-> IF c \in C THEN manifest.revision ELSE told[c]]
    /\ UNCHANGED <<manifest, held>>

(* A client may be told without fetching: what it holds is then current.   *)
Fetch(c) ==
    /\ held' = [held EXCEPT ![c] = manifest]
    /\ told' = [told EXCEPT ![c] = manifest.revision]
    /\ UNCHANGED manifest

Next ==
    \/ Commit
    \/ \E C \in SUBSET Client : Tell(C)
    \/ \E c \in Client : Fetch(c)

Spec == Init /\ [][Next]_vars

=============================================================================
