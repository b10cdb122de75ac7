------------------------------ MODULE MCDigRelay ------------------------------
(* A second of three ticks, numbers that wrap after three, and batches of   *)
(* one or two edits.                                                        *)
EXTENDS DigRelay

=============================================================================
