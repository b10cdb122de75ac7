-------------------------- MODULE MCBuildingManifest --------------------------
(* Two foundations and rectangles on a map of 16 by 16 blocks.  A region has *)
(* 4 by 4 of them, and that of the Guardian begins at -4 and 0.  Three       *)
(* rectangles stand in a row where each has one column in common with the    *)
(* next, the first begins and the last ends outside of the region.  One is   *)
(* beside the region, one too narrow, and one does not end on the map.       *)
EXTENDS BuildingManifest, TLC

CONSTANTS b1, b2

Rectangle(min_x, width, depth) ==
    [min_x |-> min_x, min_z |-> 3, width |-> width, depth |-> depth]

west    == Rectangle(-6, 3, 2)
middle  == Rectangle(-4, 3, 2)
east    == Rectangle(-2, 3, 2)
outside == Rectangle(0, 3, 2)
narrow  == Rectangle(-3, 2, 1)
endless == Rectangle(-1, 10, 2)

Plots == {west, middle, east, outside, narrow, endless}

CenterChunk == <<-1, 1>>

Built(b, p, active, slot) ==
    [id |-> b, plot |-> p, flags |-> "built", active |-> active, slot |-> slot]

(* A building that goes up, moves, and comes down; its neighbour, which is *)
(* known by active_revision before it gets a slot; and bad announcements.   *)
Announcements ==
    { Built(b1, west, 0, 1),
      Built(b1, middle, 0, 2),
      [Built(b1, middle, 0, 3) EXCEPT !.flags = "removed"],
      Built(b2, east, 0, 0),
      Built(b2, middle, 1, 0),
      Built(b2, east, 0, 1),
      Built(b2, outside, 2, 2),
      Built(b2, narrow, 2, 2),
      Built(b1, endless, 2, 2),
      [Built(b2, west, 2, 3) EXCEPT !.flags = "refused"] }

File(rev, reg) == [version |-> "old", revision |-> rev, records |-> reg]

(* A sound file, one whose revision is the last, one with an overlap, one   *)
(* with a building outside of the region, and one with nothing.             *)
LegacyFiles ==
    { File(1, [b \in Building |-> IF b = b1 THEN Built(b1, west, 1, 0)
                                             ELSE Built(b2, east, 0, 0)]),
      File(LastRevision, b1 :> Built(b1, west, 1, 0) @@ EmptyRegistry),
      File(1, [b \in Building |-> Built(b, middle, 0, 0)]),
      File(1, b2 :> Built(b2, outside, 0, 0) @@ EmptyRegistry),
      File(0, EmptyRegistry) }

SoundLegacyFile ==
    { File(1, [b \in Building |-> IF b = b1 THEN Built(b1, west, 1, 0)
                                             ELSE Built(b2, east, 0, 0)]) }

Symmetry == Permutations(Client)

=============================================================================
