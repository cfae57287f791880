------------------------------- MODULE MCCrate -------------------------------
(* A small checkout: two single-sector blobs and one of two sources, with   *)
(* every length a file may come to have, and disks of every size that       *)
(* matters.                                                                 *)
EXTENDS Crate, TLC

MCBlobs == <<"mbr_xp", "mbr_win7", "multi">>
MCParts == ("mbr_xp" :> 1) @@ ("mbr_win7" :> 1) @@ ("multi" :> 2)
MCContents(f) ==
  CASE f = Prebuilt("multi") -> {Absent, 2 * SectorSize}
    [] f \in Sources("multi") -> {Absent, Broken, 0, SectorSize, SectorSize + 1, 2 * SectorSize}
    [] f \in Sources("mbr_win7") -> {Broken, CodeSize - 1, SectorSize}
    [] OTHER -> {Absent, SectorSize}
MCOrigin == [f \in Files |-> IF f = Prebuilt("multi") THEN 2 * SectorSize ELSE SectorSize]
=============================================================================
