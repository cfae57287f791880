----------------------------- MODULE MCBootChain -----------------------------
(* Machines for BootChain: those of MCMbr, with a FAT32 volume in their     *)
(* first partition that has its loader, lacks it, or was formatted for the  *)
(* start of the disk; each record on it, and drives that answer fn 0x08,    *)
(* refuse it, or fail.                                                      *)
EXTENDS BootChain, MCMbr, Fat32Volumes

Volume(stage1, stage2, files, slots) == MkVol(stage1, stage2, 1, 1, <<2, 8>>, files, slots)
Records == {<<"bootmgr", "bootmgr", "BOOTMGR">>, <<"ntldr", "ntldr", "NTLDR">>,
            <<"single", "none", "BOOTMGR">>}
With(r) == Volume(r[1], r[2], r[3] :> <<9, 3, 4>>,
                  << <<Deleted, Other>>, <<Short(r[3], 9), EndMark>> >>)
Without(r) == Volume(r[1], r[2], "AUTORUN" :> <<4>>, << <<Deleted, Other>>, <<EndMark>> >>)
(* BPB_HiddSec as of a volume without a partition table: LBA 2 of the disk  *)
(* is no stage 2.                                                           *)
Misplaced(r) == [With(r) EXCEPT !.hidd = 0, !.stage2 = "none"]

Volumes == {With(r) : r \in Records} \cup {Without(r) : r \in Records}
           \cup {Misplaced(r) : r \in {s \in Records : s[1] # "single"}}
Drives(reliable) == {Drive(TRUE, reliable, 3, 4), Drive(FALSE, reliable, 18, 2)}

(* The byte at A6h, where mbr_xp keeps boot_drive, of each record. *)
Byte(v) == CASE v.stage1 = "bootmgr" -> 15 [] v.stage1 = "ntldr" -> 0 [] OTHER -> 102

(* What other drive numbers may name: nothing; an empty disk of the same    *)
(* layout, or one with a loader of its own; the boot disk itself, which     *)
(* then is a USB-FDD that refuses fn 0x08.                                  *)
OtherSector == [kind |-> "other", marked |-> TRUE, byte |-> 0]
Disk(v, stage2, slots) ==
  [sectors |-> (0 :> OtherSector), bios |-> Drive(TRUE, TRUE, 9, 4), stage2 |-> stage2,
   fat |-> (3 :> EocMin) @@ v.fat, dir |-> [l \in DOMAIN v.dir |-> slots]]
Again(m, v) ==
  [sectors |-> m.sectors, bios |-> Drive(FALSE, m.reliable, 18, 2),
   stage2 |-> v.stage2, fat |-> v.fat, dir |-> v.dir]
OtherDrives(m, v) ==
  IF m.variant = "win7" /\ m.keepsDl THEN {<<>>}
  ELSE {<<>>, 0 :> Disk(v, "none", <<EndMark>>), 0 :> Disk(v, "ntldr", <<Short("NTLDR", 3)>>),
        (0 :> Again(m, v)) @@ (15 :> Again(m, v)) @@ (102 :> Again(m, v))}

On(m, v, bios, others) ==
  [m EXCEPT !.others = others] @@ ("volume" :> v) @@ ("bios" :> bios)
Fat32(m, v) == [m EXCEPT !.sectors[StartLba].kind = "fat32", !.sectors[StartLba].byte = Byte(v)]
FromTable(t, v) ==
  UNION {{On(m, v, bios, others) : others \in OtherDrives(m, v), bios \in Drives(m.reliable)} :
           m \in {Fat32(n, v) : n \in {k \in AllMachines : k.table = t}}}
MCMachines ==
  UNION {FromTable(Built, v) : v \in Volumes}
  \cup UNION {FromTable(t, With(<<"bootmgr", "bootmgr", "BOOTMGR">>)) : t \in Tables}
MCEnvironments == {See(m, m.drive) : m \in MCMachines}

ASSUME MachinesAreSound == \A m \in MCMachines : SoundMachine(m)
=============================================================================
