------------------------------- MODULE Splice -------------------------------
(* The builders and splices of src/mbr.rs and src/pbr.rs.  A sector is a    *)
(* function of the regions their copies cut it into:                        *)
(*   jump 0..2, oem 3..10, bpb 11..83, ext 84..89, code 90..439,            *)
(*   disk 440..445, table 446..509, mark 510..511.                          *)
(* "ext" is the end of FAT32's extended BPB and code on NTFS; "disk" and    *)
(* "table" are the NT signature and the partition table of an MBR, and code *)
(* in a partition boot record.                                              *)
EXTENDS Integers, Sequences

CONSTANTS SectorSize,   \* 512
          CodeSize,     \* 440, the boot code of an MBR
          StartLba,     \* PARTITION_START_LBA, 2048
          MaxCount      \* u32::MAX

ASSUME SpliceAssumption ==
  /\ SectorSize \in Nat \ {0} /\ CodeSize \in Nat \ {0} /\ CodeSize <= SectorSize
  /\ StartLba \in Nat \ {0} /\ MaxCount \in Nat \ {0}

Regions == {"jump", "oem", "bpb", "ext", "code", "disk", "table", "mark"}
Marked == <<"55AA">>
Mswin == <<"MSWIN4.1">>
DeadBeef == <<"DEADBEEF">>

(* A byte slice: its length, and the sectors it holds. *)
Bytes(len, sectors) == [len |-> len, sectors |-> sectors]

(* Ok with the sectors to write, or the error of the first check that fails *)
(* in the list of <<fails, error>>.                                         *)
Verdict(checks, sectors) ==
  LET failed == {i \in DOMAIN checks : checks[i][1]}
      first == CHOOSE i \in failed : \A j \in failed : i <= j
  IN  IF failed = {} THEN [ok |-> TRUE, sectors |-> sectors]
      ELSE [ok |-> FALSE, error |-> checks[first][2]]

(* A sector of "over" in which the regions "kept" come from "existing".     *)
Keeping(kept, existing, over) ==
  [r \in Regions |-> IF r = "mark" THEN Marked
                     ELSE IF r \in kept THEN existing[r] ELSE over[r]]

(******************************* src/mbr.rs *****************************)
(* PartitionEntry::encode; its CHS fields are always FE FF FF.              *)
encode(active, type, lba, count) ==
  [active |-> active, type |-> type, lba |-> lba, count |-> count]
Active(count) == encode(TRUE, "fat32lba", StartLba, count)
Unused == [active |-> FALSE, type |-> "none", lba |-> 0, count |-> 0]
MutCount(diskSectors) == IF diskSectors <= MaxCount THEN diskSectors ELSE MaxCount
Count(diskSectors) ==
  IF diskSectors - StartLba <= MaxCount THEN diskSectors - StartLba ELSE MaxCount

BuildMbr(boot, diskSectors) ==
  Verdict(<< <<boot.len = 0, "NotEmbedded">>,
             <<boot.len < CodeSize, "BootCodeTooShort">>,
             <<diskSectors <= StartLba, "DiskTooSmall">> >>,
          << [boot.sectors[1] EXCEPT
                !["disk"] = DeadBeef, !["mark"] = Marked,
                !["table"] = <<Active(Count(diskSectors)), Unused, Unused, Unused>>] >>)

MutMbrKept == {"table"}
MbrKept == {"disk", "table"}
SpliceMbr(existing, boot) ==
  Verdict(<< <<boot.len = 0, "NotEmbedded">>,
             <<boot.len < CodeSize, "BootCodeTooShort">>,
             <<existing.len < SectorSize, "ExistingTooShort">> >>,
          << Keeping(MbrKept, existing.sectors[1], boot.sectors[1]) >>)

(******************************* src/pbr.rs *****************************)
MutFat32Kept == {"bpb"}
Fat32Kept == {"bpb", "ext"}
Fat32Sector(existing, boot) ==
  Keeping(Fat32Kept, existing, [boot EXCEPT !["oem"] = Mswin])

SpliceFat32(existing, boot) ==
  Verdict(<< <<existing.len # SectorSize, "BadExistingSize">>,
             <<boot.len = 0, "NotEmbedded">>,
             <<boot.len # SectorSize, "BadBlobSize">> >>,
          << Fat32Sector(existing.sectors[1], boot.sectors[1]) >>)

(* Two sectors are kept from the device, stage 2 follows them. *)
MultiChecks(existing, blob) ==
  << <<existing.len # 2 * SectorSize, "BadExistingMultiSize">>,
     <<blob.len = 0, "NotEmbedded">>,
     <<blob.len < 2 * SectorSize \/ blob.len % SectorSize # 0, "BadMultiBlobSize">> >>

SpliceFat32Multi(existing, blob) ==
  Verdict(MultiChecks(existing, blob),
          << Fat32Sector(existing.sectors[1], blob.sectors[1]), existing.sectors[2] >>
            \o Tail(blob.sectors))

NtfsKept == {"oem", "bpb"}
SpliceNtfsMulti(existing, blob) ==
  Verdict(MultiChecks(existing, blob),
          << Keeping(NtfsKept, existing.sectors[1], blob.sectors[1]), existing.sectors[2] >>
            \o Tail(blob.sectors))
=============================================================================
