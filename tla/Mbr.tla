-------------------------------- MODULE Mbr --------------------------------
(* The master boot records boot-asm/mbr_win7.asm and boot-asm/mbr_xp.asm,   *)
(* with the partition table build_mbr or splice_mbr gave them.              *)
(*                                                                          *)
(* The code is assembled for 0000:7C00, copies itself to 0000:0600 and goes *)
(* on there, so that the partition's boot sector can be read over 7C00.     *)
(* The absolute addresses of its data are still those at 7C00: mbr_xp's     *)
(* boot_drive and its messages lie under the sector it reads.               *)
EXTENDS Splice, FiniteSets

CONSTANT Machines   \* the disks that may be booted, and their firmware

(* A sector as the MBR sees it: whose it is, whether it ends in 55AA, and   *)
(* the byte it has where mbr_xp keeps boot_drive.                           *)
Own == [kind |-> "mbr", marked |-> TRUE, byte |-> 0]
Torn == [kind |-> "torn", marked |-> FALSE, byte |-> 0]

(* LBA 0 has this boot record, and no partition begins with a copy of it.   *)
(* The drives that other numbers name may have it there too (the same disk  *)
(* under a second number), but no FAT32 boot record.                        *)
ASSUME MachinesAssumption ==
  \A m \in Machines :
    /\ 0 \in DOMAIN m.sectors /\ m.sectors[0] = Own
    /\ \A lba \in DOMAIN m.sectors \ {0} : m.sectors[lba].kind # "mbr"
    /\ \A d \in DOMAIN m.others : 0 \in DOMAIN m.others[d].sectors =>
                                     m.others[d].sectors[0].kind # "fat32"

VARIABLES
  machine,   \* [variant, table, sectors, drive, others, keepsDl, reliable]
  pc,
  si,        \* partition table entry, 1 to 4
  dl,        \* the drive number, in its register
  cell,      \* mbr_xp's boot_drive, a byte at 7CA6
  load,      \* the sector at 0000:7C00
  said       \* the message on the screen
vars == <<machine, pc, si, dl, cell, load, said>>

variant == machine.variant
table == machine.table
Entries == 1..4

(* The sectors that the firmware reads for a drive number: those of the     *)
(* boot disk, of another drive, or none.                                    *)
Sectors(drive) ==
  IF drive = machine.drive THEN machine.sectors
  ELSE IF drive \in DOMAIN machine.others THEN machine.others[drive].sectors ELSE <<>>
Present(lba) == lba \in DOMAIN machine.sectors
At(lba) == machine.sectors[lba]

Init ==
  /\ machine \in Machines
  /\ pc = "start" /\ si = 1 /\ said = "none"
  /\ dl = machine.drive
  /\ cell = Own.byte
  /\ load = Own

(* Stack, segments, and the copy to 0000:0600.  mbr_xp saves DL first. *)
StartWin7 ==
  /\ pc = "start" /\ variant = "win7"
  /\ pc' = "scan" /\ si' = 1
  /\ UNCHANGED <<dl, cell, load, said>>
StartXp ==
  /\ pc = "start" /\ variant = "xp"
  /\ cell' = dl
  /\ pc' = "scan" /\ si' = 1
  /\ UNCHANGED <<dl, load, said>>

(* die prints a letter that is in the code; print follows SI to a text that *)
(* lies at 7C00.                                                            *)
Text(message, at) == IF variant = "win7" \/ at = Own THEN message ELSE "garbled"
Halt(message, at) == pc' = "halted" /\ said' = Text(message, at)

(* .scan: the next entry, or the active one, or none. *)
ScanTo(last) ==
  /\ pc = "scan"
  /\ \/ /\ table[si].active
        /\ pc' = "found"
        /\ UNCHANGED <<si, said>>
     \/ /\ ~table[si].active /\ si < last
        /\ si' = si + 1
        /\ UNCHANGED <<pc, said>>
     \/ /\ ~table[si].active /\ si = last
        /\ Halt("no active partition", load)
        /\ UNCHANGED si
  /\ UNCHANGED <<dl, cell, load>>
Scan == ScanTo(4)

(* INT 13h fn 0x42, one sector to 0000:7C00.  Firmware that does not keep   *)
(* DL may clear it; a read that fails may have stored part of the sector.   *)
ReadEntry(i, drive) ==
  LET lba == table[i].lba
      readable == lba \in DOMAIN Sectors(drive)
  IN  /\ dl' \in IF machine.keepsDl THEN {drive} ELSE {drive, 0}
      /\ \/ /\ readable
            /\ load' = Sectors(drive)[lba] /\ cell' = load'.byte
            /\ pc' = "check"
            /\ UNCHANGED said
         \/ /\ ~(readable /\ machine.reliable)
            /\ \/ load' = Torn /\ cell' = Torn.byte
               \/ UNCHANGED <<load, cell>>
            /\ Halt("read error", load')
MutReadSector(drive) == ReadEntry(1, drive)
ReadSector(drive) == ReadEntry(si, drive)

(* mbr_win7: the active entry must not be a GPT protective one; DL is still *)
(* the drive number.                                                        *)
RefuseGpt ==
  /\ pc = "found" /\ variant = "win7" /\ table[si].type = "gpt"
  /\ Halt("gpt", load)
  /\ UNCHANGED <<si, dl, cell, load>>
ReadWin7 ==
  /\ pc = "found" /\ variant = "win7" /\ table[si].type # "gpt"
  /\ ReadSector(dl)
  /\ UNCHANGED si

(* mbr_xp: DL comes from boot_drive. *)
ReadXp ==
  /\ pc = "found" /\ variant = "xp"
  /\ ReadSector(cell)
  /\ UNCHANGED si

(* The signature, and the jump to 0000:7C00; mbr_xp loads DL once more.     *)
(* What is there may be an MBR: an active entry for LBA 0 starts it again.  *)
Enter == pc' = IF load.kind = "mbr" THEN "start" ELSE "entered"
MutBadSignature ==
  /\ pc = "check" /\ ~load.marked
  /\ Halt("read error", load)
  /\ UNCHANGED <<si, dl, cell, load>>
BadSignature ==
  /\ pc = "check" /\ ~load.marked
  /\ Halt("no signature", load)
  /\ UNCHANGED <<si, dl, cell, load>>
MutEnterWin7 ==
  /\ pc = "check" /\ variant = "win7" /\ load.marked
  /\ Enter
  /\ dl' = cell
  /\ UNCHANGED <<si, cell, load, said>>
EnterWin7 ==
  /\ pc = "check" /\ variant = "win7" /\ load.marked
  /\ Enter
  /\ UNCHANGED <<si, dl, cell, load, said>>
EnterXp ==
  /\ pc = "check" /\ variant = "xp" /\ load.marked
  /\ Enter
  /\ dl' = cell
  /\ UNCHANGED <<si, cell, load, said>>

Next ==
  /\ \/ StartWin7 \/ StartXp \/ Scan \/ RefuseGpt \/ ReadWin7 \/ ReadXp
     \/ BadSignature \/ EnterWin7 \/ EnterXp
  /\ UNCHANGED machine

(* Nothing else runs on the machine. *)
Spec == Init /\ [][Next]_vars
FairSpec == Spec /\ WF_vars(Next)

(***************************** properties *******************************)
ActiveEntries == {i \in Entries : table[i].active}
FirstActive == CHOOSE i \in ActiveEntries : \A j \in ActiveEntries : i <= j
ActiveLba == table[FirstActive].lba

(* What gets control is the marked boot sector of the first active entry,   *)
(* and mbr_win7 hands nothing to a GPT protective one.  An entry for LBA 0  *)
(* is the exception: it starts the MBR again, with a DL that may be another *)
(* drive's.                                                                 *)
EntersActive ==
  pc = "entered" =>
    /\ ActiveEntries # {} /\ load.marked
    /\ ActiveLba # 0 => Present(ActiveLba) /\ load = At(ActiveLba)
    /\ variant = "win7" => table[FirstActive].type # "gpt"

(* mbr_xp.asm: "Pass DL = boot drive unchanged to the PBR", and likewise    *)
(* mbr_win7.asm.                                                            *)
DriveIsPassed == pc = "entered" => dl = machine.drive

(* The message on the screen is the reason of the halt: mbr_win7.asm's      *)
(* legend of its letters, the texts of mbr_xp.asm; but mbr_xp's text is     *)
(* garbled once anything has been read over it.  (Not for an entry for      *)
(* LBA 0, as above.)                                                        *)
Reason ==
  CASE ActiveEntries = {} -> {"no active partition"}
    [] ActiveEntries # {} /\ variant = "win7" /\ table[FirstActive].type = "gpt" -> {"gpt"}
    [] OTHER -> {w \in {"read error", "no signature"} :
                   IF w = "read error" THEN ~(Present(ActiveLba) /\ machine.reliable)
                   ELSE Present(ActiveLba) /\ ~At(ActiveLba).marked}
SaysWhy ==
  (pc = "halted" /\ (ActiveEntries = {} \/ ActiveLba # 0)) =>
    IF variant = "xp" /\ load # Own THEN said = "garbled" ELSE said \in Reason

(* When nothing keeps the MBR from entering the active partition.           *)
CanEnter ==
  /\ ActiveEntries # {} /\ ActiveLba # 0 /\ Present(ActiveLba) /\ machine.reliable
  /\ At(ActiveLba).marked /\ (variant = "win7" => table[FirstActive].type # "gpt")
=============================================================================
