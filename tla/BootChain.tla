------------------------------ MODULE BootChain ------------------------------
(* A whole boot: the master boot record (Mbr), and the FAT32 boot record of *)
(* the partition it enters (Fat32Pbr).  The firmware gives DL to the one    *)
(* and the one to the other; the partition record saves it and passes it to *)
(* every INT 13h call, so the drive it sees is the one that DL names then:  *)
(* the boot disk, under its own number or a second one, another disk, or    *)
(* none.  Its LBAs come from the hidden sectors in its own BPB, not from    *)
(* the MBR.                                                                 *)
EXTENDS Mbr, Fat32Layout

CONSTANTS Environments, Word, Blocks, LoadBlock, RamTop, Resident, Garbage

VARIABLES
  pbrPc, err, spt, heads, fatLba, dataLba, readLba, clus, left, es, mem
pbrVars == <<pbrPc, err, spt, heads, fatLba, dataLba, readLba, clus, left, es, mem>>

(* What the boot record of m sees through drive number d: its own BPB, and  *)
(* behind it the sectors of the drive that d names; every call fails on a   *)
(* number that is no drive's.                                               *)
Gone == [probe |-> FALSE, reliable |-> TRUE, cl |-> 0, dh |-> 0,
         spt |-> 1, heads |-> 1, sectors |-> 0]
Through(v, other) ==
  [v EXCEPT !.stage2 = other.stage2, !.fat = other.fat, !.dir = other.dir]
MutSee(m, d) == [vol |-> m.volume, bios |-> m.bios]   \* as if it used 80h
See(m, d) ==
  IF d = m.drive THEN [vol |-> m.volume, bios |-> m.bios]
  ELSE IF d \in DOMAIN m.others
       THEN [vol |-> Through(m.volume, m.others[d]), bios |-> m.others[d].bios]
       ELSE [vol |-> m.volume, bios |-> Gone]
P == INSTANCE Fat32Pbr WITH pc <- pbrPc, env <- See(machine, dl)

ASSUME BootRecordAssumption == P!LayoutAssumption

ChainInit == Init /\ P!Init
Handover == pc = "entered" /\ load.kind = "fat32"
ChainNext ==
  \/ Next /\ UNCHANGED pbrVars
  \/ Handover /\ UNCHANGED vars /\ P!Next
ChainSpec == ChainInit /\ [][ChainNext]_<<vars, pbrVars>>
FairChainSpec == ChainSpec /\ WF_<<vars, pbrVars>>(ChainNext)

(* The numbers of the boot disk: its own, and others that read the same.    *)
(* (The Dell of docs/L4_INVESTIGATION.md: fn 0x08 refuses drive 0Fh, and    *)
(* reads on it work.)                                                       *)
HomeDrives(m) ==
  {m.drive} \cup {d \in DOMAIN m.others : Through(m.volume, m.others[d]) = m.volume}
Nobody == dl # machine.drive /\ dl \notin DOMAIN machine.others
Foreign == ~Nobody /\ dl \notin HomeDrives(machine)

(* A partition that was formatted where it lies, with all its boot sectors; *)
(* the other ones have no stage 2 where their BPB places it.  The firmware  *)
(* has the volume's geometry, whichever number of the disk it is asked for. *)
Placed(v) == v.stage1 = "single" \/ v.stage2 # "none"
SoundMachine(m) ==
  /\ \A d \in HomeDrives(m) : See(m, d).bios.reliable = m.reliable
  /\ \A lba \in DOMAIN m.sectors \ {0} :
       m.sectors[lba].kind = "fat32" => (lba = m.volume.hidd <=> Placed(m.volume))
  /\ Placed(m.volume) => \A d \in HomeDrives(m) : P!Sound(See(m, d))
SoundMachines == \A m \in Machines : SoundMachine(m)

(***************************** properties *******************************)
(* The partition the MBR will enter is the FAT32 volume, formatted for the  *)
(* place where it lies.                                                     *)
VolumeIsActive ==
  /\ ActiveEntries # {} /\ ActiveLba # 0 /\ Present(ActiveLba)
  /\ At(ActiveLba).kind = "fat32" /\ machine.volume.hidd = ActiveLba

(* A boot record that is given the number of no drive stops before it has   *)
(* changed memory and runs nothing but itself.  With a number of another    *)
(* drive it may run what lies at stage 2's LBA there; it loads nothing,     *)
(* unless that is a stage 2.  And since nothing else stops in stage 1 on a  *)
(* drive that works and answers, 'G' and 'R' then tell that DL was changed. *)
MemoryIsClear == \A b \in DOMAIN mem : mem[b] = P!NoSector
LostDriveLoadsNothing ==
  /\ Handover /\ Nobody => MemoryIsClear /\ pbrPc \notin {"run", "wild"}
  /\ Handover /\ ~Placed(See(machine, dl).vol) => MemoryIsClear /\ pbrPc # "run"
  /\ (VolumeIsActive /\ machine.reliable /\ machine.bios.probe /\ err \in {"G", "R"}) =>
       dl # machine.drive

(* What the firmware starts implements the abstract loader of the active    *)
(* partition's file: through both records, and the loss of DL between them. *)
(* Nothing is claimed of a record that is entered with another disk's       *)
(* number: for its caller the boot stops there.                             *)
ChainStatus ==
  IF pc = "halted" \/ (Handover /\ Foreign) THEN "stopped"
  ELSE IF Handover THEN P!Status ELSE "loading"
L == INSTANCE Loader WITH
       file <- IF VolumeIsActive THEN P!File(machine.volume) ELSE <<>>,
       loaded <- IF Foreign THEN <<>> ELSE P!Image, status <- ChainStatus
ChainLoaderSpec == L!Spec

(* A boot ends, unless the active entry begins at LBA 0 (the MBR may then   *)
(* read and start itself for ever) or the record walks another disk.  It    *)
(* ends in the active partition's boot sector whenever that one is marked   *)
(* and the drive reads it, and in its loader, if there is one to be found   *)
(* and DL is still a number of the disk, be it one that fn 0x08 refuses to  *)
(* ntldr.  With mbr_win7 DL is still the firmware's, if fn 0x42 keeps it.   *)
CanBoot ==
  /\ CanEnter /\ VolumeIsActive /\ dl \in HomeDrives(machine)
  /\ See(machine, dl).bios.probe \/ machine.volume.stage1 # "bootmgr"
  /\ P!File(machine.volume) # <<>>
BootsWhenItCan ==
  \/ ActiveEntries # {} /\ ActiveLba = 0
  \/ <>(/\ pc = "halted" \/ (pc = "entered" /\ (Handover => P!Ended \/ Foreign))
        /\ CanEnter => pc = "entered"
        /\ CanEnter /\ variant = "win7" /\ machine.keepsDl => dl = machine.drive
        /\ CanBoot => pbrPc = "run")
=============================================================================
