------------------------------ MODULE Fat32Pbr ------------------------------
(* The FAT32 partition boot records: stage 1 and stage 2 of                 *)
(* boot-asm/fat32_pbr_bootmgr/ and boot-asm/fat32_pbr_ntldr/ (INT 13h fn    *)
(* 0x02, CHS) and the one-sector boot-asm/fat32_pbr_bootmgr.asm (fn 0x42,   *)
(* LBA).  They find BOOTMGR or NTLDR in the root directory, follow its      *)
(* cluster chain to 2000:0000 and jump there.                               *)
(*                                                                          *)
(* One action per INT 13h call, with the code up to the next call.  A       *)
(* sector is named by the LBA it comes from; what the code interprets (FAT  *)
(* entries, directory slots) is looked up in env.vol at that LBA.           *)
EXTENDS Chs, Fat32Layout, FiniteSets

CONSTANTS
  Environments,   \* the volumes and drives that may be booted
  Word,           \* 2^32: LBA arithmetic is done in 32-bit registers
  Blocks,         \* 512-byte blocks ES can reach, 0x10000 / 0x20 = 2048
  LoadBlock,      \* block of segment 0x2000, 256
  RamTop,         \* first block above conventional memory, 1280
  Resident,       \* blocks of the IVT, the stack, stage 1 and stage 2
  Garbage         \* what four bytes that are no FAT entry may hold

Variants == {"bootmgr", "ntldr", "single"}

ASSUME LayoutAssumption ==
  /\ Word \in Nat \ {0} /\ EntPerSec \in Nat \ {0}
  /\ EntMod \in Nat /\ EntMod > 10
  /\ LoadBlock \in Nat \ {0} /\ RamTop \in Nat /\ Blocks \in Nat
  /\ LoadBlock < RamTop /\ RamTop < Blocks
  /\ Resident \subseteq 0..(Blocks - 1) /\ 0 \in Resident
  /\ Resident \cap (LoadBlock..(Blocks - 1)) = {}
  /\ Garbage \subseteq Nat

VARIABLES
  env,       \* [vol, bios]: the disk and the firmware, fixed during a boot
  pc,        \* where the code is
  err,       \* the letter printed before halting, "none" while it runs
  spt, heads,                  \* GEOM_SPT, GEOM_HEADS
  fatLba, dataLba, readLba,    \* FAT_LBA, DATA_LBA, READ_LBA
  clus,      \* EAX: the current cluster
  left,      \* CX: sectors left in it
  es,        \* destination segment, as a block number
  mem        \* block -> LBA of the sector stored there, NoSector before
vars == <<env, pc, err, spt, heads, fatLba, dataLba, readLba, clus, left, es, mem>>

vol == env.vol
bios == env.bios

(* "loop" and "dec; jnz" count a zero as the full range of their register.  *)
Iterations(n, range) == IF n = 0 THEN range ELSE n

(***************************** the volume *******************************)
(* The sectors of the tables; the first one is there also when the BPB      *)
(* counts none.                                                             *)
IsFatSector(v, l)  ==
  l \in FatStart(v)..(DataStart(v) - 1) \/ l \in FatStart(v)..(FatStart(v) + v.fatsz - 1)

(* The four bytes at offset o of the buffer that sector l was read to: an   *)
(* entry, parts of two, or what lies behind the 512 bytes of the buffer.    *)
FatValues(v, l, o) ==
  LET c == ((l - FatStart(v)) % v.fatsz) * EntPerSec + o \div 4
  IN  IF IsFatSector(v, l) /\ o % 4 = 0 /\ o < 4 * EntPerSec /\ c \in DOMAIN v.fat
      THEN {v.fat[c]} ELSE Garbage

(* The name stage 2 compares with; the one-sector record is its own stage 2 *)
Target(v) == IF v.stage1 # "single" /\ v.stage2 = "ntldr" THEN "NTLDR" ELSE "BOOTMGR"
File(v) == IF Target(v) \in DOMAIN v.files
           THEN SectorsOf(v, v.files[Target(v)]) ELSE <<>>

(* The slot at which the scan of a root sector stops: the end mark or the   *)
(* first short entry with the name.  Deleted and long-name slots are passed *)
(* over; the attributes of a short entry are not looked at.                 *)
IsStop(v, s)  == s.kind = "end" \/ (s.kind = "short" /\ s.name = Target(v))
Stops(v, slots) == {i \in DOMAIN slots : IsStop(v, slots[i])}
FirstStop(v, slots) == CHOOSE i \in Stops(v, slots) : \A j \in Stops(v, slots) : i <= j

(***************************** the drive ********************************)
(* INT 13h fn 0x08 and 0x02/0x42.  bios.probe says whether fn 0x08 is       *)
(* answered (with CL and DH), bios.spt x bios.heads is the translation fn   *)
(* 0x02 really uses, and a drive that is not reliable may fail any read.    *)
Accessed(l) == IF vol.stage1 = "single" THEN l
               ELSE Seek(Pack(l, spt, heads), bios.spt, bios.heads)
Reads(l) == Accessed(l) \in 0..(bios.sectors - 1)
Fails(l) == ~bios.reliable \/ ~Reads(l)

(* A directory sector holds its slots; any other sector, read as one, may   *)
(* look empty, look finished, or show the name.                             *)
GarbageSlots == {<<>>, <<[kind |-> "end"]>>}
                \cup {<<[kind |-> "short", name |-> Target(vol), clus |-> g]>> : g \in Garbage}
SlotsAt(l) == IF l \in DOMAIN vol.dir THEN {vol.dir[l]} ELSE GarbageSlots

(***************************** the code *********************************)
Goto(label) == pc' = label /\ UNCHANGED err
Die(letter) == pc' = "halted" /\ err' = letter

MutClusterLba(c) == (c * vol.spc + dataLba) % Word
ClusterLba(c) == ((c - 2) * vol.spc + dataLba) % Word

(* Where the FAT entry of a cluster is: four bytes each, in sectors of as   *)
(* many bytes as the BPB says.                                              *)
EntryByte(c)   == (4 * c) % Word
EntrySector(c) == (fatLba + EntryByte(c) \div vol.bytsPerSec) % Word
EntryOffset(c) == EntryByte(c) % vol.bytsPerSec
MutEntry(raw) == raw
Entry(raw) == raw % EntMod
MutIsLast(c) == c < EocMin
IsLast(c) == c >= EocMin

(* ES + 0x20, in sixteen bits. *)
MutNextBlock(b) == (b + Blocks - 1) % Blocks
NextBlock(b) == (b + 1) % Blocks

Init ==
  /\ env \in Environments
  /\ pc = (IF env.vol.stage1 = "single" THEN "setup" ELSE "probe")
  /\ err = "none"
  /\ spt = 0 /\ heads = 0
  /\ fatLba = 0 /\ dataLba = 0 /\ readLba = 0
  /\ clus = 0 /\ left = 0
  /\ es = LoadBlock
  /\ mem = [b \in 0..(Blocks - 1) |-> NoSector]

(* Stage 1: fn 0x08 answers with CL and DH, ...                             *)
KeepWalk == UNCHANGED <<fatLba, dataLba, readLba, clus, left, es, mem>>
ProbeAnswered ==
  /\ pc = "probe" /\ bios.probe
  /\ spt' = ProbedSpt(bios.cl) /\ heads' = ProbedHeads(bios.dh)
  /\ Goto("readStage2")
  /\ KeepWalk

(* ... or refuses: ntldr falls back to the USB-FDD profile, ...             *)
ProbeFallback ==
  /\ pc = "probe" /\ ~bios.probe /\ vol.stage1 = "ntldr"
  /\ spt' = 18 /\ heads' = 2
  /\ Goto("readStage2")
  /\ KeepWalk

(* ... bootmgr prints 'G' and halts.                                        *)
ProbeRefused ==
  /\ pc = "probe" /\ ~bios.probe /\ vol.stage1 = "bootmgr"
  /\ Die("G")
  /\ UNCHANGED <<spt, heads>>
  /\ KeepWalk

(* Stage 1: read partition sector 2 to 0x7E00 and jump to it, unseen.       *)
Stage2Lba == (vol.hidd + 2) % Word
IsStage2(l) == l = vol.hidd + 2 /\ vol.stage2 \in {"bootmgr", "ntldr"}
ReadStage2 ==
  /\ pc = "readStage2"
  /\ \/ /\ ~Divides(spt, heads)
        /\ Goto("fault")
     \/ /\ Divides(spt, heads) /\ Fails(Stage2Lba)
        /\ Die("R")
     \/ /\ Divides(spt, heads) /\ Reads(Stage2Lba)
        /\ Goto(IF IsStage2(Accessed(Stage2Lba)) THEN "setup" ELSE "wild")
  /\ UNCHANGED <<spt, heads>>
  /\ KeepWalk

(* Stage 2: FAT_LBA, DATA_LBA and the first root cluster, from the BPB.     *)
Setup ==
  /\ pc = "setup"
  /\ fatLba' = (vol.hidd + vol.rsvd) % Word
  /\ dataLba' = (fatLba' + Iterations(vol.nfats, 256) * vol.fatsz) % Word
  /\ clus' = vol.rootClus
  /\ Goto("dirCluster")
  /\ UNCHANGED <<spt, heads, readLba, left, es, mem>>

(* .dir_cluster and the head of read_cluster: first sector and count.       *)
EnterCluster(from, to) ==
  /\ pc = from
  /\ readLba' = ClusterLba(clus)
  /\ left' = Iterations(vol.spc, 65536)
  /\ Goto(to)
  /\ UNCHANGED <<spt, heads, fatLba, dataLba, clus, es, mem>>
EnterDirCluster  == EnterCluster("dirCluster", "dirSector")
EnterFileCluster == EnterCluster("loadCluster", "loadSector")

(* .dir_sector and .scan: read one root sector and look at its slots.       *)
ScanSector ==
  /\ pc = "dirSector"
  /\ \/ /\ Fails(readLba)
        /\ Die("2")
        /\ UNCHANGED <<readLba, clus, left>>
     \/ /\ Reads(readLba)
        /\ \E slots \in SlotsAt(Accessed(readLba)) :
             \/ /\ Stops(vol, slots) = {}
                /\ readLba' = (readLba + 1) % Word
                /\ left' = left - 1
                /\ Goto(IF left = 1 THEN "dirNext" ELSE "dirSector")
                /\ UNCHANGED clus
             \/ /\ Stops(vol, slots) # {}
                /\ LET s == slots[FirstStop(vol, slots)]
                   IN  IF s.kind = "end"
                       THEN Die("1") /\ UNCHANGED clus
                       ELSE Goto("loadCluster") /\ clus' = s.clus
                /\ UNCHANGED <<readLba, left>>
  /\ UNCHANGED <<spt, heads, fatLba, dataLba, es, mem>>

MutFollowChain(from, again, AtEnd) ==
  /\ pc = from
  /\ vol.bytsPerSec # 0
  /\ readLba' = EntrySector(clus)
  /\ Reads(readLba')
  /\ Goto(again)
  /\ UNCHANGED <<spt, heads, fatLba, dataLba, clus, left, es, mem>>

(* next_cluster: divide by BPB_BytsPerSec, read the FAT sector of the       *)
(* current cluster, and go on to the next one or, at the end of the chain,  *)
(* to what follows the walk.                                                *)
FollowChain(from, again, AtEnd) ==
  /\ pc = from
  /\ \/ /\ vol.bytsPerSec = 0
        /\ Goto("fault")
        /\ UNCHANGED <<readLba, clus>>
     \/ /\ vol.bytsPerSec # 0
        /\ readLba' = EntrySector(clus)
        /\ Fails(readLba')
        /\ Die("2")
        /\ UNCHANGED clus
     \/ /\ vol.bytsPerSec # 0
        /\ readLba' = EntrySector(clus)
        /\ Reads(readLba')
        /\ \E raw \in FatValues(vol, Accessed(readLba'), EntryOffset(clus)) :
             /\ clus' = Entry(raw)
             /\ IF IsLast(clus') THEN AtEnd ELSE Goto(again)
  /\ UNCHANGED <<spt, heads, fatLba, dataLba, left, es, mem>>
NextDirCluster  == FollowChain("dirNext", "dirCluster", Die("1"))
NextFileCluster == FollowChain("loadNext", "loadCluster", Goto("run"))

(* .lr: read one sector of the file to ES:0000 and advance ES by 0x20,      *)
(* whatever is there.  A sector stored over the interrupt table, the stack  *)
(* or the code is the end of any known behaviour; from RamTop upwards it    *)
(* goes to display memory, adapters and the BIOS, which need not keep it.   *)
LoadSector ==
  /\ pc = "loadSector"
  /\ \/ /\ Fails(readLba)
        /\ Die("2")
        /\ UNCHANGED <<readLba, left, es, mem>>
     \/ /\ Reads(readLba)
        /\ mem' = [mem EXCEPT ![es] = Accessed(readLba)]
        /\ readLba' = (readLba + 1) % Word
        /\ es' = NextBlock(es)
        /\ left' = left - 1
        /\ Goto(IF es \in Resident THEN "wild"
                ELSE IF left = 1 THEN "loadNext" ELSE "loadSector")
  /\ UNCHANGED <<spt, heads, fatLba, dataLba, clus>>

Next ==
  /\ \/ ProbeAnswered \/ ProbeFallback \/ ProbeRefused \/ ReadStage2 \/ Setup
     \/ EnterDirCluster \/ ScanSector \/ NextDirCluster
     \/ EnterFileCluster \/ LoadSector \/ NextFileCluster
  /\ UNCHANGED env

(* Nothing else runs on the machine: the code is always going on. *)
Spec == Init /\ [][Next]_vars
FairSpec == Spec /\ WF_vars(Next)

(************************ sound environments ****************************)
(* What a formatter and a consistent BIOS give the code: a chain lies in    *)
(* the data area and the FAT threads it; the BPB agrees with the layout.    *)
ChainOK(v, c) ==
  /\ c \in Seq(Nat) /\ Len(c) >= 1
  /\ \A i \in 1..Len(c) :
       /\ c[i] >= 2 /\ c[i] < EocMin /\ c[i] < Word \div 4
       /\ FirstLba(v, c[i]) + v.spc <= v.hidd + v.total
       /\ c[i] \div EntPerSec < v.fatsz
       /\ c[i] \in DOMAIN v.fat /\ v.fat[c[i]] \in Nat
       /\ IF i < Len(c) THEN v.fat[c[i]] % EntMod = c[i + 1]
                        ELSE v.fat[c[i]] % EntMod >= EocMin

(* Slot j of root sector i shows the loader: it has the name, and no end    *)
(* mark precedes it.                                                        *)
RootSectors(v) == SectorsOf(v, v.root)
RootSlots(v, i) == v.dir[RootSectors(v)[i]]
Shows(v, i, j) ==
  /\ RootSlots(v, i)[j].kind = "short" /\ RootSlots(v, i)[j].name = Target(v)
  /\ \A p \in 1..i : \A q \in DOMAIN RootSlots(v, p) :
       (p < i \/ q < j) => RootSlots(v, p)[q].kind # "end"

(* The name is shown just when the file exists, and leads to its chain.     *)
DirectoryOK(v) ==
  /\ \A i \in 1..Len(RootSectors(v)) :
       /\ RootSectors(v)[i] \in DOMAIN v.dir
       /\ RootSlots(v, i) \in Seq([kind : {"end", "deleted", "lfn", "short"},
                                   name : STRING, clus : Nat])
       /\ \A j \in DOMAIN RootSlots(v, i) :
            Shows(v, i, j) => /\ Target(v) \in DOMAIN v.files
                              /\ RootSlots(v, i)[j].clus = v.files[Target(v)][1]
  /\ Target(v) \in DOMAIN v.files =>
       \E i \in 1..Len(RootSectors(v)) : \E j \in DOMAIN RootSlots(v, i) : Shows(v, i, j)

VolumeOK(v) ==
  /\ v.hidd \in Nat /\ v.rsvd \in Nat /\ v.rsvd >= 3
  /\ v.nfats \in Nat /\ 1 <= v.nfats /\ v.nfats <= 255 /\ v.fatsz \in Nat /\ v.fatsz >= 1
  /\ v.spc \in Nat /\ 1 <= v.spc /\ v.spc <= 255 /\ v.total \in Nat
  /\ v.bytsPerSec = 4 * EntPerSec
  /\ v.hidd + v.total < Word
  /\ v.rootClus = v.root[1]
  /\ ChainOK(v, v.root)
  /\ Target(v) \in DOMAIN v.files => ChainOK(v, v.files[Target(v)])
  /\ DirectoryOK(v)
  /\ Len(File(v)) <= RamTop - LoadBlock
  /\ v.stage1 \in Variants
  /\ v.stage1 # "single" => v.stage2 \in {"bootmgr", "ntldr"}

(* The geometry the code will use is the one the BIOS translates with, it   *)
(* fits the bytes it is kept in, and the partition is inside its reach.     *)
DriveOK(e) ==
  /\ e.bios.reliable \in BOOLEAN /\ e.bios.probe \in BOOLEAN
  /\ e.bios.sectors \in Nat /\ e.vol.hidd + e.vol.total <= e.bios.sectors
  /\ e.vol.stage1 # "single" =>
       /\ Fits(e.bios.spt, e.bios.heads)
       /\ e.vol.hidd + e.vol.total <= Reach(e.bios.spt, e.bios.heads)
       /\ IF e.bios.probe
          THEN e.bios.cl \in Nat /\ e.bios.cl % 64 = e.bios.spt /\ e.bios.dh = e.bios.heads - 1
          ELSE e.vol.stage1 = "ntldr" => e.bios.spt = 18 /\ e.bios.heads = 2

Sound(e) == VolumeOK(e.vol) /\ DriveOK(e)
SoundEnvironments == \A e \in Environments : Sound(e)

(***************************** properties *******************************)
(* How much of the file is in memory. *)
Copied == es - LoadBlock
Image == [n \in 1..Copied |-> mem[LoadBlock + n - 1]]

Labels == {"probe", "readStage2", "setup", "dirCluster", "dirSector", "dirNext",
           "loadCluster", "loadSector", "loadNext", "run", "halted", "fault", "wild"}
Ended == pc \in {"run", "halted", "fault", "wild"}

(* Every register and scratch cell holds a value of its width, the current  *)
(* cluster has 28 bits, and the copy never leaves conventional memory.      *)
TypeOK ==
  /\ env \in Environments /\ pc \in Labels
  /\ err \in {"none", "G", "R", "1", "2"}
  /\ spt \in Nat /\ spt <= 63 /\ heads \in Nat /\ heads <= 255
  /\ fatLba \in 0..(Word - 1) /\ dataLba \in 0..(Word - 1) /\ readLba \in 0..(Word - 1)
  /\ clus \in 0..(EntMod - 1)
  /\ left \in Nat /\ left <= 255
  /\ es \in LoadBlock..RamTop
  /\ mem \in [0..(Blocks - 1) -> Int]

(* The image grows in file order: whatever has been copied so far is the    *)
(* beginning of the loader, across fragmented chains and cluster ends, and  *)
(* nothing outside the load area has been touched.                          *)
ImageIsPrefix ==
  /\ Copied <= Len(File(vol))
  /\ \A b \in 0..(Blocks - 1) :
       mem[b] = IF b \in LoadBlock..(es - 1) THEN File(vol)[b - LoadBlock + 1]
                ELSE NoSector

(* Control passes to the image only when it is the whole, existing file.    *)
RunsWholeFile == pc = "run" => File(vol) # <<>> /\ Copied = Len(File(vol))

(* The code never executes anything that is not its own, never divides by   *)
(* zero: on every path it either runs the loader or halts with a letter.    *)
NeverLost == pc \notin {"wild", "fault"} /\ (pc = "halted" <=> err # "none")

(* '1' is printed only when the loader is really not in the root directory, *)
(* though deleted slots, long names and several root clusters precede it.   *)
NotFoundMeansAbsent == err = "1" => Target(vol) \notin DOMAIN vol.files

(* Every boot comes to an end, and a boot from a drive that reads without   *)
(* errors and answers the probe (or needs none) starts a loader it has.     *)
CanBoot ==
  bios.reliable /\ (bios.probe \/ vol.stage1 # "bootmgr") /\ File(vol) # <<>>
BootsWhenItCan == <>(Ended /\ (CanBoot => pc = "run"))

(* On any volume, damaged or not: a copy without an end, of a chain that    *)
(* circles or a file that is too long, goes up to the top of what ES can    *)
(* reach and then over the interrupt table, and there the boot is lost; it  *)
(* never goes on over the record, its stack and its scratch cells.  Control *)
(* is lost in no other way but before anything has been copied.             *)
RunawayHitsInterruptTable ==
  /\ \A b \in 1..(LoadBlock - 1) : mem[b] = NoSector
  /\ mem[0] # NoSector =>
       pc = "wild" /\ \A b \in LoadBlock..(Blocks - 1) : mem[b] # NoSector
  /\ pc = "wild" => mem[0] # NoSector \/ \A b \in 0..(Blocks - 1) : mem[b] = NoSector

(* On any volume and drive: the divisions fault only on a zero that the     *)
(* probe left (no sectors per track, or 256 heads) or that the BPB has for  *)
(* the bytes of a sector; and no loader is started past such a zero.        *)
FaultsOnlyOnZeros ==
  /\ pc = "fault" =>
       \/ vol.bytsPerSec = 0
       \/ vol.stage1 # "single" /\ bios.probe /\ (bios.cl % 64 = 0 \/ bios.dh = 255)
  /\ pc = "run" => vol.bytsPerSec # 0 /\ (vol.stage1 # "single" => Divides(spt, heads))

(* ntldr/sector0.asm: the CHS limit does not bite a file far below 8 GB:    *)
(* what runs is the file.                                                   *)
LimitDoesNotBite == pc = "run" => Image = File(vol)

(* The whole record implements the abstract loader. *)
Status == CASE pc = "run" -> "running"
            [] pc \in {"halted", "fault", "wild"} -> "stopped"
            [] OTHER -> "loading"
L == INSTANCE Loader WITH file <- File(vol), loaded <- Image, status <- Status
LoaderSpec == L!Spec
=============================================================================
