------------------------------ MODULE NtfsPbr ------------------------------
(* The NTFS partition boot record: stage 1 and stage 2 of                   *)
(* boot-asm/ntfs_pbr_bootmgr/.  Stage 2 reads $MFT's own record, the root   *)
(* directory's and its index blocks, then BOOTMGR's record, copies the      *)
(* extents of its $DATA to 2000:0000 and jumps there.                       *)
(*                                                                          *)
(* One action per INT 13h call or table lookup, with the code up to the     *)
(* next.  A run list is a sequence of [len, delta], as the mapping pairs    *)
(* give it; what the code interprets is looked up in env.vol at the LBA     *)
(* that was read to BUF.                                                    *)
EXTENDS Integers, Sequences, FiniteSets

CONSTANTS
  Environments,   \* the volumes and drives that may be booted
  Word,           \* 2^32: LBA arithmetic is done in 32-bit registers
  LoopRange,      \* 65536: CX
  BufSectors,     \* sectors from BUF (6000h) to the cells and stack below 7C00h, 13
  TableRuns,      \* entries of MFT_RUNS, with its terminator, that the stack
                  \* spares: 25 of the 28 from 7B20h to 7C00h, where the stack
                  \* begins (read_mft_rec and apply_fixups take 22 bytes), and
                  \* fewer if an INT 13h handler takes more than those
  Blocks,         \* 512-byte blocks ES can reach, 2048
  LoadBlock,      \* block of segment 0x2000, 256
  RamTop,         \* first block above conventional memory, 1280
  Resident,       \* blocks of the IVT, BUF, the stack, stage 1 and stage 2
  StrayRecords,   \* what sectors that are no record may look like as one, and
  StrayBlocks,    \* what a cluster that is no index block may
  Leftovers       \* what the rest of a run list may look like once overwritten

ASSUME NtfsAssumption ==
  /\ Word \in Nat \ {0} /\ LoopRange \in Nat \ {0}
  /\ BufSectors \in Nat \ {0} /\ TableRuns \in Nat \ {0}
  /\ BufSectors <= LoopRange /\ LoopRange <= Word
  /\ LoadBlock \in Nat \ {0} /\ RamTop \in Nat /\ Blocks \in Nat
  /\ LoadBlock < RamTop /\ RamTop < Blocks
  /\ Resident \cap (LoadBlock..(RamTop - 1)) = {}

VARIABLES
  env,       \* [vol, bios]: the disk and the firmware, fixed during a boot
  pc,        \* where the code is
  err,       \* the letter printed before halting, "none" while it runs
  table,     \* MFT_RUNS: [lcn, len]
  rec, ret,  \* the record read_mft_rec is asked for, and who asked
  buf,       \* LBA of the first sector in BUF
  todo,      \* what is left of the run list at BX
  base, lcn, \* LCN of the run, and EBP: of the cluster of it being read
  clusters,  \* CX: clusters left in the run of the index
  lba, left, \* READ_LBA, and sectors left in the loop that reads them
  es,        \* destination segment of the copy, as a block number
  mem        \* block -> LBA of the sector in it, NoSector before
vars == <<env, pc, err, table, rec, ret, buf, todo, base, lcn, clusters, lba, left, es, mem>>

vol == env.vol
bios == env.bios
NoSector == -1

Iterations(n) == IF n % LoopRange = 0 THEN LoopRange ELSE n % LoopRange

(***************************** the volume *******************************)
(* vol.mft are the sectors of $MFT in order, vol.recs its records after     *)
(* their fixups, vol.blocks the index blocks by LCN, vol.file the sectors   *)
(* of BOOTMGR, and vol.named whether the root directory has that name.      *)
(* BPB[40h]: a negative number is a power of two in bytes, a positive one   *)
(* counts clusters; at least one sector.                                    *)
RecSectors(v) ==
  LET n == IF v.recSize >= 0 THEN v.recSize * v.spc
           ELSE IF v.recSize > -9 THEN 0 ELSE 2 ^ (-v.recSize - 9)
  IN  IF n = 0 THEN 1 ELSE n
ClusterLba(v, c) == (c * v.spc + v.hidd) % Word

(* The records that lie whole and in order at an LBA. *)
RecordsFrom(v, l) ==
  {n \in DOMAIN v.recs :
     \A i \in 1..RecSectors(v) : /\ n * RecSectors(v) + i \in DOMAIN v.mft
                                 /\ v.mft[n * RecSectors(v) + i] = l + i - 1}
RecordsAt(l) == IF RecordsFrom(vol, l) = {} THEN StrayRecords
                ELSE {vol.recs[n] : n \in RecordsFrom(vol, l)}
BlocksAt(l) ==
  LET known == {c \in DOMAIN vol.blocks : ClusterLba(vol, c) = l}
  IN  IF known = {} THEN StrayBlocks ELSE {vol.blocks[c] : c \in known}

(* INT 13h fn 0x42. *)
Reads(l) == l < bios.sectors
Fails(l) == ~bios.reliable \/ ~Reads(l)

(***************************** the code *********************************)
Goto(label) == pc' = label /\ UNCHANGED err
Die(letter) == pc' = "halted" /\ err' = letter
KeepCopy == UNCHANGED <<es, mem>>
KeepLists == UNCHANGED <<table, todo, base, lcn, clusters>>
KeepRead == UNCHANGED <<rec, ret, buf, lba, left>>

Init ==
  /\ env \in Environments
  /\ pc = "readStage2" /\ err = "none"
  /\ table = <<>> /\ rec = 0 /\ ret = "none" /\ buf = 0
  /\ todo = <<>> /\ base = 0 /\ lcn = 0 /\ clusters = 0 /\ lba = 0 /\ left = 0
  /\ es = LoadBlock
  /\ mem = [b \in 0..(Blocks - 1) |-> NoSector]

(* Stage 1: read partition sectors 2 and 3 to 0x7E00 and jump to them.      *)
ReadStage2 ==
  /\ pc = "readStage2"
  /\ LET l == (vol.hidd + 2) % Word
     IN  \/ /\ Fails(l) \/ Fails(l + 1)
            /\ Die("R")
         \/ /\ Reads(l) /\ Reads(l + 1)
            /\ Goto(IF vol.stage2 THEN "setup" ELSE "wild")
  /\ KeepRead /\ KeepLists /\ KeepCopy

(* read_mft_rec(n), called to go on at next. *)
Ask(n, next) == rec' = n /\ ret' = next /\ Goto("readMftRec") /\ UNCHANGED <<buf, lba, left>>

(* REC_SECTORS is RecSectors; MFT_RUNS maps the world to one run at MftLcn. *)
Setup ==
  /\ pc = "setup"
  /\ table' = <<[lcn |-> vol.mftLcn, len |-> Word \div 2 - 1]>>
  /\ Ask(0, "parseMft")
  /\ UNCHANGED <<todo, base, lcn, clusters>> /\ KeepCopy

(* .find_run: the run of the table that holds a sector of $MFT, and the LBA *)
(* it gives that sector.  An entry of no clusters ends the table.           *)
RunSectors(r) == (r.len * vol.spc) % Word
Offsets ==     \* the sectors before each entry, and before the end
  LET upto[i \in 0..Len(table)] ==
        IF i = 0 THEN 0 ELSE upto[i - 1] + RunSectors(table[i])
  IN  upto
MutHolders(s) == {1}
Holders(s) ==
  {i \in DOMAIN table : /\ \A j \in 1..i : table[j].len # 0
                        /\ Offsets[i - 1] <= s /\ s < Offsets[i]}
ReadMftRec ==
  /\ pc = "readMftRec"
  /\ LET s == (rec * RecSectors(vol)) % Word
     IN  \/ /\ Holders(s) = {}
            /\ Die("O")
            /\ UNCHANGED <<buf, lba, left>>
         \/ \E i \in Holders(s) :
              /\ lba' = (ClusterLba(vol, table[i].lcn) + s - Offsets[i - 1]) % Word
              /\ buf' = lba'
              /\ left' = RecSectors(vol)
              /\ Goto("readRec")
  /\ UNCHANGED <<rec, ret>> /\ KeepLists /\ KeepCopy

(* .lp and .idx_read: the next sector to BUF.  Past BufSectors it goes over *)
(* BOOT_DRV, the run table, the stack and the code.                         *)
ReadToBuf(from, next) ==
  /\ pc = from
  /\ \/ /\ Fails(lba)
        /\ Die("I")
        /\ UNCHANGED <<lba, left>>
     \/ /\ Reads(lba) /\ lba - buf >= BufSectors
        /\ Goto("wild")
        /\ UNCHANGED <<lba, left>>
     \/ /\ Reads(lba) /\ lba - buf < BufSectors
        /\ lba' = (lba + 1) % Word
        /\ left' = left - 1
        /\ Goto(IF left = 1 THEN next ELSE from)
  /\ UNCHANGED <<rec, ret, buf>> /\ KeepLists /\ KeepCopy
ReadRecord == ReadToBuf("readRec", ret)
ReadBlock  == ReadToBuf("readBlock", "scanBlock")

(* find_attr finds no such attribute, or runs in circles. *)
Lacks(attr) ==
  /\ \/ attr.form = "none" /\ Die("A")
     \/ attr.form = "endless" /\ Goto("spin")
  /\ KeepRead /\ KeepLists /\ KeepCopy

(* read_le_signed: each run begins where its delta from the last one says.  *)
Absolute(runs) ==
  LET at[i \in 0..Len(runs)] == IF i = 0 THEN 0 ELSE (at[i - 1] + runs[i].delta) % Word
  IN  [i \in DOMAIN runs |-> [lcn |-> at[i], len |-> runs[i].len]]

(* Record 0: the real extents of $MFT replace the bootstrap entry.  There   *)
(* is no check that they fit below the stack; what it may overwrite of a    *)
(* longer table is not followed.                                            *)
ParseMft ==
  /\ pc = "parseMft"
  /\ \E r \in RecordsAt(buf) :
       \/ Lacks(r.data)
       \/ /\ r.data.form = "resident" /\ Die("M")
          /\ KeepRead /\ KeepLists /\ KeepCopy
       \/ /\ r.data.form = "runs" /\ Len(r.data.runs) >= TableRuns /\ Goto("wild")
          /\ KeepRead /\ KeepLists /\ KeepCopy
       \/ /\ r.data.form = "runs" /\ Len(r.data.runs) < TableRuns
          /\ table' = Absolute(r.data.runs)
          /\ Ask(5, "scanRoot")
          /\ UNCHANGED <<todo, base, lcn, clusters>> /\ KeepCopy

(* The first entry with the name; apply_fixups has put the saved words back *)
(* at the sector ends, which may cut an entry.                              *)
MutApplyFixups(entries) == [i \in DOMAIN entries |-> [name |-> entries[i].disk, rec |-> entries[i].rec]]
ApplyFixups(entries) == [i \in DOMAIN entries |-> [name |-> entries[i].saved, rec |-> entries[i].rec]]
Hits(entries) == {i \in DOMAIN entries : ApplyFixups(entries)[i].name = "BOOTMGR"}
Found(entries) ==
  /\ Hits(entries) # {}
  /\ LET first == CHOOSE i \in Hits(entries) : \A j \in Hits(entries) : i <= j
     IN  Ask(entries[first].rec, "loadFile")

(* Record 5: $INDEX_ROOT's own entries; then, if the directory is large,    *)
(* the run list of $INDEX_ALLOCATION.                                       *)
ScanRoot ==
  /\ pc = "scanRoot"
  /\ \E r \in RecordsAt(buf) :
       \/ Lacks(r.root)
       \/ /\ r.root.form = "index" /\ Found(r.root.entries)
          /\ KeepLists /\ KeepCopy
       \/ /\ r.root.form = "index" /\ Hits(r.root.entries) = {} /\ ~r.root.large
          /\ Die("F")
          /\ KeepRead /\ KeepLists /\ KeepCopy
       \/ /\ r.root.form = "index" /\ Hits(r.root.entries) = {} /\ r.root.large
          /\ \/ Lacks(r.alloc)
             \/ /\ r.alloc.form = "runs"
                /\ todo' = r.alloc.runs /\ base' = 0
                /\ Goto("nextIndexRun")
                /\ KeepRead /\ UNCHANGED <<table, lcn, clusters>> /\ KeepCopy

(* .idx_cluster: read a cluster over BUF. *)
EnterCluster(c) ==
  /\ lcn' = c
  /\ lba' = ClusterLba(vol, c) /\ buf' = lba'
  /\ left' = Iterations(vol.spc)
  /\ Goto("readBlock")
  /\ UNCHANGED <<rec, ret>>

(* .idx_run: the next run, or 'F'. *)
NextIndexRun ==
  /\ pc = "nextIndexRun"
  /\ \/ /\ todo = <<>>
        /\ Die("F")
        /\ KeepRead /\ KeepLists
     \/ /\ todo # <<>>
        /\ todo' = Tail(todo)
        /\ base' = (base + Head(todo).delta) % Word
        /\ clusters' = Iterations(Head(todo).len)
        /\ EnterCluster(base')
        /\ UNCHANGED table
  /\ KeepCopy

(* .idx_scan: the entries of the block just read.  After the last cluster   *)
(* of the run BX points to the rest of the run list again, in BUF, where    *)
(* the clusters have been read over the record.                             *)
MutScanBlock ==
  /\ pc = "scanBlock"
  /\ \E b \in BlocksAt(buf) :
       \/ b.form = "endless" /\ Goto("spin") /\ KeepRead /\ KeepLists
       \/ b.form = "index" /\ Found(b.entries) /\ KeepLists
       \/ /\ b.form = "index" /\ Hits(b.entries) = {}
          /\ Goto("nextIndexRun")
          /\ KeepRead /\ KeepLists
  /\ KeepCopy
Rest == IF vol.spc >= RecSectors(vol) THEN Leftovers ELSE Leftovers \cup {todo}
ScanBlock ==
  /\ pc = "scanBlock"
  /\ \E b \in BlocksAt(buf) :
       \/ b.form = "endless" /\ Goto("spin") /\ KeepRead /\ KeepLists
       \/ b.form = "index" /\ Found(b.entries) /\ KeepLists
       \/ /\ b.form = "index" /\ Hits(b.entries) = {}
          /\ clusters' = clusters - 1
          /\ IF clusters > 1
             THEN EnterCluster((lcn + 1) % Word) /\ UNCHANGED todo
             ELSE todo' \in Rest /\ Goto("nextIndexRun") /\ UNCHANGED lcn /\ KeepRead
          /\ UNCHANGED <<table, base>>
  /\ KeepCopy

(* .load_bootmgr: the record of the entry that was found. *)
LoadFile ==
  /\ pc = "loadFile"
  /\ \E r \in RecordsAt(buf) :
       \/ Lacks(r.data)
       \/ /\ r.data.form = "resident" /\ Die("D")
          /\ KeepRead /\ KeepLists /\ KeepCopy
       \/ /\ r.data.form = "runs"
          /\ todo' = r.data.runs /\ base' = 0
          /\ Goto("nextRun")
          /\ KeepRead /\ UNCHANGED <<table, lcn, clusters>> /\ KeepCopy

(* .run: the next extent, or the jump. *)
MutSectors(n) == n
Sectors(n) == n * vol.spc
NextRun ==
  /\ pc = "nextRun"
  /\ \/ /\ todo = <<>>
        /\ Goto("run")
        /\ KeepRead /\ KeepLists
     \/ /\ todo # <<>>
        /\ todo' = Tail(todo)
        /\ base' = (base + Head(todo).delta) % Word
        /\ lba' = ClusterLba(vol, base')
        /\ left' = Iterations(Sectors(Head(todo).len))
        /\ Goto("loadSector")
        /\ UNCHANGED <<table, lcn, clusters, rec, ret, buf>>
  /\ KeepCopy

(* .rsec: one sector of the file to ES:0000, and ES + 0x20, whatever is     *)
(* there: over the interrupt table, the stack or the code it is the end of  *)
(* any known behaviour, from RamTop upwards nothing need keep it.           *)
MutNextBlock(b) == (b + Blocks - 1) % Blocks
NextBlock(b) == (b + 1) % Blocks
LoadSector ==
  /\ pc = "loadSector"
  /\ \/ /\ Fails(lba)
        /\ Die("I")
        /\ UNCHANGED <<lba, left>> /\ KeepCopy
     \/ /\ Reads(lba)
        /\ mem' = [mem EXCEPT ![es] = lba]
        /\ lba' = (lba + 1) % Word
        /\ es' = NextBlock(es)
        /\ left' = left - 1
        /\ Goto(IF es \in Resident THEN "wild"
                ELSE IF left = 1 THEN "nextRun" ELSE "loadSector")
  /\ UNCHANGED <<rec, ret, buf>> /\ KeepLists

Next ==
  /\ \/ ReadStage2 \/ Setup \/ ReadMftRec \/ ReadRecord \/ ParseMft \/ ScanRoot
     \/ NextIndexRun \/ ReadBlock \/ ScanBlock \/ LoadFile \/ NextRun \/ LoadSector
  /\ UNCHANGED env

(* Nothing else runs on the machine: the code is always going on. *)
Spec == Init /\ [][Next]_vars
FairSpec == Spec /\ WF_vars(Next)

(************************ sound environments ****************************)
(* A run list: run i begins at cluster lcn[i] of the partition, where the   *)
(* delta from the last run leads, and at[i] sectors of the stream precede   *)
(* it.                                                                      *)
Describes(v, attr, sectors) ==
  LET runs == attr.runs IN
  /\ attr.form = "runs" /\ runs \in Seq([len : Nat, delta : Int])
  /\ attr.at \in [1..(Len(runs) + 1) -> Nat] /\ attr.lcn \in [1..Len(runs) -> Nat]
  /\ attr.at[1] = 0 /\ attr.at[Len(runs) + 1] = Len(sectors)
  /\ \A i \in 1..Len(runs) :
       /\ runs[i].len >= 1 /\ (attr.lcn[i] + runs[i].len) * v.spc <= v.total
       /\ attr.lcn[i] = (IF i = 1 THEN 0 ELSE attr.lcn[i - 1]) + runs[i].delta
       /\ attr.at[i] + runs[i].len * v.spc = attr.at[i + 1] /\ attr.at[i + 1] <= Len(sectors)
       /\ \A k \in 1..(runs[i].len * v.spc) :
            sectors[attr.at[i] + k] = v.hidd + attr.lcn[i] * v.spc + k - 1
InOneLoop(v, runs) == \A i \in DOMAIN runs : runs[i].len * v.spc < LoopRange

(* A record that is whole where the code looks for it. *)
RecordOK(v, n) ==
  /\ n \in Nat /\ n \in DOMAIN v.recs /\ n * RecSectors(v) + 1 \in DOMAIN v.mft
  /\ RecordsFrom(v, v.mft[n * RecSectors(v) + 1]) = {n}

(* $MFT describes itself, in few enough pieces, and no piece ends inside a  *)
(* record that is read; the bootstrap entry has a size.                     *)
MftOK(v) ==
  /\ v.mft \in Seq(Nat) /\ Len(v.mft) <= v.total
  /\ RecordOK(v, 0) /\ v.mft[1] = ClusterLba(v, v.mftLcn) /\ v.mftLcn \in 0..(Word - 1)
  /\ Word >= 4 /\ ((Word \div 2 - 1) * v.spc) % Word # 0
  /\ Describes(v, v.recs[0].data, v.mft) /\ Len(v.recs[0].data.runs) < TableRuns

(* The index of the root directory is one run of blocks of one cluster that *)
(* fits BUF; the name is in it just when the file exists, and leads to it.  *)
FirstRun(v) ==
  LET r == v.recs[5] IN
  IF r.root.large
  THEN {r.alloc.runs[1].delta + k : k \in 0..(r.alloc.runs[1].len - 1)} ELSE {}
NamedIn(entries) == {entries[i].rec : i \in {j \in DOMAIN entries : entries[j].saved = "BOOTMGR"}}
Named(v) == NamedIn(v.recs[5].root.entries) \cup UNION {NamedIn(v.blocks[c].entries) : c \in FirstRun(v)}
Slots == Seq([disk : STRING, saved : STRING, rec : Nat])
RootOK(v) ==
  /\ RecordOK(v, 5) /\ v.recs[5].root.form = "index" /\ v.recs[5].root.entries \in Slots
  /\ v.recs[5].root.large \in BOOLEAN
  /\ v.recs[5].root.large =>
       LET runs == v.recs[5].alloc.runs IN
       /\ v.recs[5].alloc.form = "runs" /\ runs \in Seq([len : Nat, delta : Nat])
       /\ Len(runs) = 1 /\ runs[1].len >= 1 /\ InOneLoop(v, runs)
       /\ (runs[1].delta + runs[1].len) * v.spc <= v.total
       /\ v.named /\ v.spc <= BufSectors
  /\ \A c \in DOMAIN v.blocks : c \in Nat /\ c * v.spc < v.total
  /\ \A c \in FirstRun(v) : /\ c \in DOMAIN v.blocks /\ v.blocks[c].form = "index"
                            /\ v.blocks[c].entries \in Slots
  /\ Named(v) = IF v.named THEN {v.fileRec} ELSE {}
FileOK(v) ==
  LET d == v.recs[v.fileRec].data IN
  /\ RecordOK(v, v.fileRec)
  /\ \/ d.form = "resident" /\ v.file = <<>>
     \/ Describes(v, d, v.file) /\ InOneLoop(v, d.runs) /\ v.file # <<>>

VolumeOK(v) ==
  /\ v.stage2 /\ v.hidd \in Nat /\ v.total \in Nat /\ 4 <= v.total
  /\ v.spc \in Nat /\ 1 <= v.spc /\ v.spc < LoopRange /\ RecSectors(v) \in 1..BufSectors
  /\ v.hidd + v.total < Word
  /\ MftOK(v) /\ RootOK(v)
  /\ v.named \in BOOLEAN /\ v.file \in Seq(Nat)
  /\ IF v.named THEN FileOK(v) ELSE v.file = <<>>
  /\ LoadBlock + Len(v.file) <= RamTop
Sound(e) ==
  /\ VolumeOK(e.vol)
  /\ e.bios.sectors \in Nat /\ e.vol.hidd + e.vol.total <= e.bios.sectors

(***************************** properties *******************************)
Copied == es - LoadBlock
Image == [n \in 1..Copied |-> mem[LoadBlock + n - 1]]
Ended == pc \in {"run", "halted"}

(* Every register holds a value of its width, the buffer position stays     *)
(* below the cells, and the copy never leaves conventional memory.          *)
TypeOK ==
  /\ env \in Environments
  /\ pc \in {"readStage2", "setup", "readMftRec", "readRec", "parseMft", "scanRoot",
             "nextIndexRun", "readBlock", "scanBlock", "loadFile", "nextRun",
             "loadSector", "run", "halted", "spin", "wild"}
  /\ err \in {"none", "R", "A", "F", "M", "I", "D", "O"}
  /\ \A i \in DOMAIN table : table[i].lcn \in 0..(Word - 1)
  /\ Len(table) <= TableRuns
  /\ {rec, buf, lba, lcn, base} \subseteq 0..(Word - 1)
  /\ left \in 0..LoopRange /\ clusters \in 0..LoopRange
  /\ es \in LoadBlock..RamTop
  /\ pc \in {"readRec", "readBlock"} => lba - buf \in 0..BufSectors

(* The image grows in file order: whatever has been copied so far is the    *)
(* beginning of BOOTMGR, across its extents, and nothing else has changed.  *)
ImageIsPrefix ==
  /\ Copied <= Len(vol.file)
  /\ \A b \in 0..(Blocks - 1) :
       mem[b] = IF b \in LoadBlock..(es - 1) THEN vol.file[b - LoadBlock + 1] ELSE NoSector

(* On a sound volume the code executes nothing but its own, and halts with  *)
(* the letter of what is wrong: 'F' only for an absent file, 'D' only for a *)
(* resident one, and otherwise only on a drive that fails.                  *)
SaysWhy ==
  Sound(env) =>
    /\ pc \notin {"wild", "spin"}
    /\ err \in {"none"} \cup (IF bios.reliable THEN {} ELSE {"R", "I"})
              \cup (IF ~vol.named THEN {"F"} ELSE IF vol.file = <<>> THEN {"D"} ELSE {})

(* Every boot of a sound volume ends; it ends in BOOTMGR when there is one  *)
(* and the drive reads it.                                                  *)
BootsWhenItCan ==
  Sound(env) => <>(Ended /\ (bios.reliable /\ vol.file # <<>> => pc = "run"))

(* sector1.asm: every INDX block in every run of $INDEX_ALLOCATION is       *)
(* scanned, and 'F' is "BOOTMGR not in INDX".                               *)
NotFoundMeansAbsent == err = "F" => ~vol.named

(* The record implements the abstract loader, also on volumes it refuses or *)
(* cannot follow: no record but BOOTMGR's is ever taken for it, wherever    *)
(* $MFT's pieces lie, and control passes only to the whole of the file.     *)
Status == CASE pc = "run" -> "running"
            [] pc \in {"halted", "spin", "wild"} -> "stopped"
            [] OTHER -> "loading"
L == INSTANCE Loader WITH file <- vol.file, loaded <- Image, status <- Status
LoaderSpec == L!Spec
=============================================================================
