--------------------------- MODULE BootChainProofs ---------------------------
(* The master boot records, on every disk: any table, any sectors, any      *)
(* firmware; and a whole boot, on every sound machine: the master boot      *)
(* record, the partition's record (Fat32PbrProofs) it enters, and the boots *)
(* in which DL is lost between them.                                        *)
EXTENDS BootChain, TLAPS

(******************* the master boot records alone **********************)
Pcs == {"start", "scan", "found", "check", "entered", "halted"}

(* The scan has passed the entries before si, and stops at the active one.  *)
Scanned ==
  /\ pc \in Pcs /\ si \in Entries
  /\ pc # "start" => \A j \in 1..(si - 1) : ~table[j].active
  /\ pc \in {"found", "check", "entered"} => table[si].active

(* What has been read is the first sector of that entry's partition.        *)
Loaded ==
  /\ pc \in {"check", "entered"} =>
       /\ table[si].lba # 0 => Present(table[si].lba) /\ load = At(table[si].lba)
       /\ table[si].lba = 0 => load.kind # "fat32"
       /\ variant = "win7" => table[si].type # "gpt"
  /\ pc = "entered" => load.marked /\ load.kind # "mbr"

(* Until something is read over 7C00 the drive number is where it was put.  *)
(* Only an entry for LBA 0 starts the code again.                           *)
NotZero == ActiveEntries = {} \/ ActiveLba # 0
Intact ==
  /\ pc \in {"start", "scan", "found"} /\ NotZero =>
       /\ load = Own /\ dl = machine.drive
       /\ pc # "start" /\ variant = "xp" => cell = machine.drive
  /\ pc # "start" => variant \in {"win7", "xp"}

IInv == machine \in Machines /\ Scanned /\ Loaded /\ Intact /\ SaysWhy

(* The entry the scan stops at is the first active one.                     *)
LEMMA SiIsFirst ==
  ASSUME si \in Entries, table[si].active, \A j \in 1..(si - 1) : ~table[j].active
  PROVE  ActiveEntries # {} /\ FirstActive = si
  <1>1. si \in ActiveEntries
    BY DEF ActiveEntries
  <1>2. ASSUME NEW i \in ActiveEntries PROVE si <= i
    <2>1. i \in Entries /\ table[i].active
      BY DEF ActiveEntries
    <2>2. SUFFICES ASSUME i < si PROVE FALSE
      BY <2>1 DEF Entries
    <2>3. i \in 1..(si - 1)
      BY <2>1, <2>2 DEF Entries
    <2> QED  BY <2>1, <2>3
  <1>3. \A i \in ActiveEntries : (\A j \in ActiveEntries : i <= j) => i = si
    BY <1>1, <1>2 DEF ActiveEntries, Entries
  <1>4. FirstActive \in ActiveEntries /\ \A j \in ActiveEntries : FirstActive <= j
    BY <1>1, <1>2, Zenon DEF FirstActive
  <1> QED  BY <1>1, <1>3, <1>4

LEMMA InitInv == Init => IInv
  BY DEF Init, IInv, Scanned, Loaded, Intact, SaysWhy, Pcs, Entries

(* The scan goes on, stops at an active entry, or ends without one.         *)
LEMMA ScanStep ==
  ASSUME IInv, Scan, UNCHANGED machine
  PROVE  IInv'
  <1>0. /\ pc = "scan" /\ UNCHANGED <<machine, dl, cell, load>>
        /\ si \in 1..4 /\ \A j \in 1..(si - 1) : ~table[j].active
        /\ variant \in {"win7", "xp"} /\ UNCHANGED <<table, variant, ActiveEntries, NotZero>>
    BY DEF IInv, Scanned, Intact, Scan, ScanTo, Entries, table, variant, ActiveEntries,
           NotZero, ActiveLba, FirstActive
  <1>1. CASE table[si].active /\ pc' = "found" /\ UNCHANGED <<si, said>>
    BY <1>0, <1>1 DEF IInv, Scanned, Loaded, Intact, SaysWhy, Pcs, Entries
  <1>2. CASE ~table[si].active /\ si < 4 /\ si' = si + 1 /\ UNCHANGED <<pc, said>>
    <2>1. Scanned'
      <3>1. ASSUME NEW j \in 1..si PROVE ~table[j].active
        BY <1>0, <1>2
      <3>2. si' - 1 = si
        BY <1>0, <1>2
      <3> QED  BY <1>0, <1>2, <3>1, <3>2 DEF Scanned, Entries, Pcs
    <2> QED  BY <1>0, <1>2, <2>1 DEF IInv, Loaded, Intact, SaysWhy
  <1>3. CASE ~table[si].active /\ si = 4 /\ Halt("no active partition", load) /\ UNCHANGED si
    <2>1. ActiveEntries = {}
      <3>1. ASSUME NEW i \in Entries PROVE ~table[i].active
        <4>1. si = 4 /\ ~table[si].active
          BY <1>3
        <4>2. i \in 1..(si - 1) \/ i = si
          BY <4>1 DEF Entries
        <4> QED  BY <1>0, <4>1, <4>2
      <3> QED  BY <3>1 DEF ActiveEntries
    <2>2. said' = IF variant = "win7" \/ load = Own THEN "no active partition" ELSE "garbled"
      BY <1>3 DEF Halt, Text
    <2>3. Reason' = {"no active partition"}
      BY <1>0, <2>1 DEF Reason
    <2>4. SaysWhy'
      BY <1>0, <2>2, <2>3 DEF SaysWhy
    <2> QED  BY <1>0, <1>3, <2>4 DEF IInv, Scanned, Loaded, Intact, Pcs, Halt, Entries
  <1> QED  BY <1>0, <1>1, <1>2, <1>3 DEF Scan, ScanTo

(* The message of a halt after the scan stopped at si.                      *)
LEMMA ReasonIs ==
  ASSUME IInv, pc \in {"found", "check"}
  PROVE  /\ ActiveEntries # {} /\ ActiveLba = table[si].lba /\ FirstActive = si
         /\ ~(variant = "win7" /\ table[si].type = "gpt") =>
              /\ "read error" \in Reason <=> ~(Present(table[si].lba) /\ machine.reliable)
              /\ "no signature" \in Reason <=>
                   Present(table[si].lba) /\ ~At(table[si].lba).marked
         /\ variant = "win7" /\ table[si].type = "gpt" => Reason = {"gpt"}
  <1>1. ActiveEntries # {} /\ FirstActive = si
    BY SiIsFirst DEF IInv, Scanned
  <1>2. ActiveLba = table[si].lba
    BY <1>1 DEF ActiveLba
  <1>3. CASE variant = "win7" /\ table[si].type = "gpt"
    BY <1>1, <1>2, <1>3 DEF Reason
  <1>4. CASE ~(variant = "win7" /\ table[si].type = "gpt")
    <2>1. Reason = {w \in {"read error", "no signature"} :
                   IF w = "read error" THEN ~(Present(ActiveLba) /\ machine.reliable)
                   ELSE Present(ActiveLba) /\ ~At(ActiveLba).marked}
      BY <1>1, <1>4 DEF Reason
    <2> QED  BY <1>1, <1>2, <1>4, <2>1
  <1> QED  BY <1>1, <1>2, <1>3, <1>4

LEMMA StartStep ==
  ASSUME IInv, StartWin7 \/ StartXp, UNCHANGED machine
  PROVE  IInv'
  BY DEF IInv, Scanned, Loaded, Intact, SaysWhy, StartWin7, StartXp, Pcs, Entries,
         table, variant, ActiveEntries, NotZero, ActiveLba, FirstActive

LEMMA RefuseStep ==
  ASSUME IInv, RefuseGpt, UNCHANGED machine
  PROVE  IInv'
  <1>1. /\ UNCHANGED <<table, variant, ActiveEntries, ActiveLba, NotZero, Reason, load, si>>
        /\ pc = "found" /\ pc' = "halted" /\ said' = Text("gpt", load)
        /\ variant = "win7" /\ table[si].type = "gpt"
    BY DEF RefuseGpt, Halt, table, variant, ActiveEntries, ActiveLba, FirstActive, NotZero,
           Reason, Present, At
  <1>2. Reason = {"gpt"}
    BY <1>1, ReasonIs
  <1>3. said' = "gpt"
    BY <1>1 DEF Text
  <1>4. SaysWhy'
    BY <1>1, <1>2, <1>3 DEF SaysWhy
  <1> QED  BY <1>1, <1>4 DEF IInv, Scanned, Loaded, Intact, Pcs

(* A sector is read, or the reason is that it cannot be.                    *)
LEMMA ReadStep ==
  ASSUME IInv, ReadWin7 \/ ReadXp, UNCHANGED machine
  PROVE  IInv'
  <1> DEFINE lba == table[si].lba
  <1>1. /\ UNCHANGED <<table, variant, ActiveEntries, ActiveLba, NotZero, Reason, si>>
        /\ pc = "found" /\ ~(variant = "win7" /\ table[si].type = "gpt")
        /\ variant \in {"win7", "xp"}
    BY DEF ReadWin7, ReadXp, table, variant, ActiveEntries, ActiveLba, FirstActive, NotZero,
           Reason, Present, At
  <1>2. PICK drive : ReadEntry(si, drive) /\ drive = (IF variant = "win7" THEN dl ELSE cell)
    BY <1>1 DEF ReadWin7, ReadXp, ReadSector
  <1>3. CASE /\ lba \in DOMAIN Sectors(drive) /\ load' = Sectors(drive)[lba]
             /\ pc' = "check" /\ UNCHANGED said
    <2>1. lba # 0 => Present(lba) /\ load' = At(lba)
      <3>1. SUFFICES ASSUME lba # 0 PROVE Present(lba) /\ load' = At(lba)
        OBVIOUS
      <3>2. NotZero
        BY <1>1, <3>1, ReasonIs DEF NotZero
      <3>3. drive = machine.drive
        BY <1>1, <1>2, <3>2 DEF IInv, Intact
      <3> QED  BY <1>3, <3>3 DEF Sectors, Present, At
    <2>2. lba = 0 => (load').kind # "fat32"
      <3>1. SUFFICES ASSUME lba = 0, 0 \in DOMAIN Sectors(drive)
                     PROVE  Sectors(drive)[0].kind # "fat32"
        BY <1>3
      <3>2. machine \in Machines
        BY DEF IInv
      <3>3. CASE drive = machine.drive
        BY <3>2, <3>3, MachinesAssumption DEF Sectors, Own
      <3>4. CASE drive # machine.drive
        <4>1. Sectors(drive) = IF drive \in DOMAIN machine.others
                               THEN machine.others[drive].sectors ELSE <<>>
          BY <3>4 DEF Sectors
        <4>2. drive \in DOMAIN machine.others /\ Sectors(drive) = machine.others[drive].sectors
          BY <3>1, <4>1
        <4> QED  BY <3>1, <3>2, <4>2, MachinesAssumption
      <3> QED  BY <3>3, <3>4
    <2>3. /\ (table[si].lba)' = lba /\ Present(lba)' = Present(lba) /\ At(lba)' = At(lba)
          /\ (table[si].type)' = table[si].type /\ variant' = variant
      BY <1>1 DEF Present, At
    <2>4. Loaded'
      BY <1>1, <1>3, <2>1, <2>2, <2>3 DEF Loaded
    <2> QED  BY <1>1, <1>3, <2>4 DEF IInv, Scanned, Intact, SaysWhy, Pcs
  <1>4. CASE /\ ~(lba \in DOMAIN Sectors(drive) /\ machine.reliable)
             /\ load' = Torn \/ UNCHANGED load
             /\ Halt("read error", load')
    <2>1. pc' = "halted" /\ said' = Text("read error", load')
      BY <1>4 DEF Halt
    <2>2. SaysWhy'
      <3>1. SUFFICES ASSUME NotZero
                     PROVE  IF variant = "xp" /\ load' # Own THEN said' = "garbled" ELSE said' \in Reason
        BY <1>1, <2>1 DEF SaysWhy, NotZero
      <3>2. drive = machine.drive
        BY <1>1, <1>2, <3>1 DEF IInv, Intact
      <3>3. "read error" \in Reason
        BY <1>1, <1>4, <3>2, ReasonIs DEF Sectors, Present
      <3> QED  BY <1>1, <2>1, <3>3 DEF Text
    <2> QED  BY <1>1, <2>1, <2>2 DEF IInv, Scanned, Loaded, Intact, Pcs
  <1> QED  BY <1>2, <1>3, <1>4 DEF ReadEntry

(* What is read decides: no signature, or control passes to it.             *)
LEMMA CheckStep ==
  ASSUME IInv, BadSignature \/ EnterWin7 \/ EnterXp, UNCHANGED machine
  PROVE  IInv'
  <1>1. /\ UNCHANGED <<table, variant, ActiveEntries, ActiveLba, NotZero, Reason, si, load>>
        /\ pc = "check"
        /\ variant = "win7" => table[si].type # "gpt"
        /\ table[si].lba # 0 => load = At(table[si].lba) /\ Present(table[si].lba)
        /\ table[si].lba = 0 => load.kind # "fat32"
    BY DEF BadSignature, EnterWin7, EnterXp, table, variant, ActiveEntries, ActiveLba,
           FirstActive, NotZero, Reason, Present, At, IInv, Loaded
  <1>2. CASE BadSignature
    <2>1. pc' = "halted" /\ said' = Text("no signature", load) /\ ~load.marked
      BY <1>2 DEF BadSignature, Halt
    <2>2. NotZero => "no signature" \in Reason
      BY <1>1, <2>1, ReasonIs DEF NotZero
    <2>3. SaysWhy'
      BY <1>1, <2>1, <2>2 DEF SaysWhy, Text, IInv, Intact, NotZero
    <2> QED  BY <1>1, <2>1, <2>3 DEF IInv, Scanned, Loaded, Intact, Pcs
  <1>3. CASE (EnterWin7 \/ EnterXp) /\ load.kind # "mbr"
    <2>1. pc' = "entered" /\ load.marked
      BY <1>3 DEF EnterWin7, EnterXp, Enter
    <2> QED  BY <1>1, <1>3, <2>1 DEF IInv, Scanned, Loaded, Intact, SaysWhy, Pcs, Present, At
  <1>4. CASE (EnterWin7 \/ EnterXp) /\ load.kind = "mbr"
    <2>1. pc' = "start"
      BY <1>4 DEF EnterWin7, EnterXp, Enter
    <2>2. table[si].lba = 0
      BY <1>1, <1>4, MachinesAssumption DEF IInv, At, Present
    <2>3. ~NotZero
      BY <1>1, <2>2, ReasonIs DEF NotZero
    <2> QED  BY <1>1, <2>1, <2>3 DEF IInv, Scanned, Loaded, Intact, SaysWhy, Pcs
  <1> QED  BY <1>2, <1>3, <1>4

LEMMA NextInv == IInv /\ [Next]_vars => IInv'
  <1>1. SUFFICES ASSUME IInv, [Next]_vars PROVE IInv'
    OBVIOUS
  <1>2. CASE UNCHANGED vars
    BY <1>1, <1>2 DEF vars, IInv, Scanned, Loaded, Intact, SaysWhy, Entries, table, variant,
       ActiveEntries, NotZero, ActiveLba, FirstActive, Present, At, Reason
  <1>3. CASE Next
    BY <1>1, <1>3, StartStep, ScanStep, RefuseStep, ReadStep, CheckStep DEF Next
  <1> QED  BY <1>1, <1>2, <1>3

LEMMA Invariance == Spec => []IInv
  BY InitInv, NextInv, PTL DEF Spec

(* Control passes only to the boot sector of the first active entry, which  *)
(* has been read and is marked, and never, by mbr_win7, to a GPT protective *)
(* one: for every table, also one with several active entries.              *)
THEOREM EntryCorrect == Spec => []EntersActive
  <1>1. IInv => EntersActive
    BY SiIsFirst DEF IInv, Scanned, Loaded, EntersActive, ActiveLba
  <1> QED  BY <1>1, Invariance, PTL

(* The message is the reason of the halt, and mbr_xp's is garbled just when *)
(* a sector has been read over it.                                          *)
THEOREM MessageCorrect == Spec => []SaysWhy
  <1>1. IInv => SaysWhy
    BY DEF IInv
  <1> QED  BY <1>1, Invariance, PTL

(**************************** a whole boot ******************************)
(* The partition's record on a machine whose DL still names the boot disk.  *)
PP == INSTANCE Fat32PbrProofs WITH
        Environments <- UNION {{See(m, d) : d \in HomeDrives(m)} :
                                 m \in {n \in Machines : Placed(n.volume)}},
        pc <- pbrPc, env <- See(machine, dl)

(********************* P and PP are one module **************************)
LEMMA SameFile == P!File(machine.volume) = PP!File(machine.volume)
  BY DEF P!File, PP!File, P!Target, PP!Target, P!SectorsOf, PP!SectorsOf, P!FirstLba,
         PP!FirstLba, P!DataStart, PP!DataStart, P!FatStart, PP!FatStart

LEMMA SameStatus == P!Image = PP!Image /\ P!Status = PP!Status
  BY DEF P!Image, PP!Image, P!Copied, PP!Copied, P!Status, PP!Status

LEMMA SameSound ==
  ASSUME NEW e
  PROVE  P!Sound(e) => PP!Sound(e)
  <1>1. \A v, c : P!SectorsOf(v, c) = PP!SectorsOf(v, c) /\ P!FirstLba(v, c) = PP!FirstLba(v, c)
    BY DEF P!SectorsOf, PP!SectorsOf, P!FirstLba, PP!FirstLba, P!DataStart, PP!DataStart,
           P!FatStart, PP!FatStart
  <1>2. \A v : P!Target(v) = PP!Target(v) /\ P!File(v) = PP!File(v)
    BY <1>1 DEF P!File, PP!File, P!Target, PP!Target
  <1>3. \A v, c : P!ChainOK(v, c) = PP!ChainOK(v, c)
    BY <1>1 DEF P!ChainOK, PP!ChainOK, P!EocMin, PP!EocMin
  <1>4. \A v : P!DirectoryOK(v) = PP!DirectoryOK(v)
    <2>1. \A v : P!RootSectors(v) = PP!RootSectors(v)
      BY <1>1 DEF P!RootSectors, PP!RootSectors
    <2>2. \A v, i : P!RootSlots(v, i) = PP!RootSlots(v, i)
      BY <2>1 DEF P!RootSlots, PP!RootSlots
    <2>3. \A v, i, j : P!Shows(v, i, j) = PP!Shows(v, i, j)
      BY <1>2, <2>2 DEF P!Shows, PP!Shows
    <2> QED  BY <1>2, <2>1, <2>2, <2>3, ZenonT(60) DEF P!DirectoryOK, PP!DirectoryOK
  <1>5. P!VolumeOK(e.vol) => PP!VolumeOK(e.vol)
    BY <1>1, <1>2, <1>3, <1>4 DEF P!VolumeOK, PP!VolumeOK, P!Variants, PP!Variants
  <1>6. P!DriveOK(e) => PP!DriveOK(e)
    BY DEF P!DriveOK, PP!DriveOK, P!Fits, PP!Fits, P!Reach, PP!Reach
  <1> QED  BY <1>5, <1>6 DEF P!Sound, PP!Sound

LEMMA SameReads ==
  \A l : /\ P!Accessed(l) = PP!Accessed(l)
         /\ P!Reads(l) = PP!Reads(l) /\ P!Fails(l) = PP!Fails(l)
  BY DEF P!Accessed, PP!Accessed, P!Reads, PP!Reads, P!Fails, PP!Fails, P!Seek, PP!Seek,
     P!Pack, PP!Pack, P!Cylinder, PP!Cylinder, P!TrackHead, PP!TrackHead, P!NoSector,
     PP!NoSector, P!vol, PP!vol, P!bios, PP!bios

LEMMA SameStep == P!Next => PP!Next
  <1>1. P!vol = PP!vol /\ P!bios = PP!bios
    BY DEF P!vol, PP!vol, P!bios, PP!bios
  <1>2. \A l : /\ P!Accessed(l) = PP!Accessed(l)
               /\ P!Reads(l) = PP!Reads(l) /\ P!Fails(l) = PP!Fails(l)
    BY SameReads
  <1>3. /\ P!ProbeAnswered => PP!ProbeAnswered
        /\ P!ProbeFallback => PP!ProbeFallback
        /\ P!ProbeRefused => PP!ProbeRefused
    BY <1>1 DEF P!ProbeAnswered, PP!ProbeAnswered, P!ProbeFallback, PP!ProbeFallback,
       P!ProbeRefused, PP!ProbeRefused, P!ProbedSpt, PP!ProbedSpt, P!ProbedHeads,
       PP!ProbedHeads, P!Goto, PP!Goto, P!Die, PP!Die, P!KeepWalk, PP!KeepWalk
  <1>4. P!ReadStage2 => PP!ReadStage2
    BY <1>1, <1>2 DEF P!ReadStage2, PP!ReadStage2, P!Divides, PP!Divides, P!Stage2Lba,
       PP!Stage2Lba, P!IsStage2, PP!IsStage2, P!Goto, PP!Goto, P!Die, PP!Die, P!KeepWalk,
       PP!KeepWalk
  <1>5. P!Setup => PP!Setup
    BY <1>1 DEF P!Setup, PP!Setup, P!Iterations, PP!Iterations, P!Goto, PP!Goto
  <1>6. /\ P!EnterDirCluster => PP!EnterDirCluster
        /\ P!EnterFileCluster => PP!EnterFileCluster
    BY <1>1 DEF P!EnterDirCluster, PP!EnterDirCluster, P!EnterFileCluster,
       PP!EnterFileCluster, P!EnterCluster, PP!EnterCluster, P!ClusterLba, PP!ClusterLba,
       P!Iterations, PP!Iterations, P!Goto, PP!Goto
  <1>7. P!ScanSector => PP!ScanSector
    <2>1. \A l : P!SlotsAt(l) = PP!SlotsAt(l)
      BY <1>1 DEF P!SlotsAt, PP!SlotsAt, P!GarbageSlots, PP!GarbageSlots, P!Target, PP!Target
    <2>2. \A s : /\ P!Stops(P!vol, s) = PP!Stops(PP!vol, s)
                 /\ P!FirstStop(P!vol, s) = PP!FirstStop(PP!vol, s)
      BY <1>1 DEF P!Stops, PP!Stops, P!FirstStop, PP!FirstStop, P!IsStop, PP!IsStop,
         P!Target, PP!Target
    <2> QED  BY <1>1, <1>2, <2>1, <2>2 DEF P!ScanSector, PP!ScanSector, P!Goto, PP!Goto,
                P!Die, PP!Die
  <1>8. P!LoadSector => PP!LoadSector
    BY <1>1, <1>2 DEF P!LoadSector, PP!LoadSector, P!NextBlock, PP!NextBlock, P!Goto,
       PP!Goto, P!Die, PP!Die
  <1>9. /\ P!NextDirCluster => PP!NextDirCluster
        /\ P!NextFileCluster => PP!NextFileCluster
    <2>1. \A l, i : P!FatValues(P!vol, l, i) = PP!FatValues(PP!vol, l, i)
      BY <1>1 DEF P!FatValues, PP!FatValues, P!IsFatSector, PP!IsFatSector, P!FatStart,
         PP!FatStart, P!DataStart, PP!DataStart
    <2> QED  BY <1>1, <1>2, <2>1 DEF P!NextDirCluster, PP!NextDirCluster, P!NextFileCluster,
                PP!NextFileCluster, P!FollowChain, PP!FollowChain, P!EntrySector,
                PP!EntrySector, P!EntryOffset, PP!EntryOffset, P!EntryByte, PP!EntryByte, P!Entry, PP!Entry, P!IsLast,
                PP!IsLast, P!EocMin, PP!EocMin, P!Goto, PP!Goto, P!Die, PP!Die
  <1> QED  BY <1>3, <1>4, <1>5, <1>6, <1>7, <1>8, <1>9 DEF P!Next, PP!Next

(********************** the inductive invariant *************************)
(* Before it is entered the partition's record has done nothing.            *)
Untouched == es = LoadBlock /\ mem = [b \in 0..(Blocks - 1) |-> P!NoSector]
Pristine ==
  /\ Untouched
  /\ pbrPc = (IF machine.volume.stage1 = "single" THEN "setup" ELSE "probe")
  /\ err = "none"
  /\ spt = 0 /\ heads = 0
  /\ fatLba = 0 /\ dataLba = 0 /\ readLba = 0
  /\ clus = 0 /\ left = 0

(* Without the drive's number no read succeeds, and the substitute geometry *)
(* divides.                                                                 *)
Lost ==
  /\ Untouched
  /\ pbrPc \in {"probe", "readStage2", "setup", "dirCluster", "dirSector", "halted"}
  /\ pbrPc = "readStage2" => spt = 18 /\ heads = 2

(* Without stage 2 nothing is loaded.                                       *)
Strayed == Untouched /\ pbrPc \in {"probe", "readStage2", "halted", "fault", "wild"}

(* Otherwise it is a boot as Fat32PbrProofs knows it, and a drive that      *)
(* works gives stage 1 no reason to stop.                                   *)
Home == dl \in HomeDrives(machine)
Booting ==
  /\ PP!IInv
  /\ machine.reliable /\ See(machine, dl).bios.probe => err \notin {"G", "R"}

RecordInv ==
  /\ ~Handover => Pristine
  /\ Handover /\ Nobody => Lost
  /\ Handover /\ ~Placed(See(machine, dl).vol) => Strayed
  /\ Handover /\ Home /\ Placed(machine.volume) => Booting
ChainInv == IInv /\ RecordInv

(* A number of the boot disk sees its volume.                               *)
LEMMA HomeSees ==
  ASSUME NEW m, NEW d, d \in HomeDrives(m)
  PROVE  See(m, d).vol = m.volume
  BY DEF HomeDrives, See

(* A FAT32 boot sector that was entered is the active partition's.          *)
LEMMA VolumeIsPlaced ==
  ASSUME SoundMachines, IInv
  PROVE  /\ VolumeIsActive => Placed(machine.volume)
         /\ Handover /\ Placed(machine.volume) => VolumeIsActive
  <1>1. SoundMachine(machine)
    BY DEF SoundMachines, IInv
  <1>2. ASSUME NEW lba, lba # 0, Present(lba), At(lba).kind = "fat32"
        PROVE  lba = machine.volume.hidd <=> Placed(machine.volume)
    BY <1>1, <1>2 DEF SoundMachine, Present, At
  <1>3. VolumeIsActive => Placed(machine.volume)
    BY <1>2 DEF VolumeIsActive
  <1>4. ASSUME Handover, Placed(machine.volume) PROVE VolumeIsActive
    <2>1. /\ ActiveEntries # {} /\ FirstActive = si
          /\ Present(table[si].lba) /\ load = At(table[si].lba)
      BY <1>4, SiIsFirst DEF Handover, IInv, Scanned, Loaded
    <2>2. ActiveLba = table[si].lba /\ load.kind = "fat32"
      BY <1>4, <2>1 DEF ActiveLba, Handover
    <2>3. ActiveLba # 0
      BY <1>4, <2>2 DEF IInv, Loaded, Handover
    <2> QED  BY <1>2, <1>4, <2>1, <2>2, <2>3 DEF VolumeIsActive
  <1> QED  BY <1>3, <1>4

LEMMA VolumesAreSound == SoundMachines => PP!SoundEnvironments
  <1>1. SUFFICES ASSUME SoundMachines, NEW m \in Machines, Placed(m.volume),
                        NEW d \in HomeDrives(m)
                 PROVE  PP!Sound(See(m, d))
    BY DEF PP!SoundEnvironments
  <1> QED  BY <1>1, SameSound DEF SoundMachines, SoundMachine

(* The record is entered as it was loaded.                                  *)
LEMMA Entered ==
  ASSUME SoundMachines, machine \in Machines, Pristine, Handover
  PROVE  RecordInv
  <1>1. Nobody => Lost
    BY DEF Pristine, Lost
  <1>2. ~Placed(See(machine, dl).vol) => Strayed
    <2>1. See(machine, dl).vol.stage1 = machine.volume.stage1
      BY DEF See, Through
    <2> QED  BY <2>1 DEF Pristine, Strayed, Placed
  <1>3. ASSUME Home, Placed(machine.volume) PROVE Booting
    <2>1. /\ See(machine, dl).vol = machine.volume
          /\ See(machine, dl) \in UNION {{See(m, d) : d \in HomeDrives(m)} :
                                          m \in {n \in Machines : Placed(n.volume)}}
      BY <1>3, HomeSees DEF Home
    <2>2. PP!Init
      BY <2>1 DEF Pristine, Untouched, PP!Init, P!NoSector, PP!NoSector
    <2>3. PP!IInv
      BY <2>2, VolumesAreSound, PP!InitIInv, BootRecordAssumption DEF P!LayoutAssumption
    <2> QED  BY <2>3 DEF Booting, Pristine
  <1> QED  BY <1>1, <1>2, <1>3 DEF RecordInv

LEMMA InitChainInv ==
  ASSUME ChainInit
  PROVE  ChainInv
  <1>1. IInv
    BY InitInv DEF ChainInit
  <1>2. ~Handover
    BY DEF ChainInit, Init, Handover
  <1>3. Pristine
    <2>1. See(machine, dl).vol = machine.volume
      BY DEF ChainInit, Init, See
    <2> QED  BY <2>1 DEF ChainInit, P!Init, Pristine, Untouched
  <1> QED  BY <1>1, <1>2, <1>3 DEF ChainInv, RecordInv

(* The master boot record does not run any more once something was entered. *)
LEMMA MbrStep ==
  ASSUME SoundMachines, ChainInv, Next, UNCHANGED pbrVars
  PROVE  ChainInv'
  <1>1. IInv'
    BY NextInv DEF ChainInv
  <1>2. ~Handover
    BY DEF Next, StartWin7, StartXp, Scan, ScanTo, RefuseGpt, ReadWin7, ReadXp, BadSignature,
           EnterWin7, EnterXp, Handover
  <1>3. Pristine'
    BY <1>2 DEF ChainInv, RecordInv, Pristine, Untouched, pbrVars, Next
  <1>4. (machine \in Machines /\ Pristine /\ Handover => RecordInv)'
    BY Entered, PTL
  <1>5. (~Handover /\ Pristine => RecordInv)'
    BY DEF RecordInv
  <1>6. (machine \in Machines)'
    BY <1>1 DEF IInv
  <1> QED  BY <1>1, <1>3, <1>4, <1>5, <1>6 DEF ChainInv

LEMMA LostStep ==
  ASSUME Lost, Nobody, P!Next
  PROVE  Lost'
  <1>1. P!bios = Gone
    BY DEF See, Nobody, P!bios
  <1>2. \A l : ~P!Reads(l) /\ P!Fails(l)
    <2>1. Gone.sectors = 0 /\ 0..(0 - 1) = {}
      BY DEF Gone
    <2> QED  BY <1>1, <2>1 DEF P!Reads, P!Fails
  <1>3. P!Divides(18, 2) /\ ~Gone.probe
    BY DEF P!Divides, Gone
  <1> QED  BY <1>1, <1>2, <1>3 DEF Lost, Untouched, P!Next, P!ProbeAnswered, P!ProbeFallback,
              P!ProbeRefused, P!KeepWalk, P!ReadStage2, P!Setup, P!EnterDirCluster,
              P!EnterFileCluster, P!EnterCluster, P!ScanSector, P!NextDirCluster,
              P!NextFileCluster, P!FollowChain, P!LoadSector, P!Goto, P!Die

LEMMA StrayedStep ==
  ASSUME Strayed, ~Placed(See(machine, dl).vol), P!Next
  PROVE  Strayed'
  <1>1. \A l : ~P!IsStage2(l)
    BY DEF Placed, P!IsStage2, P!vol
  <1> QED  BY <1>1 DEF Strayed, Untouched, P!Next, P!ProbeAnswered, P!ProbeFallback,
              P!ProbeRefused, P!KeepWalk, P!ReadStage2, P!Setup, P!EnterDirCluster,
              P!EnterFileCluster, P!EnterCluster, P!ScanSector, P!NextDirCluster,
              P!NextFileCluster, P!FollowChain, P!LoadSector, P!Goto, P!Die

(* A drive that works answers the probe and reads stage 2, which lies in    *)
(* the partition.                                                           *)
LEMMA BootingStep ==
  ASSUME SoundMachines, machine \in Machines, Booting, Home, UNCHANGED vars, P!Next
  PROVE  Booting'
  <1>1. PP!Next /\ PP!SoundEnvironments
    BY SameStep, VolumesAreSound
  <1>2. PP!IInv'
    BY <1>1, PP!IInvStep, BootRecordAssumption DEF Booting, P!LayoutAssumption
  <1>3. ASSUME machine.reliable, See(machine, dl).bios.probe PROVE err' \notin {"G", "R"}
    <2>1. P!bios = See(machine, dl).bios /\ P!bios.reliable = machine.reliable
      BY DEF P!bios, SoundMachines, SoundMachine, Home
    <2>2. pbrPc = "readStage2" => P!Reads(P!Stage2Lba)
      <3>1. pbrPc = "readStage2" => PP!Reads(PP!Stage2Lba)
        BY <1>1, PP!Stage2IsRead, BootRecordAssumption DEF Booting, P!LayoutAssumption
      <3>2. P!Stage2Lba = PP!Stage2Lba
        BY DEF P!Stage2Lba, PP!Stage2Lba, P!vol, PP!vol
      <3> QED  BY <3>1, <3>2, SameReads
    <2>3. ~(pbrPc = "readStage2" /\ P!Fails(P!Stage2Lba))
      BY <1>3, <2>1, <2>2 DEF P!Fails
    <2>4. err \notin {"G", "R"}
      BY <1>3 DEF Booting
    <2> QED  BY <1>3, <2>1, <2>3, <2>4 DEF P!Next, P!ProbeAnswered, P!ProbeFallback,
                P!ProbeRefused, P!KeepWalk, P!ReadStage2, P!Setup, P!EnterDirCluster,
                P!EnterFileCluster, P!EnterCluster, P!ScanSector, P!NextDirCluster,
                P!NextFileCluster, P!FollowChain, P!LoadSector, P!Goto, P!Die
  <1> QED  BY <1>2, <1>3 DEF Booting, vars

LEMMA NextChainInv ==
  ASSUME SoundMachines, ChainInv, [ChainNext]_<<vars, pbrVars>>
  PROVE  ChainInv'
  <1>1. CASE Next /\ UNCHANGED pbrVars
    BY <1>1, MbrStep
  <1>2. CASE UNCHANGED vars /\ (UNCHANGED pbrVars \/ (Handover /\ P!Next))
    <2>1. IInv' /\ machine \in Machines
      BY <1>2, NextInv DEF ChainInv, IInv
    <2>2. /\ UNCHANGED <<machine, dl>> /\ Placed(machine.volume)' = Placed(machine.volume)
          /\ Handover' = Handover
      BY <1>2 DEF vars, Handover
    <2>3. CASE ~Handover
      BY <1>2, <2>1, <2>2, <2>3 DEF ChainInv, RecordInv, Pristine, Untouched, pbrVars
    <2>4. CASE Handover
      <3>1. Nobody => Lost'
        <4>1. CASE UNCHANGED pbrVars
          BY <2>4, <4>1 DEF ChainInv, RecordInv, Lost, Untouched, pbrVars
        <4> QED  BY <1>2, <2>4, <4>1, LostStep DEF ChainInv, RecordInv
      <3>2. ~Placed(See(machine, dl).vol) => Strayed'
        <4>1. CASE UNCHANGED pbrVars
          BY <2>4, <4>1 DEF ChainInv, RecordInv, Strayed, Untouched, pbrVars
        <4> QED  BY <1>2, <2>4, <4>1, StrayedStep DEF ChainInv, RecordInv
      <3>3. ASSUME Home, Placed(machine.volume) PROVE Booting'
        <4>1. Booting
          BY <2>4, <3>3 DEF ChainInv, RecordInv
        <4>2. CASE UNCHANGED pbrVars
          <5>1. UNCHANGED PP!vars
            BY <1>2, <4>2 DEF vars, pbrVars, PP!vars
          <5>2. PP!IInv'
            BY <4>1, <5>1, VolumesAreSound, PP!IInvStep, BootRecordAssumption
            DEF Booting, P!LayoutAssumption
          <5> QED  BY <1>2, <4>1, <4>2, <5>2 DEF Booting, vars, pbrVars
        <4> QED  BY <1>2, <2>1, <3>3, <4>1, <4>2, BootingStep
      <3> QED  BY <2>1, <2>2, <2>4, <3>1, <3>2, <3>3
               DEF ChainInv, RecordInv, Home, Nobody
    <2> QED  BY <2>3, <2>4
  <1> QED  BY <1>1, <1>2 DEF ChainNext

(****************************** theorems ********************************)
LEMMA ChainInvariance ==
  ASSUME SoundMachines
  PROVE  ChainSpec => []ChainInv
  <1>1. ChainInv /\ [ChainNext]_<<vars, pbrVars>> => ChainInv'
    BY NextChainInv
  <1> QED  BY <1>1, InitChainInv, PTL DEF ChainSpec

(* Whatever the partition's record does with the machine, the master boot   *)
(* record has entered the first active entry's marked boot sector, and its  *)
(* message is the reason of its halt: on every machine, sound or not.       *)
THEOREM EntryStaysCorrect == ChainSpec => [](EntersActive /\ SaysWhy)
  <1>1. ChainInit => IInv
    BY InitInv DEF ChainInit
  <1>2. IInv /\ [ChainNext]_<<vars, pbrVars>> => IInv'
    BY NextInv DEF ChainNext
  <1>3. IInv => EntersActive /\ SaysWhy
    BY SiIsFirst DEF IInv, Scanned, Loaded, EntersActive, ActiveLba
  <1> QED  BY <1>1, <1>2, <1>3, PTL DEF ChainSpec

(* A boot record that is given the number of no drive stops with memory     *)
(* unchanged, one that is given another disk's without a stage 2 loads      *)
(* nothing; and the letters G and R of a drive that works mean just that.   *)
THEOREM LostDriveIsFound ==
  ASSUME SoundMachines
  PROVE  ChainSpec => []LostDriveLoadsNothing
  <1>1. ASSUME ChainInv PROVE LostDriveLoadsNothing
    <2>1. Untouched => MemoryIsClear
      BY DEF Untouched, MemoryIsClear
    <2>2. CASE ~Handover
      BY <1>1, <2>2 DEF ChainInv, RecordInv, Pristine, LostDriveLoadsNothing
    <2>3. CASE Handover
      <3>1. Nobody => MemoryIsClear /\ pbrPc \notin {"run", "wild"}
        BY <1>1, <2>1, <2>3 DEF ChainInv, RecordInv, Lost
      <3>2. ~Placed(See(machine, dl).vol) => MemoryIsClear /\ pbrPc # "run"
        BY <1>1, <2>1, <2>3 DEF ChainInv, RecordInv, Strayed
      <3>3. ASSUME VolumeIsActive, dl = machine.drive PROVE Booting
        <4>1. Home /\ Placed(machine.volume)
          BY <1>1, <3>3, VolumeIsPlaced DEF ChainInv, Home, HomeDrives
        <4> QED  BY <1>1, <2>3, <4>1 DEF ChainInv, RecordInv
      <3>4. dl = machine.drive => See(machine, dl).bios = machine.bios
        BY DEF See
      <3> QED  BY <2>3, <3>1, <3>2, <3>3, <3>4 DEF Booting, LostDriveLoadsNothing
    <2> QED  BY <2>2, <2>3
  <1> QED  BY <1>1, ChainInvariance, PTL

(**************************** refinement ********************************)
TheFile == IF VolumeIsActive THEN P!File(machine.volume) ELSE <<>>
TheImage == IF Foreign THEN <<>> ELSE P!Image

LEMMA NoImage ==
  ASSUME es = LoadBlock
  PROVE  P!Image = <<>>
  <1>1. P!Copied = 0
    BY BootRecordAssumption DEF P!LayoutAssumption, P!Copied
  <1> QED  BY <1>1 DEF P!Image

(* Only what is still loading takes a step.                                 *)
LEMMA StepIsLoading ==
  ASSUME P!Next
  PROVE  P!Status = "loading"
  BY DEF P!Status, P!Next, P!ProbeAnswered, P!ProbeFallback, P!ProbeRefused, P!ReadStage2,
         P!Setup, P!EnterDirCluster, P!EnterFileCluster, P!EnterCluster, P!ScanSector,
         P!NextDirCluster, P!NextFileCluster, P!FollowChain, P!LoadSector

LEMMA SameLater == (P!Image = PP!Image)' /\ (P!Status = PP!Status)'
  BY SameStatus, PTL

(* Going on, stopping, and what the record does when it boots.              *)
LEMMA ChainMapsToAStep ==
  ASSUME SoundMachines, ChainInv, ChainInv', [ChainNext]_<<vars, pbrVars>>
  PROVE  [L!Next]_(L!vars)
  <1>1. TheFile' = TheFile
    <2>1. UNCHANGED machine
      BY DEF ChainNext, Next, vars
    <2> QED  BY <2>1 DEF TheFile, VolumeIsActive, ActiveEntries, ActiveLba, FirstActive, table,
                Present, At, P!File, P!Target, P!SectorsOf, P!FirstLba, P!DataStart, P!FatStart
  <1>2. SUFFICES \/ TheImage' = TheImage /\ ChainStatus' = ChainStatus
                 \/ /\ ChainStatus = "loading" /\ ChainStatus' = "stopped"
                    /\ TheImage' = TheImage
                 \/ /\ ChainStatus = "loading" /\ ChainStatus' = "running"
                    /\ TheFile # <<>> /\ TheImage = TheFile /\ TheImage' = TheImage
                 \/ /\ ChainStatus = "loading" /\ ChainStatus' = ChainStatus
                    /\ Len(TheImage) < Len(TheFile)
                    /\ TheImage' = Append(TheImage, TheFile[Len(TheImage) + 1])
    BY <1>1 DEF L!Next, L!vars, L!Load, L!Run, L!Stop, TheFile, TheImage
  <1>3. CASE UNCHANGED <<vars, pbrVars>>
    BY <1>3 DEF vars, pbrVars, ChainStatus, Handover, P!Status, P!Image, P!Copied, TheImage,
       Foreign, Nobody
  <1>a. Untouched => P!Image = <<>>
    BY NoImage DEF Untouched
  <1>b. (Untouched => P!Image = <<>>)'
    BY <1>a, NoImage, PTL DEF Untouched
  <1>4. CASE Next /\ UNCHANGED pbrVars
    <2>1. pc # "halted" /\ ~Handover
      BY <1>4 DEF Next, StartWin7, StartXp, Scan, ScanTo, RefuseGpt, ReadWin7, ReadXp,
         BadSignature, EnterWin7, EnterXp, Handover
    <2>2. Untouched /\ Untouched' /\ pbrPc' \in {"probe", "setup"}
      BY <1>4, <2>1 DEF pbrVars, ChainInv, RecordInv, Pristine, Untouched
    <2>3. TheImage = <<>> /\ TheImage' = <<>>
      BY <1>a, <1>b, <2>2 DEF TheImage
    <2> QED  BY <2>1, <2>2, <2>3 DEF ChainStatus, P!Status
  <1>5. CASE Handover /\ UNCHANGED vars /\ P!Next
    <2>1. /\ Handover' /\ pc # "halted" /\ pc' # "halted" /\ UNCHANGED <<machine, dl>>
          /\ Foreign' = Foreign /\ See(machine, dl)' = See(machine, dl)
      BY <1>5 DEF Handover, vars, Foreign, Nobody
    <2>2. CASE Foreign
      BY <2>1, <2>2, <1>5 DEF ChainStatus, TheImage
    <2>3. ASSUME ~Foreign
          PROVE  /\ ChainStatus = "loading" /\ ChainStatus = P!Status /\ ChainStatus' = P!Status'
                 /\ TheImage = P!Image /\ TheImage' = P!Image'
      BY <1>5, <2>1, <2>3, StepIsLoading DEF ChainStatus, TheImage
    <2>4. CASE Nobody \/ (Home /\ ~Placed(machine.volume))
      <3>0. ~Foreign
        BY <2>4 DEF Foreign, Home
      <3>1. Untouched /\ Untouched' /\ pbrPc' # "run"
        <4>1. CASE Nobody
          <5>1. Nobody'
            BY <2>1, <4>1 DEF Nobody
          <5> QED  BY <1>5, <2>1, <4>1, <5>1 DEF ChainInv, RecordInv, Lost
        <4>2. CASE Home /\ ~Placed(machine.volume)
          <5>1. See(machine, dl).vol = machine.volume
            BY <4>2, HomeSees DEF Home
          <5>2. ~Placed(See(machine, dl).vol) /\ ~Placed(See(machine, dl).vol)'
            BY <2>1, <4>2, <5>1
          <5> QED  BY <1>5, <2>1, <5>2 DEF ChainInv, RecordInv, Strayed
        <4> QED  BY <2>4, <4>1, <4>2
      <3>2. P!Status' \in {"loading", "stopped"}
        BY <3>1 DEF P!Status
      <3> QED  BY <1>a, <1>b, <2>3, <3>0, <3>1, <3>2
    <2>5. CASE Home /\ Placed(machine.volume)
      <3>0. ~Foreign /\ Home' /\ Placed(machine.volume)'
        BY <2>1, <2>5 DEF Foreign, Home
      <3>1. PP!IInv /\ PP!IInv' /\ PP!Next /\ PP!SoundEnvironments
        BY <1>5, <2>1, <2>5, <3>0, SameStep, VolumesAreSound DEF ChainInv, RecordInv, Booting
      <3>2. TheFile = PP!File(PP!vol)
        <4>1. PP!vol = machine.volume
          BY <2>5, HomeSees DEF Home, PP!vol
        <4> QED  BY <1>5, <2>5, <4>1, VolumeIsPlaced, SameFile DEF TheFile, ChainInv
      <3>3. \/ UNCHANGED <<PP!Image, PP!Status>>
            \/ /\ PP!Status = "loading"
               /\ \/ /\ Len(PP!Image) < Len(TheFile)
                     /\ PP!Image' = Append(PP!Image, TheFile[Len(PP!Image) + 1])
                     /\ PP!Status' = PP!Status
                  \/ TheFile # <<>> /\ PP!Image = TheFile /\ PP!Status' = "running" /\ PP!Image' = PP!Image
                  \/ PP!Status' = "stopped" /\ PP!Image' = PP!Image
        BY <3>1, <3>2, PP!StepShape, BootRecordAssumption DEF P!LayoutAssumption
      <3> QED  BY <2>3, <3>0, <3>3, SameStatus, SameLater
    <2> QED  BY <2>2, <2>4, <2>5 DEF Foreign, Home
  <1> QED  BY <1>3, <1>4, <1>5 DEF ChainNext

(* What the firmware starts loads and enters the active partition's loader  *)
(* as Loader says, or stops: on every sound machine, of any size, with the  *)
(* partition's record misplaced, under a second number of the disk, or with *)
(* no drive's; nothing is claimed of a record that walks another disk.      *)
THEOREM ChainImplementsLoader ==
  ASSUME SoundMachines
  PROVE  ChainSpec => ChainLoaderSpec
  <1>1. ASSUME ChainInit PROVE L!Init
    <2>1. es = LoadBlock
      BY <1>1 DEF ChainInit, P!Init
    <2>2. P!Image = <<>>
      BY <2>1, NoImage
    <2>3. ChainStatus = "loading"
      BY <1>1 DEF ChainInit, Init, ChainStatus, Handover
    <2>4. ~Foreign
      BY <1>1 DEF ChainInit, Init, Foreign, HomeDrives
    <2> QED  BY <2>2, <2>3, <2>4 DEF L!Init
  <1>2. ChainInv /\ ChainInv' /\ [ChainNext]_<<vars, pbrVars>> => [L!Next]_(L!vars)
    BY ChainMapsToAStep
  <1> QED  BY <1>1, <1>2, ChainInvariance, PTL DEF ChainSpec, ChainLoaderSpec, L!Spec
=============================================================================
