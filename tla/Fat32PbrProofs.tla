--------------------------- MODULE Fat32PbrProofs ---------------------------
(* Safety of the FAT32 boot records on every sound volume and drive.        *)
EXTENDS Fat32Pbr, ChsProofs

(***************** arithmetic of clusters and sectors *******************)
(* SectorsOf lays the clusters of a chain end to end.                       *)
LEMMA LenSectorsOf ==
  ASSUME NEW v, NEW c, v.spc \in Nat, Len(c) \in Nat
  PROVE  Len(SectorsOf(v, c)) = Len(c) * v.spc /\ Len(c) * v.spc \in Nat
  <1>1. Len(c) * v.spc \in Nat
    BY Z3
  <1> QED  BY <1>1 DEF SectorsOf

LEMMA SectorOfCluster ==
  ASSUME NEW v, NEW c, v.spc \in Nat, v.spc >= 1, Len(c) \in Nat,
         NEW i \in Nat, i < Len(c), NEW j \in Nat, j < v.spc
  PROVE  /\ i * v.spc + j + 1 \in 1..Len(SectorsOf(v, c))
         /\ SectorsOf(v, c)[i * v.spc + j + 1] = FirstLba(v, c[i + 1]) + j
  <1>1. i * v.spc \in Nat /\ i * v.spc + v.spc <= Len(c) * v.spc /\ Len(c) * v.spc \in Nat
    BY ProductSteps, LenSectorsOf
  <1>2. /\ (i * v.spc + j) \div v.spc = i /\ (i * v.spc + j) % v.spc = j
    <2>1. v.spc \in Nat \ {0} /\ j \in 0..(v.spc - 1)
      OBVIOUS
    <2> QED  BY <2>1, DivModUnique
  <1> DEFINE n == i * v.spc + j + 1
  <1>3. n \in 1..(Len(c) * v.spc) /\ n - 1 = i * v.spc + j
    BY <1>1, SMTT(60)
  <1>4. SectorsOf(v, c)[n] = FirstLba(v, c[((n - 1) \div v.spc) + 1]) + ((n - 1) % v.spc)
    BY <1>3 DEF SectorsOf
  <1> QED  BY <1>2, <1>3, <1>4, LenSectorsOf

(************************ what soundness gives **************************)
LEMMA VolumeFacts ==
  ASSUME NEW v, VolumeOK(v)
  PROVE  /\ v.hidd \in Nat /\ v.rsvd \in Nat /\ v.rsvd >= 3
         /\ v.nfats \in Nat /\ 1 <= v.nfats /\ v.nfats <= 255
         /\ v.fatsz \in Nat /\ v.fatsz >= 1
         /\ v.spc \in Nat /\ 1 <= v.spc /\ v.spc <= 255
         /\ v.total \in Nat /\ v.hidd + v.total < Word
         /\ v.bytsPerSec = 4 * EntPerSec
         /\ FatStart(v) \in Nat /\ DataStart(v) \in Nat
         /\ FatStart(v) + v.fatsz <= DataStart(v)
         /\ v.hidd + 3 <= FatStart(v)
         /\ DataStart(v) = FatStart(v) + v.nfats * v.fatsz
  <1>1. /\ v.hidd \in Nat /\ v.rsvd \in Nat /\ v.rsvd >= 3
        /\ v.nfats \in Nat /\ 1 <= v.nfats /\ v.nfats <= 255
        /\ v.fatsz \in Nat /\ v.fatsz >= 1
        /\ v.spc \in Nat /\ 1 <= v.spc /\ v.spc <= 255
        /\ v.total \in Nat /\ v.hidd + v.total < Word
        /\ v.bytsPerSec = 4 * EntPerSec
    BY DEF VolumeOK
  <1>2. v.nfats * v.fatsz \in Nat /\ v.fatsz <= v.nfats * v.fatsz
    BY <1>1, Z3
  <1> QED  BY <1>1, <1>2 DEF FatStart, DataStart

(* A cluster of a chain lies in the partition, behind the FATs.             *)
LEMMA ChainFacts ==
  ASSUME NEW v, VolumeOK(v), NEW c, ChainOK(v, c)
  PROVE  /\ Len(c) \in Nat /\ Len(c) >= 1
         /\ \A i \in Nat : i < Len(c) =>
              /\ c[i + 1] \in Nat /\ c[i + 1] >= 2
              /\ c[i + 1] < EocMin /\ c[i + 1] < Word \div 4
              /\ FirstLba(v, c[i + 1]) \in Nat
              /\ DataStart(v) <= FirstLba(v, c[i + 1])
              /\ FirstLba(v, c[i + 1]) + v.spc <= v.hidd + v.total
  <1>1. Len(c) \in Nat /\ Len(c) >= 1
    BY DEF ChainOK
  <1>2. SUFFICES ASSUME NEW i \in Nat, i < Len(c)
                 PROVE  /\ c[i + 1] \in Nat /\ c[i + 1] >= 2
                        /\ c[i + 1] < EocMin /\ c[i + 1] < Word \div 4
                        /\ FirstLba(v, c[i + 1]) \in Nat
                        /\ DataStart(v) <= FirstLba(v, c[i + 1])
                        /\ FirstLba(v, c[i + 1]) + v.spc <= v.hidd + v.total
    BY <1>1
  <1>3. i + 1 \in 1..Len(c)
    BY <1>1, <1>2
  <1>4. /\ c[i + 1] \in Nat /\ c[i + 1] >= 2
        /\ c[i + 1] < EocMin /\ c[i + 1] < Word \div 4
        /\ FirstLba(v, c[i + 1]) + v.spc <= v.hidd + v.total
    <2>1. \A k \in 1..Len(c) :
            /\ c[k] >= 2 /\ c[k] < EocMin /\ c[k] < Word \div 4
            /\ FirstLba(v, c[k]) + v.spc <= v.hidd + v.total
      BY Zenon DEF ChainOK
    <2>2. c \in Seq(Nat)
      BY DEF ChainOK
    <2>3. c[i + 1] \in Nat
      BY <1>3, <2>2
    <2> QED  BY <1>3, <2>1, <2>3, Zenon
  <1>5. c[i + 1] - 2 \in Nat
    BY <1>4
  <1>6. (c[i + 1] - 2) * v.spc \in Nat
    BY <1>5, VolumeFacts, Z3
  <1>7. FirstLba(v, c[i + 1]) \in Nat /\ DataStart(v) <= FirstLba(v, c[i + 1])
    BY <1>6, VolumeFacts DEF FirstLba
  <1> QED  BY <1>4, <1>7

(* Below the end of the partition the drive reads what it is asked for.     *)
GeometryKnown ==
  vol.stage1 # "single" => spt = bios.spt /\ heads = bios.heads

LEMMA ReadsWhatIsAsked ==
  ASSUME Sound(env), GeometryKnown, NEW l \in Nat, l < vol.hidd + vol.total
  PROVE  Accessed(l) = l /\ Reads(l)
  <1>1. DriveOK(env) /\ VolumeOK(vol)
    BY DEF Sound, vol
  <1>2. bios.sectors \in Nat /\ vol.hidd + vol.total <= bios.sectors
    BY <1>1 DEF DriveOK, vol, bios
  <1>3. vol.hidd \in Nat /\ vol.total \in Nat
    BY <1>1, VolumeFacts
  <1>4. Accessed(l) = l
    <2>1. CASE vol.stage1 = "single"
      BY <2>1 DEF Accessed
    <2>2. CASE vol.stage1 # "single"
      <3>1. /\ Fits(bios.spt, bios.heads)
            /\ vol.hidd + vol.total <= Reach(bios.spt, bios.heads)
        BY <1>1, <2>2 DEF DriveOK, vol, bios
      <3>2. Reach(bios.spt, bios.heads) \in Int
        BY <3>1, Z3 DEF Reach, Fits
      <3>3. l < Reach(bios.spt, bios.heads)
        BY <1>3, <3>1, <3>2
      <3>4. Seek(Pack(l, bios.spt, bios.heads), bios.spt, bios.heads) = l
        BY <3>1, <3>3, ChsRoundTrip
      <3> QED  BY <2>2, <3>4 DEF Accessed, GeometryKnown
    <2> QED  BY <2>1, <2>2
  <1> QED  BY <1>2, <1>3, <1>4 DEF Reads

(* FAT_LBA and DATA_LBA hold what they are named for.                       *)
BasesKnown == fatLba = FatStart(vol) /\ dataLba = DataStart(vol)

LEMMA ClusterLbaIsFirst ==
  ASSUME VolumeOK(vol), BasesKnown, NEW c, ChainOK(vol, c), NEW i \in Nat, i < Len(c)
  PROVE  ClusterLba(c[i + 1]) = FirstLba(vol, c[i + 1])
  <1>1. /\ FirstLba(vol, c[i + 1]) \in Nat
        /\ FirstLba(vol, c[i + 1]) + vol.spc <= vol.hidd + vol.total
        /\ vol.spc \in Nat /\ vol.hidd + vol.total < Word
        /\ vol.hidd \in Nat /\ vol.total \in Nat
    BY ChainFacts, VolumeFacts
  <1>2. Word \in Nat
    BY LayoutAssumption
  <1>3. FirstLba(vol, c[i + 1]) % Word = FirstLba(vol, c[i + 1])
    <2>1. FirstLba(vol, c[i + 1]) < Word
      BY <1>1, <1>2
    <2> QED  BY <1>1, <1>2, <2>1, SmallMod
  <1>4. c[i + 1] \in Nat /\ DataStart(vol) \in Nat
    BY ChainFacts, VolumeFacts
  <1>5. (c[i + 1] - 2) * vol.spc \in Int
    BY <1>1, <1>4, Z3
  <1>6. (c[i + 1] - 2) * vol.spc + DataStart(vol) = FirstLba(vol, c[i + 1])
    BY <1>4, <1>5 DEF FirstLba
  <1> QED  BY <1>3, <1>6 DEF ClusterLba, BasesKnown

(* next_cluster reads the entry of the cluster, in the first copy of the    *)
(* FAT, inside the partition.                                               *)
LEMMA EntryIsRead ==
  ASSUME Sound(env), GeometryKnown, BasesKnown,
         NEW c, ChainOK(vol, c), NEW i \in Nat, i < Len(c)
  PROVE  /\ EntrySector(c[i + 1]) \in Nat /\ EntrySector(c[i + 1]) < Word
         /\ Reads(EntrySector(c[i + 1])) /\ vol.bytsPerSec # 0
         /\ FatValues(vol, Accessed(EntrySector(c[i + 1])), EntryOffset(c[i + 1]))
              = {vol.fat[c[i + 1]]}
  <1>1. VolumeOK(vol)
    BY DEF Sound, vol
  <1>2. PICK k : k = c[i + 1]
    OBVIOUS
  <1>3. /\ k \in Nat /\ k < Word \div 4
        /\ DataStart(vol) <= vol.hidd + vol.total
    <2>1. /\ c[i + 1] \in Nat /\ c[i + 1] < Word \div 4
          /\ DataStart(vol) <= FirstLba(vol, c[i + 1])
          /\ FirstLba(vol, c[i + 1]) + vol.spc <= vol.hidd + vol.total
          /\ FirstLba(vol, c[i + 1]) \in Nat
      BY <1>1, ChainFacts
    <2> QED  BY <1>1, <1>2, <2>1, VolumeFacts, SMTT(60)
  <1>4. k \div EntPerSec < vol.fatsz /\ k \in DOMAIN vol.fat
    <2>1. i + 1 \in 1..Len(c)
      BY <1>1, ChainFacts
    <2> QED  BY <1>2, <2>1 DEF ChainOK
  <1>5. EntPerSec \in Nat \ {0} /\ Word \in Nat \ {0}
    BY LayoutAssumption
  <1>6. PICK q : q = k \div EntPerSec
    OBVIOUS
  <1>7. /\ q \in Nat /\ q < vol.fatsz
        /\ k = EntPerSec * q + (k % EntPerSec)
    BY <1>3, <1>4, <1>5, <1>6, DivMod
  <1>8. /\ EntryByte(k) \div vol.bytsPerSec = q
        /\ EntryByte(k) % vol.bytsPerSec = 4 * (k % EntPerSec)
        /\ vol.bytsPerSec # 0
    <2>1. PICK r : r = k % EntPerSec
      OBVIOUS
    <2>2. r \in 0..(EntPerSec - 1) /\ vol.bytsPerSec = 4 * EntPerSec
      BY <1>1, <1>3, <1>5, <2>1, VolumeFacts, DivMod
    <2>3. 4 * k < Word /\ 4 * k \in Nat
      BY <1>3, <1>5
    <2>4. EntryByte(k) = 4 * k
      BY <1>5, <2>3, SmallMod DEF EntryByte
    <2>5. PICK e : e = 4 * EntPerSec
      OBVIOUS
    <2>6. e \in Nat \ {0} /\ 4 * r \in 0..(e - 1)
      BY <1>5, <2>2, <2>5
    <2>7. 4 * k = q * e + 4 * r
      <3>1. k = EntPerSec * q + r
        BY <1>7, <2>1
      <3> QED  BY <1>5, <1>7, <2>2, <2>5, <3>1, Z3
    <2>8. (q * e + 4 * r) \div e = q /\ (q * e + 4 * r) % e = 4 * r
      BY <1>7, <2>6, DivModUnique
    <2> QED  BY <2>1, <2>2, <2>4, <2>5, <2>6, <2>7, <2>8
  <1>9. /\ FatStart(vol) + q \in Nat /\ FatStart(vol) + q < DataStart(vol)
        /\ FatStart(vol) + q < vol.hidd + vol.total /\ FatStart(vol) + q < Word
    <2>1. /\ FatStart(vol) \in Nat /\ DataStart(vol) \in Nat /\ vol.fatsz \in Nat
          /\ FatStart(vol) + vol.fatsz <= DataStart(vol)
          /\ vol.hidd \in Nat /\ vol.total \in Nat /\ vol.hidd + vol.total < Word
      BY <1>1, VolumeFacts
    <2>2. FatStart(vol) + q \in Nat /\ FatStart(vol) + q < DataStart(vol)
      BY <1>7, <2>1
    <2>3. FatStart(vol) + q < vol.hidd + vol.total
      BY <1>3, <2>1, <2>2
    <2> QED  BY <1>5, <2>1, <2>2, <2>3
  <1>10. EntrySector(k) = FatStart(vol) + q /\ EntryOffset(k) = 4 * (k % EntPerSec)
    <2>1. (FatStart(vol) + q) % Word = FatStart(vol) + q
      BY <1>5, <1>9, SmallMod
    <2> QED  BY <1>8, <2>1 DEF EntrySector, EntryOffset, BasesKnown
  <1>11. Accessed(FatStart(vol) + q) = FatStart(vol) + q /\ Reads(FatStart(vol) + q)
    BY <1>9, ReadsWhatIsAsked
  <1>12. FatValues(vol, FatStart(vol) + q, 4 * (k % EntPerSec)) = {vol.fat[k]}
    <2>1. ((FatStart(vol) + q) - FatStart(vol)) % vol.fatsz = q
      <3>1. FatStart(vol) \in Nat /\ vol.fatsz \in Nat
        BY <1>1, VolumeFacts
      <3>2. (FatStart(vol) + q) - FatStart(vol) = q
        BY <1>7, <3>1
      <3> QED  BY <1>7, <3>1, <3>2, SmallMod
    <2>2. IsFatSector(vol, FatStart(vol) + q)
      BY <1>1, <1>7, <1>9, VolumeFacts DEF IsFatSector
    <2>3. q * EntPerSec + (k % EntPerSec) = k
      BY <1>5, <1>7, Z3
    <2>4. /\ (4 * (k % EntPerSec)) % 4 = 0 /\ (4 * (k % EntPerSec)) \div 4 = k % EntPerSec
          /\ 4 * (k % EntPerSec) < 4 * EntPerSec
      <3>1. PICK r \in 0..(EntPerSec - 1) : r = k % EntPerSec
        BY <1>3, <1>5, DivMod
      <3>2. (4 * r) % 4 = 0 /\ (4 * r) \div 4 = r /\ 4 * r < 4 * EntPerSec
        BY <1>5, <3>1
      <3> QED  BY <3>1, <3>2
    <2> QED  BY <1>4, <2>1, <2>2, <2>3, <2>4, Zenon DEF FatValues
  <1> QED  BY <1>2, <1>8, <1>9, <1>10, <1>11, <1>12

(************************ the root directory ****************************)
(* The first n root sectors have neither the name nor an end mark.          *)
Unstopped(n) == \A p \in 1..n : Stops(vol, RootSlots(vol, p)) = {}

LEMMA FirstStopIsLeast ==
  ASSUME NEW v, NEW slots, slots \in Seq([kind : {"end", "deleted", "lfn", "short"},
                                          name : STRING, clus : Nat]),
         Stops(v, slots) # {}
  PROVE  /\ FirstStop(v, slots) \in Stops(v, slots)
         /\ \A j \in Stops(v, slots) : FirstStop(v, slots) <= j
  <1>1. Stops(v, slots) \subseteq Nat
    BY DEF Stops
  <1>2. \E i \in Stops(v, slots) : \A j \in Stops(v, slots) : i <= j
    BY <1>1, Least
  <1> QED  BY <1>2, Zenon DEF FirstStop

LEMMA RootFacts ==
  ASSUME VolumeOK(vol), NEW n \in 1..Len(RootSectors(vol))
  PROVE  /\ RootSectors(vol)[n] \in DOMAIN vol.dir
         /\ RootSlots(vol, n) \in Seq([kind : {"end", "deleted", "lfn", "short"},
                                       name : STRING, clus : Nat])
         /\ \A j \in DOMAIN RootSlots(vol, n) :
              Shows(vol, n, j) => /\ Target(vol) \in DOMAIN vol.files
                                  /\ RootSlots(vol, n)[j].clus = vol.files[Target(vol)][1]
  BY Zenon DEF VolumeOK, DirectoryOK

(* A slot that shows the loader stops the scan, and nothing stops before it *)
LEMMA ShowsIsAStop ==
  ASSUME NEW i, NEW j \in DOMAIN RootSlots(vol, i), Shows(vol, i, j)
  PROVE  j \in Stops(vol, RootSlots(vol, i))
  BY DEF Shows, Stops, IsStop

LEMMA ShownInRoot ==
  ASSUME VolumeOK(vol), Target(vol) \in DOMAIN vol.files
  PROVE  \E i \in 1..Len(RootSectors(vol)) :
           \E j \in DOMAIN RootSlots(vol, i) : Shows(vol, i, j)
  BY Zenon DEF VolumeOK, DirectoryOK

(* An end mark as the first stop: the loader is not in the root directory.  *)
LEMMA EndMarkMeansAbsent ==
  ASSUME VolumeOK(vol), NEW n \in 1..Len(RootSectors(vol)), Unstopped(n - 1),
         Stops(vol, RootSlots(vol, n)) # {},
         RootSlots(vol, n)[FirstStop(vol, RootSlots(vol, n))].kind = "end"
  PROVE  Target(vol) \notin DOMAIN vol.files
  <1> DEFINE slots == RootSlots(vol, n)
             k == FirstStop(vol, slots)
  <1>1. SUFFICES ASSUME Target(vol) \in DOMAIN vol.files PROVE FALSE
    OBVIOUS
  <1>a. PICK i \in 1..Len(RootSectors(vol)) :
              \E j \in DOMAIN RootSlots(vol, i) : Shows(vol, i, j)
    BY <1>1, ShownInRoot
  <1>2. PICK j \in DOMAIN RootSlots(vol, i) : Shows(vol, i, j)
    BY <1>a
  <1>3. k \in Stops(vol, slots) /\ \A q \in Stops(vol, slots) : k <= q
    BY RootFacts, FirstStopIsLeast
  <1>4. k \in DOMAIN slots
    BY <1>3 DEF Stops
  <1>5. j \in Stops(vol, RootSlots(vol, i))
    BY <1>2, ShowsIsAStop
  <1>6. ~(i < n)
    BY <1>5 DEF Unstopped
  <1>7. \A p \in 1..i : \A q \in DOMAIN RootSlots(vol, p) :
          (p < i \/ q < j) => RootSlots(vol, p)[q].kind # "end"
    BY <1>2 DEF Shows
  <1>8. n \in 1..i /\ ~(n < i) /\ ~(k < j)
    BY <1>4, <1>6, <1>7
  <1>9. i = n
    BY <1>8
  <1>10. slots[j].kind = "short" /\ k <= j
    BY <1>2, <1>3, <1>5, <1>9 DEF Shows
  <1>11. j \in Nat /\ k \in Nat
    <2>1. DOMAIN slots \subseteq Nat
      BY RootFacts
    <2> QED  BY <1>4, <1>9, <2>1
  <1>12. k = j
    BY <1>8, <1>10, <1>11
  <1> QED  BY <1>10, <1>12

(* The name as the first stop: it is shown, and leads to the loader's chain *)
LEMMA NameMeansFound ==
  ASSUME VolumeOK(vol), NEW n \in 1..Len(RootSectors(vol)), Unstopped(n - 1),
         Stops(vol, RootSlots(vol, n)) # {},
         RootSlots(vol, n)[FirstStop(vol, RootSlots(vol, n))].kind # "end"
  PROVE  /\ Target(vol) \in DOMAIN vol.files
         /\ RootSlots(vol, n)[FirstStop(vol, RootSlots(vol, n))].clus
              = vol.files[Target(vol)][1]
  <1> DEFINE slots == RootSlots(vol, n)
             k == FirstStop(vol, slots)
  <1>1. k \in Stops(vol, slots) /\ \A q \in Stops(vol, slots) : k <= q
    BY RootFacts, FirstStopIsLeast
  <1>2. k \in DOMAIN slots /\ slots[k].kind = "short" /\ slots[k].name = Target(vol)
    BY <1>1 DEF Stops, IsStop
  <1>3. ASSUME NEW p \in 1..n, NEW q \in DOMAIN RootSlots(vol, p), p < n \/ q < k
        PROVE  RootSlots(vol, p)[q].kind # "end"
    <2>1. SUFFICES ASSUME RootSlots(vol, p)[q].kind = "end" PROVE FALSE
      OBVIOUS
    <2>2. q \in Stops(vol, RootSlots(vol, p))
      BY <2>1 DEF Stops, IsStop
    <2>3. CASE p < n
      BY <2>2, <2>3 DEF Unstopped
    <2>4. CASE ~(p < n)
      <3>1. p = n /\ q < k
        BY <1>3, <2>4
      <3>2. k <= q
        BY <1>1, <2>2, <3>1
      <3>3. DOMAIN slots \subseteq Nat
        BY RootFacts
      <3> QED  BY <1>2, <3>1, <3>2, <3>3
    <2> QED  BY <2>3, <2>4
  <1>4. Shows(vol, n, k)
    BY <1>2, <1>3, Zenon DEF Shows
  <1> QED  BY <1>2, <1>4, RootFacts

(* No stop in the whole root directory: the loader is not there.            *)
LEMMA NoStopMeansAbsent ==
  ASSUME VolumeOK(vol), Unstopped(Len(RootSectors(vol)))
  PROVE  Target(vol) \notin DOMAIN vol.files
  <1>1. SUFFICES ASSUME Target(vol) \in DOMAIN vol.files PROVE FALSE
    OBVIOUS
  <1>a. PICK i \in 1..Len(RootSectors(vol)) :
              \E j \in DOMAIN RootSlots(vol, i) : Shows(vol, i, j)
    BY <1>1, ShownInRoot
  <1>2. PICK j \in DOMAIN RootSlots(vol, i) : Shows(vol, i, j)
    BY <1>a
  <1> QED  BY <1>2, ShowsIsAStop DEF Unstopped

(********************** the inductive invariant *************************)
(* Where the walks are.  A position in a chain is a cluster index i and a   *)
(* sector index j, both from zero; i * spc + j sectors are behind it.       *)
Chain == vol.files[Target(vol)]
DirPcs == {"dirCluster", "dirSector", "dirNext"}
LoadPcs == {"loadCluster", "loadSector", "loadNext"}
StagePcs == {"probe", "readStage2"}

AtCluster(c, i) == i < Len(c) /\ clus = c[i + 1]
AtSector(c, i, j) ==
  /\ AtCluster(c, i) /\ j < vol.spc
  /\ left = vol.spc - j
  /\ readLba = FirstLba(vol, clus) + j

GeometryInv == pc \notin {"probe", "halted"} => GeometryKnown
StageInv == pc \in StagePcs => vol.stage1 # "single"
BasesInv == pc \in DirPcs \cup LoadPcs => BasesKnown
DirInv ==
  /\ pc = "dirCluster" => \E i \in Nat : AtCluster(vol.root, i) /\ Unstopped(i * vol.spc)
  /\ pc = "dirSector" => \E i, j \in Nat : AtSector(vol.root, i, j) /\ Unstopped(i * vol.spc + j)
  /\ pc = "dirNext" => \E i \in Nat : AtCluster(vol.root, i) /\ Unstopped(i * vol.spc + vol.spc)
LoadInv ==
  /\ pc \in LoadPcs => Target(vol) \in DOMAIN vol.files
  /\ pc = "loadCluster" => \E i \in Nat : AtCluster(Chain, i) /\ Copied = i * vol.spc
  /\ pc = "loadSector" => \E i, j \in Nat : AtSector(Chain, i, j) /\ Copied = i * vol.spc + j
  /\ pc = "loadNext" => \E i \in Nat : AtCluster(Chain, i) /\ Copied = i * vol.spc + vol.spc
StartInv == pc \in StagePcs \cup DirPcs \cup {"setup"} => es = LoadBlock

IInv ==
  /\ TypeOK /\ GeometryInv /\ StageInv /\ BasesInv /\ DirInv /\ LoadInv /\ StartInv
  /\ ImageIsPrefix /\ RunsWholeFile /\ NeverLost /\ NotFoundMeansAbsent

LEMMA FileFacts ==
  ASSUME VolumeOK(vol)
  PROVE  /\ Len(File(vol)) \in Nat /\ Len(File(vol)) <= RamTop - LoadBlock
         /\ Target(vol) \in DOMAIN vol.files =>
              /\ ChainOK(vol, Chain) /\ File(vol) = SectorsOf(vol, Chain)
              /\ Len(File(vol)) = Len(Chain) * vol.spc
              /\ File(vol) # <<>>
  <1>1. Len(File(vol)) <= RamTop - LoadBlock
    BY DEF VolumeOK
  <1>2. CASE Target(vol) \notin DOMAIN vol.files
    <2>1. File(vol) = <<>>
      BY <1>2 DEF File
    <2> QED  BY <1>1, <1>2, <2>1
  <1>3. CASE Target(vol) \in DOMAIN vol.files
    <2>1. ChainOK(vol, Chain)
      BY <1>3 DEF VolumeOK, Chain
    <2>2. File(vol) = SectorsOf(vol, Chain)
      BY <1>3 DEF File, Chain
    <2>3. Len(Chain) \in Nat /\ Len(Chain) >= 1 /\ vol.spc \in Nat /\ 1 <= vol.spc
      BY <2>1, ChainFacts, VolumeFacts
    <2>4. Len(File(vol)) = Len(Chain) * vol.spc /\ Len(Chain) * vol.spc \in Nat
      BY <2>2, <2>3, LenSectorsOf
    <2>5. Len(Chain) * vol.spc >= 1
      BY <2>3, Z3
    <2>6. File(vol) # <<>>
      <3>1. SUFFICES ASSUME File(vol) = <<>> PROVE FALSE
        OBVIOUS
      <3>2. Len(File(vol)) = 0
        BY <3>1
      <3> QED  BY <2>4, <2>5, <3>2
    <2> QED  BY <1>1, <1>3, <2>1, <2>2, <2>4, <2>6
  <1> QED  BY <1>2, <1>3

LEMMA InitIInv ==
  ASSUME SoundEnvironments, Init
  PROVE  IInv
  <1>0. Sound(env) /\ VolumeOK(vol) /\ env \in Environments
    BY DEF SoundEnvironments, Init, Sound, vol
  <1>a. /\ fatLba = 0 /\ dataLba = 0 /\ readLba = 0 /\ clus = 0 /\ left = 0
        /\ spt = 0 /\ heads = 0 /\ es = LoadBlock /\ err = "none"
        /\ mem = [b \in 0..(Blocks - 1) |-> NoSector]
        /\ pc \in {"probe", "setup"}
    BY Zenon DEF Init
  <1>1. TypeOK
    <2>1. mem \in [0..(Blocks - 1) -> Int]
      BY <1>a DEF NoSector
    <2>2. /\ fatLba \in 0..(Word - 1) /\ dataLba \in 0..(Word - 1)
          /\ readLba \in 0..(Word - 1) /\ clus \in 0..(EntMod - 1)
          /\ es \in LoadBlock..RamTop
      BY <1>a, LayoutAssumption
    <2>3. pc \in Labels /\ err \in {"none", "G", "R", "1", "2"}
      BY <1>a DEF Labels
    <2>4. /\ spt \in Nat /\ spt <= 63 /\ heads \in Nat /\ heads <= 255
          /\ left \in Nat /\ left <= 255
      BY <1>a
    <2> QED  BY <1>0, <2>1, <2>2, <2>3, <2>4 DEF TypeOK
  <1>2. GeometryInv /\ StageInv
    BY Zenon DEF Init, GeometryInv, StageInv, StagePcs, GeometryKnown, vol
  <1>3. BasesInv /\ DirInv /\ LoadInv /\ StartInv
    BY DEF Init, BasesInv, DirInv, LoadInv, StartInv, DirPcs, LoadPcs
  <1>4. ImageIsPrefix
    <2>1. Copied = 0
      BY <1>a, LayoutAssumption DEF Copied
    <2>2. \A b \in 0..(Blocks - 1) : mem[b] = NoSector /\ b \notin LoadBlock..(es - 1)
      BY <1>a, LayoutAssumption
    <2> QED  BY <1>0, <2>1, <2>2, FileFacts DEF ImageIsPrefix
  <1>5. RunsWholeFile /\ NeverLost /\ NotFoundMeansAbsent
    BY DEF Init, RunsWholeFile, NeverLost, NotFoundMeansAbsent
  <1> QED  BY <1>1, <1>2, <1>3, <1>4, <1>5 DEF IInv

(************************* one step per action **************************)
LEMMA Frame ==
  ASSUME UNCHANGED env
  PROVE  vol' = vol /\ bios' = bios
  BY DEF vol, bios

LEMMA ImageFrame ==
  ASSUME ImageIsPrefix, UNCHANGED <<env, es, mem>>
  PROVE  ImageIsPrefix'
  BY Frame DEF ImageIsPrefix, Copied

LEMMA GeometryFrame ==
  ASSUME GeometryKnown, UNCHANGED <<env, spt, heads>>
  PROVE  GeometryKnown'
  BY Frame DEF GeometryKnown

LEMMA BasesFrame ==
  ASSUME BasesKnown, UNCHANGED <<env, fatLba, dataLba>>
  PROVE  BasesKnown'
  BY Frame DEF BasesKnown

LEMMA SoundNow ==
  ASSUME SoundEnvironments, IInv
  PROVE  Sound(env) /\ VolumeOK(vol) /\ DriveOK(env)
  BY DEF SoundEnvironments, IInv, TypeOK, Sound, vol

(* After the probe the cells hold the translation of the BIOS. *)
LEMMA ProbeStep ==
  ASSUME SoundEnvironments, IInv, UNCHANGED env,
         ProbeAnswered \/ ProbeFallback
  PROVE  IInv'
  <1>0. /\ Sound(env) /\ DriveOK(env) /\ vol' = vol /\ bios' = bios
        /\ TypeOK /\ StageInv /\ StartInv /\ ImageIsPrefix /\ NeverLost
    BY SoundNow, Frame DEF IInv
  <1>1. /\ pc = "probe" /\ pc' = "readStage2" /\ UNCHANGED <<env, err>>
        /\ UNCHANGED <<fatLba, dataLba, readLba, clus, left, es, mem>>
    BY DEF ProbeAnswered, ProbeFallback, Goto, KeepWalk
  <1>2. vol.stage1 # "single"
    BY <1>0, <1>1 DEF StageInv, StagePcs
  <1>3. Fits(bios.spt, bios.heads)
    BY <1>0, <1>2 DEF DriveOK, vol, bios
  <1>4. spt' = bios.spt /\ heads' = bios.heads
    <2>1. CASE ProbeAnswered
      <3>1. bios.cl % 64 = bios.spt /\ bios.dh = bios.heads - 1
        BY <1>0, <1>2, <2>1 DEF ProbeAnswered, DriveOK, vol, bios
      <3>2. spt' = ProbedSpt(bios.cl) /\ heads' = ProbedHeads(bios.dh)
        BY <2>1 DEF ProbeAnswered
      <3>3. bios.heads - 1 + 1 = bios.heads /\ bios.heads % 256 = bios.heads
        BY <1>3 DEF Fits
      <3> QED  BY <3>1, <3>2, <3>3 DEF ProbedSpt, ProbedHeads
    <2>2. CASE ProbeFallback
      BY <1>0, <1>2, <2>2 DEF ProbeFallback, DriveOK, vol, bios
    <2> QED  BY <2>1, <2>2
  <1>5. TypeOK'
    <2>1. /\ spt' \in Nat /\ spt' <= 63 /\ heads' \in Nat /\ heads' <= 255
      BY <1>3, <1>4 DEF Fits
    <2> QED  BY <1>0, <1>1, <2>1 DEF TypeOK, Labels
  <1>6. GeometryInv' /\ StageInv'
    BY <1>0, <1>2, <1>4 DEF GeometryInv, GeometryKnown, StageInv
  <1>7. BasesInv' /\ DirInv' /\ LoadInv' /\ StartInv'
    BY <1>0, <1>1 DEF BasesInv, DirInv, LoadInv, StartInv, DirPcs, LoadPcs, StagePcs
  <1>8. ImageIsPrefix'
    BY <1>0, <1>1, ImageFrame
  <1>9. RunsWholeFile' /\ NeverLost' /\ NotFoundMeansAbsent'
    BY <1>0, <1>1 DEF RunsWholeFile, NeverLost, NotFoundMeansAbsent
  <1> QED  BY <1>5, <1>6, <1>7, <1>8, <1>9 DEF IInv

(* Halting with a letter other than '1' keeps everything.                   *)
LEMMA DieStep ==
  ASSUME SoundEnvironments, IInv, UNCHANGED <<env, spt, heads, fatLba, dataLba, es, mem>>,
         NEW letter \in {"G", "R", "1", "2"}, Die(letter),
         letter = "1" => Target(vol) \notin DOMAIN vol.files,
         readLba' \in 0..(Word - 1), clus' \in 0..(EntMod - 1), left' = left
  PROVE  IInv'
  <1>0. vol' = vol /\ bios' = bios /\ TypeOK /\ ImageIsPrefix
    BY Frame DEF IInv
  <1>1. pc' = "halted" /\ err' = letter
    BY DEF Die
  <1>2. TypeOK'
    BY <1>0, <1>1 DEF TypeOK, Labels
  <1>3. GeometryInv' /\ StageInv' /\ BasesInv' /\ DirInv' /\ LoadInv' /\ StartInv'
    BY <1>1 DEF GeometryInv, StageInv, BasesInv, DirInv, LoadInv, StartInv,
                DirPcs, LoadPcs, StagePcs
  <1>4. ImageIsPrefix'
    BY <1>0, ImageFrame
  <1>5. RunsWholeFile' /\ NeverLost' /\ NotFoundMeansAbsent'
    BY <1>0, <1>1 DEF RunsWholeFile, NeverLost, NotFoundMeansAbsent
  <1> QED  BY <1>2, <1>3, <1>4, <1>5 DEF IInv

(* Going on, with the geometry in place: what is left to show.              *)
LEMMA GoStep ==
  ASSUME IInv, UNCHANGED <<env, spt, heads, err>>, pc \notin {"probe", "halted"},
         pc' \in {"setup"} \cup DirPcs \cup LoadPcs,
         TypeOK', BasesInv', DirInv', LoadInv', StartInv', ImageIsPrefix'
  PROVE  IInv'
  <1>1. GeometryInv' /\ StageInv'
    <2>1. GeometryKnown'
      BY GeometryFrame DEF IInv, GeometryInv
    <2> QED  BY <2>1 DEF GeometryInv, StageInv, StagePcs, DirPcs, LoadPcs
  <1>2. RunsWholeFile' /\ NeverLost' /\ NotFoundMeansAbsent'
    BY Frame DEF IInv, RunsWholeFile, NeverLost, NotFoundMeansAbsent, DirPcs, LoadPcs
  <1> QED  BY <1>1, <1>2 DEF IInv

(* Stage 2 lies in the partition.                                           *)
LEMMA Stage2Inside ==
  ASSUME VolumeOK(vol)
  PROVE  /\ vol.hidd + 2 \in Nat /\ vol.hidd + 2 < vol.hidd + vol.total
         /\ vol.hidd + 2 < Word /\ Stage2Lba = vol.hidd + 2
  <1>1. /\ vol.hidd \in Nat /\ vol.total \in Nat /\ vol.hidd + vol.total < Word
        /\ vol.hidd + 3 <= FatStart(vol) /\ FatStart(vol) \in Nat
        /\ FatStart(vol) + vol.fatsz <= DataStart(vol) /\ vol.fatsz \in Nat
        /\ DataStart(vol) \in Nat /\ vol.spc \in Nat
    BY VolumeFacts
  <1>2. ChainOK(vol, vol.root)
    BY DEF VolumeOK
  <1>3. 0 \in Nat /\ 0 < Len(vol.root)
    BY <1>2, ChainFacts
  <1>4. /\ FirstLba(vol, vol.root[0 + 1]) \in Nat
        /\ DataStart(vol) <= FirstLba(vol, vol.root[0 + 1])
        /\ FirstLba(vol, vol.root[0 + 1]) + vol.spc <= vol.hidd + vol.total
    BY <1>2, <1>3, ChainFacts
  <1>5. vol.hidd + 2 \in Nat /\ vol.hidd + 2 < vol.hidd + vol.total /\ vol.hidd + 2 < Word
    BY <1>1, <1>4, LayoutAssumption
  <1> QED  BY <1>5, LayoutAssumption, SmallMod DEF Stage2Lba

LEMMA Stage2Step ==
  ASSUME SoundEnvironments, IInv, UNCHANGED env, ReadStage2
  PROVE  IInv'
  <1>0. /\ Sound(env) /\ VolumeOK(vol) /\ DriveOK(env) /\ vol' = vol
        /\ TypeOK /\ StageInv /\ StartInv /\ GeometryInv /\ ImageIsPrefix
    BY SoundNow, Frame DEF IInv
  <1>1. pc = "readStage2" /\ UNCHANGED <<spt, heads, fatLba, dataLba, readLba, clus, left, es, mem>>
    BY DEF ReadStage2, KeepWalk
  <1>2. vol.stage1 # "single" /\ GeometryKnown /\ es = LoadBlock
    BY <1>0, <1>1 DEF StageInv, StagePcs, GeometryInv, StartInv
  <1>3. Divides(spt, heads)
    <2>1. Fits(bios.spt, bios.heads)
      BY <1>0, <1>2 DEF DriveOK, vol, bios
    <2> QED  BY <1>2, <2>1 DEF GeometryKnown, Fits, Divides
  <1>4. CASE Die("R")
    <2>1. readLba' \in 0..(Word - 1) /\ clus' \in 0..(EntMod - 1)
      BY <1>0, <1>1 DEF TypeOK
    <2> QED  BY <1>1, <1>4, <2>1, DieStep
  <1>5. CASE Goto(IF IsStage2(Accessed(Stage2Lba)) THEN "setup" ELSE "wild")
    <2>1. IsStage2(Accessed(Stage2Lba))
      <3>1. /\ vol.hidd + 2 \in Nat /\ vol.hidd + 2 < vol.hidd + vol.total
            /\ Stage2Lba = vol.hidd + 2
        BY <1>0, Stage2Inside
      <3>3. Accessed(Stage2Lba) = vol.hidd + 2
        BY <1>0, <1>2, <3>1, ReadsWhatIsAsked
      <3>4. vol.stage2 \in {"bootmgr", "ntldr"}
        BY <1>0, <1>2 DEF VolumeOK
      <3> QED  BY <3>3, <3>4 DEF IsStage2
    <2>2. pc' = "setup" /\ UNCHANGED err
      BY <1>5, <2>1 DEF Goto
    <2>3. TypeOK'
      BY <1>0, <1>1, <2>2 DEF TypeOK, Labels
    <2>4. BasesInv' /\ DirInv' /\ LoadInv' /\ StartInv'
      BY <1>1, <1>2, <2>2 DEF BasesInv, DirInv, LoadInv, StartInv, DirPcs, LoadPcs
    <2>5. ImageIsPrefix'
      BY <1>0, <1>1, ImageFrame
    <2> QED  BY <1>1, <2>2, <2>3, <2>4, <2>5, GoStep
  <1> QED  BY <1>3, <1>4, <1>5 DEF ReadStage2

LEMMA SetupStep ==
  ASSUME SoundEnvironments, IInv, UNCHANGED env, Setup
  PROVE  IInv'
  <1>0. /\ VolumeOK(vol) /\ vol' = vol /\ TypeOK /\ StartInv /\ ImageIsPrefix
    BY SoundNow, Frame DEF IInv
  <1>1. /\ pc = "setup" /\ pc' = "dirCluster"
        /\ fatLba' = (vol.hidd + vol.rsvd) % Word
        /\ dataLba' = (fatLba' + Iterations(vol.nfats, 256) * vol.fatsz) % Word
        /\ clus' = vol.rootClus
        /\ UNCHANGED <<err, spt, heads, readLba, left, es, mem>>
    BY DEF Setup, Goto
  <1>2. /\ FatStart(vol) \in Nat /\ DataStart(vol) \in Nat /\ vol.fatsz \in Nat
        /\ vol.nfats \in Nat /\ 1 <= vol.nfats
        /\ FatStart(vol) + vol.fatsz <= DataStart(vol)
        /\ DataStart(vol) = FatStart(vol) + vol.nfats * vol.fatsz
    BY <1>0, VolumeFacts
  <1>3. ChainOK(vol, vol.root) /\ Len(vol.root) \in Nat /\ 0 < Len(vol.root)
    <2>1. ChainOK(vol, vol.root)
      BY <1>0 DEF VolumeOK
    <2> QED  BY <1>0, <2>1, ChainFacts
  <1>4. /\ vol.root[0 + 1] \in Nat /\ vol.root[0 + 1] < EocMin
        /\ FirstLba(vol, vol.root[0 + 1]) \in Nat
        /\ DataStart(vol) <= FirstLba(vol, vol.root[0 + 1])
        /\ FirstLba(vol, vol.root[0 + 1]) + vol.spc <= vol.hidd + vol.total
    BY <1>0, <1>3, ChainFacts
  <1>5. DataStart(vol) < Word /\ FatStart(vol) < Word
    <2>1. /\ vol.spc \in Nat /\ vol.hidd \in Nat /\ vol.total \in Nat
          /\ vol.hidd + vol.total < Word
      BY <1>0, VolumeFacts
    <2> QED  BY <1>2, <1>4, <2>1, LayoutAssumption
  <1>6. fatLba' = FatStart(vol) /\ dataLba' = DataStart(vol)
    <2>1. fatLba' = FatStart(vol)
      BY <1>1, <1>2, <1>5, LayoutAssumption, SmallMod DEF FatStart
    <2>2. Iterations(vol.nfats, 256) = vol.nfats
      BY <1>2 DEF Iterations
    <2>3. dataLba' = DataStart(vol) % Word
      BY <1>1, <1>2, <2>1, <2>2
    <2> QED  BY <1>2, <1>5, <2>1, <2>3, LayoutAssumption, SmallMod
  <1>7. clus' = vol.root[0 + 1]
    BY <1>0, <1>1 DEF VolumeOK
  <1>8. TypeOK'
    <2>1. clus' \in 0..(EntMod - 1)
      BY <1>4, <1>7, LayoutAssumption DEF EocMin
    <2>2. fatLba' \in 0..(Word - 1) /\ dataLba' \in 0..(Word - 1)
      BY <1>2, <1>5, <1>6, LayoutAssumption
    <2> QED  BY <1>0, <1>1, <2>1, <2>2 DEF TypeOK, Labels
  <1>9. BasesInv'
    BY <1>0, <1>6 DEF BasesInv, BasesKnown
  <1>10. DirInv'
    <2>1. AtCluster(vol.root, 0)'
      BY <1>0, <1>3, <1>7 DEF AtCluster
    <2>2. Unstopped(0 * vol.spc)'
      <3>1. 0 * vol.spc = 0
        BY <1>0, VolumeFacts
      <3>2. 1..0 = {}
        OBVIOUS
      <3> QED  BY <1>0, <3>1, <3>2 DEF Unstopped
    <2> QED  BY <1>1, <2>1, <2>2 DEF DirInv
  <1>11. LoadInv' /\ StartInv'
    BY <1>0, <1>1 DEF LoadInv, StartInv, LoadPcs, DirPcs
  <1>12. ImageIsPrefix'
    BY <1>0, <1>1, ImageFrame
  <1> QED  BY <1>1, <1>8, <1>9, <1>10, <1>11, <1>12, GoStep DEF DirPcs

(* Entering a cluster of either chain: its first sector, all of it to go.   *)
LEMMA EnterFacts ==
  ASSUME SoundEnvironments, IInv, UNCHANGED env, NEW from, NEW to, EnterCluster(from, to),
         from \in DirPcs \cup LoadPcs, to \in DirPcs \cup LoadPcs,
         NEW c, ChainOK(vol, c), NEW i \in Nat, AtCluster(c, i)
  PROVE  /\ TypeOK' /\ BasesInv' /\ ImageIsPrefix'
         /\ i + 0 \in Nat /\ AtSector(c, i, 0)'
  <1>0. /\ VolumeOK(vol) /\ vol' = vol /\ TypeOK /\ BasesInv /\ ImageIsPrefix
    BY SoundNow, Frame DEF IInv
  <1>1. /\ pc = from /\ pc' = to
        /\ readLba' = ClusterLba(clus) /\ left' = Iterations(vol.spc, 65536)
        /\ UNCHANGED <<err, spt, heads, fatLba, dataLba, clus, es, mem>>
    BY DEF EnterCluster, Goto
  <1>2. BasesKnown
    BY <1>0, <1>1 DEF BasesInv
  <1>3. clus = c[i + 1] /\ i < Len(c)
    BY DEF AtCluster
  <1>4. /\ FirstLba(vol, clus) \in Nat
        /\ FirstLba(vol, clus) + vol.spc <= vol.hidd + vol.total
        /\ vol.spc \in Nat /\ 1 <= vol.spc /\ vol.spc <= 255
        /\ vol.hidd \in Nat /\ vol.total \in Nat /\ vol.hidd + vol.total < Word
    BY <1>0, <1>3, ChainFacts, VolumeFacts, SMTT(60)
  <1>5. readLba' = FirstLba(vol, clus)
    BY <1>0, <1>1, <1>2, <1>3, ClusterLbaIsFirst
  <1>6. left' = vol.spc
    BY <1>1, <1>4 DEF Iterations
  <1>7. TypeOK'
    <2>1. readLba' \in 0..(Word - 1)
      BY <1>4, <1>5, LayoutAssumption
    <2>2. to \in Labels
      BY DEF DirPcs, LoadPcs, Labels
    <2> QED  BY <1>0, <1>1, <1>4, <1>6, <2>1, <2>2 DEF TypeOK
  <1>8. BasesInv'
    BY <1>1, <1>2, BasesFrame DEF BasesInv
  <1>9. ImageIsPrefix'
    BY <1>0, <1>1, ImageFrame
  <1>10. AtSector(c, i, 0)'
    BY <1>0, <1>1, <1>3, <1>4, <1>5, <1>6 DEF AtSector, AtCluster
  <1> QED  BY <1>7, <1>8, <1>9, <1>10

LEMMA EnterDirStep ==
  ASSUME SoundEnvironments, IInv, UNCHANGED env, EnterDirCluster
  PROVE  IInv'
  <1>0. /\ VolumeOK(vol) /\ vol' = vol /\ DirInv /\ StartInv
    BY SoundNow, Frame DEF IInv
  <1>1. /\ EnterCluster("dirCluster", "dirSector")
        /\ pc = "dirCluster" /\ pc' = "dirSector" /\ UNCHANGED <<err, spt, heads, es>>
    BY DEF EnterDirCluster, EnterCluster, Goto
  <1>2. PICK i \in Nat : AtCluster(vol.root, i) /\ Unstopped(i * vol.spc)
    BY <1>0, <1>1 DEF DirInv
  <1>3. ChainOK(vol, vol.root)
    BY <1>0 DEF VolumeOK
  <1>4. TypeOK' /\ BasesInv' /\ ImageIsPrefix' /\ AtSector(vol.root, i, 0)'
    <2>1. "dirCluster" \in DirPcs \cup LoadPcs /\ "dirSector" \in DirPcs \cup LoadPcs
      BY DEF DirPcs
    <2>2. PICK c : c = vol.root
      OBVIOUS
    <2>3. TypeOK' /\ BasesInv' /\ ImageIsPrefix' /\ AtSector(c, i, 0)'
      BY <1>1, <1>2, <1>3, <2>1, <2>2, EnterFacts
    <2>4. c = (vol.root)'
      BY <1>0, <2>2
    <2> QED  BY <2>3, <2>4
  <1>5. DirInv'
    <2>1. Unstopped(i * vol.spc + 0)'
      <3>1. i * vol.spc + 0 = i * vol.spc
        BY <1>0, VolumeFacts, ProductSteps
      <3> QED  BY <1>0, <1>2, <3>1 DEF Unstopped
    <2>2. AtSector(vol.root, i, 0)' /\ Unstopped(i * vol.spc + 0)'
      BY <1>4, <2>1
    <2> QED  BY <1>0, <1>1, <2>2 DEF DirInv
  <1>6. LoadInv' /\ StartInv'
    BY <1>0, <1>1 DEF LoadInv, StartInv, LoadPcs, DirPcs
  <1> QED  BY <1>1, <1>4, <1>5, <1>6, GoStep DEF DirPcs

LEMMA EnterFileStep ==
  ASSUME SoundEnvironments, IInv, UNCHANGED env, EnterFileCluster
  PROVE  IInv'
  <1>0. /\ VolumeOK(vol) /\ vol' = vol /\ LoadInv
    BY SoundNow, Frame DEF IInv
  <1>1. /\ EnterCluster("loadCluster", "loadSector")
        /\ pc = "loadCluster" /\ pc' = "loadSector" /\ UNCHANGED <<err, spt, heads, es>>
    BY DEF EnterFileCluster, EnterCluster, Goto
  <1>2. PICK i \in Nat : AtCluster(Chain, i) /\ Copied = i * vol.spc
    BY <1>0, <1>1 DEF LoadInv
  <1>3. Target(vol) \in DOMAIN vol.files /\ ChainOK(vol, Chain)
    <2>1. Target(vol) \in DOMAIN vol.files
      BY <1>0, <1>1 DEF LoadInv, LoadPcs
    <2> QED  BY <1>0, <2>1, FileFacts
  <1>4. TypeOK' /\ BasesInv' /\ ImageIsPrefix' /\ AtSector(Chain, i, 0)'
    <2>1. "loadCluster" \in DirPcs \cup LoadPcs /\ "loadSector" \in DirPcs \cup LoadPcs
      BY DEF LoadPcs
    <2>2. PICK c : c = Chain
      OBVIOUS
    <2>3. TypeOK' /\ BasesInv' /\ ImageIsPrefix' /\ AtSector(c, i, 0)'
      BY <1>1, <1>2, <1>3, <2>1, <2>2, EnterFacts
    <2>4. c = Chain'
      BY <1>0, <2>2 DEF Chain
    <2> QED  BY <2>3, <2>4
  <1>5. LoadInv'
    <2>1. Copied' = i * vol.spc + 0
      BY <1>0, <1>1, <1>2, VolumeFacts, ProductSteps DEF Copied
    <2> QED  BY <1>0, <1>1, <1>3, <1>4, <2>1 DEF LoadInv
  <1>6. DirInv' /\ StartInv'
    BY <1>1 DEF DirInv, StartInv, DirPcs, StagePcs
  <1> QED  BY <1>1, <1>4, <1>5, <1>6, GoStep DEF LoadPcs

(* The sector at a position of a chain is read as itself.                   *)
LEMMA SectorIsRead ==
  ASSUME Sound(env), GeometryKnown, NEW c, ChainOK(vol, c),
         NEW i \in Nat, NEW j \in Nat, AtSector(c, i, j)
  PROVE  /\ Reads(readLba) /\ Accessed(readLba) = readLba
         /\ readLba + 1 \in Nat /\ readLba + 1 < Word
         /\ i * vol.spc + j + 1 \in 1..Len(SectorsOf(vol, c))
         /\ SectorsOf(vol, c)[i * vol.spc + j + 1] = readLba
         /\ j + 1 <= vol.spc /\ left \in Nat /\ (left = 1 <=> j + 1 = vol.spc)
         /\ vol.spc \in Nat /\ i * vol.spc \in Nat
  <1>0. VolumeOK(vol)
    BY DEF Sound, vol
  <1>1. /\ i < Len(c) /\ clus = c[i + 1] /\ j < vol.spc /\ left = vol.spc - j
        /\ readLba = FirstLba(vol, clus) + j
    BY DEF AtSector, AtCluster
  <1>2. /\ vol.spc \in Nat /\ 1 <= vol.spc /\ vol.hidd \in Nat /\ vol.total \in Nat
        /\ vol.hidd + vol.total < Word
    BY <1>0, VolumeFacts
  <1>3. /\ FirstLba(vol, clus) \in Nat /\ Len(c) \in Nat
        /\ FirstLba(vol, clus) + vol.spc <= vol.hidd + vol.total
    BY <1>0, <1>1, ChainFacts
  <1>4. readLba \in Nat /\ readLba < vol.hidd + vol.total
    BY <1>1, <1>2, <1>3, SMTT(60)
  <1>5. Reads(readLba) /\ Accessed(readLba) = readLba
    BY <1>4, ReadsWhatIsAsked
  <1>6. readLba + 1 \in Nat /\ readLba + 1 < Word
    BY <1>2, <1>4, LayoutAssumption
  <1>7. /\ i * vol.spc + j + 1 \in 1..Len(SectorsOf(vol, c))
        /\ SectorsOf(vol, c)[i * vol.spc + j + 1] = readLba
    BY <1>1, <1>2, <1>3, SectorOfCluster, SMTT(60)
  <1>8. i * vol.spc \in Nat
    BY <1>2, ProductSteps
  <1>9. j + 1 <= vol.spc /\ left \in Nat /\ (left = 1 <=> j + 1 = vol.spc)
    BY <1>1, <1>2, SMTT(60)
  <1> QED  BY <1>2, <1>5, <1>6, <1>7, <1>8, <1>9

LEMMA ScanStep ==
  ASSUME SoundEnvironments, IInv, UNCHANGED env, ScanSector
  PROVE  IInv'
  <1>0. /\ Sound(env) /\ VolumeOK(vol) /\ vol' = vol /\ TypeOK /\ DirInv /\ StartInv
        /\ BasesInv /\ GeometryInv /\ ImageIsPrefix
    BY SoundNow, Frame DEF IInv
  <1>1. pc = "dirSector" /\ UNCHANGED <<spt, heads, fatLba, dataLba, es, mem>>
    BY DEF ScanSector
  <1>2. PICK i \in Nat, j \in Nat : AtSector(vol.root, i, j) /\ Unstopped(i * vol.spc + j)
    BY <1>0, <1>1 DEF DirInv
  <1>3. ChainOK(vol, vol.root) /\ GeometryKnown /\ BasesKnown /\ es = LoadBlock
    BY <1>0, <1>1 DEF VolumeOK, GeometryInv, BasesInv, StartInv, DirPcs
  <1>4. PICK n : n = i * vol.spc + j + 1
    OBVIOUS
  <1>5. /\ Reads(readLba) /\ Accessed(readLba) = readLba
        /\ readLba + 1 \in Nat /\ readLba + 1 < Word
        /\ n \in 1..Len(RootSectors(vol)) /\ RootSectors(vol)[n] = readLba
        /\ j + 1 <= vol.spc /\ left \in Nat /\ (left = 1 <=> j + 1 = vol.spc)
        /\ vol.spc \in Nat /\ i * vol.spc \in Nat
    BY <1>0, <1>2, <1>3, <1>4, SectorIsRead, SMTT(60) DEF RootSectors
  <1>6. n - 1 = i * vol.spc + j /\ n \in Nat
    BY <1>4, <1>5, SMTT(60)
  <1>7. SlotsAt(Accessed(readLba)) = {RootSlots(vol, n)} /\ Unstopped(n - 1)
    <2>1. readLba \in DOMAIN vol.dir
      BY <1>0, <1>5, RootFacts
    <2> QED  BY <1>2, <1>5, <1>6, <2>1 DEF SlotsAt, RootSlots
  <1>8. /\ AtCluster(vol.root, i) /\ left = vol.spc - j /\ readLba = FirstLba(vol, clus) + j
        /\ FirstLba(vol, clus) \in Nat
    <2>1. AtCluster(vol.root, i) /\ left = vol.spc - j /\ readLba = FirstLba(vol, clus) + j
      BY <1>2 DEF AtSector
    <2>2. FirstLba(vol, vol.root[i + 1]) \in Nat
      BY <1>0, <1>3, <2>1, ChainFacts DEF AtCluster
    <2> QED  BY <2>1, <2>2 DEF AtCluster
  <1>9. CASE Die("2") /\ UNCHANGED <<readLba, clus, left>>
    <2>1. readLba' \in 0..(Word - 1) /\ clus' \in 0..(EntMod - 1)
      BY <1>0, <1>9 DEF TypeOK
    <2> QED  BY <1>1, <1>9, <2>1, DieStep
  <1>10. CASE /\ Stops(vol, RootSlots(vol, n)) = {}
              /\ readLba' = (readLba + 1) % Word
              /\ left' = left - 1
              /\ Goto(IF left = 1 THEN "dirNext" ELSE "dirSector")
              /\ UNCHANGED clus
    <2>1. readLba' = readLba + 1
      BY <1>5, <1>10, SmallMod, LayoutAssumption
    <2>2. Unstopped(n)'
      <3>1. \A p \in 1..n : p \in 1..(n - 1) \/ p = n
        BY <1>6
      <3> QED  BY <1>0, <1>7, <1>10, <3>1 DEF Unstopped
    <2>3. /\ pc' = IF left = 1 THEN "dirNext" ELSE "dirSector"
          /\ UNCHANGED err
      BY <1>10 DEF Goto
    <2>4. TypeOK'
      <3>1. left' \in Nat /\ left' <= 255
        <4>1. left' = left - 1 /\ left <= 255
          BY <1>0, <1>10 DEF TypeOK
        <4>2. left >= 1
          BY <1>5, <1>8, SMTT(60)
        <4> QED  BY <1>5, <4>1, <4>2
      <3>2. readLba' \in 0..(Word - 1)
        BY <1>5, <2>1, LayoutAssumption
      <3>3. pc' \in Labels
        BY <2>3 DEF Labels
      <3> QED  BY <1>0, <1>1, <1>10, <2>3, <3>1, <3>2, <3>3 DEF TypeOK
    <2>5. BasesInv'
      BY <1>1, <1>3, BasesFrame DEF BasesInv
    <2>6. DirInv'
      <3>1. CASE left = 1
        <4>1. Unstopped(i * vol.spc + vol.spc)'
          <5>1. i * vol.spc + vol.spc = n
            <6>1. j + 1 = vol.spc /\ i * vol.spc \in Nat /\ vol.spc \in Nat
              BY <1>5, <3>1
            <6>2. PICK a \in Nat : a = i * vol.spc
              BY <6>1
            <6>3. n = a + j + 1
              BY <1>4, <6>2
            <6>4. a + vol.spc = n
              <7>1. n \in Nat /\ vol.spc \in Nat
                BY <1>6, <6>1
              <7>2. a + (j + 1) = n
                BY <6>3, <7>1
              <7> QED  BY <6>1, <7>2
            <6> QED  BY <6>2, <6>4
          <5> QED  BY <1>0, <2>2, <5>1 DEF Unstopped
        <4>2. AtCluster(vol.root, i)'
          BY <1>0, <1>8, <1>10 DEF AtCluster
        <4> QED  BY <2>3, <3>1, <4>1, <4>2 DEF DirInv
      <3>2. CASE left # 1
        <4>1. Unstopped(i * vol.spc + (j + 1))'
          <5>1. i * vol.spc + (j + 1) = n
            <6>1. vol.spc \in Nat /\ i * vol.spc \in Nat
              BY <1>5
            <6>2. PICK a \in Nat : a = i * vol.spc
              BY <6>1
            <6>3. n = a + j + 1
              BY <1>4, <6>2
            <6>4. a + (j + 1) = n
              BY <6>3
            <6> QED  BY <6>2, <6>4
          <5> QED  BY <1>0, <2>2, <5>1 DEF Unstopped
        <4>2. AtSector(vol.root, i, j + 1)'
          <5>1. j + 1 < vol.spc /\ left' = vol.spc - (j + 1)
                /\ readLba' = FirstLba(vol, clus) + (j + 1)
            <6>1. left' = left - 1
              BY <1>10
            <6>2. /\ j + 1 <= vol.spc /\ j + 1 # vol.spc /\ vol.spc \in Nat
                  /\ left = vol.spc - j /\ readLba = FirstLba(vol, clus) + j
              BY <1>5, <1>8, <3>2
            <6>3. PICK f \in Nat : f = FirstLba(vol, clus)
              BY <1>8
            <6>4. readLba' = f + (j + 1)
              BY <2>1, <6>2, <6>3
            <6> QED  BY <6>1, <6>2, <6>3, <6>4
          <5> QED  BY <1>0, <1>8, <1>10, <5>1 DEF AtSector, AtCluster
        <4>3. j + 1 \in Nat /\ pc' = "dirSector"
          BY <2>3, <3>2
        <4> QED  BY <4>1, <4>2, <4>3 DEF DirInv
      <3> QED  BY <3>1, <3>2
    <2>7. LoadInv' /\ StartInv'
      BY <1>1, <1>3, <2>3 DEF LoadInv, StartInv, LoadPcs
    <2>8. ImageIsPrefix'
      BY <1>0, <1>1, ImageFrame
    <2> QED  BY <1>1, <2>3, <2>4, <2>5, <2>6, <2>7, <2>8, GoStep DEF DirPcs
  <1>11. CASE /\ Stops(vol, RootSlots(vol, n)) # {}
              /\ LET s == RootSlots(vol, n)[FirstStop(vol, RootSlots(vol, n))]
                 IN  IF s.kind = "end" THEN Die("1") /\ UNCHANGED clus
                     ELSE Goto("loadCluster") /\ clus' = s.clus
              /\ UNCHANGED <<readLba, left>>
    <2> DEFINE s == RootSlots(vol, n)[FirstStop(vol, RootSlots(vol, n))]
    <2>1. CASE s.kind = "end"
      <3>1. Target(vol) \notin DOMAIN vol.files
        BY <1>0, <1>5, <1>7, <1>11, <2>1, EndMarkMeansAbsent
      <3>2. Die("1") /\ UNCHANGED <<clus, readLba, left>>
        BY <1>11, <2>1
      <3>3. readLba' \in 0..(Word - 1) /\ clus' \in 0..(EntMod - 1)
        BY <1>0, <3>2 DEF TypeOK
      <3> QED  BY <1>1, <3>1, <3>2, <3>3, DieStep
    <2>2. CASE s.kind # "end"
      <3>1. Target(vol) \in DOMAIN vol.files /\ s.clus = Chain[1]
        BY <1>0, <1>5, <1>7, <1>11, <2>2, NameMeansFound DEF Chain
      <3>2. clus' = Chain[0 + 1] /\ pc' = "loadCluster" /\ UNCHANGED <<err, readLba, left>>
        BY <1>11, <2>2, <3>1 DEF Goto
      <3>3. ChainOK(vol, Chain)
        BY <1>0, <3>1, FileFacts
      <3>4. 0 < Len(Chain) /\ Chain[0 + 1] \in Nat /\ Chain[0 + 1] < EocMin
        BY <1>0, <3>3, ChainFacts
      <3>5. TypeOK'
        <4>1. clus' \in 0..(EntMod - 1)
          BY <3>2, <3>4, LayoutAssumption DEF EocMin
        <4> QED  BY <1>0, <1>1, <3>2, <4>1 DEF TypeOK, Labels
      <3>6. BasesInv'
        BY <1>1, <1>3, BasesFrame DEF BasesInv
      <3>7. LoadInv'
        <4>1. Chain' = Chain /\ (vol.spc)' = vol.spc
          BY <1>0 DEF Chain
        <4>2. AtCluster(Chain, 0)'
          BY <3>2, <3>4, <4>1 DEF AtCluster
        <4>3. Copied' = 0 * (vol.spc)'
          BY <1>0, <1>1, <1>3, <1>5, LayoutAssumption DEF Copied
        <4> QED  BY <1>0, <3>1, <3>2, <4>2, <4>3 DEF LoadInv
      <3>8. DirInv' /\ StartInv'
        BY <3>2 DEF DirInv, StartInv, DirPcs, StagePcs
      <3>9. ImageIsPrefix'
        BY <1>0, <1>1, ImageFrame
      <3> QED  BY <1>1, <3>2, <3>5, <3>6, <3>7, <3>8, <3>9, GoStep DEF LoadPcs
    <2> QED  BY <2>1, <2>2
  <1> QED  BY <1>7, <1>9, <1>10, <1>11 DEF ScanSector

(* Following a chain: its next cluster, or an end mark behind its last one. *)
LEMMA FollowFacts ==
  ASSUME SoundEnvironments, IInv, UNCHANGED env,
         NEW c, ChainOK(vol, c), NEW i \in Nat, AtCluster(c, i),
         GeometryKnown, BasesKnown,
         NEW raw \in FatValues(vol, Accessed(EntrySector(clus)), EntryOffset(clus)),
         clus' = Entry(raw)
  PROVE  /\ clus' \in 0..(EntMod - 1)
         /\ i + 1 < Len(c) => ~IsLast(clus') /\ clus' = c[i + 2]
         /\ ~(i + 1 < Len(c)) => IsLast(clus') /\ i + 1 = Len(c)
  <1>0. Sound(env) /\ VolumeOK(vol)
    BY SoundNow
  <1>1. clus = c[i + 1] /\ i < Len(c)
    BY DEF AtCluster
  <1>2. Len(c) \in Nat
    BY <1>0, ChainFacts
  <1>3. raw = vol.fat[c[i + 1]]
    BY <1>0, <1>1, EntryIsRead
  <1>4. i + 1 \in 1..Len(c)
    BY <1>1, <1>2
  <1>5. /\ vol.fat[c[i + 1]] \in Nat
        /\ IF i + 1 < Len(c) THEN vol.fat[c[i + 1]] % EntMod = c[(i + 1) + 1]
                             ELSE vol.fat[c[i + 1]] % EntMod >= EocMin
    BY <1>4, Zenon DEF ChainOK
  <1>6. clus' = vol.fat[c[i + 1]] % EntMod
    BY <1>3 DEF Entry
  <1>7. clus' \in 0..(EntMod - 1)
    <2>1. EntMod \in Nat \ {0}
      BY LayoutAssumption
    <2> QED  BY <1>5, <1>6, <2>1, DivMod
  <1>8. ASSUME i + 1 < Len(c) PROVE ~IsLast(clus') /\ clus' = c[i + 2]
    <2>1. (i + 1) + 1 = i + 2
      OBVIOUS
    <2>2. clus' = c[i + 2]
      BY <1>5, <1>6, <1>8, <2>1
    <2>3. i + 1 \in Nat /\ c[(i + 1) + 1] \in Nat /\ c[(i + 1) + 1] < EocMin
      BY <1>0, <1>8, ChainFacts
    <2>4. clus' \in Nat /\ clus' < EocMin
      BY <2>1, <2>2, <2>3
    <2> QED  BY <2>2, <2>4, LayoutAssumption DEF IsLast, EocMin
  <1>9. ASSUME ~(i + 1 < Len(c)) PROVE IsLast(clus') /\ i + 1 = Len(c)
    BY <1>1, <1>2, <1>5, <1>6, <1>9 DEF IsLast
  <1> QED  BY <1>7, <1>8, <1>9

LEMMA NextDirStep ==
  ASSUME SoundEnvironments, IInv, UNCHANGED env, NextDirCluster
  PROVE  IInv'
  <1>0. /\ Sound(env) /\ VolumeOK(vol) /\ vol' = vol /\ TypeOK /\ DirInv /\ StartInv
        /\ BasesInv /\ GeometryInv /\ ImageIsPrefix
    BY SoundNow, Frame DEF IInv
  <1>a. pc = "dirNext" /\ UNCHANGED <<spt, heads, fatLba, dataLba, left, es, mem>>
    BY DEF NextDirCluster, FollowChain
  <1>2. PICK i \in Nat : AtCluster(vol.root, i) /\ Unstopped(i * vol.spc + vol.spc)
    BY <1>0, <1>a DEF DirInv
  <1>3. ChainOK(vol, vol.root) /\ GeometryKnown /\ BasesKnown /\ es = LoadBlock
    BY <1>0, <1>a DEF VolumeOK, GeometryInv, BasesInv, StartInv, DirPcs
  <1>1. /\ pc = "dirNext" /\ readLba' = EntrySector(clus)
        /\ UNCHANGED <<spt, heads, fatLba, dataLba, left, es, mem>>
        /\ \/ Die("2") /\ UNCHANGED clus
           \/ \E raw \in FatValues(vol, Accessed(readLba'), EntryOffset(clus)) :
                /\ clus' = Entry(raw)
                /\ IF IsLast(clus') THEN Die("1") ELSE Goto("dirCluster")
    <2>1. i < Len(vol.root) /\ clus = vol.root[i + 1]
      BY <1>2 DEF AtCluster
    <2>2. vol.bytsPerSec # 0
      BY <1>0, <1>3, <2>1, EntryIsRead
    <2> QED  BY <2>2 DEF NextDirCluster, FollowChain
  <1>4. readLba' \in 0..(Word - 1)
    <2>1. i < Len(vol.root) /\ clus = vol.root[i + 1]
      BY <1>2 DEF AtCluster
    <2>2. EntrySector(clus) \in Nat /\ EntrySector(clus) < Word
      BY <1>0, <1>3, <2>1, EntryIsRead
    <2> QED  BY <1>1, <2>2, LayoutAssumption
  <1>5. CASE Die("2") /\ UNCHANGED clus
    <2>1. clus' \in 0..(EntMod - 1)
      BY <1>0, <1>5 DEF TypeOK
    <2> QED  BY <1>1, <1>4, <1>5, <2>1, DieStep
  <1>6. ASSUME NEW raw \in FatValues(vol, Accessed(readLba'), EntryOffset(clus)),
               clus' = Entry(raw), IF IsLast(clus') THEN Die("1") ELSE Goto("dirCluster")
        PROVE  IInv'
    <2>1. /\ clus' \in 0..(EntMod - 1)
          /\ i + 1 < Len(vol.root) => ~IsLast(clus') /\ clus' = vol.root[i + 2]
          /\ ~(i + 1 < Len(vol.root)) => IsLast(clus') /\ i + 1 = Len(vol.root)
      BY <1>0, <1>1, <1>2, <1>3, <1>6, FollowFacts
    <2>2. (i + 1) * vol.spc = i * vol.spc + vol.spc
      BY <1>0, VolumeFacts, ProductSteps
    <2>3. CASE ~(i + 1 < Len(vol.root))
      <3>1. i * vol.spc + vol.spc = Len(RootSectors(vol))
        BY <1>0, <1>3, <2>1, <2>2, <2>3, ChainFacts, VolumeFacts, LenSectorsOf DEF RootSectors
      <3>2. Unstopped(Len(RootSectors(vol)))
        BY <1>2, <3>1
      <3>3. Target(vol) \notin DOMAIN vol.files
        BY <1>0, <3>2, NoStopMeansAbsent
      <3>4. Die("1")
        BY <1>6, <2>1, <2>3
      <3> QED  BY <1>1, <1>4, <2>1, <3>3, <3>4, DieStep
    <2>4. CASE i + 1 < Len(vol.root)
      <3>1. pc' = "dirCluster" /\ UNCHANGED err
        BY <1>6, <2>1, <2>4 DEF Goto
      <3>2. TypeOK'
        BY <1>0, <1>1, <1>4, <2>1, <3>1 DEF TypeOK, Labels
      <3>3. BasesInv'
        BY <1>1, <1>3, BasesFrame DEF BasesInv
      <3>4. DirInv'
        <4>1. Unstopped((i + 1) * vol.spc)'
          BY <1>0, <1>2, <2>2 DEF Unstopped
        <4>2. (i + 1) + 1 = i + 2 /\ i + 1 \in Nat
          OBVIOUS
        <4>3. AtCluster(vol.root, i + 1)'
          BY <1>0, <2>1, <2>4, <4>2 DEF AtCluster
        <4> QED  BY <3>1, <4>1, <4>2, <4>3 DEF DirInv
      <3>5. LoadInv' /\ StartInv'
        BY <1>1, <1>3, <3>1 DEF LoadInv, StartInv, LoadPcs
      <3>6. ImageIsPrefix'
        BY <1>0, <1>1, ImageFrame
      <3> QED  BY <1>1, <3>1, <3>2, <3>3, <3>4, <3>5, <3>6, GoStep DEF DirPcs
    <2> QED  BY <2>3, <2>4
  <1> QED  BY <1>1, <1>5, <1>6

LEMMA NextFileStep ==
  ASSUME SoundEnvironments, IInv, UNCHANGED env, NextFileCluster
  PROVE  IInv'
  <1>0. /\ Sound(env) /\ VolumeOK(vol) /\ vol' = vol /\ TypeOK /\ LoadInv /\ NeverLost
        /\ BasesInv /\ GeometryInv /\ ImageIsPrefix
    BY SoundNow, Frame DEF IInv
  <1>a. pc = "loadNext" /\ UNCHANGED <<spt, heads, fatLba, dataLba, left, es, mem>>
    BY DEF NextFileCluster, FollowChain
  <1>2. PICK i \in Nat : AtCluster(Chain, i) /\ Copied = i * vol.spc + vol.spc
    BY <1>0, <1>a DEF LoadInv
  <1>3. /\ Target(vol) \in DOMAIN vol.files /\ ChainOK(vol, Chain)
        /\ GeometryKnown /\ BasesKnown /\ Chain' = Chain
        /\ File(vol) # <<>> /\ Len(File(vol)) = Len(Chain) * vol.spc
    <2>1. Target(vol) \in DOMAIN vol.files
      BY <1>0, <1>a DEF LoadInv, LoadPcs
    <2> QED  BY <1>0, <1>a, <2>1, FileFacts DEF GeometryInv, BasesInv, LoadPcs, Chain
  <1>1. /\ pc = "loadNext" /\ readLba' = EntrySector(clus)
        /\ UNCHANGED <<spt, heads, fatLba, dataLba, left, es, mem>>
        /\ \/ Die("2") /\ UNCHANGED clus
           \/ \E raw \in FatValues(vol, Accessed(readLba'), EntryOffset(clus)) :
                /\ clus' = Entry(raw)
                /\ IF IsLast(clus') THEN Goto("run") ELSE Goto("loadCluster")
    <2>1. i < Len(Chain) /\ clus = Chain[i + 1]
      BY <1>2 DEF AtCluster
    <2>2. vol.bytsPerSec # 0
      BY <1>0, <1>3, <2>1, EntryIsRead
    <2> QED  BY <2>2 DEF NextFileCluster, FollowChain
  <1>4. readLba' \in 0..(Word - 1)
    <2>1. i < Len(Chain) /\ clus = Chain[i + 1]
      BY <1>2 DEF AtCluster
    <2>2. EntrySector(clus) \in Nat /\ EntrySector(clus) < Word
      BY <1>0, <1>3, <2>1, EntryIsRead
    <2> QED  BY <1>1, <2>2, LayoutAssumption
  <1>5. CASE Die("2") /\ UNCHANGED clus
    <2>1. clus' \in 0..(EntMod - 1)
      BY <1>0, <1>5 DEF TypeOK
    <2> QED  BY <1>1, <1>4, <1>5, <2>1, DieStep
  <1>6. ASSUME NEW raw \in FatValues(vol, Accessed(readLba'), EntryOffset(clus)),
               clus' = Entry(raw), IF IsLast(clus') THEN Goto("run") ELSE Goto("loadCluster")
        PROVE  IInv'
    <2>1. /\ clus' \in 0..(EntMod - 1)
          /\ i + 1 < Len(Chain) => ~IsLast(clus') /\ clus' = Chain[i + 2]
          /\ ~(i + 1 < Len(Chain)) => IsLast(clus') /\ i + 1 = Len(Chain)
      BY <1>0, <1>1, <1>2, <1>3, <1>6, FollowFacts
    <2>2. (i + 1) * vol.spc = i * vol.spc + vol.spc
      BY <1>0, VolumeFacts, ProductSteps
    <2>3. Copied' = (i + 1) * vol.spc
      BY <1>1, <1>2, <2>2 DEF Copied
    <2>4. ImageIsPrefix'
      BY <1>0, <1>1, ImageFrame
    <2>5. CASE ~(i + 1 < Len(Chain))
      <3>1. pc' = "run" /\ UNCHANGED err
        BY <1>6, <2>1, <2>5 DEF Goto
      <3>2. TypeOK'
        BY <1>0, <1>1, <1>4, <2>1, <3>1 DEF TypeOK, Labels
      <3>3. GeometryInv'
        BY <1>1, <1>3, GeometryFrame DEF GeometryInv
      <3>4. StageInv' /\ BasesInv' /\ DirInv' /\ LoadInv' /\ StartInv'
        BY <3>1 DEF StageInv, BasesInv, DirInv, LoadInv, StartInv, StagePcs, DirPcs, LoadPcs
      <3>5. RunsWholeFile'
        BY <1>0, <1>3, <2>1, <2>3, <2>5 DEF RunsWholeFile
      <3>6. NeverLost' /\ NotFoundMeansAbsent'
        BY <1>0, <1>1, <3>1 DEF NeverLost, NotFoundMeansAbsent
      <3> QED  BY <2>4, <3>2, <3>3, <3>4, <3>5, <3>6 DEF IInv
    <2>6. CASE i + 1 < Len(Chain)
      <3>1. pc' = "loadCluster" /\ UNCHANGED err
        BY <1>6, <2>1, <2>6 DEF Goto
      <3>2. TypeOK'
        BY <1>0, <1>1, <1>4, <2>1, <3>1 DEF TypeOK, Labels
      <3>3. BasesInv'
        BY <1>1, <1>3, BasesFrame DEF BasesInv
      <3>4. LoadInv'
        <4>1. (i + 1) + 1 = i + 2 /\ i + 1 \in Nat
          OBVIOUS
        <4>2. AtCluster(Chain, i + 1)'
          BY <1>0, <1>3, <2>1, <2>6, <4>1 DEF AtCluster
        <4>3. Copied' = (i + 1) * (vol.spc)'
          BY <1>0, <2>3
        <4> QED  BY <1>0, <1>3, <3>1, <4>1, <4>2, <4>3 DEF LoadInv
      <3>5. DirInv' /\ StartInv'
        BY <3>1 DEF DirInv, StartInv, DirPcs, StagePcs
      <3> QED  BY <1>1, <2>4, <3>1, <3>2, <3>3, <3>4, <3>5, GoStep DEF LoadPcs
    <2> QED  BY <2>5, <2>6
  <1> QED  BY <1>1, <1>5, <1>6

LEMMA LoadStep ==
  ASSUME SoundEnvironments, IInv, UNCHANGED env, LoadSector
  PROVE  IInv'
  <1>0. /\ Sound(env) /\ VolumeOK(vol) /\ vol' = vol /\ TypeOK /\ LoadInv
        /\ BasesInv /\ GeometryInv /\ ImageIsPrefix
    BY SoundNow, Frame DEF IInv
  <1>1. pc = "loadSector" /\ UNCHANGED <<spt, heads, fatLba, dataLba, clus>>
    BY DEF LoadSector
  <1>2. PICK i \in Nat, j \in Nat : AtSector(Chain, i, j) /\ Copied = i * vol.spc + j
    BY <1>0, <1>1 DEF LoadInv
  <1>3. /\ Target(vol) \in DOMAIN vol.files /\ ChainOK(vol, Chain)
        /\ GeometryKnown /\ BasesKnown /\ Chain' = Chain
        /\ File(vol) = SectorsOf(vol, Chain)
        /\ Len(File(vol)) \in Nat /\ Len(File(vol)) <= RamTop - LoadBlock
    <2>1. Target(vol) \in DOMAIN vol.files
      BY <1>0, <1>1 DEF LoadInv, LoadPcs
    <2> QED  BY <1>0, <1>1, <2>1, FileFacts DEF GeometryInv, BasesInv, LoadPcs, Chain
  <1>4. PICK n : n = i * vol.spc + j + 1
    OBVIOUS
  <1>5. /\ Reads(readLba) /\ Accessed(readLba) = readLba
        /\ readLba + 1 \in Nat /\ readLba + 1 < Word
        /\ n \in 1..Len(File(vol)) /\ File(vol)[n] = readLba
        /\ j + 1 <= vol.spc /\ left \in Nat /\ (left = 1 <=> j + 1 = vol.spc)
        /\ vol.spc \in Nat /\ i * vol.spc \in Nat
    BY <1>0, <1>2, <1>3, <1>4, SectorIsRead, SMTT(60)
  <1>6. /\ AtCluster(Chain, i) /\ left = vol.spc - j /\ readLba = FirstLba(vol, clus) + j
        /\ FirstLba(vol, clus) \in Nat
    <2>1. AtCluster(Chain, i) /\ left = vol.spc - j /\ readLba = FirstLba(vol, clus) + j
      BY <1>2 DEF AtSector
    <2>2. FirstLba(vol, Chain[i + 1]) \in Nat
      BY <1>0, <1>3, <2>1, ChainFacts DEF AtCluster
    <2> QED  BY <2>1, <2>2 DEF AtCluster
  <1>7. /\ es \in Nat /\ es < RamTop /\ LoadBlock <= es /\ n = es - LoadBlock + 1
        /\ n \in Nat /\ LoadBlock \in Nat /\ RamTop \in Nat /\ Blocks \in Nat
    <2>1. /\ es \in Nat /\ LoadBlock <= es /\ LoadBlock \in Nat /\ RamTop \in Nat
          /\ Blocks \in Nat
      BY <1>0, LayoutAssumption DEF TypeOK
    <2>2. n = Copied + 1 /\ n \in Nat /\ n <= Len(File(vol))
      BY <1>2, <1>4, <1>5
    <2> QED  BY <1>3, <2>1, <2>2 DEF Copied
  <1>8. es \notin Resident /\ es < Blocks /\ NextBlock(es) = es + 1
    <2>1. es \notin Resident /\ es + 1 < Blocks
      BY <1>7, LayoutAssumption
    <2> QED  BY <1>7, <2>1, SmallMod DEF NextBlock
  <1>9. CASE Die("2") /\ UNCHANGED <<readLba, left, es, mem>>
    <2>1. readLba' \in 0..(Word - 1) /\ clus' \in 0..(EntMod - 1)
      BY <1>0, <1>1, <1>9 DEF TypeOK
    <2> QED  BY <1>1, <1>9, <2>1, DieStep
  <1>10. CASE /\ mem' = [mem EXCEPT ![es] = Accessed(readLba)]
              /\ readLba' = (readLba + 1) % Word
              /\ es' = NextBlock(es)
              /\ left' = left - 1
              /\ Goto(IF left = 1 THEN "loadNext" ELSE "loadSector")
    <2>1. /\ readLba' = readLba + 1 /\ es' = es + 1 /\ left' = left - 1
          /\ mem' = [mem EXCEPT ![es] = readLba]
          /\ pc' = (IF left = 1 THEN "loadNext" ELSE "loadSector") /\ UNCHANGED err
      <3>1. readLba' = readLba + 1
        BY <1>5, <1>10, SmallMod, LayoutAssumption
      <3> QED  BY <1>5, <1>7, <1>8, <1>10, <3>1 DEF Goto
    <2>2. TypeOK'
      <3>1. left' \in Nat /\ left' <= 255
        <4>1. left <= 255
          BY <1>0 DEF TypeOK
        <4>2. left >= 1
          BY <1>5, <1>6, SMTT(60)
        <4> QED  BY <1>5, <2>1, <4>1, <4>2
      <3>2. readLba' \in 0..(Word - 1)
        BY <1>5, <2>1, LayoutAssumption
      <3>3. es' \in LoadBlock..RamTop
        BY <1>7, <2>1
      <3>4. mem' \in [0..(Blocks - 1) -> Int]
        <4>1. readLba \in Int /\ mem \in [0..(Blocks - 1) -> Int]
          BY <1>0, LayoutAssumption DEF TypeOK
        <4> QED  BY <2>1, <4>1
      <3>5. pc' \in Labels
        BY <2>1 DEF Labels
      <3> QED  BY <1>0, <1>1, <2>1, <3>1, <3>2, <3>3, <3>4, <3>5 DEF TypeOK
    <2>3. BasesInv'
      BY <1>1, <1>3, BasesFrame DEF BasesInv
    <2>4. Copied' = i * vol.spc + (j + 1)
      <3>1. Copied' = n
        BY <1>7, <2>1 DEF Copied
      <3>2. PICK a \in Nat : a = i * vol.spc
        BY <1>5
      <3>3. n = a + (j + 1)
        BY <1>4, <3>2
      <3> QED  BY <3>1, <3>2, <3>3
    <2>5. LoadInv'
      <3>1. CASE left = 1
        <4>1. AtCluster(Chain, i)'
          BY <1>1, <1>3, <1>6 DEF AtCluster
        <4>2. Copied' = i * (vol.spc)' + (vol.spc)'
          BY <1>0, <1>5, <2>4, <3>1
        <4> QED  BY <1>0, <1>3, <2>1, <3>1, <4>1, <4>2 DEF LoadInv
      <3>2. CASE left # 1
        <4>1. j + 1 < vol.spc /\ left' = vol.spc - (j + 1)
              /\ readLba' = FirstLba(vol, clus) + (j + 1)
          <5>1. /\ j + 1 <= vol.spc /\ j + 1 # vol.spc /\ vol.spc \in Nat
                /\ left = vol.spc - j /\ readLba = FirstLba(vol, clus) + j
            BY <1>5, <1>6, <3>2
          <5>2. PICK f \in Nat : f = FirstLba(vol, clus)
            BY <1>6
          <5>3. readLba' = f + (j + 1)
            BY <2>1, <5>1, <5>2
          <5> QED  BY <2>1, <5>1, <5>2, <5>3
        <4>2. AtSector(Chain, i, j + 1)'
          BY <1>0, <1>1, <1>3, <1>6, <4>1 DEF AtSector, AtCluster
        <4>3. j + 1 \in Nat /\ pc' = "loadSector"
          BY <2>1, <3>2
        <4>4. Copied' = i * (vol.spc)' + (j + 1)
          BY <1>0, <2>4
        <4> QED  BY <1>0, <1>3, <4>2, <4>3, <4>4 DEF LoadInv
      <3> QED  BY <3>1, <3>2
    <2>6. DirInv' /\ StartInv'
      BY <2>1 DEF DirInv, StartInv, DirPcs, StagePcs
    <2>7. ImageIsPrefix'
      <3>1. Copied' <= Len(File(vol))
        BY <1>5, <1>7, <2>1 DEF Copied
      <3>2. ASSUME NEW b \in 0..(Blocks - 1)
            PROVE  mem'[b] = IF b \in LoadBlock..(es' - 1) THEN File(vol)[b - LoadBlock + 1]
                             ELSE NoSector
        <4>1. /\ mem \in [0..(Blocks - 1) -> Int]
              /\ mem[b] = IF b \in LoadBlock..(es - 1) THEN File(vol)[b - LoadBlock + 1]
                          ELSE NoSector
          BY <1>0 DEF TypeOK, ImageIsPrefix
        <4>2. CASE b = es
          <5>1. mem'[b] = File(vol)[b - LoadBlock + 1]
            BY <1>5, <1>7, <2>1, <4>1, <4>2
          <5>2. b \in LoadBlock..(es' - 1)
            BY <1>7, <2>1, <4>2
          <5> QED  BY <5>1, <5>2
        <4>3. CASE b # es
          <5>1. mem'[b] = mem[b]
            BY <2>1, <4>1, <4>3
          <5>2. b \in LoadBlock..(es' - 1) <=> b \in LoadBlock..(es - 1)
            BY <1>7, <2>1, <4>3
          <5> QED  BY <4>1, <5>1, <5>2
        <4> QED  BY <4>2, <4>3
      <3> QED  BY <1>0, <3>1, <3>2 DEF ImageIsPrefix
    <2> QED  BY <1>1, <2>1, <2>2, <2>3, <2>5, <2>6, <2>7, GoStep DEF LoadPcs
  <1> QED  BY <1>5, <1>8, <1>9, <1>10 DEF LoadSector

LEMMA RefusedStep ==
  ASSUME SoundEnvironments, IInv, UNCHANGED env, ProbeRefused
  PROVE  IInv'
  <1>1. Die("G") /\ UNCHANGED <<spt, heads, fatLba, dataLba, readLba, clus, left, es, mem>>
    BY DEF ProbeRefused, KeepWalk
  <1>2. readLba' \in 0..(Word - 1) /\ clus' \in 0..(EntMod - 1)
    BY <1>1 DEF IInv, TypeOK
  <1> QED  BY <1>1, <1>2, DieStep

LEMMA StutterStep ==
  ASSUME SoundEnvironments, IInv, UNCHANGED vars
  PROVE  IInv'
  <1>0. vol' = vol /\ Chain' = Chain /\ Copied' = Copied
    BY DEF vars, vol, Chain, Copied
  <1>1. TypeOK' /\ GeometryInv' /\ StageInv' /\ BasesInv' /\ StartInv' /\ ImageIsPrefix'
    <2>1. UNCHANGED <<env, pc, err, spt, heads, fatLba, dataLba, readLba, clus, left, es, mem>>
      BY DEF vars
    <2>2. TypeOK'
      BY <2>1 DEF IInv, TypeOK
    <2>3. GeometryInv'
      BY <2>1, GeometryFrame DEF IInv, GeometryInv
    <2>4. BasesInv' /\ StageInv' /\ StartInv'
      BY <1>0, <2>1, BasesFrame DEF IInv, BasesInv, StageInv, StartInv
    <2> QED  BY <2>1, <2>2, <2>3, <2>4, ImageFrame DEF IInv
  <1>2. DirInv'
    <2>1. pc' = pc /\ DirInv /\ clus' = clus /\ left' = left /\ readLba' = readLba
      BY DEF IInv, vars
    <2> QED  BY <1>0, <2>1 DEF DirInv, AtCluster, AtSector, Unstopped
  <1>3. LoadInv'
    <2>1. pc' = pc /\ LoadInv /\ clus' = clus /\ left' = left /\ readLba' = readLba
      BY DEF IInv, vars
    <2> QED  BY <1>0, <2>1 DEF LoadInv, AtCluster, AtSector
  <1>4. RunsWholeFile' /\ NeverLost' /\ NotFoundMeansAbsent'
    BY <1>0 DEF IInv, vars, RunsWholeFile, NeverLost, NotFoundMeansAbsent
  <1> QED  BY <1>1, <1>2, <1>3, <1>4 DEF IInv

LEMMA IInvStep ==
  ASSUME SoundEnvironments, IInv, [Next]_vars
  PROVE  IInv'
  <1>1. CASE Next
    <2>1. UNCHANGED env
      BY <1>1 DEF Next
    <2>2. CASE ProbeAnswered \/ ProbeFallback
      BY <2>1, <2>2, ProbeStep
    <2>3. CASE ProbeRefused
      BY <2>1, <2>3, RefusedStep
    <2>4. CASE ReadStage2
      BY <2>1, <2>4, Stage2Step
    <2>5. CASE Setup
      BY <2>1, <2>5, SetupStep
    <2>6. CASE EnterDirCluster
      BY <2>1, <2>6, EnterDirStep
    <2>7. CASE ScanSector
      BY <2>1, <2>7, ScanStep
    <2>8. CASE NextDirCluster
      BY <2>1, <2>8, NextDirStep
    <2>9. CASE EnterFileCluster
      BY <2>1, <2>9, EnterFileStep
    <2>10. CASE LoadSector
      BY <2>1, <2>10, LoadStep
    <2>11. CASE NextFileCluster
      BY <2>1, <2>11, NextFileStep
    <2> QED  BY <1>1, <2>2, <2>3, <2>4, <2>5, <2>6, <2>7, <2>8, <2>9, <2>10, <2>11 DEF Next
  <1>2. CASE UNCHANGED vars
    BY <1>2, StutterStep
  <1> QED  BY <1>1, <1>2

(****************************** theorems ********************************)
(* On every sound volume and drive, of any size, the invariant holds in     *)
(* every state of every boot.                                               *)
THEOREM InvariantHolds ==
  ASSUME SoundEnvironments
  PROVE  Spec => []IInv
  <1>1. Init => IInv
    BY InitIInv
  <1>2. IInv /\ [Next]_vars => IInv'
    BY IInvStep
  <1> QED  BY <1>1, <1>2, PTL DEF Spec

(* The registers and scratch cells of every boot hold values of their width,*)
(* and the copy stays below the end of conventional memory.                 *)
THEOREM TypeCorrect ==
  ASSUME SoundEnvironments
  PROVE  Spec => []TypeOK
  <1>1. IInv => TypeOK
    BY DEF IInv
  <1> QED  BY <1>1, InvariantHolds, PTL

(* What has been copied to 2000:0000 is the beginning of the loader file,   *)
(* whatever the cluster size and however its chain is fragmented.           *)
THEOREM ImageCorrect ==
  ASSUME SoundEnvironments
  PROVE  Spec => []ImageIsPrefix
  <1>1. IInv => ImageIsPrefix
    BY DEF IInv
  <1> QED  BY <1>1, InvariantHolds, PTL

(* The jump to 2000:0000 is taken only when the file exists and is there to *)
(* its last sector.                                                         *)
THEOREM RunCorrect ==
  ASSUME SoundEnvironments
  PROVE  Spec => []RunsWholeFile
  <1>1. IInv => RunsWholeFile
    BY DEF IInv
  <1> QED  BY <1>1, InvariantHolds, PTL

(* No boot executes what is not code or divides by zero: it halts with a    *)
(* letter, or runs the loader.                                              *)
THEOREM NothingLost ==
  ASSUME SoundEnvironments
  PROVE  Spec => []NeverLost
  <1>1. IInv => NeverLost
    BY DEF IInv
  <1> QED  BY <1>1, InvariantHolds, PTL

(* The message '1' is never printed when the loader is in the root          *)
(* directory, however long the directory's own chain is.                    *)
THEOREM NotFoundCorrect ==
  ASSUME SoundEnvironments
  PROVE  Spec => []NotFoundMeansAbsent
  <1>1. IInv => NotFoundMeansAbsent
    BY DEF IInv
  <1> QED  BY <1>1, InvariantHolds, PTL

(*************************** the refinement *****************************)
(* On sound volumes and drives the boot records implement Loader: every     *)
(* step copies the next sector of the file, starts the complete copy, stops *)
(* or changes nothing the caller can see.                                   *)
Loading == Labels \ {"run", "halted", "fault", "wild"}

LEMMA StatusIs ==
  ASSUME pc \in Labels
  PROVE  /\ pc \in Loading => Status = "loading"
         /\ pc = "run" => Status = "running"
         /\ pc \in Labels \ (Loading \cup {"run"}) => Status = "stopped"
  BY DEF Status, Loading, Labels

(* The image is the beginning of the file. *)
LEMMA ImageIs ==
  ASSUME SoundEnvironments, IInv
  PROVE  /\ Copied \in Nat /\ Len(File(vol)) \in Nat /\ Copied <= Len(File(vol))
         /\ Image = [n \in 1..Copied |-> File(vol)[n]]
  <1>1. /\ es \in Nat /\ LoadBlock \in Nat /\ LoadBlock <= es /\ es <= RamTop
        /\ RamTop \in Nat /\ Blocks \in Nat /\ RamTop < Blocks
    BY LayoutAssumption DEF IInv, TypeOK
  <1>2. Copied \in Nat
    BY <1>1 DEF Copied
  <1>3. /\ Copied <= Len(File(vol))
        /\ \A b \in 0..(Blocks - 1) :
             mem[b] = IF b \in LoadBlock..(es - 1) THEN File(vol)[b - LoadBlock + 1]
                      ELSE NoSector
    BY DEF IInv, ImageIsPrefix
  <1>4. ASSUME NEW n \in 1..Copied PROVE mem[LoadBlock + n - 1] = File(vol)[n]
    <2>1. /\ LoadBlock + n - 1 \in 0..(Blocks - 1) /\ LoadBlock + n - 1 \in LoadBlock..(es - 1)
          /\ (LoadBlock + n - 1) - LoadBlock + 1 = n
      BY <1>1 DEF Copied
    <2> QED  BY <1>3, <2>1
  <1>5. Len(File(vol)) \in Nat
    BY SoundNow, FileFacts
  <1> QED  BY <1>2, <1>3, <1>4, <1>5 DEF Image

LEMMA WholeImage ==
  ASSUME SoundEnvironments, IInv, File(vol) # <<>>, Copied = Len(File(vol))
  PROVE  Image = File(vol)
  <1>2. File(vol) = [n \in 1..Len(File(vol)) |-> File(vol)[n]]
    <2>1. Target(vol) \in DOMAIN vol.files
      BY DEF File
    <2>2. File(vol) = SectorsOf(vol, Chain)
      BY <2>1 DEF File, Chain
    <2>3. Len(File(vol)) = Len(Chain) * vol.spc
      BY <2>1, SoundNow, FileFacts
    <2> QED  BY <2>2, <2>3 DEF SectorsOf
  <1> QED  BY <1>2, ImageIs

(* A step that leaves the load area alone stops, starts the image, or is    *)
(* invisible.                                                               *)
LEMMA OtherStep ==
  ASSUME SoundEnvironments, IInv, IInv', UNCHANGED <<env, es, mem>>, pc \in Loading
  PROVE  [L!Next]_(L!vars)
  <1>1. File(vol)' = File(vol) /\ Image' = Image /\ pc \in Labels /\ pc' \in Labels
    BY DEF IInv, TypeOK, Image, Copied, vol, Loading
  <1>2. Status = "loading"
    BY <1>1, StatusIs
  <1>3. CASE pc' \in Loading
    <2>1. Status' = "loading"
      BY <1>1, <1>3, StatusIs DEF Status, Loading, Labels
    <2> QED  BY <1>1, <1>2, <2>1 DEF L!vars
  <1>4. CASE pc' = "run"
    <2>1. Status' = "running"
      BY <1>4 DEF Status
    <2>2. File(vol) # <<>> /\ Copied = Len(File(vol))
      <3>1. (Copied = Len(File(vol)) /\ File(vol) # <<>>)'
        BY <1>4 DEF IInv, RunsWholeFile
      <3> QED  BY <1>1, <3>1 DEF Copied
    <2>3. File(vol) # <<>> /\ Image = File(vol)
      BY <2>2, WholeImage
    <2> QED  BY <1>1, <1>2, <2>1, <2>3 DEF L!Next, L!Run
  <1>5. CASE pc' \notin Loading \cup {"run"}
    <2>1. Status' = "stopped"
      BY <1>1, <1>5 DEF Status, Loading, Labels
    <2> QED  BY <1>1, <1>2, <2>1 DEF L!Next, L!Stop
  <1> QED  BY <1>3, <1>4, <1>5

(* Reading a sector of the file appends it to the image. *)
LEMMA CopyStep ==
  ASSUME SoundEnvironments, IInv, IInv', UNCHANGED env, es' = es + 1,
         pc \in Loading, pc' \in Loading
  PROVE  L!Load
  <1>1. /\ File(vol)' = File(vol) /\ Status = "loading" /\ Status' = "loading"
    BY DEF vol, Status, Loading, Labels
  <1>2. /\ Copied \in Nat /\ Len(File(vol)) \in Nat
        /\ Image = [n \in 1..Copied |-> File(vol)[n]]
    BY ImageIs
  <1>3. Copied' = Copied + 1 /\ Copied' <= Len(File(vol))
    <2>1. es \in Int /\ LoadBlock \in Int
      BY LayoutAssumption DEF IInv, TypeOK
    <2>2. Copied' <= Len(File(vol))
      BY <1>1 DEF IInv, ImageIsPrefix
    <2> QED  BY <2>1, <2>2 DEF Copied
  <1>4. Image' = [n \in 1..(Copied + 1) |-> File(vol)[n]]
    <2>1. ASSUME NEW n \in 1..(Copied + 1) PROVE mem'[LoadBlock + n - 1] = File(vol)[n]
      <3>1. /\ es \in Nat /\ LoadBlock \in Nat /\ LoadBlock <= es /\ es' <= RamTop
            /\ RamTop \in Nat /\ Blocks \in Nat /\ RamTop < Blocks
        BY LayoutAssumption DEF IInv, TypeOK
      <3>2. /\ LoadBlock + n - 1 \in 0..(Blocks - 1)
            /\ LoadBlock + n - 1 \in LoadBlock..(es' - 1)
            /\ (LoadBlock + n - 1) - LoadBlock + 1 = n
        BY <3>1 DEF Copied
      <3>3. \A b \in 0..(Blocks - 1) :
              mem'[b] = IF b \in LoadBlock..(es' - 1) THEN File(vol)[b - LoadBlock + 1]
                        ELSE NoSector
        BY <1>1 DEF IInv, ImageIsPrefix
      <3> QED  BY <3>2, <3>3
    <2>2. Image' = [n \in 1..(Copied + 1) |-> mem'[LoadBlock + n - 1]]
      BY <1>3 DEF Image
    <2> QED  BY <2>1, <2>2
  <1>5. Len(Image) = Copied
    BY <1>2
  <1>6. Image' = Append(Image, File(vol)[Len(Image) + 1])
    <2>1. ASSUME NEW f, NEW k \in Nat
          PROVE  [n \in 1..(k + 1) |-> f[n]] = Append([n \in 1..k |-> f[n]], f[k + 1])
      OBVIOUS
    <2> QED  BY <1>2, <1>4, <1>5, <2>1
  <1>7. Len(Image) < Len(File(vol))
    BY <1>2, <1>3, <1>5
  <1> QED  BY <1>1, <1>6, <1>7 DEF L!Load

LEMMA MapsToAStep ==
  ASSUME SoundEnvironments, IInv, IInv', [Next]_vars
  PROVE  [L!Next]_(L!vars)
  <1>1. CASE UNCHANGED vars
    BY <1>1 DEF vars, L!vars, vol, Image, Copied, Status
  <1>2. CASE LoadSector /\ UNCHANGED env /\ UNCHANGED <<es, mem>>
    BY <1>2, OtherStep DEF LoadSector, Loading, Labels
  <1>3. CASE LoadSector /\ UNCHANGED env /\ ~(UNCHANGED <<es, mem>>)
    <2>1. es' = NextBlock(es) /\ pc' \in {"loadNext", "loadSector"} /\ pc = "loadSector"
      <3>1. es \notin Resident
        BY LayoutAssumption DEF IInv, TypeOK
      <3>2. /\ pc = "loadSector" /\ es' = NextBlock(es)
            /\ pc' = IF es \in Resident THEN "wild"
                     ELSE IF left = 1 THEN "loadNext" ELSE "loadSector"
        BY <1>3, Zenon DEF LoadSector, Goto
      <3> QED  BY <3>1, <3>2
    <2>2. es' = es + 1
      <3>1. /\ es \in Nat /\ es <= RamTop /\ RamTop \in Nat /\ Blocks \in Nat
            /\ RamTop < Blocks /\ LoadBlock \in Nat \ {0} /\ LoadBlock <= es'
        BY LayoutAssumption DEF IInv, TypeOK
      <3>2. CASE es + 1 < Blocks
        BY <2>1, <3>1, <3>2, SmallMod DEF NextBlock
      <3>3. ~(es + 1 = Blocks)
        <4>1. Blocks \in Nat \ {0} => Blocks % Blocks = 0
          BY DivMod, Z3
        <4> QED  BY <2>1, <3>1, <4>1 DEF NextBlock
      <3> QED  BY <3>1, <3>2, <3>3
    <2> QED  BY <1>3, <2>1, <2>2, CopyStep DEF Loading, Labels, L!Next
  <1>4. CASE UNCHANGED env /\ ( ProbeAnswered \/ ProbeFallback \/ ProbeRefused
                                \/ ReadStage2 \/ Setup )
    BY <1>4, OtherStep DEF ProbeAnswered, ProbeFallback, ProbeRefused, ReadStage2, Setup,
                           KeepWalk, Loading, Labels
  <1>5. CASE UNCHANGED env /\ ( EnterDirCluster \/ ScanSector \/ NextDirCluster
                                \/ EnterFileCluster \/ NextFileCluster )
    BY <1>5, OtherStep DEF EnterDirCluster, EnterFileCluster, EnterCluster, ScanSector,
                           NextDirCluster, NextFileCluster, FollowChain, Loading, Labels
  <1> QED  BY <1>1, <1>2, <1>3, <1>4, <1>5 DEF Next

(* The same, in the terms of this module, for a boot that is a part of      *)
(* another one.                                                             *)
LEMMA StepShape ==
  ASSUME SoundEnvironments, IInv, IInv', [Next]_vars
  PROVE  \/ UNCHANGED <<File(vol), Image, Status>>
         \/ /\ UNCHANGED File(vol)
            /\ Status = "loading"
            /\ \/ /\ Len(Image) < Len(File(vol))
                  /\ Image' = Append(Image, File(vol)[Len(Image) + 1])
                  /\ Status' = Status
               \/ File(vol) # <<>> /\ Image = File(vol) /\ Status' = "running" /\ Image' = Image
               \/ Status' = "stopped" /\ Image' = Image
  <1>1. [L!Next]_(L!vars)
    BY MapsToAStep
  <1> QED  BY <1>1 DEF L!Next, L!vars, L!Load, L!Run, L!Stop

(* The sector of stage 2 is one that the drive reads.                       *)
LEMMA Stage2IsRead ==
  ASSUME SoundEnvironments, IInv, pc = "readStage2"
  PROVE  Reads(Stage2Lba)
  <1>1. Sound(env) /\ VolumeOK(vol) /\ GeometryKnown
    BY SoundNow DEF IInv, GeometryInv
  <1> QED  BY <1>1, Stage2Inside, ReadsWhatIsAsked

(* On every sound volume and drive, of any size, a boot is a behaviour of   *)
(* Loader: the caller never sees a sector out of order, an incomplete       *)
(* loader started, or a loader started twice.                               *)
THEOREM ImplementsLoader ==
  ASSUME SoundEnvironments
  PROVE  Spec => LoaderSpec
  <1>1. ASSUME Init PROVE L!Init
    <2>1. IInv
      BY <1>1, InitIInv
    <2>2. es = LoadBlock /\ pc \in {"probe", "setup"}
      BY <1>1, Zenon DEF Init
    <2>3. Copied = 0
      BY <2>2, LayoutAssumption DEF Copied
    <2>4. Image = <<>>
      BY <2>3 DEF Image
    <2>5. Status = "loading"
      BY <2>2 DEF Status
    <2> QED  BY <2>4, <2>5 DEF L!Init
  <1>2. IInv /\ IInv' /\ [Next]_vars => [L!Next]_(L!vars)
    BY MapsToAStep
  <1> QED  BY <1>1, <1>2, InvariantHolds, PTL DEF Spec, LoaderSpec, L!Spec

(************************** any volume or drive *************************)
(* Where a copy may be: it goes up from the load address and leaves nothing *)
(* out, and over the top only to block 0, where it ends.                    *)
Full == \A b \in LoadBlock..(Blocks - 1) : (es = 0 \/ b < es) => mem[b] # NoSector
Empty == \A b \in 0..(Blocks - 1) : mem[b] = NoSector
Climbing ==
  /\ RunawayHitsInterruptTable
  /\ es \in 0..(Blocks - 1) /\ mem \in [0..(Blocks - 1) -> Int]
  /\ pc # "wild" => (es = 0 \/ es >= LoadBlock) /\ mem[0] = NoSector /\ Full
  /\ pc \in StagePcs => Empty

LEMMA StoreStep ==
  ASSUME Climbing, pc = "loadSector", Reads(readLba),
         mem' = [mem EXCEPT ![es] = Accessed(readLba)], es' = NextBlock(es),
         pc' = IF es \in Resident THEN "wild"
               ELSE IF left = 1 THEN "loadNext" ELSE "loadSector"
  PROVE  Climbing'
  <1>1. PICK s : s = Accessed(readLba)
    OBVIOUS
  <1>2. PICK b : b = es
    OBVIOUS
  <1>3. /\ pc = "loadSector" /\ s # NoSector /\ s \in Int
        /\ b \in 0..(Blocks - 1) /\ (b = 0 \/ b >= LoadBlock)
        /\ mem \in [0..(Blocks - 1) -> Int] /\ mem[0] = NoSector
        /\ \A c \in 1..(LoadBlock - 1) : mem[c] = NoSector
        /\ \A c \in LoadBlock..(Blocks - 1) : (b = 0 \/ c < b) => mem[c] # NoSector
    <2>1. s \in Int /\ 0 <= s
      BY <1>1 DEF Reads
    <2> QED  BY <1>2, <2>1 DEF Climbing, Full, RunawayHitsInterruptTable, NoSector
  <1>4. /\ es' = NextBlock(b) /\ mem' = [mem EXCEPT ![b] = s]
        /\ pc' = "wild" <=> b \in Resident
        /\ pc' \in {"wild", "loadNext", "loadSector"}
    BY <1>1, <1>2
  <1>5. /\ Blocks \in Nat /\ LoadBlock \in Nat \ {0} /\ LoadBlock < Blocks
        /\ 0 \in Resident /\ Resident \cap (LoadBlock..(Blocks - 1)) = {}
    BY LayoutAssumption
  <1>6. b \in Resident <=> b = 0
    BY <1>3, <1>5
  <1>7. /\ mem' \in [0..(Blocks - 1) -> Int]
        /\ \A c \in 0..(Blocks - 1) : mem'[c] = IF c = b THEN s ELSE mem[c]
    BY <1>3, <1>4
  <1>8. \A c \in 1..(LoadBlock - 1) : mem'[c] = NoSector
    BY <1>3, <1>5, <1>7
  <1>9. /\ es' \in 0..(Blocks - 1)
        /\ b # 0 => es' = b + 1 \/ (es' = 0 /\ b = Blocks - 1)
    <2>1. b + 1 < Blocks => NextBlock(b) = b + 1
      BY <1>3, <1>5, SmallMod DEF NextBlock
    <2>2. b + 1 = Blocks => NextBlock(b) = 0
      <3>1. Blocks % Blocks = 0
        BY <1>5, DivModUnique, Z3
      <3> QED  BY <3>1 DEF NextBlock
    <2> QED  BY <1>3, <1>4, <1>5, <2>1, <2>2
  <1>10. CASE b = 0
    <2>1. \A c \in LoadBlock..(Blocks - 1) : mem'[c] # NoSector
      BY <1>3, <1>5, <1>7, <1>10
    <2>2. pc' = "wild" /\ mem'[0] # NoSector
      BY <1>3, <1>4, <1>5, <1>6, <1>7, <1>10
    <2> QED  BY <1>7, <1>8, <1>9, <2>1, <2>2
             DEF Climbing, RunawayHitsInterruptTable, StagePcs
  <1>11. CASE b # 0
    <2>1. pc' \in {"loadNext", "loadSector"}
      BY <1>4, <1>6, <1>11
    <2>2. mem'[0] = NoSector
      BY <1>3, <1>5, <1>7, <1>11
    <2>3. \A c \in LoadBlock..(Blocks - 1) : (es' = 0 \/ c < es') => mem'[c] # NoSector
      BY <1>3, <1>5, <1>7, <1>9, <1>11
    <2>4. es' = 0 \/ es' >= LoadBlock
      BY <1>3, <1>5, <1>9, <1>11
    <2> QED  BY <1>7, <1>8, <1>9, <2>1, <2>2, <2>3, <2>4
             DEF Climbing, RunawayHitsInterruptTable, Full, StagePcs
  <1> QED  BY <1>10, <1>11

LEMMA ClimbingStep ==
  Climbing /\ [Next]_vars => Climbing'
  <1> SUFFICES ASSUME Climbing, [Next]_vars PROVE Climbing'
    OBVIOUS
  <1>1. CASE UNCHANGED <<es, mem>> /\ pc # "wild" /\ pc \notin StagePcs
             /\ pc' \notin StagePcs \cup {"wild"}
    BY <1>1 DEF Climbing, RunawayHitsInterruptTable, Full
  <1>2. CASE LoadSector
    <2>1. \/ pc = "loadSector" /\ pc' = "halted" /\ UNCHANGED <<es, mem>>
          \/ /\ pc = "loadSector" /\ Reads(readLba)
             /\ mem' = [mem EXCEPT ![es] = Accessed(readLba)] /\ es' = NextBlock(es)
             /\ pc' = IF es \in Resident THEN "wild"
                      ELSE IF left = 1 THEN "loadNext" ELSE "loadSector"
      BY <1>2, Zenon DEF LoadSector, Die, Goto
    <2> QED  BY <1>1, <2>1, StoreStep DEF StagePcs
  <1>3. CASE UNCHANGED <<es, mem>> /\ pc \in StagePcs
    BY <1>3 DEF Climbing, RunawayHitsInterruptTable, Full, Empty, StagePcs
  <1>4. CASE UNCHANGED vars
    BY <1>4 DEF vars, Climbing, RunawayHitsInterruptTable, Full, Empty
  <1>5. CASE ProbeAnswered \/ ProbeFallback \/ ProbeRefused \/ ReadStage2
    BY <1>3, <1>5 DEF ProbeAnswered, ProbeFallback, ProbeRefused, ReadStage2, KeepWalk, StagePcs
  <1>6. CASE Setup \/ EnterDirCluster \/ EnterFileCluster \/ ScanSector
             \/ NextDirCluster \/ NextFileCluster
    <2>1. /\ pc \in {"setup", "dirCluster", "loadCluster", "dirSector", "dirNext", "loadNext"}
          /\ pc' \in {"dirCluster", "dirSector", "loadSector", "halted", "dirNext",
                      "loadCluster", "run", "fault"}
          /\ UNCHANGED <<es, mem>>
      BY <1>6 DEF Setup, EnterDirCluster, EnterFileCluster, EnterCluster, ScanSector,
                  NextDirCluster, NextFileCluster, FollowChain, Die, Goto
    <2> QED  BY <1>1, <2>1 DEF StagePcs
  <1> QED  BY <1>2, <1>4, <1>5, <1>6 DEF Next

(* On every volume and drive, sound or not: a copy without an end leaves no *)
(* block out, is lost over the interrupt table, and changes nothing else    *)
(* below the load address.                                                  *)
THEOREM RunawayIsLost ==
  Spec => []RunawayHitsInterruptTable
  <1>1. Init => Climbing
    BY LayoutAssumption DEF Init, Climbing, Empty, Full, RunawayHitsInterruptTable, NoSector
  <1>2. Climbing => RunawayHitsInterruptTable
    BY DEF Climbing
  <1> QED  BY <1>1, <1>2, ClimbingStep, PTL DEF Spec

(* fn 0x08 answers in bytes. *)
AnswersInBytes == \A e \in Environments : e.bios.probe => e.bios.cl \in 0..255 /\ e.bios.dh \in 0..255

Divided ==
  /\ env \in Environments /\ FaultsOnlyOnZeros
  /\ pc \in StagePcs => vol.stage1 # "single"
  /\ pc = "readStage2" =>
       IF bios.probe THEN spt = ProbedSpt(bios.cl) /\ heads = ProbedHeads(bios.dh)
       ELSE spt = 18 /\ heads = 2
  /\ pc \notin StagePcs \cup {"halted", "fault", "wild"} /\ vol.stage1 # "single" =>
       Divides(spt, heads)

(* On every volume and drive: the divisions fault only on a geometry of no  *)
(* sectors per track, or of 256 heads, whose byte is zero, or on a BPB with *)
(* no bytes per sector; and past such a zero nothing is started.            *)
THEOREM FaultsAreZeros ==
  ASSUME AnswersInBytes
  PROVE  Spec => []FaultsOnlyOnZeros
  <1>1. Init => Divided
    BY DEF Init, Divided, FaultsOnlyOnZeros, StagePcs, vol, bios
  <1>2. Divided /\ [Next]_vars => Divided'
    <2> SUFFICES ASSUME Divided, [Next]_vars PROVE Divided'
      OBVIOUS
    <2>1. UNCHANGED <<env, bios, vol>>
      BY DEF Next, vars, bios, vol
    <2>2. CASE ProbeAnswered \/ ProbeFallback
      <3>1. pc = "probe" /\ pc' = "readStage2"
        BY <2>2 DEF ProbeAnswered, ProbeFallback, Goto
      <3>2. IF bios.probe THEN spt' = ProbedSpt(bios.cl) /\ heads' = ProbedHeads(bios.dh)
            ELSE spt' = 18 /\ heads' = 2
        BY <2>2 DEF ProbeAnswered, ProbeFallback
      <3> QED  BY <2>1, <3>1, <3>2 DEF Divided, FaultsOnlyOnZeros, StagePcs
    <2>3. CASE ReadStage2
      <3>1. pc = "readStage2" /\ UNCHANGED <<spt, heads>> /\ vol.stage1 # "single"
        BY <2>3 DEF ReadStage2, Divided, StagePcs
      <3>2. CASE ~Divides(spt, heads) /\ Goto("fault")
        <4>1. bios.probe /\ bios.cl \in 0..255 /\ bios.dh \in 0..255
              /\ (bios.cl % 64 = 0 \/ (bios.dh + 1) % 256 = 0)
          BY <3>1, <3>2 DEF Divided, Divides, ProbedSpt, ProbedHeads, AnswersInBytes, bios
        <4>2. bios.cl % 64 = 0 \/ bios.dh = 255
          BY <4>1
        <4> QED  BY <2>1, <3>1, <3>2, <4>1, <4>2
                 DEF Divided, FaultsOnlyOnZeros, Goto, StagePcs
      <3>3. CASE Divides(spt, heads) /\ pc' \in {"halted", "setup", "wild"}
        BY <2>1, <3>1, <3>3 DEF Divided, FaultsOnlyOnZeros, StagePcs, Divides
      <3> QED  BY <2>3, <3>2, <3>3 DEF ReadStage2, Die, Goto
    <2>4. CASE NextDirCluster \/ NextFileCluster
      <3>1. /\ pc \in {"dirNext", "loadNext"} /\ UNCHANGED <<spt, heads>>
            /\ \/ pc' = "fault" /\ vol.bytsPerSec = 0
               \/ pc' \in {"halted", "dirCluster", "loadCluster", "run"} /\ vol.bytsPerSec # 0
        BY <2>4 DEF NextDirCluster, NextFileCluster, FollowChain, Die, Goto
      <3>2. vol.stage1 # "single" => Divides(spt, heads)
        BY <3>1 DEF Divided, StagePcs
      <3> QED  BY <2>1, <3>1, <3>2 DEF Divided, FaultsOnlyOnZeros, StagePcs, Divides
    <2>5. CASE Setup \/ EnterDirCluster \/ EnterFileCluster \/ ScanSector \/ LoadSector
      <3>1. /\ pc \in {"setup", "dirCluster", "loadCluster", "dirSector", "loadSector"}
            /\ pc' \in {"dirCluster", "dirSector", "loadSector", "halted", "dirNext",
                        "loadCluster", "loadNext", "wild"}
            /\ UNCHANGED <<spt, heads>>
        BY <2>5 DEF Setup, EnterDirCluster, EnterFileCluster, EnterCluster, ScanSector,
                    LoadSector, Die, Goto
      <3> QED  BY <2>1, <3>1 DEF Divided, FaultsOnlyOnZeros, StagePcs, Divides
    <2>6. CASE ProbeRefused
      <3>1. pc' = "halted"
        BY <2>6 DEF ProbeRefused, Die
      <3> QED  BY <2>1, <3>1 DEF Divided, FaultsOnlyOnZeros, StagePcs
    <2>7. CASE UNCHANGED vars
      BY <2>1, <2>7 DEF vars, Divided, FaultsOnlyOnZeros, Divides
    <2> QED  BY <2>2, <2>3, <2>4, <2>5, <2>6, <2>7 DEF Next
  <1>3. Divided => FaultsOnlyOnZeros
    BY DEF Divided
  <1> QED  BY <1>1, <1>2, <1>3, PTL DEF Spec
=============================================================================
