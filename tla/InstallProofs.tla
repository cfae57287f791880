---------------------------- MODULE InstallProofs ----------------------------
(* The command line on devices of any size, with any blobs of boot-asm and  *)
(* any number of overlapping invocations: a splice of a sector that is kept *)
(* or was spliced before is the splice of the formatter's sector.           *)
EXTENDS Install, SequenceTheorems, TLAPS

Keeps(s, n) == \A r \in KeptRegions(n) : s[r] = device.sectors[n][r]
LongEnough(v) == Needs(v) <= Len(device.sectors)

(* A sector the formatter wrote, or one of the record of some variant.      *)
Whole(s, n) ==
  \/ s = device.sectors[n]
  \/ \E v \in Variants : /\ Node(v) = device.kind /\ LongEnough(v) /\ Fresh(v).ok
                         /\ n \in DOMAIN Fresh(v).sectors /\ s = Fresh(v).sectors[n]

(* An invocation: it has kept regions in hand, then a first run's record.   *)
Busy == {"read", "splice", "write", "done"}
Invocation(c) ==
  /\ InvocationOK(c)
  /\ c = [pc |-> c.pc, variant |-> c.variant, existing |-> c.existing,
          out |-> c.out, next |-> c.next]
  /\ c.pc \in Busy => c.variant \in Variants /\ Node(c.variant) = device.kind
  /\ c.pc \in {"splice", "write", "done"} => LongEnough(c.variant)
  /\ c.pc = "splice" => \A n \in 1..Needs(c.variant) : Keeps(c.existing[n], n)
  /\ c.pc \in {"write", "done"} => Fresh(c.variant).ok /\ c.out = Fresh(c.variant).sectors
  /\ c.pc \in {"read", "splice"} => c.next = 1
  /\ c.pc = "write" => c.next <= Len(c.out)
  /\ c.pc = "done" => c.next = Len(c.out) + 1

(* Undisturbed, it has written the record up to its next sector.            *)
Alone(p) == \A q \in Procs \ {p} : cli[q].pc = "idle"
Written(p) ==
  cli[p].pc \in {"write", "done"} /\ Alone(p) =>
    \A n \in 1..(cli[p].next - 1) : n \in Numbers /\ disk[n] = cli[p].out[n]

IInv ==
  /\ TypeOK
  /\ \A n \in Numbers : Whole(disk[n], n) /\ Whole(media[n], n)
  /\ \A p \in Procs : Invocation(cli[p]) /\ Written(p)

(***************************** the splices ******************************)
LEMMA VerdictFacts ==
  ASSUME NEW checks, NEW sectors
  PROVE  /\ Verdict(checks, sectors).ok <=> (\A i \in DOMAIN checks : ~checks[i][1])
         /\ Verdict(checks, sectors).ok => Verdict(checks, sectors).sectors = sectors
  <1> DEFINE failed == {i \in DOMAIN checks : checks[i][1]}
             first == CHOOSE i \in failed : \A j \in failed : i <= j
  <1>1. CASE failed = {}
    <2>1. Verdict(checks, sectors) = [ok |-> TRUE, sectors |-> sectors]
      BY <1>1 DEF Verdict
    <2> QED  BY <1>1, <2>1
  <1>2. CASE failed # {}
    <2>1. Verdict(checks, sectors) = [ok |-> FALSE, error |-> checks[first][2]]
      BY <1>2 DEF Verdict
    <2> QED  BY <1>2, <2>1
  <1> QED  BY <1>1, <1>2

(* Whether a blob can be spliced does not depend on what it is spliced into.*)
CanSplice(v) ==
  IF v \in MbrVariants THEN build[v].len >= CodeSize /\ build[v].len # 0
  ELSE build[v].len >= 2 * SectorSize /\ build[v].len % SectorSize = 0

LEMMA ThreeChecks ==
  ASSUME NEW checks, DOMAIN checks = 1..3, NEW sectors
  PROVE  /\ Verdict(checks, sectors).ok <=> ~checks[1][1] /\ ~checks[2][1] /\ ~checks[3][1]
         /\ Verdict(checks, sectors).ok => Verdict(checks, sectors).sectors = sectors
  <1>1. 1..3 = {1, 2, 3}
    OBVIOUS
  <1> QED  BY <1>1, VerdictFacts

LEMMA MbrSplice ==
  ASSUME build \in Builds, NEW v \in MbrVariants, NEW e, Len(e) = 1
  PROVE  /\ Spliced(v, e).ok <=> CanSplice(v)
         /\ CanSplice(v) =>
              /\ Spliced(v, e).sectors = << Keeping(MbrKept, e[1], build[v].sectors[1]) >>
              /\ build[v].sectors[1] \in Sectors
  <1> DEFINE blob == build[v]
             made == << Keeping(MbrKept, e[1], blob.sectors[1]) >>
             checks == << <<blob.len = 0, "NotEmbedded">>,
                          <<blob.len < CodeSize, "BootCodeTooShort">>,
                          <<SectorSize < SectorSize, "ExistingTooShort">> >>
  <1>1. /\ blob.len \in Nat /\ blob.sectors \in Seq(Sectors) /\ v \in Variants
        /\ blob.len <= SectorSize * Len(blob.sectors)
        /\ SectorSize \in Nat \ {0} /\ CodeSize \in Nat \ {0}
    BY BuildsAssumption, SpliceAssumption DEF Variants
  <1>2. Spliced(v, e) = Verdict(checks, made)
    <2>1. Bytes(Len(e) * SectorSize, e).len = SectorSize /\ Bytes(Len(e) * SectorSize, e).sectors = e
      BY <1>1 DEF Bytes
    <2>2. v \notin Fat32Variants /\ v \notin NtfsVariants
      BY DEF MbrVariants, Fat32Variants, NtfsVariants
    <2>3. Spliced(v, e) = SpliceMbr(Bytes(Len(e) * SectorSize, e), blob)
      BY <2>2 DEF Spliced
    <2> QED  BY <2>1, <2>3 DEF SpliceMbr
  <1> HIDE DEF made
  <1>a. DOMAIN checks = 1..3
    OBVIOUS
  <1>3. /\ checks[1][1] = (blob.len = 0) /\ checks[2][1] = (blob.len < CodeSize)
        /\ checks[3][1] = (SectorSize < SectorSize)
    OBVIOUS
  <1> HIDE DEF checks
  <1>4. /\ Verdict(checks, made).ok <=> CanSplice(v)
        /\ Verdict(checks, made).ok => Verdict(checks, made).sectors = made
    <2>0. ~(SectorSize < SectorSize) /\ (blob.len >= CodeSize <=> ~(blob.len < CodeSize))
      BY <1>1
    <2>1. (~checks[1][1] /\ ~checks[2][1] /\ ~checks[3][1]) <=> CanSplice(v)
      BY <1>3, <2>0 DEF CanSplice
    <2> QED  BY <1>a, <2>1, ThreeChecks
  <1>5. CanSplice(v) => blob.sectors[1] \in Sectors
    <2> HAVE CanSplice(v)
    <2>1. blob.len >= 1
      BY <1>1 DEF CanSplice
    <2>2. Len(blob.sectors) # 0
      BY <1>1, <2>1
    <2> QED  BY <1>1, <2>2, ElementOfSeq
  <1> QED  BY <1>2, <1>4, <1>5 DEF made

LEMMA MultiSplice ==
  ASSUME build \in Builds, NEW v \in Fat32Variants \cup NtfsVariants, NEW e, Len(e) = 2
  PROVE  /\ Spliced(v, e).ok <=> CanSplice(v)
         /\ CanSplice(v) =>
              /\ Spliced(v, e).sectors =
                   << IF v \in Fat32Variants THEN Fat32Sector(e[1], build[v].sectors[1])
                      ELSE Keeping(NtfsKept, e[1], build[v].sectors[1]), e[2] >>
                     \o Tail(build[v].sectors)
              /\ build[v].sectors[1] \in Sectors
              /\ Tail(build[v].sectors) \in Seq(Sectors)
              /\ Len(Tail(build[v].sectors)) = Len(build[v].sectors) - 1
              /\ Len(build[v].sectors) >= 2 /\ Len(build[v].sectors) <= Stages(v)
  <1> DEFINE blob == build[v]
             first == IF v \in Fat32Variants THEN Fat32Sector(e[1], blob.sectors[1])
                      ELSE Keeping(NtfsKept, e[1], blob.sectors[1])
             made == << first, e[2] >> \o Tail(blob.sectors)
             checks == << <<2 * SectorSize # 2 * SectorSize, "BadExistingMultiSize">>,
                          <<blob.len = 0, "NotEmbedded">>,
                          <<blob.len < 2 * SectorSize \/ blob.len % SectorSize # 0, "BadMultiBlobSize">> >>
  <1>1. /\ blob.len \in Nat /\ blob.sectors \in Seq(Sectors) /\ v \in Variants
        /\ blob.len <= SectorSize * Len(blob.sectors) /\ Len(blob.sectors) <= Stages(v)
        /\ SectorSize \in Nat \ {0}
    BY BuildsAssumption, SpliceAssumption DEF Variants
  <1>2. Spliced(v, e) = Verdict(checks, made)
    <2>1. Bytes(Len(e) * SectorSize, e).len = 2 * SectorSize /\ Bytes(Len(e) * SectorSize, e).sectors = e
      BY <1>1 DEF Bytes
    <2>2. v \notin MbrVariants /\ (v \in Fat32Variants \/ (v \in NtfsVariants /\ v \notin Fat32Variants))
      BY DEF MbrVariants, Fat32Variants, NtfsVariants
    <2>3. CASE v \in Fat32Variants
      <3>1. Spliced(v, e) = SpliceFat32Multi(Bytes(Len(e) * SectorSize, e), blob)
        BY <2>3 DEF Spliced, MbrVariants, Fat32Variants, NtfsVariants
      <3> QED  BY <2>1, <2>3, <3>1 DEF SpliceFat32Multi, MultiChecks
    <2>4. CASE v \in NtfsVariants /\ v \notin Fat32Variants
      <3>1. Spliced(v, e) = SpliceNtfsMulti(Bytes(Len(e) * SectorSize, e), blob)
        BY <2>2, <2>4 DEF Spliced
      <3> QED  BY <2>1, <2>4, <3>1 DEF SpliceNtfsMulti, MultiChecks
    <2> QED  BY <2>2, <2>3, <2>4
  <1> HIDE DEF made
  <1>a. DOMAIN checks = 1..3
    OBVIOUS
  <1>3. /\ checks[1][1] = (2 * SectorSize # 2 * SectorSize) /\ checks[2][1] = (blob.len = 0)
        /\ checks[3][1] = (blob.len < 2 * SectorSize \/ blob.len % SectorSize # 0)
    OBVIOUS
  <1> HIDE DEF checks
  <1>4. /\ Verdict(checks, made).ok <=> CanSplice(v)
        /\ Verdict(checks, made).ok => Verdict(checks, made).sectors = made
    <2>1. v \notin MbrVariants
      BY DEF MbrVariants, Fat32Variants, NtfsVariants
    <2>2. /\ blob.len >= 2 * SectorSize => blob.len # 0
          /\ (blob.len >= 2 * SectorSize) <=> ~(blob.len < 2 * SectorSize)
      BY <1>1
    <2>3. (~checks[1][1] /\ ~checks[2][1] /\ ~checks[3][1]) <=> CanSplice(v)
      BY <1>3, <2>1, <2>2 DEF CanSplice
    <2> QED  BY <1>a, <2>3, ThreeChecks
  <1>5. ASSUME CanSplice(v)
        PROVE  /\ blob.sectors[1] \in Sectors /\ Tail(blob.sectors) \in Seq(Sectors)
               /\ Len(Tail(blob.sectors)) = Len(blob.sectors) - 1 /\ Len(blob.sectors) >= 2
    <2>1. blob.len >= 2 * SectorSize
      BY <1>5 DEF CanSplice, MbrVariants, Fat32Variants, NtfsVariants
    <2>2. Len(blob.sectors) >= 2
      <3>1. PICK m \in Nat : m = Len(blob.sectors)
        BY <1>1
      <3>2. 2 * SectorSize <= SectorSize * m
        BY <1>1, <2>1, <3>1
      <3>3. SectorSize * m < 2 * SectorSize \/ m >= 2
        BY <1>1, <3>1, <3>2
      <3> QED  BY <1>1, <3>1, <3>2, <3>3
    <2> QED  BY <1>1, <2>2, ElementOfSeq, HeadTailProperties
  <1> QED  BY <1>1, <1>2, <1>4, <1>5 DEF made

(* A splice depends on what it keeps, and keeps it.                         *)
LEMMA KeepingFacts ==
  ASSUME NEW kept \in SUBSET (Regions \ {"mark"}), NEW e \in Sectors, NEW d,
         NEW over, \A r \in Regions : over[r] \in Content, \A r \in kept : e[r] = d[r]
  PROVE  /\ Keeping(kept, e, over) = Keeping(kept, d, over)
         /\ Keeping(kept, e, over) \in Sectors
         /\ \A r \in kept : Keeping(kept, e, over)[r] = d[r]
  BY ContentAssumption DEF Keeping, Sectors

(* The first sector of a record for v. *)
FirstKept(v) == IF v \in MbrVariants THEN MbrKept
                ELSE IF v \in Fat32Variants THEN Fat32Kept ELSE NtfsKept
LEMMA KeptOf ==
  ASSUME NEW v \in Variants, Node(v) = device.kind
  PROVE  /\ KeptRegions(1) = FirstKept(v) /\ FirstKept(v) \subseteq Regions \ {"mark"}
         /\ Needs(v) = 2 => KeptRegions(2) = Regions
         /\ v \in Fat32Variants => KeptRegions(3) = {}
         /\ v \in NtfsVariants => KeptRegions(3) = {} /\ KeptRegions(4) = {}
         /\ v \in MbrVariants => Needs(v) = 1
         /\ v \notin MbrVariants => Needs(v) = 2 /\ v \in Fat32Variants \cup NtfsVariants
  <1>1. CASE v \in MbrVariants
    <2>1. device.kind = "disk" /\ Needs(v) = 1 /\ v \notin Fat32Variants /\ v \notin NtfsVariants
      BY <1>1 DEF Node, Needs, MbrVariants, Fat32Variants, NtfsVariants
    <2> QED  BY <1>1, <2>1 DEF KeptRegions, FirstKept, MbrKept, Regions
  <1>2. CASE v \in Fat32Variants
    <2>1. device.kind = "fat32" /\ Needs(v) = 2 /\ v \notin MbrVariants /\ v \notin NtfsVariants
      BY <1>2 DEF Node, Needs, MbrVariants, Fat32Variants, NtfsVariants
    <2> QED  BY <1>2, <2>1 DEF KeptRegions, FirstKept, Fat32Kept, Regions
  <1>3. CASE v \in NtfsVariants
    <2>1. device.kind = "ntfs" /\ Needs(v) = 2 /\ v \notin MbrVariants /\ v \notin Fat32Variants
      BY <1>3 DEF Node, Needs, MbrVariants, Fat32Variants, NtfsVariants
    <2> QED  BY <1>3, <2>1 DEF KeptRegions, FirstKept, NtfsKept, Regions
  <1> QED  BY <1>1, <1>2, <1>3 DEF Variants

(* What v overwrites the rest of the first sector with. *)
Over(v) == IF v \in Fat32Variants THEN [build[v].sectors[1] EXCEPT !["oem"] = Mswin]
           ELSE build[v].sectors[1]
FirstSector(v, s) == Keeping(FirstKept(v), s, Over(v))

LEMMA FirstSectorFacts ==
  ASSUME NEW v \in Variants, Node(v) = device.kind, build[v].sectors[1] \in Sectors,
         NEW s \in Sectors, Keeps(s, 1)
  PROVE  /\ FirstSector(v, s) = FirstSector(v, device.sectors[1])
         /\ FirstSector(v, s) \in Sectors /\ Keeps(FirstSector(v, s), 1)
  <1>1. KeptRegions(1) = FirstKept(v) /\ FirstKept(v) \in SUBSET (Regions \ {"mark"})
    BY KeptOf
  <1>2. \A r \in Regions : Over(v)[r] \in Content
    BY ContentAssumption DEF Over, Sectors
  <1>3. \A r \in FirstKept(v) : s[r] = device.sectors[1][r]
    BY <1>1 DEF Keeps
  <1>4. PICK kept, over, d : kept = FirstKept(v) /\ over = Over(v) /\ d = device.sectors[1]
    OBVIOUS
  <1>5. /\ Keeping(kept, s, over) = Keeping(kept, d, over)
        /\ Keeping(kept, s, over) \in Sectors
        /\ \A r \in kept : Keeping(kept, s, over)[r] = d[r]
    <2>1. /\ kept \in SUBSET (Regions \ {"mark"}) /\ \A r \in Regions : over[r] \in Content
          /\ \A r \in kept : s[r] = d[r]
      BY <1>1, <1>2, <1>3, <1>4
    <2> QED  BY <2>1, KeepingFacts
  <1> QED  BY <1>1, <1>4, <1>5 DEF FirstSector, Keeps

(* The record of v on this device. *)
Record(v) ==
  IF v \in MbrVariants THEN << FirstSector(v, device.sectors[1]) >>
  ELSE << FirstSector(v, device.sectors[1]), device.sectors[2] >> \o Tail(build[v].sectors)

(* What is written is the same for all sectors that keep what the formatter *)
(* wrote, ...                                                               *)
LEMMA SpliceFacts ==
  ASSUME device \in Devices, build \in Builds, NEW v \in Variants, Node(v) = device.kind,
         NEW e \in Seq(Sectors), Len(e) = Needs(v), \A n \in 1..Needs(v) : Keeps(e[n], n),
         LongEnough(v)
  PROVE  /\ Spliced(v, e).ok <=> CanSplice(v)
         /\ CanSplice(v) => Spliced(v, e).sectors = Record(v)
  <1>1. device.sectors \in Seq(Sectors) /\ Needs(v) \in {1, 2}
    BY DevicesAssumption DEF Needs
  <1>2. e[1] \in Sectors /\ Keeps(e[1], 1)
    BY <1>1, ElementOfSeq
  <1>3. CASE v \in MbrVariants
    <2>1. Len(e) = 1
      BY <1>3, KeptOf
    <2>2. FirstSector(v, e[1]) = Keeping(MbrKept, e[1], build[v].sectors[1])
      BY <1>3 DEF FirstSector, Over, FirstKept, MbrVariants, Fat32Variants
    <2>3. /\ Spliced(v, e).ok <=> CanSplice(v)
          /\ CanSplice(v) => /\ Spliced(v, e).sectors = << FirstSector(v, e[1]) >>
                             /\ build[v].sectors[1] \in Sectors
      BY <1>3, <2>1, <2>2, MbrSplice
    <2>4. CanSplice(v) => FirstSector(v, e[1]) = FirstSector(v, device.sectors[1])
      BY <1>2, <2>3, FirstSectorFacts
    <2> QED  BY <1>3, <2>3, <2>4 DEF Record
  <1>4. CASE v \notin MbrVariants
    <2>1. Len(e) = 2 /\ Needs(v) = 2 /\ v \in Fat32Variants \cup NtfsVariants
      BY <1>4, KeptOf
    <2>2. FirstSector(v, e[1]) = IF v \in Fat32Variants
                                 THEN Fat32Sector(e[1], build[v].sectors[1])
                                 ELSE Keeping(NtfsKept, e[1], build[v].sectors[1])
      BY <1>4 DEF FirstSector, Over, FirstKept, Fat32Sector
    <2>3. /\ Spliced(v, e).ok <=> CanSplice(v)
          /\ CanSplice(v) =>
               /\ Spliced(v, e).sectors = << FirstSector(v, e[1]), e[2] >> \o Tail(build[v].sectors)
               /\ build[v].sectors[1] \in Sectors
      BY <2>1, <2>2, MultiSplice
    <2>4. CanSplice(v) => FirstSector(v, e[1]) = FirstSector(v, device.sectors[1])
      BY <1>2, <2>3, FirstSectorFacts
    <2>5. e[2] = device.sectors[2]
      <3>1. KeptRegions(2) = Regions /\ Keeps(e[2], 2) /\ e[2] \in Sectors
        BY <2>1, KeptOf, ElementOfSeq
      <3>2. device.sectors[2] \in Sectors
        BY <1>1, <2>1, ElementOfSeq DEF LongEnough
      <3> QED  BY <3>1, <3>2 DEF Keeps, Sectors
    <2> QED  BY <1>4, <2>3, <2>4, <2>5 DEF Record
  <1> QED  BY <1>3, <1>4

(* ... among them those sectors themselves, ...                             *)
LEMMA FreshFacts ==
  ASSUME device \in Devices, build \in Builds, NEW v \in Variants, Node(v) = device.kind,
         LongEnough(v)
  PROVE  /\ Fresh(v).ok <=> CanSplice(v)
         /\ CanSplice(v) => Fresh(v).sectors = Record(v)
  <1> DEFINE e == SubSeq(device.sectors, 1, Needs(v))
  <1>1. device.sectors \in Seq(Sectors) /\ Needs(v) \in {1, 2} /\ Needs(v) <= Len(device.sectors)
    BY DevicesAssumption DEF Needs, LongEnough
  <1>2. \A n \in 1..Needs(v) : device.sectors[n] \in Sectors
    BY <1>1, ElementOfSeq
  <1>3. e \in Seq(Sectors) /\ Len(e) = Needs(v) /\ \A n \in 1..Needs(v) : e[n] = device.sectors[n]
    BY <1>1, <1>2, SubSeqProperties
  <1>4. \A n \in 1..Needs(v) : Keeps(e[n], n)
    BY <1>3 DEF Keeps
  <1> HIDE DEF e
  <1>5. /\ Spliced(v, e).ok <=> CanSplice(v)
        /\ CanSplice(v) => Spliced(v, e).sectors = Record(v)
    BY <1>3, <1>4, SpliceFacts
  <1> QED  BY <1>5 DEF Fresh, e

(* ... and it keeps what they keep. *)
LEMMA RecordFacts ==
  ASSUME device \in Devices, build \in Builds, NEW v \in Variants, Node(v) = device.kind,
         LongEnough(v), CanSplice(v)
  PROVE  /\ Record(v) \in Seq(Sectors) /\ Len(Record(v)) >= Needs(v)
         /\ \A n \in 1..Len(Record(v)) : Keeps(Record(v)[n], n)
  <1>1. device.sectors \in Seq(Sectors) /\ Needs(v) \in {1, 2} /\ Needs(v) <= Len(device.sectors)
    BY DevicesAssumption DEF Needs, LongEnough
  <1>2. device.sectors[1] \in Sectors /\ Keeps(device.sectors[1], 1)
    BY <1>1, ElementOfSeq DEF Keeps
  <1> DEFINE first == FirstSector(v, device.sectors[1])
  <1>3. CASE v \in MbrVariants
    <2>1. Needs(v) = 1
      BY <1>3, KeptOf
    <2>2. build[v].sectors[1] \in Sectors
      <3>1. PICK e : e = <<device.sectors[1]>>
        OBVIOUS
      <3>2. Len(e) = 1
        BY <3>1
      <3> QED  BY <1>3, <3>2, MbrSplice
    <2>3. first \in Sectors /\ Keeps(first, 1)
      BY <1>2, <2>2, FirstSectorFacts
    <2> HIDE DEF first
    <2>4. Record(v) = <<first>>
      BY <1>3 DEF Record, first
    <2> QED  BY <2>1, <2>3, <2>4
  <1>4. CASE v \notin MbrVariants
    <2>1. /\ Needs(v) = 2 /\ v \in Fat32Variants \cup NtfsVariants
          /\ KeptRegions(2) = Regions /\ KeptRegions(3) = {}
          /\ v \in NtfsVariants => KeptRegions(4) = {}
      BY <1>4, KeptOf
    <2>2. /\ build[v].sectors[1] \in Sectors /\ Tail(build[v].sectors) \in Seq(Sectors)
          /\ Len(Tail(build[v].sectors)) = Len(build[v].sectors) - 1
          /\ Len(build[v].sectors) >= 2 /\ Len(build[v].sectors) <= Stages(v)
          /\ Len(build[v].sectors) \in Nat
      <3>1. PICK e : e = <<device.sectors[1], device.sectors[2]>>
        OBVIOUS
      <3>2. Len(e) = 2
        BY <3>1
      <3>3. Len(build[v].sectors) \in Nat
        BY BuildsAssumption
      <3> QED  BY <2>1, <3>2, <3>3, MultiSplice
    <2>3. first \in Sectors /\ Keeps(first, 1)
      BY <1>2, <2>2, FirstSectorFacts
    <2>4. device.sectors[2] \in Sectors
      BY <1>1, <2>1, ElementOfSeq
    <2> HIDE DEF first
    <2> DEFINE head == << first, device.sectors[2] >>
               tail == Tail(build[v].sectors)
    <2>5. /\ Record(v) = head \o tail /\ head \in Seq(Sectors) /\ Len(head) = 2
          /\ head[1] = first /\ head[2] = device.sectors[2]
      BY <1>4, <2>3, <2>4 DEF Record, first
    <2> HIDE DEF head, tail
    <2>6. /\ Record(v) \in Seq(Sectors) /\ Len(Record(v)) = 2 + Len(tail) /\ Len(tail) \in Nat
          /\ \A n \in 1..2 : Record(v)[n] = head[n]
      <3>1. PICK h \in Seq(Sectors), t \in Seq(Sectors) : h = head /\ t = tail
        BY <2>2, <2>5 DEF tail
      <3>2. /\ h \o t \in Seq(Sectors) /\ Len(h \o t) = Len(h) + Len(t) /\ Len(h) = 2
            /\ \A i \in 1..(Len(h) + Len(t)) : (h \o t)[i] = IF i <= Len(h) THEN h[i] ELSE t[i - Len(h)]
        BY <2>5, <3>1, ConcatProperties
      <3>3. PICK both : both = h \o t
        OBVIOUS
      <3>4. Record(v) = both
        BY <2>5, <3>1, <3>3
      <3>5. Len(t) \in Nat /\ Len(both) = 2 + Len(t) /\ both \in Seq(Sectors)
        BY <3>2, <3>3
      <3>6. \A i \in 1..2 : both[i] = h[i]
        BY <3>2, <3>3, <3>5
      <3> QED  BY <3>1, <3>4, <3>5, <3>6
    <2>7. Len(Record(v)) <= 1 + Stages(v)
      BY <2>2, <2>6 DEF tail, Stages
    <2>8. ASSUME NEW n \in 1..Len(Record(v)) PROVE Keeps(Record(v)[n], n)
      <3>1. CASE n = 1
        BY <2>3, <2>5, <2>6, <3>1
      <3>2. CASE n = 2
        BY <2>5, <2>6, <3>2 DEF Keeps
      <3>3. CASE n > 2
        <4>1. Len(Record(v)) <= IF v \in Fat32Variants THEN 3 ELSE 4
          BY <1>4, <2>2, <2>7 DEF Stages
        <4>2. n = 3 \/ (n = 4 /\ v \in NtfsVariants)
          BY <2>1, <2>6, <3>3, <4>1
        <4> QED  BY <2>1, <4>2 DEF Keeps
      <3> QED  BY <3>1, <3>2, <3>3
    <2> QED  BY <2>1, <2>6, <2>8
  <1> QED  BY <1>3, <1>4

(**************************** the invariant *****************************)
LEMMA Same ==
  ASSUME UNCHANGED <<device, build>>
  PROVE  /\ Numbers' = Numbers
         /\ \A v : Fresh(v)' = Fresh(v) /\ LongEnough(v)' = LongEnough(v)
         /\ \A n : KeptRegions(n)' = KeptRegions(n)
         /\ \A s, n : Keeps(s, n)' = Keeps(s, n) /\ Whole(s, n)' = Whole(s, n)
         /\ \A c : Invocation(c)' = Invocation(c)
  BY DEF Numbers, Fresh, Spliced, LongEnough, KeptRegions, Keeps, Whole, Invocation, InvocationOK

(* A whole sector keeps what the formatter wrote.                           *)
LEMMA WholeKeeps ==
  ASSUME device \in Devices, build \in Builds, NEW n, NEW s, Whole(s, n)
  PROVE  Keeps(s, n)
  <1>1. CASE s = device.sectors[n]
    BY <1>1 DEF Keeps
  <1>2. CASE s # device.sectors[n]
    <2>1. PICK v \in Variants : /\ Node(v) = device.kind /\ LongEnough(v) /\ Fresh(v).ok
                                /\ n \in DOMAIN Fresh(v).sectors /\ s = Fresh(v).sectors[n]
      BY <1>2 DEF Whole
    <2>2. CanSplice(v) /\ Fresh(v).sectors = Record(v)
      BY <2>1, FreshFacts
    <2>3. Record(v) \in Seq(Sectors) /\ \A k \in 1..Len(Record(v)) : Keeps(Record(v)[k], k)
      BY <2>1, <2>2, RecordFacts
    <2> QED  BY <2>1, <2>2, <2>3
  <1> QED  BY <1>1, <1>2

(* A step of p ends in a good state when p is left in one, and the device.  *)
LEMMA OneSteps ==
  ASSUME IInv, UNCHANGED <<device, build>>, NEW p \in Procs, NEW c, c.pc # "idle",
         cli' = [cli EXCEPT ![p] = c], Invocation(c), runs' \in 0..MaxRuns,
         disk' \in [Numbers -> Sectors], media' \in [Numbers -> Sectors],
         \A n \in Numbers : Whole(disk'[n], n) /\ Whole(media'[n], n),
         c.pc \in {"write", "done"} /\ Alone(p) =>
           \A n \in 1..(c.next - 1) : n \in Numbers /\ disk'[n] = c.out[n]
  PROVE  IInv'
  <1>1. /\ DOMAIN cli = Procs /\ device \in Devices /\ build \in Builds
        /\ \A q \in Procs : Invocation(cli[q])
    BY DEF IInv, TypeOK
  <1>2. /\ DOMAIN cli' = Procs /\ cli'[p] = c
        /\ \A q \in Procs \ {p} : cli'[q] = cli[q]
    BY <1>1
  <1>3. \A q \in Procs : Invocation(cli'[q])
    BY <1>1, <1>2
  <1>4. \A q \in Procs : Invocation(cli[q])'
    <2> TAKE q \in Procs
    <2>1. PICK d : d = cli'[q] /\ Invocation(d)
      BY <1>3
    <2>2. Invocation(d)'
      BY <2>1, Same
    <2> QED  BY <2>1, <2>2
  <1>5. TypeOK'
    <2>1. \A q \in Procs : InvocationOK(cli[q])'
      BY <1>4 DEF Invocation
    <2> QED  BY <1>1, <1>2, <2>1, Same DEF TypeOK
  <1>6. \A n \in Numbers' : Whole(disk[n], n)' /\ Whole(media[n], n)'
    <2> SUFFICES ASSUME NEW n \in Numbers PROVE Whole(disk[n], n)' /\ Whole(media[n], n)'
      BY Same
    <2>1. PICK s, m : s = disk'[n] /\ m = media'[n]
      OBVIOUS
    <2>2. Whole(s, n)' /\ Whole(m, n)'
      BY <2>1, Same
    <2> QED  BY <2>1, <2>2
  <1>7. ASSUME NEW q \in Procs PROVE Written(q)'
    <2>1. CASE q = p
      BY <1>2, <2>1, Same DEF Written, Alone
    <2>2. CASE q # p
      BY <1>2, <2>2 DEF Written, Alone
    <2> QED  BY <2>1, <2>2
  <1> QED  BY <1>4, <1>5, <1>6, <1>7 DEF IInv

LEMMA InitInv ==
  Init => IInv
  <1> SUFFICES ASSUME Init PROVE IInv
    OBVIOUS
  <1>1. /\ device \in Devices /\ build \in Builds /\ device.sectors \in Seq(Sectors)
        /\ disk = device.sectors /\ media = device.sectors /\ runs = 0
        /\ DOMAIN cli = Procs /\ \A p \in Procs : cli[p] = Idle
    BY DevicesAssumption DEF Init
  <1>2. disk \in [Numbers -> Sectors] /\ media \in [Numbers -> Sectors]
    BY <1>1 DEF Numbers
  <1>3. Invocation(Idle)
    BY DEF Idle, Invocation, InvocationOK, Busy, Exited
  <1>4. 0 \in 0..MaxRuns
    BY RunsAssumption
  <1>5. TypeOK
    BY <1>1, <1>2, <1>3, <1>4 DEF TypeOK, Invocation
  <1>6. \A n \in Numbers : Whole(disk[n], n) /\ Whole(media[n], n)
    BY <1>1 DEF Whole
  <1>7. \A p \in Procs : Written(p)
    BY <1>1 DEF Written, Idle
  <1> QED  BY <1>1, <1>3, <1>5, <1>6, <1>7 DEF IInv

(* What the invariant says of the invocation that steps. *)
LEMMA Stepping ==
  ASSUME IInv, NEW p \in Procs
  PROVE  /\ Invocation(cli[p]) /\ Written(p) /\ device \in Devices /\ build \in Builds
         /\ runs \in 0..MaxRuns /\ disk \in [Numbers -> Sectors] /\ media \in [Numbers -> Sectors]
         /\ \A n \in Numbers : Whole(disk[n], n) /\ Whole(media[n], n)
         /\ device.sectors \in Seq(Sectors)
  BY DevicesAssumption DEF IInv, TypeOK

LEMMA Fields ==
  ASSUME NEW c, Invocation(c)
  PROVE  \E pc, v, e, out, n :
           c = [pc |-> pc, variant |-> v, existing |-> e, out |-> out, next |-> n]
  BY DEF Invocation

LEMMA StartStep ==
  ASSUME IInv, UNCHANGED <<device, build>>, NEW p \in Procs, NEW v \in Variants,
         Node(v) = device.kind, Start(p, v)
  PROVE  IInv'
  <1>1. PICK opened \in BOOLEAN :
          cli' = [cli EXCEPT ![p] = [Idle EXCEPT !.pc = IF opened THEN "read" ELSE "failed",
                                                 !.variant = v]]
    BY DEF Start
  <1>2. PICK c : c = [Idle EXCEPT !.pc = IF opened THEN "read" ELSE "failed", !.variant = v]
    OBVIOUS
  <1>3. /\ c = [pc |-> IF opened THEN "read" ELSE "failed", variant |-> v,
                existing |-> <<>>, out |-> <<>>, next |-> 1]
        /\ c.pc \in {"read", "failed"} /\ c.variant = v /\ c.existing = <<>>
        /\ c.out = <<>> /\ c.next = 1
    BY <1>2 DEF Idle
  <1>4. Invocation(c)
    <2>1. c = [pc |-> c.pc, variant |-> c.variant, existing |-> c.existing,
               out |-> c.out, next |-> c.next]
      BY <1>3
    <2>2. InvocationOK(c)
      BY <1>3 DEF InvocationOK, Exited
    <2> QED  BY <1>3, <2>1, <2>2 DEF Invocation, Busy
  <1>5. runs' \in 0..MaxRuns /\ UNCHANGED <<disk, media>>
    BY RunsAssumption DEF Start, IInv, TypeOK
  <1> QED  BY <1>1, <1>2, <1>3, <1>4, <1>5, Stepping, OneSteps

(* A failure, a kill: the rest stays. *)
LEMMA EndStep ==
  ASSUME IInv, UNCHANGED <<device, build, disk, media, runs>>, NEW p \in Procs,
         NEW label \in {"failed", "killed"}, Goto(p, label)
  PROVE  IInv'
  <1>1. PICK c : c = [cli[p] EXCEPT !.pc = label]
    OBVIOUS
  <1>2. /\ c.pc = label /\ c.variant = cli[p].variant /\ c.existing = cli[p].existing
        /\ c.out = cli[p].out /\ c.next = cli[p].next
        /\ c = [pc |-> c.pc, variant |-> c.variant, existing |-> c.existing,
                out |-> c.out, next |-> c.next]
    <2>1. PICK pc, v, e, out, n :
            cli[p] = [pc |-> pc, variant |-> v, existing |-> e, out |-> out, next |-> n]
      BY Stepping, Fields
    <2> QED  BY <1>1, <2>1
  <1>3. Invocation(c)
    BY <1>2, Stepping DEF Invocation, InvocationOK, Busy, Exited
  <1>4. cli' = [cli EXCEPT ![p] = c]
    BY <1>1 DEF Goto
  <1> QED  BY <1>2, <1>3, <1>4, Stepping, OneSteps

LEMMA ReadStep ==
  ASSUME IInv, UNCHANGED <<device, build>>, NEW p \in Procs, Read(p)
  PROVE  IInv'
  <1>1. CASE Fail(p) /\ UNCHANGED runs
    BY <1>1, EndStep DEF Fail
  <1>2. CASE /\ Needs(cli[p].variant) <= Len(disk)
             /\ cli' = [cli EXCEPT ![p].existing = SubSeq(disk, 1, Needs(cli[p].variant)),
                                   ![p].pc = "splice"]
             /\ UNCHANGED <<disk, media, runs>>
    <2>1. PICK v, e, c : /\ v = cli[p].variant /\ e = SubSeq(disk, 1, Needs(v))
                         /\ c = [cli[p] EXCEPT !.existing = e, !.pc = "splice"]
      OBVIOUS
    <2>a. cli[p].pc = "read" /\ Invocation(cli[p]) /\ device \in Devices /\ build \in Builds
      BY Stepping DEF Read
    <2>2. /\ v \in Variants /\ Node(v) = device.kind /\ cli[p].out \in Seq(Sectors)
          /\ cli[p].next = 1 /\ cli[p].pc = "read" /\ Len(cli[p].out) \in Nat
      BY <2>1, <2>a DEF Invocation, InvocationOK, Busy
    <2>3. /\ disk \in Seq(Sectors) /\ Len(disk) = Len(device.sectors) /\ Needs(v) \in {1, 2}
          /\ Needs(v) <= Len(disk)
      <3>1. disk \in [1..Len(device.sectors) -> Sectors] /\ Len(device.sectors) \in Nat
        BY Stepping DEF Numbers
      <3>2. Needs(v) <= Len(disk) /\ Needs(v) \in {1, 2}
        BY <1>2, <2>1 DEF Needs
      <3> QED  BY <3>1, <3>2
    <2>4. \A n \in 1..Needs(v) : disk[n] \in Sectors /\ Keeps(disk[n], n)
      BY <2>3, Stepping, WholeKeeps, ElementOfSeq DEF Numbers
    <2>5. e \in Seq(Sectors) /\ Len(e) = Needs(v) /\ \A n \in 1..Needs(v) : e[n] = disk[n]
      <3>1. PICK k \in Nat : k = Needs(v) /\ k >= 1
        BY <2>3
      <3>2. \A i \in 1..k : disk[i] \in Sectors
        BY <2>4, <3>1
      <3>3. /\ SubSeq(disk, 1, k) \in Seq(Sectors) /\ Len(SubSeq(disk, 1, k)) = k
            /\ \A i \in 1..k : SubSeq(disk, 1, k)[i] = disk[1 + i - 1]
        BY <3>1, <3>2, SubSeqProperties
      <3>4. \A i \in 1..k : 1 + i - 1 = i
        OBVIOUS
      <3> QED  BY <2>1, <3>1, <3>3, <3>4
    <2>6. /\ c.pc = "splice" /\ c.variant = v /\ c.existing = e
          /\ c.out = cli[p].out /\ c.next = cli[p].next
          /\ c = [pc |-> c.pc, variant |-> c.variant, existing |-> c.existing,
                  out |-> c.out, next |-> c.next]
      <3>1. PICK pc, w, f, out, n :
              cli[p] = [pc |-> pc, variant |-> w, existing |-> f, out |-> out, next |-> n]
        BY Stepping, Fields
      <3> QED  BY <2>1, <3>1
    <2>7. Invocation(c)
      <3>1. InvocationOK(c)
        BY <2>2, <2>5, <2>6 DEF InvocationOK
      <3>2. LongEnough(v) /\ \A n \in 1..Needs(v) : Keeps(e[n], n)
        BY <2>3, <2>4, <2>5 DEF LongEnough
      <3> QED  BY <2>2, <2>6, <3>1, <3>2 DEF Invocation
    <2>8. cli' = [cli EXCEPT ![p] = c]
      BY <1>2, <2>1
    <2> QED  BY <1>2, <2>6, <2>7, <2>8, Stepping, OneSteps
  <1> QED  BY <1>1, <1>2 DEF Read

(* The record made is the one a first run would have made. *)
LEMMA MakeRecordStep ==
  ASSUME IInv, UNCHANGED <<device, build>>, NEW p \in Procs, MakeRecord(p)
  PROVE  IInv'
  <1>1. PICK v, e : v = cli[p].variant /\ e = cli[p].existing
    OBVIOUS
  <1>2. CASE ~Spliced(v, e).ok
    BY <1>1, <1>2, EndStep DEF MakeRecord, Fail
  <1>3. CASE Spliced(v, e).ok
    <2>1. /\ v \in Variants /\ Node(v) = device.kind /\ e \in Seq(Sectors)
          /\ Len(e) = Needs(v) /\ LongEnough(v) /\ \A n \in 1..Needs(v) : Keeps(e[n], n)
          /\ cli[p].pc = "splice"
      BY <1>1, Stepping DEF MakeRecord, Invocation, InvocationOK, Busy
    <2>2. /\ Spliced(v, e).sectors = Record(v) /\ CanSplice(v)
          /\ Fresh(v).ok /\ Fresh(v).sectors = Record(v)
      BY <1>3, <2>1, Stepping, SpliceFacts, FreshFacts
    <2>3. Record(v) \in Seq(Sectors) /\ Len(Record(v)) >= Needs(v) /\ Needs(v) \in {1, 2}
      BY <2>1, <2>2, Stepping, RecordFacts DEF Needs
    <2>4. PICK c : c = [cli[p] EXCEPT !.out = Record(v), !.pc = "write"]
      OBVIOUS
    <2>5. /\ c.pc = "write" /\ c.variant = v /\ c.existing = e
          /\ c.out = Record(v) /\ c.next = cli[p].next
          /\ c = [pc |-> c.pc, variant |-> c.variant, existing |-> c.existing,
                  out |-> c.out, next |-> c.next]
      <3>1. PICK pc, w, f, out, n :
              cli[p] = [pc |-> pc, variant |-> w, existing |-> f, out |-> out, next |-> n]
        BY Stepping, Fields
      <3> QED  BY <1>1, <2>4, <3>1
    <2>6. c.next = 1 /\ Len(c.out) >= 1
      <3>1. Invocation(cli[p])
        BY Stepping
      <3>2. cli[p].next = 1
        BY <2>1, <3>1 DEF Invocation
      <3>3. Len(Record(v)) \in Nat
        BY <2>3
      <3> QED  BY <2>3, <2>5, <3>2, <3>3
    <2>7. InvocationOK(c)
      BY <2>1, <2>3, <2>5, <2>6 DEF InvocationOK
    <2>8. Invocation(c)
      BY <2>1, <2>2, <2>3, <2>5, <2>6, <2>7 DEF Invocation
    <2>9. cli' = [cli EXCEPT ![p] = c] /\ UNCHANGED <<disk, media, runs>>
      BY <1>1, <1>3, <2>2, <2>4 DEF MakeRecord
    <2>10. \A n \in 1..(c.next - 1) : n \in Numbers /\ disk'[n] = c.out[n]
      BY <2>6
    <2>11. c.pc # "idle" /\ runs' \in 0..MaxRuns /\ disk' \in [Numbers -> Sectors]
           /\ media' \in [Numbers -> Sectors]
           /\ \A n \in Numbers : Whole(disk'[n], n) /\ Whole(media'[n], n)
      BY <2>5, <2>9, Stepping
    <2> QED  BY <2>8, <2>9, <2>10, <2>11, OneSteps
  <1> QED  BY <1>2, <1>3

(* The next sector of the record, if the device has one. *)
LEMMA WriteStep ==
  ASSUME IInv, UNCHANGED <<device, build>>, NEW p \in Procs, Write(p)
  PROVE  IInv'
  <1>1. CASE Fail(p) /\ UNCHANGED runs
    BY <1>1, EndStep DEF Fail
  <1>2. CASE ~Fail(p)
    <2>1. PICK n, out, v : n = cli[p].next /\ out = cli[p].out /\ v = cli[p].variant
      OBVIOUS
    <2>2. /\ cli[p].pc = "write" /\ n \in Numbers /\ disk' = [disk EXCEPT ![n] = out[n]]
          /\ media' = IF device.buffered THEN media ELSE [media EXCEPT ![n] = out[n]]
          /\ cli' = [cli EXCEPT ![p].next = n + 1, ![p].pc = IF n = Len(out) THEN "done" ELSE "write"]
          /\ UNCHANGED runs
      BY <1>2, <2>1 DEF Write
    <2>3. /\ v \in Variants /\ Node(v) = device.kind /\ LongEnough(v) /\ Fresh(v).ok
          /\ out = Fresh(v).sectors /\ n <= Len(out) /\ out \in Seq(Sectors)
          /\ n \in 1..(Len(out) + 1) /\ Len(cli[p].existing) = Needs(v) /\ Len(out) >= Needs(v)
          /\ cli[p].existing \in Seq(Sectors)
      BY <2>1, <2>2, Stepping DEF Invocation, InvocationOK, Busy
    <2>4. n \in 1..Len(out) /\ out[n] \in Sectors /\ Whole(out[n], n)
      <3>1. n \in 1..Len(out) /\ n \in DOMAIN out /\ out[n] \in Sectors
        BY <2>3, ElementOfSeq
      <3> QED  BY <2>3, <3>1 DEF Whole
    <2>5. PICK c : c = [cli[p] EXCEPT !.next = n + 1, !.pc = IF n = Len(out) THEN "done" ELSE "write"]
      OBVIOUS
    <2>6. /\ c.pc = (IF n = Len(out) THEN "done" ELSE "write") /\ c.variant = v
          /\ c.existing = cli[p].existing /\ c.out = out /\ c.next = n + 1
          /\ c = [pc |-> c.pc, variant |-> c.variant, existing |-> c.existing,
                  out |-> c.out, next |-> c.next]
      <3>1. PICK pc, w, f, o, m :
              cli[p] = [pc |-> pc, variant |-> w, existing |-> f, out |-> o, next |-> m]
        BY Stepping, Fields
      <3> QED  BY <2>1, <2>5, <3>1
    <2>7. Invocation(c)
      <3>1. c.next \in 1..(Len(c.out) + 1) /\ (c.pc = "write" => c.next <= Len(c.out))
            /\ (c.pc = "done" => c.next = Len(c.out) + 1) /\ c.pc \in {"write", "done"}
        BY <2>3, <2>4, <2>6
      <3>2. InvocationOK(c)
        BY <2>3, <2>6, <3>1 DEF InvocationOK, Exited
      <3> QED  BY <2>3, <2>6, <3>1, <3>2 DEF Invocation
    <2>8. cli' = [cli EXCEPT ![p] = c]
      BY <2>2, <2>5
    <2>9. /\ disk' \in [Numbers -> Sectors] /\ media' \in [Numbers -> Sectors]
          /\ \A k \in Numbers : Whole(disk'[k], k) /\ Whole(media'[k], k)
      BY <2>2, <2>4, Stepping
    <2>10. ASSUME Alone(p)
           PROVE  \A k \in 1..(c.next - 1) : k \in Numbers /\ disk'[k] = c.out[k]
      <3>1. \A k \in 1..(n - 1) : k \in Numbers /\ disk[k] = out[k]
        BY <2>1, <2>2, <2>10, Stepping DEF Written
      <3>2. ASSUME NEW k \in 1..n PROVE k \in Numbers /\ disk'[k] = out[k]
        <4>1. CASE k = n
          BY <2>2, <4>1, Stepping
        <4>2. CASE k # n
          <5>1. k \in 1..(n - 1)
            BY <2>4, <4>2
          <5> QED  BY <2>2, <3>1, <4>2, <5>1, Stepping
        <4> QED  BY <4>1, <4>2
      <3> QED  BY <2>4, <2>6, <3>2
    <2>11. c.pc # "idle" /\ runs' \in 0..MaxRuns
      BY <2>2, <2>6, Stepping
    <2> QED  BY <2>7, <2>8, <2>9, <2>10, <2>11, OneSteps
  <1> QED  BY <1>1, <1>2 DEF Write

(* A cached sector reaches the media; the invocations see nothing of it.    *)
LEMMA WriteBackStep ==
  ASSUME IInv, UNCHANGED <<device, build>>, NEW n \in Numbers, WriteBack(n)
  PROVE  IInv'
  <1>1. media' = [media EXCEPT ![n] = disk[n]] /\ UNCHANGED <<device, build, disk, cli, runs>>
    BY DEF WriteBack
  <1>2. /\ media' \in [Numbers -> Sectors]
        /\ \A k \in Numbers : Whole(disk'[k], k) /\ Whole(media'[k], k)
    BY <1>1 DEF IInv, TypeOK
  <1>3. IInv'
    <2>1. \A p \in Procs : Invocation(cli[p])' /\ Written(p)'
      BY <1>1, Same DEF IInv, Written, Alone
    <2>2. TypeOK'
      BY <1>1, <1>2, Same DEF IInv, TypeOK, InvocationOK
    <2>3. \A k \in Numbers' : Whole(disk[k], k)' /\ Whole(media[k], k)'
      <3> SUFFICES ASSUME NEW k \in Numbers PROVE Whole(disk[k], k)' /\ Whole(media[k], k)'
        BY Same
      <3>1. PICK s, m : s = disk'[k] /\ m = media'[k]
        OBVIOUS
      <3>2. Whole(s, k)' /\ Whole(m, k)'
        BY <1>2, <3>1, Same
      <3> QED  BY <3>1, <3>2
    <2> QED  BY <2>1, <2>2, <2>3 DEF IInv
  <1> QED  BY <1>3

(* What was not written back is lost, and every open run is dead. *)
LEMMA PowerLossStep ==
  ASSUME IInv, UNCHANGED <<device, build>>, PowerLoss
  PROVE  IInv'
  <1>1. /\ disk' = media /\ UNCHANGED <<device, build, media, runs>> /\ DOMAIN cli = Procs
        /\ \A p \in Procs : Invocation(cli[p])
        /\ cli' = [p \in Procs |-> IF cli[p].pc \in {"idle", "failed"} THEN cli[p]
                                  ELSE [cli[p] EXCEPT !.pc = "killed"]]
    BY DEF PowerLoss, IInv, TypeOK
  <1>2. ASSUME NEW p \in Procs
        PROVE  Invocation(cli[p])' /\ cli'[p].pc \notin {"write", "done"}
    <2>1. PICK c, d : c = cli[p] /\ d = cli'[p]
      OBVIOUS
    <2>2. Invocation(c)
      BY <1>1, <2>1
    <2>3. PICK pc, v, e, out, n :
            c = [pc |-> pc, variant |-> v, existing |-> e, out |-> out, next |-> n]
      BY <2>2, Fields
    <2>4. d = IF c.pc \in {"idle", "failed"} THEN c ELSE [c EXCEPT !.pc = "killed"]
      BY <1>1, <2>1
    <2>5. CASE c.pc \in {"idle", "failed"}
      BY <2>1, <2>2, <2>4, <2>5, Same
    <2>6. CASE c.pc \notin {"idle", "failed"}
      <3>1. d = [pc |-> "killed", variant |-> v, existing |-> e, out |-> out, next |-> n]
        BY <2>3, <2>4, <2>6
      <3>2. /\ d.pc = "killed" /\ d.variant = c.variant /\ d.existing = c.existing
            /\ d.out = c.out /\ d.next = c.next
            /\ d = [pc |-> d.pc, variant |-> d.variant, existing |-> d.existing,
                    out |-> d.out, next |-> d.next]
        BY <2>3, <3>1
      <3>3. Invocation(d)
        BY <2>2, <3>2 DEF Invocation, InvocationOK, Exited, Busy
      <3>4. Invocation(d)'
        BY <3>3, Same
      <3> QED  BY <2>1, <3>2, <3>4
    <2> QED  BY <2>5, <2>6
  <1>3. TypeOK'
    <2>1. disk' \in [Numbers -> Sectors] /\ media' \in [Numbers -> Sectors] /\ DOMAIN cli' = Procs
      BY <1>1 DEF IInv, TypeOK
    <2>2. \A p \in Procs : InvocationOK(cli[p])'
      BY <1>2 DEF Invocation
    <2> QED  BY <1>1, <2>1, <2>2, Same DEF IInv, TypeOK
  <1>4. \A n \in Numbers' : Whole(disk[n], n)' /\ Whole(media[n], n)'
    <2> SUFFICES ASSUME NEW n \in Numbers PROVE Whole(disk[n], n)' /\ Whole(media[n], n)'
      BY Same
    <2>1. PICK s : s = media[n]
      OBVIOUS
    <2>2. Whole(s, n)'
      BY <2>1, Same DEF IInv
    <2> QED  BY <1>1, <2>1, <2>2
  <1>5. \A p \in Procs : Written(p)'
    BY <1>2 DEF Written
  <1> QED  BY <1>2, <1>3, <1>4, <1>5 DEF IInv

LEMMA NextInv ==
  IInv /\ [Next]_vars => IInv'
  <1> SUFFICES ASSUME IInv, [Next]_vars PROVE IInv'
    OBVIOUS
  <1>1. ASSUME UNCHANGED <<device, build>>, NEW p \in Procs, Kill(p) PROVE IInv'
    BY <1>1, EndStep DEF Kill
  <1>2. ASSUME UNCHANGED <<device, build>>, NEW p \in Procs, Step(p) PROVE IInv'
    BY <1>2, ReadStep, MakeRecordStep, WriteStep DEF Step
  <1>3. CASE Next
    <2>1. UNCHANGED <<device, build>>
      BY <1>3 DEF Next
    <2>2. CASE \E p \in Procs : \E v \in Variants : Node(v) = device.kind /\ Start(p, v)
      BY <2>1, <2>2, StartStep
    <2>3. CASE \E p \in Procs : Step(p) \/ Kill(p)
      BY <1>1, <1>2, <2>1, <2>3
    <2>4. CASE (\E n \in Numbers : WriteBack(n)) \/ PowerLoss
      BY <2>1, <2>4, WriteBackStep, PowerLossStep
    <2> QED  BY <1>3, <2>2, <2>3, <2>4 DEF Next
  <1>4. CASE UNCHANGED vars
    <2>1. UNCHANGED <<device, build, disk, media, cli, runs>>
      BY <1>4 DEF vars
    <2>2. TypeOK'
      BY <2>1, Same DEF IInv, TypeOK, InvocationOK
    <2>3. \A n \in Numbers' : Whole(disk[n], n)' /\ Whole(media[n], n)'
      BY <2>1, Same DEF IInv
    <2>4. \A p \in Procs : Invocation(cli[p])' /\ Written(p)'
      BY <2>1, Same DEF IInv, Written, Alone
    <2> QED  BY <2>2, <2>3, <2>4 DEF IInv
  <1> QED  BY <1>3, <1>4

LEMMA Invariance ==
  Spec => []IInv
  BY InitInv, NextInv, PTL DEF Spec

(* Nothing the invocations hold, and no sector of the device, is ever       *)
(* anything but what a run may hold at that point.                          *)
THEOREM TypeCorrect ==
  Spec => []TypeOK
  <1>1. IInv => TypeOK
    BY DEF IInv
  <1> QED  BY <1>1, Invariance, PTL

(* README: the formatter's BPB, or the partition table and disk signature,  *)
(* survive every invocation, and so does every sector that is not the       *)
(* record's: whatever overlaps, fails or is killed, at any power loss.      *)
THEOREM FormatterSurvives ==
  Spec => []FormatterKept
  <1>1. IInv => FormatterKept
    BY WholeKeeps DEF IInv, TypeOK, FormatterKept, Keeps
  <1> QED  BY <1>1, Invariance, PTL

(* Each sector is the formatter's or some variant's: none is a mixture.     *)
THEOREM NoMixture ==
  Spec => []SectorsAreWhole
  <1>1. IInv => SectorsAreWhole
    BY DEF IInv, SectorsAreWhole, Whole
  <1> QED  BY <1>1, Invariance, PTL

(* "Wrote", when no other process has opened the device, means what it says:*)
(* the record of a first run is there, whatever earlier runs left behind.   *)
THEOREM WroteIsInstalled ==
  Spec => []DoneMeansInstalled
  <1>1. IInv => DoneMeansInstalled
    <2> SUFFICES ASSUME IInv, NEW p \in Procs, cli[p].pc = "done",
                        \A q \in Procs \ {p} : cli[q].pc = "idle",
                        NEW n \in 1..Len(Fresh(cli[p].variant).sectors)
                 PROVE  n \in Numbers /\ disk[n] = Fresh(cli[p].variant).sectors[n]
      BY DEF DoneMeansInstalled
    <2>1. cli[p].out = Fresh(cli[p].variant).sectors /\ cli[p].next = Len(cli[p].out) + 1
          /\ cli[p].out \in Seq(Sectors)
      BY DEF IInv, Invocation, InvocationOK
    <2>2. n \in 1..(cli[p].next - 1)
      BY <2>1
    <2> QED  BY <2>1, <2>2 DEF IInv, Written, Alone
  <1> QED  BY <1>1, Invariance, PTL
=============================================================================
