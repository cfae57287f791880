------------------------------ MODULE Install ------------------------------
(* The command line of src/bin/mkmsbr.rs: invocations that read the first   *)
(* sectors of a device, splice a boot record into them and write them back. *)
(* Invocations may overlap, fail, be killed and be run again; the device    *)
(* may keep writes in a cache, and lose them with the power.                *)
EXTENDS Splice, FiniteSets

CONSTANTS
  Procs,      \* invocations that may be running at the same time
  Devices,    \* what may be at the path: [kind, sectors, buffered]
  Builds,     \* what the crate may embed: variant -> Bytes
  Content,    \* what a region of a sector may hold
  MaxRuns     \* bound: how many invocations there are in all

MbrVariants == {"mbr_xp", "mbr_win7"}
Fat32Variants == {"fat32_ntldr", "fat32_bootmgr"}
NtfsVariants == {"ntfs_bootmgr"}
Variants == MbrVariants \cup Fat32Variants \cup NtfsVariants

(* The node a variant is meant for, and the sectors it reads there. *)
Node(v) == IF v \in MbrVariants THEN "disk"
           ELSE IF v \in Fat32Variants THEN "fat32" ELSE "ntfs"
Needs(v) == IF v \in MbrVariants THEN 1 ELSE 2

(* Sectors of the sources of boot-asm: an assembled blob has no more.       *)
Stages(v) == IF v \in MbrVariants THEN 1 ELSE IF v \in Fat32Variants THEN 2 ELSE 3

Sectors == [Regions -> Content]

ASSUME ContentAssumption == Marked \in Content /\ Mswin \in Content
ASSUME RunsAssumption == MaxRuns \in Nat
ASSUME DevicesAssumption ==
  \A d \in Devices : d.kind \in {"disk", "fat32", "ntfs"} /\ d.sectors \in Seq(Sectors)
(* A blob's sectors hold all its bytes.                                     *)
ASSUME BuildsAssumption ==
  \A b \in Builds : \A v \in Variants :
    /\ b[v].len \in Nat /\ b[v].sectors \in Seq(Sectors)
    /\ b[v].len <= SectorSize * Len(b[v].sectors) /\ Len(b[v].sectors) <= Stages(v)

VARIABLES
  device,    \* [kind, sectors, buffered]: the device before the first run
  build,     \* the blobs of this build of the crate
  disk,      \* the sectors as a read returns them
  media,     \* the sectors that survive a power failure
  cli,       \* the invocations: [pc, variant, existing, out, next]
  runs       \* how many have been started
vars == <<device, build, disk, media, cli, runs>>

Numbers == 1..Len(device.sectors)      \* sectors of the device, from 1
Idle == [pc |-> "idle", variant |-> "none", existing |-> <<>>, out |-> <<>>, next |-> 1]
Exited == {"idle", "done", "failed", "killed"}

Init ==
  /\ device \in Devices
  /\ build \in Builds
  /\ disk = device.sectors
  /\ media = device.sectors
  /\ cli = [p \in Procs |-> Idle]
  /\ runs = 0

Goto(p, label) == cli' = [cli EXCEPT ![p].pc = label]
Fail(p) == Goto(p, "failed") /\ UNCHANGED <<disk, media>>

(* run: one variant, and the device opened for reading and writing.         *)
Start(p, v) ==
  /\ cli[p].pc \in Exited /\ runs < MaxRuns
  /\ runs' = runs + 1
  /\ \E opened \in BOOLEAN :
       cli' = [cli EXCEPT ![p] = [Idle EXCEPT !.pc = IF opened THEN "read" ELSE "failed",
                                              !.variant = v]]
  /\ UNCHANGED <<disk, media>>

MutRead(p) ==
  /\ cli[p].pc = "read"
  /\ LET n == IF Needs(cli[p].variant) <= Len(disk) THEN Needs(cli[p].variant) ELSE Len(disk)
     IN  cli' = [cli EXCEPT ![p].existing = SubSeq(disk, 1, n), ![p].pc = "splice"]
  /\ UNCHANGED <<disk, media, runs>>

(* read_exact: all the sectors the splice needs, or an error.               *)
Read(p) ==
  /\ cli[p].pc = "read"
  /\ \/ /\ Needs(cli[p].variant) <= Len(disk)
        /\ cli' = [cli EXCEPT ![p].existing = SubSeq(disk, 1, Needs(cli[p].variant)),
                              ![p].pc = "splice"]
        /\ UNCHANGED <<disk, media>>
     \/ Fail(p)
  /\ UNCHANGED runs

Spliced(v, existing) ==
  LET bytes == Bytes(Len(existing) * SectorSize, existing)
  IN  CASE v \in MbrVariants   -> SpliceMbr(bytes, build[v])
        [] v \in Fat32Variants -> SpliceFat32Multi(bytes, build[v])
        [] v \in NtfsVariants  -> SpliceNtfsMulti(bytes, build[v])

(* The splice, and seek(Start(0)). *)
MakeRecord(p) ==
  /\ cli[p].pc = "splice"
  /\ LET result == Spliced(cli[p].variant, cli[p].existing)
     IN  IF result.ok
         THEN /\ cli' = [cli EXCEPT ![p].out = result.sectors, ![p].pc = "write"]
              /\ UNCHANGED <<disk, media>>
         ELSE Fail(p)
  /\ UNCHANGED runs

MutWriteShort(p) ==
  LET n == cli[p].next
  IN  /\ cli[p].pc = "write" /\ n \in Numbers
      /\ disk' = [disk EXCEPT ![n] = cli[p].out[n]]
      /\ media' = IF device.buffered THEN media ELSE [media EXCEPT ![n] = cli[p].out[n]]
      /\ Goto(p, "done")
      /\ UNCHANGED runs

MutWriteStuck(p) ==
  LET n == cli[p].next
  IN  /\ cli[p].pc = "write" /\ n \in Numbers
      /\ disk' = [disk EXCEPT ![n] = cli[p].out[1]]
      /\ media' = IF device.buffered THEN media ELSE [media EXCEPT ![n] = cli[p].out[1]]
      /\ cli' = [cli EXCEPT ![p].next = n + 1,
                            ![p].pc = IF n = Len(cli[p].out) THEN "done" ELSE "write"]
      /\ UNCHANGED runs

(* write_all: sector after sector, until the last, an I/O error or the end  *)
(* of the device.  flush() does nothing to a File.                          *)
Write(p) ==
  LET n == cli[p].next
  IN  /\ cli[p].pc = "write"
      /\ \/ /\ n \in Numbers
            /\ disk' = [disk EXCEPT ![n] = cli[p].out[n]]
            /\ media' = IF device.buffered THEN media
                        ELSE [media EXCEPT ![n] = cli[p].out[n]]
            /\ cli' = [cli EXCEPT ![p].next = n + 1,
                                  ![p].pc = IF n = Len(cli[p].out) THEN "done" ELSE "write"]
         \/ Fail(p)
      /\ UNCHANGED runs

(* ^C, or the process is killed. *)
Kill(p) ==
  /\ cli[p].pc \notin Exited
  /\ Goto(p, "killed")
  /\ UNCHANGED <<disk, media, runs>>

(* The system writes a cached sector to the media, in any order, ...        *)
WriteBack(n) ==
  /\ media[n] # disk[n]
  /\ media' = [media EXCEPT ![n] = disk[n]]
  /\ UNCHANGED <<disk, cli, runs>>

(* ... and loses the rest when the power fails or the stick is pulled out.  *)
PowerLoss ==
  /\ disk' = media
  /\ cli' = [p \in Procs |-> IF cli[p].pc \in {"idle", "failed"} THEN cli[p]
                             ELSE [cli[p] EXCEPT !.pc = "killed"]]
  /\ UNCHANGED <<media, runs>>

Step(p) == Read(p) \/ MakeRecord(p) \/ Write(p)

(* A variant is run only on the kind of node it is meant for.  The program  *)
(* does not look: a partition's record on a whole disk, which would take    *)
(* the partition table with it, is outside this model.                      *)
Next ==
  /\ \/ \E p \in Procs : \E v \in Variants : Node(v) = device.kind /\ Start(p, v)
     \/ \E p \in Procs : Step(p) \/ Kill(p)
     \/ \E n \in Numbers : WriteBack(n)
     \/ PowerLoss
  /\ UNCHANGED <<device, build>>

Spec == Init /\ [][Next]_vars

(***************************** properties *******************************)
InvocationOK(c) ==
  /\ c.pc \in {"read", "splice", "write"} \cup Exited
  /\ c.variant \in Variants \cup {"none"}
  /\ c.existing \in Seq(Sectors) /\ c.out \in Seq(Sectors)
  /\ c.next \in 1..(Len(c.out) + 1)
  /\ c.pc \in {"splice", "write", "done"} => Len(c.existing) = Needs(c.variant)
  /\ c.pc \in {"write", "done"} => Len(c.out) >= Needs(c.variant)

(* A run past its read has read what it needs, and writes a record.         *)
TypeOK ==
  /\ device \in Devices /\ build \in Builds /\ runs \in 0..MaxRuns
  /\ disk \in [Numbers -> Sectors] /\ media \in [Numbers -> Sectors]
  /\ DOMAIN cli = Procs
  /\ \A p \in Procs : InvocationOK(cli[p])

(* README: the formatter's BPB (PBR variants) or the partition table and    *)
(* disk signature (MBR variants) are preserved; and every sector that is    *)
(* not the record's own, FSInfo at LBA 1 among them, is as it was.  In      *)
(* every state, and on the media too: between two sectors of a write, after *)
(* a failure, a kill or a power loss, however runs overlap.                 *)
KeptRegions(n) ==
  CASE device.kind = "disk"  -> IF n = 1 THEN {"disk", "table"} ELSE Regions
    [] device.kind = "fat32" -> IF n = 1 THEN {"bpb", "ext"} ELSE IF n = 3 THEN {} ELSE Regions
    [] device.kind = "ntfs"  -> IF n = 1 THEN {"oem", "bpb"} ELSE IF n \in {3, 4} THEN {} ELSE Regions
FormatterKept ==
  \A n \in Numbers : \A r \in KeptRegions(n) :
    disk[n][r] = device.sectors[n][r] /\ media[n][r] = device.sectors[n][r]

(* What a run of v on the freshly formatted device writes.                  *)
Fresh(v) == Spliced(v, SubSeq(device.sectors, 1, Needs(v)))

(* A run that says "Wrote" on a device no other process has opened leaves   *)
(* there just what a run on the freshly formatted device leaves, whatever failed  *)
(* or was torn before: running it again repairs everything.                 *)
DoneMeansInstalled ==
  \A p \in Procs : (cli[p].pc = "done" /\ \A q \in Procs \ {p} : cli[q].pc = "idle") =>
    \A n \in 1..Len(Fresh(cli[p].variant).sectors) :
      n \in Numbers /\ disk[n] = Fresh(cli[p].variant).sectors[n]

(* Overlapping runs may leave stage 1 of one variant with stage 2 of the    *)
(* other, but never a sector that is neither's.                             *)
SectorsAreWhole ==
  \A n \in Numbers : \A s \in {disk[n], media[n]} :
    \/ s = device.sectors[n]
    \/ \E v \in Variants : /\ Node(v) = device.kind /\ Fresh(v).ok
                           /\ n \in DOMAIN Fresh(v).sectors
                           /\ s = Fresh(v).sectors[n]
=============================================================================
