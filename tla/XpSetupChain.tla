---------------------------- MODULE XpSetupChain ----------------------------
(* BOOTSECT.DAT of XP Setup: build_xp_setup_chain_bootsect of src/pbr.rs    *)
(* builds it from the extents of $LDR$, NTLDR loads it to 0000:7C00, and    *)
(* boot-asm/xp_setup_chain_bootsect.asm reads the extents to                *)
(* target_segment:0000 and jumps there.                                     *)
(*                                                                          *)
(* One action per INT 13h call, with the code up to the next call.  A       *)
(* segment is a number of 16-byte paragraphs; a sector fills 32 of them.    *)
EXTENDS Chs, Splice

CONSTANTS
  Requests,     \* what the caller passes, and the disk it is booted from
  Word,         \* 2^32: LBA arithmetic is done in 32-bit registers
  CountRange,   \* 65536: CX
  Segments,     \* 65536: ES, and the megabyte above which addresses wrap
  Step,         \* paragraphs of a sector, 0x20
  RamTop,       \* first paragraph above conventional memory, 0xA000
  Resident,     \* paragraphs of the IVT, the stack and this boot sector
  MaxRuns,      \* MAX_SETUP_CHAIN_RUNS, 16
  MaxSectors,   \* MAX_SETUP_CHAIN_SECTORS, 1024
  MinTargetSeg, MaxTargetSeg     \* 0x0050, 0x9000

ASSUME ChainAssumption ==
  /\ Word \in Nat \ {0} /\ CountRange \in Nat \ {0} /\ Step \in Nat \ {0}
  /\ Segments \in Nat /\ RamTop \in Nat /\ RamTop < Segments
  /\ Resident \subseteq 0..(Segments - 1)
  /\ MaxRuns \in Nat /\ MaxSectors \in Nat
  /\ MinTargetSeg \in Nat /\ MaxTargetSeg \in Nat

(* "loop" counts a zero as the full range of CX. *)
Iterations(n) == IF n = 0 THEN CountRange ELSE n

(* LbaRun holds unsigned numbers of their widths, the BIOS answers in       *)
(* bytes, and a file is a list of sectors.  at[i] sectors are read before   *)
(* run i, and at[Len(runs) + 1] in all.                                     *)
ASSUME RequestsAssumption ==
  \A r \in Requests :
    /\ r.runs \in Seq([start : Nat, count : 0..(CountRange - 1)])
    /\ r.segment \in 0..(Segments - 1) /\ r.hidd \in Nat /\ r.file \in Seq(Nat)
    /\ r.bios.probe => r.bios.cl \in 0..255 /\ r.bios.dh \in 0..255
    /\ r.at \in [1..(Len(r.runs) + 1) -> Nat] /\ r.at[1] = 0
    /\ \A i \in 1..Len(r.runs) :
         /\ r.at[i + 1] = r.at[i] + Iterations(r.runs[i].count)
         /\ r.at[i + 1] <= r.at[Len(r.runs) + 1]

VARIABLES
  req,       \* [template, marked, segment, runs, hidd, file, at, bios]
  pc,        \* where the code is
  err,       \* the error returned, or the letter printed
  spt, heads,    \* GEOM_SPT, GEOM_HEADS
  run,       \* index of the LbaRun at SI
  absLba,    \* ABS_LBA
  left,      \* CX: sectors left in the run
  es,        \* destination segment
  mem        \* segment -> the LBA of the sector stored there
vars == <<req, pc, err, spt, heads, run, absLba, left, es, mem>>

bios == req.bios
runs == req.runs

(* The sum of the sector counts. *)
TotalSectors(list) ==
  LET upto[i \in 0..Len(list)] == IF i = 0 THEN 0 ELSE upto[i - 1] + list[i].count
  IN  upto[Len(list)]

(***************************** the builder ******************************)
(* The checks, in their order.  What is built has the template's code, the  *)
(* formatter's BPB (hidd is in it), the segment and the table of runs.      *)
ChecksOf(r, least, most, sectors) ==
  << <<r.template.len = 0, "NotEmbedded">>,
     <<Len(r.runs) < least, "EmptyRuns">>,
     <<Len(r.runs) > most, "TooManyRuns">>,
     <<TotalSectors(r.runs) > sectors, "TooManySectors">>,
     <<~r.marked, "MissingBootSignature">>,
     <<r.segment < MinTargetSeg \/ r.segment > MaxTargetSeg, "BadTargetSegment">> >>
MutChecksEmpty(r) == ChecksOf(r, 0, MaxRuns, MaxSectors)
MutChecksRuns(r) == ChecksOf(r, 1, MaxRuns + 1, MaxSectors)
MutChecksTotal(r) == ChecksOf(r, 1, MaxRuns, MaxSectors - 1)
Checks(r) == ChecksOf(r, 1, MaxRuns, MaxSectors)
Accepts(r) == Verdict(Checks(r), <<>>).ok

Init ==
  /\ req \in Requests
  /\ pc = "build" /\ err = "none"
  /\ spt = 0 /\ heads = 0
  /\ run = 1 /\ absLba = 0 /\ left = 0 /\ es = 0
  /\ mem = [s \in {} |-> NoSector]

KeepLoop == UNCHANGED <<run, absLba, left, es, mem>>
Goto(label) == pc' = label /\ UNCHANGED err

Build ==
  /\ pc = "build"
  /\ LET result == Verdict(Checks(req), <<>>)
     IN  IF result.ok THEN Goto("probe")
         ELSE pc' = "refused" /\ err' = result.error
  /\ UNCHANGED <<spt, heads>>
  /\ KeepLoop

(***************************** the boot sector **************************)
(* fn 0x08, or the USB-FDD profile when it is refused. *)
ProbeAnswered ==
  /\ pc = "probe" /\ bios.probe
  /\ spt' = ProbedSpt(bios.cl) /\ heads' = ProbedHeads(bios.dh)
  /\ Goto("setup")
  /\ KeepLoop
ProbeFallback ==
  /\ pc = "probe" /\ ~bios.probe
  /\ spt' = 18 /\ heads' = 2
  /\ Goto("setup")
  /\ KeepLoop

(* .next_run, or .all_done when the last one has been read. *)
MutAbsolute(i) == runs[i].start % Word
Absolute(i) == (runs[i].start + req.hidd) % Word
EnterRun(i) ==
  /\ run' = i
  /\ IF i <= Len(runs)
     THEN /\ absLba' = Absolute(i)
          /\ left' = Iterations(runs[i].count)
          /\ Goto("read")
     ELSE Goto("allDone") /\ UNCHANGED <<absLba, left>>

(* .geom_done: the target segment and the first run. *)
Setup ==
  /\ pc = "setup"
  /\ es' = req.segment
  /\ EnterRun(1)
  /\ UNCHANGED <<spt, heads, mem>>

Accessed(l) == Seek(Pack(l, spt, heads), bios.spt, bios.heads)
Reads(l) == Accessed(l) \in 0..(bios.sectors - 1)
Fails(l) == ~bios.reliable \/ ~Reads(l)

(* The sector at ES covers paragraphs in use, and what it leaves in memory. *)
(* A20 is masked, as at boot: the paragraph above the last one is 0.        *)
Hits(s) == \E k \in 0..(Step - 1) : (s + k) % Segments \in Resident
Stored(s, lba) == [x \in DOMAIN mem \cup {s} |-> IF x = s THEN lba ELSE mem[x]]
MutNextSegment(s) == (s + Step \div 2) % Segments
NextSegment(s) == (s + Step) % Segments

(* 'B', the status, and the end. *)
Halt == pc' = "halted" /\ err' = "B"

(* .read_loop: one sector to ES:0000, whatever is there.  Once the IVT, the *)
(* stack or the code itself is overwritten, what runs next is unknown.      *)
Advance ==
  /\ es' = NextSegment(es)
  /\ IF left > 1
     THEN /\ absLba' = (absLba + 1) % Word
          /\ left' = left - 1
          /\ Goto("read") /\ UNCHANGED run
     ELSE EnterRun(run + 1)

ReadSector ==
  /\ pc = "read"
  /\ \/ /\ ~Divides(spt, heads)
        /\ Goto("fault")
        /\ KeepLoop
     \/ /\ Divides(spt, heads) /\ Fails(absLba)
        /\ Halt
        /\ KeepLoop
     \/ /\ Divides(spt, heads) /\ Reads(absLba)
        /\ mem' = Stored(es, Accessed(absLba))
        /\ \/ /\ Hits(es)
              /\ Goto("wild") /\ UNCHANGED <<run, absLba, left, es>>
           \/ ~Hits(es) /\ Advance
  /\ UNCHANGED <<spt, heads>>

(* .all_done: the far jump to target_segment:0000. *)
Jump ==
  /\ pc = "allDone"
  /\ Goto("jumped")
  /\ UNCHANGED <<spt, heads>>
  /\ KeepLoop

Next == (Build \/ ProbeAnswered \/ ProbeFallback \/ Setup \/ ReadSector \/ Jump) /\ UNCHANGED req

(* Nothing else runs on the machine. *)
Spec == Init /\ [][Next]_vars
FairSpec == Spec /\ WF_vars(Next)

(************************** sound requests ******************************)
(* The runs are the file, cut into pieces: run i holds the sectors after    *)
(* the first at[i].  file is in absolute LBAs, runs in partition-relative.  *)
Describes(r) ==
  /\ r.at[Len(r.runs) + 1] = Len(r.file)
  /\ \A i \in 1..Len(r.runs) :
       /\ r.runs[i].count >= 1
       /\ \A k \in 1..r.runs[i].count :
            r.file[r.at[i] + k] = r.hidd + r.runs[i].start + k - 1

(* The file fits between its segment and the end of conventional memory,    *)
(* which the library does not check.                                        *)
FitsMemory(r) ==
  /\ r.segment + Step * Len(r.file) <= RamTop
  /\ \A p \in Resident : p < r.segment \/ p >= r.segment + Step * Len(r.file)

(* The geometry the code will use is the BIOS's, and reaches the file.      *)
DriveOK(r) ==
  /\ Fits(r.bios.spt, r.bios.heads)
  /\ IF r.bios.probe
     THEN r.bios.cl % 64 = r.bios.spt /\ r.bios.dh = r.bios.heads - 1
     ELSE r.bios.spt = 18 /\ r.bios.heads = 2
  /\ \A n \in 1..Len(r.file) :
       /\ r.file[n] < r.bios.sectors /\ r.file[n] < Word
       /\ r.file[n] < Reach(r.bios.spt, r.bios.heads)

Sound(r) == Describes(r) /\ FitsMemory(r) /\ DriveOK(r)

(* The sectors the runs ask for, where each of them goes, and whether one   *)
(* of them lands on what the code needs to go on.                           *)
Needed(r) == r.at[Len(r.runs) + 1]
SegAt(r, n) == (r.segment + Step * n) % Segments
Overruns(r) == \E n \in 0..(Needed(r) - 1) : Hits(SegAt(r, n))

(***************************** properties *******************************)
Copied == IF pc \in {"build", "refused", "probe", "setup"} THEN 0
          ELSE (es - req.segment) \div Step
Image == [n \in 1..Copied |-> mem[req.segment + Step * (n - 1)]]
Errors == {"none", "B", "NotEmbedded", "EmptyRuns", "TooManyRuns", "TooManySectors",
           "MissingBootSignature", "BadTargetSegment"}

(* Every register holds a value of its width; the runs fit the table.       *)
TypeOK ==
  /\ req \in Requests
  /\ pc \in {"build", "refused", "probe", "setup", "read", "allDone",
            "jumped", "halted", "fault", "wild"}
  /\ err \in Errors
  /\ spt \in Nat /\ spt <= 63 /\ heads \in Nat /\ heads <= 255
  /\ run \in Nat /\ 1 <= run /\ run <= Len(runs) + 1
  /\ absLba \in Nat /\ absLba < Word
  /\ left \in Nat /\ left <= CountRange
  /\ es \in Nat /\ es < Segments
  /\ pc \in {"build", "refused"} \/ Len(runs) <= MaxRuns

(* Of a sound request, whatever has been copied so far is the beginning of  *)
(* $LDR$, across the ends of its runs, and nothing else in memory has been  *)
(* touched.                                                                 *)
ImageIsPrefix ==
  Sound(req) =>
    /\ Copied <= Len(req.file)
    /\ DOMAIN mem = {req.segment + Step * (n - 1) : n \in 1..Copied}
    /\ \A n \in 1..Copied : mem[req.segment + Step * (n - 1)] = req.file[n]

(* What becomes of any request the library accepts: build checks the        *)
(* segment and the number of sectors, never the two together, so the loop   *)
(* can run through 7B00h..7DFFh or wrap to the interrupt table.  It is lost *)
(* only if its sectors overrun, it jumps only if they do not, it divides by *)
(* zero only on a geometry reported with a zero, and everything else ends   *)
(* in an error or in 'B'.                                                   *)
LostJustWhenItOverruns ==
  /\ pc = "wild" => Overruns(req)
  /\ pc = "jumped" => ~Overruns(req)
  /\ pc = "fault" => bios.probe /\ (bios.cl % 64 = 0 \/ bios.dh = 255)
  /\ (pc \in {"halted", "refused"} <=> err # "none")

(* Every boot ends.  One from a drive that reads the file ends in it when   *)
(* the limits of the library admit it and it does not overrun: also when    *)
(* part of it went to A000h and up, where there is no memory to keep it.    *)
Ended == pc \in {"refused", "jumped", "halted", "fault", "wild"}
Admitted(r) ==
  /\ r.template.len # 0 /\ r.marked /\ r.file # <<>> /\ Len(r.runs) <= MaxRuns
  /\ Len(r.file) <= MaxSectors /\ r.segment \in MinTargetSeg..MaxTargetSeg
Boots(r) == Admitted(r) /\ Describes(r) /\ DriveOK(r) /\ r.bios.reliable /\ ~Overruns(r)
BootsWhenItCan == <>(Ended /\ (Boots(req) => pc = "jumped"))

(* pbr.rs: MAX_SETUP_CHAIN_SECTORS is the most the loader will read.        *)
ReadsAtMostTheCap == Copied <= MaxSectors

(* On sound requests the boot sector implements the abstract loader: it     *)
(* jumps only when the whole file is there, at the segment the jump goes    *)
(* to.  Any other request promises its caller nothing.                      *)
Status == CASE ~Sound(req) -> "loading"
            [] Sound(req) /\ pc = "jumped" -> "running"
            [] Sound(req) /\ pc \in {"refused", "halted", "fault", "wild"} -> "stopped"
            [] OTHER -> "loading"
L == INSTANCE Loader WITH
       file <- IF Sound(req) THEN req.file ELSE <<>>,
       loaded <- IF Sound(req) THEN Image ELSE <<>>,
       status <- Status
LoaderSpec == L!Spec
=============================================================================
