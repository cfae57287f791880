# A TLA+ model of mkmsbr

mkmsbr writes Microsoft-compatible boot records: a Rust library and a command
line that build or splice the records, and the boot sectors themselves, in
16-bit assembly. This directory models both halves, and the build script that
brings the one into the other, checks them with TLC on small disks, and proves
with TLAPS, for every disk, volume and request of any size, that the boot records
load what they should, that an install keeps what the formatter wrote, and that a wipe spares the stick.

## The system

    library / CLI                        firmware
    build_mbr, splice_mbr ---> LBA 0 ---> mbr_win7 / mbr_xp
                                            | reads the active partition's first sector to 7C00, DL
    splice_*_pbr(_multi)  ---> partition    v
      sectors 0, (1 kept), 2.. ---------> PBR stage 1 -> stage 2 -> BOOTMGR / NTLDR
    build_xp_setup_chain_bootsect -> BOOTSECT.DAT, loaded by NTLDR -> $LDR$
    WIPE.DAT (blob, as it is), loaded by NTLDR

| component | state | operations | what makes it correct | what is hard |
|---|---|---|---|---|
| FAT32 PBR (`boot-asm/fat32_pbr_*`) | registers, scratch cells at 7B00, one sector buffer, ES, the memory at 2000:0 | probe fn 0x08, read stage 2, walk root, walk FAT, copy, jump | copies the loader's sectors in order, runs only the whole file, says '1' only when it is absent | geometry, 8/16/32-bit widths, fragmented chains, end marks, damaged volumes |
| MBR (`mbr_win7.asm`, `mbr_xp.asm`) | SI, DL, boot_drive, the sector at 7C00 | relocate, scan, read, check, jump | enters the active partition with the drive number | data under the sector that is loaded, firmware that changes DL, numbers that name another disk |
| Builders and splices (`src/mbr.rs`, `src/pbr.rs`) | none | build_mbr, splice_mbr, splice_fat32_pbr(_multi), splice_ntfs_pbr_multi | the formatter's fields survive, stage 2 lands where stage 1 reads it | field borders, u32 clamp |
| Command line (`src/bin/mkmsbr.rs`) | the bytes read, the position written | open, read_exact, splice, seek, write_all | nothing the formatter wrote is lost; a rerun repairs | failure or kill between sectors, caches, overlapping runs |
| XP setup chain (`src/pbr.rs`, `xp_setup_chain_bootsect.asm`) | run table, ES, LBA, counters | six checks, then read the runs and jump | the payload of a sound request is whole and in order; of the others an accepted one is lost just when its sectors overrun | zero counts, segment wrap, limits checked separately |
| NTFS PBR (`boot-asm/ntfs_pbr_bootmgr`) | MFT run table, one buffer, run list pointer, ES | read records through $MFT's pieces, put fixups back, scan the root's index, copy BOOTMGR's extents, jump | as FAT32: whole file, in order, the letter is the reason | buffer reuse, run table and cluster sizes, records across runs, names cut by a sector end |
| Wipe sector (`wipe_bootsect.asm`) | usb_drive, target_drive, LBA, CX | probe, ask, 2048 writes, reboot | never the boot drive, only what was shown, only after 'y', OK means all | target choice, partial wipes, drives numbered anew at each boot |
| Blobs, build script (`build.rs`, `src/blobs.rs`) | files, nasm, OUT_DIR, cargo's memory of what was named | assemble, or copy prebuilt, or write empty files; embed | every blob or none, none stale, one origin | edits while a build runs, failed builds, two feature sets, nasm coming and going |

A machine has one thread and INT 13h is synchronous, so the boot sectors have
no concurrency; what varies is the disk and the firmware. Concurrency is in the
command line (invocations overlap, are killed, and lose cached writes) and in the
build (a developer edits while cargo runs). Power is lost in `Install` and `Wipe`.

## Modules

| module | models | state and actions |
|---|---|---|
| `Chs` | the CHS conversion of every fn 0x02 boot sector, and the BIOS's inverse | pure operators: `Pack`, `Seek`, probe cells |
| `Loader` | abstract: copy one file in order, run it when whole, or stop | `Load`, `Run`, `Stop` |
| `Fat32Layout` | where a formatter puts the FAT and the clusters | pure operators |
| `Fat32Pbr` | the three FAT32 records (bootmgr, ntldr, and the one-sector fn 0x42 one) | one action per INT 13h call with the code up to the next: `ProbeAnswered/Fallback/Refused`, `ReadStage2`, `Setup`, `EnterDirCluster`, `ScanSector`, `NextDirCluster`, `EnterFileCluster`, `LoadSector`, `NextFileCluster`; `env` is the disk and firmware |
| `NtfsPbr` | the NTFS record, both stages | `ReadStage2`, `Setup`, `ReadMftRec` (find_run), `ReadRecord`, `ParseMft`, `ScanRoot`, `NextIndexRun`, `ReadBlock`, `ScanBlock`, `LoadFile`, `NextRun`, `LoadSector`; what the code interprets is what the volume has at the LBA read to BUF |
| `Mbr` | both MBRs | `StartWin7/Xp`, `Scan`, `RefuseGpt`, `ReadWin7/Xp`, `BadSignature`, `EnterWin7/Xp` |
| `BootChain` | `Mbr` and then `Fat32Pbr`, on one machine | the MBR's steps, then the record's; the record sees the drive that DL names when it is entered (`See`): the boot disk, under its own number or a second one, another disk, or none |
| `Splice` | the library's builders and splices | pure operators over sectors cut into regions at the source's copy borders |
| `Install` | the command line, the device, its cache | `Start`, `Read`, `MakeRecord`, `Write` (one sector), `Kill`, `WriteBack`, `PowerLoss` |
| `XpSetupChain` | the builder's checks and the boot sector | `Build`, `ProbeAnswered/Fallback`, `Setup`, `ReadSector`, `Jump` |
| `Wipe` | the wipe sector, the user, the machine's restarts | `Probe`, `Answer`, `Write` (one sector), `Reboot`, `PowerLoss`, `Start` |
| `BuildScript` | `build.rs`, `blobs.rs`, cargo and the developer | `Edit`, `ToggleNasm`, `Cargo`, `WriteEmpty`, `Assemble` (one nasm call), `CopyPrebuilt`, `Compile` |
| `ChsProofs`, `Fat32PbrProofs`, `BootChainProofs`, `XpSetupChainProofs`, `InstallProofs`, `WipeProofs`, `NtfsPbrProofs`, `CrateProofs` | proofs | see below |
| `Crate` | `BuildScript` and `Splice`: the library, called with the blobs that a developer's builds have left in the crate | properties of both |
| `MC*`, `Fat32Volumes` | instances for TLC | disks, volumes, requests, firmware, file lengths |

`Fat32Pbr` and `XpSetupChain` extend `Chs`; they, `NtfsPbr` and `BootChain`
instantiate `Loader`; `Mbr`, `Install` and `XpSetupChain` extend `Splice`;
`Crate` extends `Splice` and `BuildScript`; `BootChain` extends `Mbr` and instantiates `Fat32Pbr`.

What the models abstract: a sector is its LBA (boot sectors) or a function from
regions to owners (library); names are strings compared whole; a message is one
letter or one word. Memory is 512-byte blocks (`Fat32Pbr`) or 16-byte
paragraphs (`XpSetupChain`). Run lists, attributes and index entries of NTFS are
parsed values; an entry that a sector end cuts has two readings, with and without
its fixups. A blob is the pieces it was made of, each with the file's revision. Every sector a
boot sector stores is recorded where it goes, also above conventional memory
and, when ES wraps, over the interrupt table. After a store over the interrupt table,
the stack or the code, and after a jump to anything that is not the intended code,
the boot is `"wild"` and does no further step: what runs then is not in the
source. `NtfsPbr` does not record what a cluster that is larger than BUF, or a
run list longer than the table, is written over, and takes such a boot for lost. A division by zero leads to `"fault"`. DL is
followed through the MBR, where it can be lost, and into the FAT32 record by
`BootChain`; the partition records store it once and load it before each call. A20 is
masked, as at boot, so addresses wrap at the megabyte. Transfers that cross a
64 KiB physical boundary are taken to work; firmware that refuses one is a drive
that is not reliable.

## Runs

Bounds are small where numbers only have to be told apart, and the source's own
where a limit is the question (`MCXp*` use the real segments, caps and CX).

| run | shows | size and bounds |
|---|---|---|
| `fat32_boot` | on sound volumes: image in order, only whole files run, no faults, '1' only when absent, every boot ends and boots when it can, implements `Loader`; and, as an assumption TLC evaluates, that the CHS packing follows an odometer over five geometries and every carry | root and file chains of up to 3 clusters, fragmented and backwards, 1 or 2 sectors per cluster, 1 or 2 FATs, 4 FAT entries per sector so chains cross FAT sectors, EntMod 64 for 2^28 |
| `fat32_damaged` | broken and cyclic chains, no stage 2, wrong geometries, short drives, and a BPB with no FATs, no sectors per cluster, or a `BPB_BytsPerSec` that is 0, half, twice or odd: a copy that does not end fills all memory from the load address up and is lost when it wraps over the interrupt table (`RunawayHitsInterruptTable`); divisions fault only on a zero that fn 0x08 or `BPB_BytsPerSec` supplies; a boot ends unless the root directory circles without an end mark | 23 environments; an entry that lies across two others or behind the buffer has any of three values |
| `ntfs_boot` | image in order, the letter is the reason on sound volumes, every boot ends and boots when it can, implements `Loader` on all of them | $MFT in two pieces, the second before the first; records of one and two sectors and of one cluster; BOOTMGR in three extents with negative deltas; small and large roots, a hit in the third index cluster, interior entries; 13 volumes the code refuses or loses itself on; `BufSectors` 3 for 13; `TableRuns` 3 for 25: the table has room for 28 entries below 7C00h, but the stack begins there, and `read_mft_rec` and `apply_fixups` take 22 bytes of it (`pusha` among them), which are the last three entries; an INT 13h handler that takes more spares fewer |
| `boot_chain` | enters only the marked boot sector of the first active entry; the message is the reason, or garbled where the code has lost it; a drive number that is nobody's stops the boot before memory changes, one of a disk without a stage 2 loads nothing, and a changed number is the only cause of 'G' and 'R' on a drive that works; ends, and boots when it can, under a second number of the disk too; as long as no other disk is walked, both records together implement `Loader` | 8 tables x boot sector marked or not x firmware that keeps DL or not x 8 volumes (three records, with and without the loader, or formatted for the start of the disk) x drives that answer fn 0x08, refuse it, fail x what the byte at A6h or a cleared DL names: no drive, an empty disk, a disk with an NTLDR of its own, or the boot disk once more as a USB-FDD that refuses fn 0x08 |
| `install` | the formatter's fields and the rest of the device survive everything; no sector is a mixture; a finished run leaves what a first run leaves | 2 processes, 3 runs in all, overlapping or one after another (torn, torn again, repaired); devices of 1 to 5 sectors, cached or not, blobs embedded or not; the processes are symmetric; a variant is run only on its own kind of node, a disk or a partition. The program does not look (`mkmsbr.rs:79-111`): a partition's record on a whole disk takes the partition table with it, which is outside the model, as is a reserved area of fewer sectors than the record has (`BPB_RsvdSecCnt` is not read either, and the FAT would be written over) |
| `xp_setup` | whole and fragmented files at segments 0x50, 0x2000, 0x9000; every refusal; the 16-run and 1024-sector limits themselves; files up to the edges and one sector past them: 59 and 60 sectors at 0x50 (7B00h), 128 and 129 (A000h), 896, 897 and 1024 at 0x9000 (the megabyte), and runs of no sectors. A sound request implements `Loader`; any request is lost just when its sectors overrun (`LostJustWhenItOverruns`) | real constants; `Word` is 10^6 because TLC's integers have 32 bits and no LBA here comes near it |
| `wipe` | the boot drive is never written; only the drive shown is, after y; from its start without a gap; OK means all of it; a confirmed wipe of a drive that works ends in OK unless the power goes | 3 boots of a machine with 2 or 3 drives that are numbered differently from boot to boot; a stick that is 80h, 81h, 82h or a floppy, a DL that is nobody's or the disk's; drives that are short, unreliable, old; 4 sectors for 2048 |
| `crate` | embedded() speaks for all blobs; a blob is made of all its sources or is the prebuilt file, as they were when the build began or later, and of the sources if nasm and they were there from the start; assembled and prebuilt blobs are mixed only if a source was missing; and what the library makes of such blobs: partition inside the disk, build and splice commute, both multi-sector splices accept what `build_multi` makes, and sector i of stage 2 lands at LBA first + i, first being the sectors of stage 1 | two single-sector blobs for five, one multi-sector blob for three, 2 edits at any moment, any number of builds with and without the feature; blobs of every accepted and refused length, disks round both limits |
| `mbr_xp_drive`, `fat32_past_18mb`, `xp_zero_count`, `ntfs_index_runs` | violations, below | one environment each |

Two edits are enough for `crate`: a stale crate needs a change during a build and
one more (a second file, nasm, or a restored file) to hide it. Three boots are
enough for `wipe`: one that is cut short, one that goes on with other numbers,
one that finishes.

Fairness: weak fairness of the whole next-state relation in the boot sectors.
The CPU always goes on and an INT 13h call returns, so a boot that can take a
step takes one. In `Wipe` it is on the code's steps and the user's key, not on
`Start` (nobody must start the machine again) nor on `PowerLoss`; a user who is
asked presses some key at last, which is the most the code can count on.
`Install` and `BuildScript` claim nothing that needs fairness: a process may be
killed at any time, and nobody has to build. `CHECK_DEADLOCK FALSE` where boots
end and runs are used up; `crate` checks deadlock, since cargo can always be
called.

Hazards that shape the environments. Firmware that clears DL in INT 13h
defeats `mbr_win7`, which keeps the drive there: the record is then entered with 0.
`BootsWhenItCan` promises the firmware's DL only where INT 13h keeps it (`keepsDl`),
as the source's comment does. An active entry at LBA 0 is exempt from it: the MBR
may start itself for ever. `StickKept` is for machines
on which DL is the boot drive's (`AllHonest`): after `mbr_xp` it may not be, and
the sector cannot know. `BootsWhenItCan` and `SaysWhy` of `NtfsPbr` are for
`Sound` volumes: one run of index clusters no larger than BUF, $MFT in as many
pieces as the table holds, no record that straddles two of them, one record per
file, no run or extent longer than the 65536 sectors or clusters CX can count,
and a large root only if it has BOOTMGR (else the code goes on with what lies
where the run list was, see 4 below).

## Disagreements between the code and what is said of it

With a run that ends in the violation:

1. `mbr_xp_drive` (`boot-asm/mbr_xp.asm:105`): the data keeps its addresses at
   7C00 after the code has moved to 0600, so `boot_drive` is overwritten by the
   boot sector just read, and DL is a byte of it: 0x0F with the FAT32 BOOTMGR
   record, 0 with the NTLDR one. Line 23 promises DL unchanged. The drive 0x0F that
   `docs/L4_INVESTIGATION.md:36-37` puts down to the BIOS has this value, and in
   `boot_chain` it ends in the 'G' that is reported there. What such a number names
   is the firmware's affair: with the fallback the Dell loads NTLDR through it
   (`docs/L4_INVESTIGATION.md:75-80`, `fat32_pbr_ntldr/sector0.asm:62-69`), which is the
   machine of `boot_chain` whose 0, 0x0F and 0x66 are the boot disk again.
2. `fat32_past_18mb`: with the fallback geometry, ten cylinder bits reach 18 MB,
   and clusters beyond come from the start of the disk without an error.
3. `xp_zero_count`: a run of 0 sectors is accepted and read as 65536.
4. `ntfs_index_runs` (`boot-asm/ntfs_pbr_bootmgr/sector1.asm:275`): after the
   first run of $INDEX_ALLOCATION the pointer to the rest of the run list points
   into the buffer the clusters were read to, and BOOTMGR in the second run is
   "not in INDX". Lines 24-26 promise every run.

Seen while modelling, or in the models, without a run of their own:

* the bootmgr record halts with 'G' when fn 0x08 is refused
  (`fat32_pbr_bootmgr/sector0.asm:67`), where `docs/L4_INVESTIGATION.md:75-76`,
  `README.md:259` and `CHANGELOG.md:102-104` say it falls back;
* segment and size of an XP setup request are checked apart
  (`src/pbr.rs:119`), so the range does not keep what its error text and the comments
  say it keeps ("too high: wraps real-mode address space", `src/pbr.rs:41-45`, and
  74-76, 163-165): 0x9000 with 897 sectors or more wraps to the interrupt table, 0x50
  with 60 runs over the code at 7C00h, and both are accepted. `xp_setup` has them,
  and `LostJustWhenItOverruns` says of every request whether that is its fate. A
  payload past A000h is accepted too, and jumped to with a part of it in no memory;
* "Bad boot signature" of `mbr_xp.asm` is garbled for the same reason as 1
  (`SaysWhy` of `Mbr` says when);
* 256 heads are stored in a byte as 0 and the conversion divides by it
  (`FaultsOnlyOnZeros`);
* the FAT32 root scan follows a volume label or a directory that has the
  loader's name (`Labelled` in `MCFat32Damaged`);
* `src/blobs.rs:68-70` says that the wipe sector zeroes BIOS drive 0x81; it
  zeroes the number in DL xor 1, which is 0x80 when the stick is 0x81;
* `src/lib.rs:4-7` says `splice_fat32_pbr` keeps bytes 3..89; it writes MSWIN4.1
  to bytes 3..10, as its own comment explains;
* a build without nasm names only the prebuilt files to cargo
  (`build.rs:128`), so installing nasm and editing a source does not run the
  script again, though `README.md:184-187` says the edits are picked up.
  `UpToDate` states what holds instead: a blob that was copied stays the prebuilt file,
  and an edit arrives for whoever has had nasm and all sources from the start;
* the list of blobs in `blobs-prebuilt/README.md` leaves out `wipe_bootsect.bin`,
  and the length of a single-sector blob is never checked by `build.rs`.

## Proofs

* `ChsProofs!ChsRoundTrip`: for every geometry that fits its cells and every
  LBA in reach, `Seek(Pack(lba))` is that LBA. By the uniqueness of quotient and
  remainder, and the two cylinder bits in CL put back above CH.
* `Fat32PbrProofs`: under `SoundEnvironments` (a formatter's layout, chains the
  FAT threads, a directory that agrees with the files, a BIOS whose reported
  geometry is its own, a file that fits below `RamTop`) and `LayoutAssumption`,
  `Spec` implies always: `TypeOK`, `ImageIsPrefix`, `RunsWholeFile`, `NeverLost`,
  `NotFoundMeansAbsent`.
  None of these is inductive. `IInv` adds, per label, where the walk stands:
  which cluster of the chain EAX is, that `readLba` is the sector of the chain
  the counters say, that CX is what is left of the cluster, and that ES is the
  load block plus the sectors before it. The steps show that each action moves
  this position by one; two lemmas carry the arithmetic (a sector of a chain is
  in reach, hence read as itself; an entry of the FAT leads to the next cluster).
  `ImplementsLoader`: `Spec => LoaderSpec`; each action is `Load`, `Run`, `Stop`
  or a stutter of `Loader`, by the same invariant.
  Two theorems hold on any volume and drive, damaged or not: `RunawayIsLost` (its
  invariant `Climbing`: ES only rises, the blocks from the load address to it are
  the ones stored to, and over the top comes block 0, which is the interrupt table,
  `0 \in Resident`, so that the boot is lost there) and, if the firmware answers in
  bytes, `FaultsAreZeros`.
* `BootChainProofs`, on the MBRs alone: `EntersActive` and `SaysWhy`, on every machine; all that is assumed
  (`MachinesAssumption`) is that no partition begins with a copy of LBA 0. `IInv`
  adds that the entries before SI are not active (`Scanned`), that what is at 7C00
  after the read is the first sector of entry SI's partition (`Loaded`), and that
  until then the drive number and the code's own copy are where they were
  (`Intact`): this is what fails in `mbr_xp` once the read is done.
* `BootChainProofs`, on a whole boot: on `SoundMachines` (a FAT32 boot sector lies where its BPB says
  just if its stage 2 does too, and then volume and firmware are as for
  `Fat32PbrProofs`, through each number that names the boot disk; of other disks
  nothing is assumed but that no FAT32 boot record lies at their LBA 0),
  `LostDriveLoadsNothing` and `ChainLoaderSpec`; on every machine,
  `EntersActive` and `SaysWhy` still. The proof instantiates `Fat32PbrProofs` for
  the boots in which DL is a number of the boot disk, and reuses its invariant and
  its steps there; a record that was handed the number of no drive (`Lost`) or of
  one without a stage 2 (`Strayed`) is shown to leave memory alone. A record that
  was handed another disk's number (`Foreign`) has stopped as far as its caller's
  `Loader` goes: it may run what that disk has.
* `XpSetupChainProofs`: under `ChainAssumption` and `RequestsAssumption` alone
  (numbers of their widths): `TypeOK` and `LostExactly`, of every request, and
  `ImageIsPrefix` and the refinement of `Loader` of those that are `Sound` (the runs
  describe the file, which lies in reach and fits). `IInv` adds which sector of
  which run is next, and that none of those before it overran (`After`), and, of a
  sound request, that memory holds just the first n sectors of the file (`Holds`).
* `InstallProofs`: `TypeOK`, `FormatterKept`, `SectorsAreWhole`, `DoneMeansInstalled`,
  for any number of processes and runs, devices of any length and every build; the
  assumptions only say that blobs and devices are sequences of sectors and that a
  blob is no longer than its stages. `IInv` says that every sector on the disk and on
  the media is the formatter's or a whole one of some variant's first run (`Whole`),
  that what an invocation has read is such sectors and what it will write is what
  a first run writes (`Invocation`), and how far a lone writer has come (`Written`).
  What carries it is `SpliceFacts`: a splice depends only on what it keeps, so
  splicing a torn or foreign record gives what splicing the formatter's gives.
* `WipeProofs`: under `WipeAssumption` and `MachinesAssumption` (in one start a
  number names one drive and a drive has one number at most), for any number of
  drives, sectors and starts: `StickKept`, `PrefixZeroed`, `OkMeansErased`,
  `OnlyWhatWasShown`. Alone they are not inductive: `IInv` adds that the target
  is DL xor 1 (`Numbered`), that in the loop the LBA and CX add up to the whole
  and every sector below the LBA is gone (`Looping`), and that no message is on
  the screen before the end (`Saying`). One lemma shows that n xor 1 is not n,
  so the target's drive is not the stick when numbers name distinct drives;
  another that the next sector of a drive already cut short keeps a prefix.

* `NtfsPbrProofs`: for every volume that is `Sound`, whatever its size, the pieces
  of $MFT, the clusters of the root's index and the extents of BOOTMGR:
  `TypeOK`, `ImageIsPrefix`, `SaysWhy` and `ImplementsLoader`. Nothing is assumed of
  `Environments`; `NtfsAssumption` says that BUF is no larger than what CX counts
  and that the load area is free. The invariant follows the code through its
  three loops: the record in BUF begins where `read_mft_rec` was asked to look
  (`RecordRead`), the index is one run of which no block before EBP has BOOTMGR
  (`IndexScan`), and ES is the load block plus all sectors of the extents before
  BX and those of this one that CX has done (`FileCopy`). `SaysWhy` needs the
  second: an 'F' is honest only if every block was looked at. `RunFacts` and
  `AbsoluteRuns` carry the rest: a run list's deltas add up to clusters that lie
  inside the volume, so no 32-bit sum wraps, and `Finds`: the table of those runs
  leads any record of $MFT to its first sector, also by the one run the code
  makes up before it has read $MFT's own. The two functions that the model
  defines by recursion (`Offsets` and the LCNs of a run list) are identified by
  exhibiting a function on the same domain that obeys their equation (`Agree`).

* `CrateProofs`: the six properties of `crate`, for any number of blobs, files,
  edits, builds and disks. `NeverStale` (`UpToDate`) and `NeverMixed` (`OneOrigin`)
  need only `BuildAssumption`: there are blobs, each of one source or two, and a
  file is there with some length or is not. `IInv` says of each feature set that,
  unless its script is running, every piece in OUT_DIR is as its file is now or
  cargo knows that the file has changed, and cargo was told of that file
  (`Settled`, `Noticed`); of a running script that this is so of the blobs it has
  done, and that what it has read is no older than the build (`Fresh`); and that
  nasm decided how each blob was made as long as no source was missing (`SameWay`:
  any two such blobs alike, and from the sources if nasm never went). An edit
  keeps `Fresh` because it is later than the build, and `Noticed` because cargo
  sees it: the two cases in which a crate could go stale.
  `AllOrNone` (`EmbeddedTellsAll`), `PartitionFits`, `Interchangeable` and
  `MultiFits` also use `PaddedAssumption`: no file that becomes a blob is empty,
  and `mbr_xp`'s is no shorter than the boot code. `MultiFits` leaves the length of
  stage 1 open: `build.rs:112` accepts one of two sectors, and stage 2 then lies a
  sector behind where stage 1 reads it; the sources in `boot-asm` pad themselves to one. `build.rs` asks this only of a
  multi-sector blob's sources; the single-sector ones pad themselves to 512 bytes
  or do not assemble, so it is a property of the sources and not of the script.
  The fold that adds up a blob of one or two pieces is identified, as in
  `NtfsPbrProofs`, by a function that obeys its equation.

Only model-checked: all liveness (fairness is outside the prover's reach), the
behaviour on damaged FAT32 volumes apart from the two theorems above, and
`TypeOK`, `ImageIsPrefix` and `Loader` on NTFS volumes the code refuses or loses
itself on.

## Plan

Every part of the program is modelled, and every invariant that a run checks is
a theorem, of sound environments where it is one of those. What a next step could
prove is that `Loader` is implemented on the NTFS volumes that are not `Sound` but on which no record
but BOOTMGR's is taken for it (`ntfs_boot` checks 13 of them).

## Not modelled

The test doubles (`fake_pbr.asm`, `fake_bootmgr.asm`), the scripts and tests (they
drive QEMU and ms-sys), `docs/XP_INT13_DRIVE_SWAP_SPEC.md` (nothing implements
it), the wording of messages, and byte patterns that only BIOS heuristics read.
The level below parsed NTFS values: sequence numbers of file references, the
sentinel of a fixup (the code checks neither), index blocks that $BITMAP has
freed, a record across two pieces of $MFT, a $DATA split over $ATTRIBUTE_LIST,
sparse and compressed runs, names in another case.
