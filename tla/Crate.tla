-------------------------------- MODULE Crate --------------------------------
(* The crate as a developer's builds make it (BuildScript), and its library *)
(* called with the blobs that it then has (Splice).                         *)
EXTENDS BuildScript, Splice

CONSTANT Disks    \* disk sizes, in sectors

(* The multiple that build.rs asks of a stage is a sector; u64 disks.       *)
ASSUME CrateAssumption ==
  /\ Multiple = SectorSize /\ Disks \subseteq Nat
  /\ {"mbr_win7", "multi"} \subseteq Names /\ Parts["multi"] = 2

(* No file that may become a blob is empty, and mbr_xp's is at least an     *)
(* MBR's boot code: every source pads itself to a sector, or does not       *)
(* assemble.  build.rs does not ask this of a single-sector blob.           *)
ASSUME PaddedAssumption ==
  /\ \A f \in Files : f[2] = 0 \/ Parts[f[1]] = 1 => 0 \notin Lengths(f)
  /\ \A f \in Sources("mbr_xp") \cup {Prebuilt("mbr_xp")} :
       \A len \in Lengths(f) : len \in Nat => len >= CodeSize

(* The bytes of a blob: the sectors of its pieces, one piece after another. *)
Made(by) == [r \in Regions |-> <<by>>]
Cut(piece) == [i \in 1..((piece.len + SectorSize - 1) \div SectorSize) |-> Made(<<piece, i>>)]
Blob(b) == Bytes(Length(b), FoldLeft(LAMBDA sectors, piece : sectors \o Cut(piece), <<>>, lib[b]))
mbr_xp(disk) == BuildMbr(Blob("mbr_xp"), disk)
mbr_win7(disk) == BuildMbr(Blob("mbr_win7"), disk)
Reserved == Bytes(2 * SectorSize, <<Made("format"), Made("fsinfo")>>)

Built == pc = "done"

(* embedded() looks at one blob and speaks for all: with the feature none   *)
(* is empty, without it all are, whatever has been built before.            *)
EmbeddedTellsAll ==
  Built => \A b \in Names : embedded <=> Length(b) # 0

(* Nothing shows that nasm was ever missing, or a source of the blob: one   *)
(* that no edit removes, or one that is there as it was checked out.        *)
NasmStayed == nasm.on /\ nasm.rev = 0
SourcesStayed(b) ==
  \A f \in Sources(b) : Absent \notin Lengths(f) \/ (Exists(f) /\ file[f].rev = 0)

(* A blob is made of all its sources or is the prebuilt file, and whatever  *)
(* it is made of is in the crate as it is now, unless it has changed since  *)
(* the build began: also when it was edited while an earlier build ran,     *)
(* before one that failed, or with the other feature set in between.  A     *)
(* copy of the prebuilt file stays one however its sources are edited, also *)
(* after nasm has been installed, because the script did not name them;     *)
(* whoever has had nasm and the sources from the start always gets them.    *)
UpToDate ==
  (Built /\ embed) => \A b \in Names :
    /\ \A i \in DOMAIN lib[b] :
         LET piece == lib[b][i]
         IN  file[piece.file].rev <= since => piece = Piece(piece.file)
    /\ \/ Len(lib[b]) = Parts[b] /\ \A i \in 1..Parts[b] : lib[b][i].file = <<b, i>>
       \/ Len(lib[b]) = 1 /\ lib[b][1].file = Prebuilt(b)
    /\ NasmStayed /\ SourcesStayed(b) => Assembled(b)

(* nasm is looked for once: assembled and prebuilt blobs are together in a  *)
(* crate only if a source of one of them was missing.  Here that may be so  *)
(* of any source that is gone, or was edited and is one that edits remove.  *)
OneOrigin ==
  Built => \A a, b \in Names :
    (SourcesStayed(a) /\ SourcesStayed(b) /\ lib[a] # <<>> /\ lib[b] # <<>>) =>
      (Assembled(a) <=> Assembled(b))

(* What build_multi assembles passes both splices, is cut into whole        *)
(* sectors, and sector i of its second source lands at LBA first + i, where *)
(* first is the length of its first source in sectors.  Stage 1 reads it    *)
(* from LBA 2 on, which is right just when first is 1: build.rs accepts any *)
(* number of sectors, and the boot-asm sources pad themselves to one.       *)
MultiInstallable ==
  (Built /\ Assembled("multi")) =>
    LET blob == Blob("multi")
        stage2 == lib["multi"][2]
        first == lib["multi"][1].len \div SectorSize
    IN  \A made \in {SpliceFat32Multi(Reserved, blob), SpliceNtfsMulti(Reserved, blob)} :
          /\ made.ok /\ blob.len = SectorSize * Len(blob.sectors)
          /\ Len(made.sectors) = first + stage2.len \div SectorSize + 1
          /\ \A i \in 1..(stage2.len \div SectorSize) :
               made.sectors[first + i + 1] = Made(<<stage2, i>>)

(* build_mbr makes one active partition, not empty and inside the disk, and *)
(* it takes all the disk that 32 bits can count; it fails for want of blobs *)
(* only if embedded() says there are none.                                  *)
PartitionInsideDisk ==
  Built => \A disk \in Disks :
    LET made == mbr_xp(disk)
        p == made.sectors[1]["table"][1]
    IN  /\ made.ok <=> embedded /\ disk > StartLba
        /\ made.ok =>
             /\ {i \in 1..4 : made.sectors[1]["table"][i].active} = {1}
             /\ p.count >= 1 /\ p.lba + p.count <= disk
             /\ p.lba + p.count = disk \/ p.count = MaxCount

(* Splicing the other variant onto a disk that one laid out is as if that   *)
(* disk had been built with it: the variants are interchangeable.           *)
BuildThenSplice ==
  Built => \A disk \in Disks :
    (mbr_xp(disk).ok /\ Blob("mbr_win7").len >= CodeSize) =>
      SpliceMbr(Bytes(SectorSize, mbr_xp(disk).sectors), Blob("mbr_win7")) = mbr_win7(disk)

=============================================================================
