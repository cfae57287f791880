----------------------------- MODULE MCNtfsPbr -----------------------------
(* Small volumes for NtfsPbr.  $MFT lies in two pieces, BOOTMGR in three    *)
(* with negative deltas, records of one and two sectors, clusters of one    *)
(* and two; index entries cut by a sector end; and volumes the code refuses *)
(* or cannot follow.                                                        *)
EXTENDS NtfsPbr, TLC

Run(len, delta) == [len |-> len, delta |-> delta]
None == [form |-> "none", runs |-> <<>>, at |-> <<0>>, lcn |-> <<>>, entries |-> <<>>,
         large |-> FALSE]
(* Where the runs of a list begin, and the sectors of the list, in order.   *)
Starts(list) ==
  LET at[i \in 0..Len(list)] == IF i = 0 THEN 0 ELSE at[i - 1] + list[i].delta
  IN  [i \in 1..Len(list) |-> at[i]]
Behind(spc, list) ==
  LET at[i \in 1..(Len(list) + 1)] == IF i = 1 THEN 0 ELSE at[i - 1] + list[i - 1].len * spc
  IN  [i \in 1..(Len(list) + 1) |-> at[i]]
Runs(spc, list) == [None EXCEPT !.form = "runs", !.runs = list, !.lcn = Starts(list),
                                !.at = Behind(spc, list)]
SectorsOf(v, list) ==
  LET upto[i \in 0..Len(list)] ==
        IF i = 0 THEN <<>>
        ELSE upto[i - 1] \o [k \in 1..(list[i].len * v.spc) |->
                               v.hidd + Starts(list)[i] * v.spc + k - 1]
  IN  upto[Len(list)]
Index(entries, large) == [None EXCEPT !.form = "index", !.entries = entries, !.large = large]
InRecord == [None EXCEPT !.form = "resident"]
Record(data, root, alloc) == [data |-> data, root |-> root, alloc |-> alloc]

(* An entry that lies inside its sector, and one that the sector end cuts.  *)
Entry(name, n) == [disk |-> name, saved |-> name, rec |-> n]
Cut(name, n) == [disk |-> "torn", saved |-> name, rec |-> n]
(* What is on disk reads BOOTMGR but is another name with its words back.   *)
Mask(name, n) == [disk |-> "BOOTMGR", saved |-> name, rec |-> n]

(* $MFT: six records from LCN 4, and the others, BOOTMGR's among them, from *)
(* LCN 2 in front of it (spc 2, two-sector records).                        *)
MftRuns == <<Run(6, 4), Run(2, -2)>>
FileRuns == <<Run(1, 20), Run(2, -6), Run(1, 4)>>
Volume(spc, mft, file, root, alloc, blocks) ==
  LET v == [stage2 |-> TRUE, hidd |-> 3, spc |-> spc, total |-> 44,
            mftLcn |-> mft[1].delta, recSize |-> -10]
  IN  v @@ [mft |-> SectorsOf(v, mft),
            recs |-> (0 :> Record(Runs(spc, mft), None, None)) @@
                     (3 :> Record(Runs(spc, <<Run(1, 19)>>), None, None)) @@
                     (5 :> Record(None, root, alloc)) @@
                     (7 :> Record(Runs(spc, file), None, None)),
            blocks |-> blocks, named |-> TRUE, fileRec |-> 7, file |-> SectorsOf(v, file)]
Base(root, alloc, blocks) == Volume(2, MftRuns, FileRuns, root, alloc, blocks)

Small == Base(Index(<<Entry("$MFT", 0), Mask("BOOTMGQ", 3), Cut("BOOTMGR", 7)>>, FALSE), None, <<>>)
Large == Base(Index(<<Entry("AUTORUN", 3)>>, TRUE), Runs(2, <<Run(3, 11)>>),
              (11 :> Index(<<Mask("BOOTMGQ", 3)>>, FALSE)) @@ (12 :> Index(<<>>, FALSE)) @@
              (13 :> Index(<<Entry("$MFT", 0), Cut("BOOTMGR", 7)>>, FALSE)))
(* Interior entries repeat the key: found in the root though it is large.   *)
Interior == [Large EXCEPT !.recs[5].root = Index(<<Entry("BOOTMGR", 7)>>, TRUE)]
(* Clusters of one sector, records of two. *)
Narrow == Volume(1, <<Run(12, 4), Run(4, 14)>>, <<Run(2, 30), Run(3, -5), Run(1, 9)>>,
                 Index(<<>>, TRUE), Runs(1, <<Run(2, 38)>>),
                 (38 :> Index(<<Entry("AUTORUN", 3)>>, FALSE)) @@
                 (39 :> Index(<<Cut("BOOTMGR", 7)>>, FALSE)))
Absent == [Small EXCEPT !.recs[5].root = Index(<<Entry("AUTORUN", 3)>>, FALSE),
                        !.named = FALSE, !.file = <<>>]
InMft == [Small EXCEPT !.recs[7].data = InRecord, !.file = <<>>]
(* One-sector records, two to a cluster, and records of one cluster. *)
Reshaped(v, size, runs) ==
  [v EXCEPT !.recSize = size, !.recs[0].data = Runs(v.spc, runs), !.mft = SectorsOf(v, runs)]
HalfCluster == Reshaped(Small, -9, <<Run(3, 4), Run(1, -2)>>)
ByCluster == Reshaped(Small, 1, MftRuns)
SoundVolumes == {Small, Large, Interior, Narrow, Absent, InMft, HalfCluster, ByCluster}

(* A large directory without the name: after its one run the code goes on   *)
(* with whatever the last block has where the run list was.                 *)
Lost(v, c) == [v EXCEPT !.blocks[c] = Index(<<Entry("AUTORUN", 3)>>, FALSE),
                        !.named = FALSE, !.file = <<>>]

(* Refused: $MFT's record without $DATA, or with it inside; BOOTMGR's entry *)
(* past the table; no stage 2; more pieces than the table holds; clusters   *)
(* and records larger than BUF.                                             *)
Awkward ==
  {Lost(Large, 13), Lost(Narrow, 39),
   [Small EXCEPT !.recs[0].data = None], [Small EXCEPT !.recs[0].data = InRecord],
   [Small EXCEPT !.recs[5].root.entries[3].rec = 9], [Small EXCEPT !.stage2 = FALSE],
   [Small EXCEPT !.recs[5].root = None], [Large EXCEPT !.recs[5].alloc = None],
   [Large EXCEPT !.recs[5].root.form = "endless"],
   Reshaped(Small, -10, <<Run(3, 4), Run(1, 3), Run(1, 2), Run(1, 2)>>),
   [Large EXCEPT !.recSize = 4],
   Volume(4, <<Run(4, 1)>>, <<Run(1, 5)>>, Index(<<>>, TRUE), Runs(4, <<Run(1, 6)>>),
          6 :> Index(<<Entry("BOOTMGR", 7)>>, FALSE)), [Small EXCEPT !.recs[7].data.form = "none"]}

Drive(reliable, sectors) == [reliable |-> reliable, sectors |-> sectors]
MCEnvironments ==
  {[vol |-> v, bios |-> Drive(r, 47)] : v \in SoundVolumes, r \in BOOLEAN}
  \cup {[vol |-> v, bios |-> Drive(TRUE, 47)] : v \in Awkward}
  \cup {[vol |-> Small, bios |-> Drive(TRUE, n)] : n \in {5, 12, 20, 40}}

ASSUME VolumesAreSound == \A v \in SoundVolumes : Sound([vol |-> v, bios |-> Drive(TRUE, 47)])

Endless == [None EXCEPT !.form = "endless"]
MCStrayRecords == {Record(None, None, None), Record(Endless, Endless, Endless)}
MCStrayBlocks == {Index(<<>>, FALSE), Endless}
MCLeftovers == {<<>>, <<Run(1, 4)>>}

(* A root directory whose index has grown into a second run. *)
Grown == [Large EXCEPT !.recs[5].alloc = Runs(2, <<Run(2, 11), Run(1, 2)>>)]
TwoRuns == {[vol |-> Grown, bios |-> Drive(TRUE, 47)]}
=============================================================================
