--------------------------- MODULE MCFat32Damaged ---------------------------
(* Volumes and drives that are not sound: damaged FATs, a missing stage 2,  *)
(* geometries the code cannot hold or that are not the BIOS's own.          *)
EXTENDS MCFat32Pbr

Base == MkVol("bootmgr", "bootmgr", 1, 1, <<2, 8>>, "BOOTMGR" :> <<9, 3, 4>>,
              << <<Deleted, Other>>, <<Short("BOOTMGR", 9), EndMark>> >>)
Good == Drive(TRUE, TRUE, 3, 4)
Huge == [Drive(TRUE, TRUE, 63, 255) EXCEPT !.sectors = 2000]
Env(v, b) == [vol |-> v, bios |-> b]

(* The loader's chain runs in a circle, into a free entry, into a bad mark, *)
(* or off the table; or its entry in the directory has no cluster.          *)
BadChains == {[Base EXCEPT !.fat[4] = x] : x \in {9, 0, EocMin - 1, 30}}
EmptyFile == [Base EXCEPT !.dir[FirstLba(Base, 8)][1].clus = 0, !.files = <<>>]
NoStage2 == [Base EXCEPT !.stage2 = "none"]
EndlessRoot == [Base EXCEPT !.dir[FirstLba(Base, 8)] = <<Other>>]
CyclicRoot == [EndlessRoot EXCEPT !.fat[8] = 2]
LateStop == [Base EXCEPT !.fat[8] = 2]
NoFats == [Base EXCEPT !.nfats = 0]
NoSpc == [Base EXCEPT !.spc = 0]
(* BPB_BytsPerSec is zero, half, twice, or not a multiple of an entry's four *)
OtherSectors == {[Base EXCEPT !.bytsPerSec = n] : n \in {0, 8, 32, 18}}

(* A volume label that reads BOOTMGR, and no such file. *)
Labelled == [Base EXCEPT !.dir[FirstLba(Base, 2)] = <<Short("BOOTMGR", 0), Other>>, !.files = <<>>]

DamagedEnvironments ==
  {Env(v, Good) : v \in BadChains \cup {EmptyFile, NoStage2, EndlessRoot, CyclicRoot, LateStop, NoFats, NoSpc, Labelled}
                   \cup OtherSectors}
  \cup {Env(NoFats, Huge),
        Env(Base, [Good EXCEPT !.cl = 64]),            \* no sectors per track
        Env(Base, [Good EXCEPT !.dh = 255]),           \* 256 heads
        Env(Base, Drive(TRUE, TRUE, 1, 1)),
        Env(Base, [Good EXCEPT !.spt = 2]),            \* fn 0x08 is wrong
        Env(Base, [Good EXCEPT !.heads = 3]),
        Env(Base, [Good EXCEPT !.sectors = 20])}       \* truncated drive

(* The root directory's clusters lead back to one of them, and none of them *)
(* shows the loader or an end mark.                                         *)
RootCircles(v) ==
  LET Walk[n \in 0..10] ==
        IF n = 0 THEN v.rootClus
        ELSE IF Walk[n - 1] \in DOMAIN v.fat THEN v.fat[Walk[n - 1]] % EntMod ELSE EocMin
  IN  v.bytsPerSec = 4 * EntPerSec /\ \A n \in 0..10 :
        /\ Walk[n] < EocMin
        /\ \A i \in 0..(v.spc - 1) :
             LET l == FirstLba(v, Walk[n]) + i
             IN  l \in DOMAIN v.dir /\ Stops(v, v.dir[l]) = {}

(* On a drive that reads what it is asked for, that is the one damage, of   *)
(* those above, with which a boot has no end; every other boot comes to     *)
(* one, with a file chain that circles or sectors of another size too.      *)
EndsUnlessRootCircles ==
  /\ RootCircles(vol) => []~Ended
  /\ ~RootCircles(vol) => <>Ended

(* A FAT32 volume past 18 MB on a drive with the USB-FDD translation *)
Ntldr == MkVol("ntldr", "ntldr", 1, 1, <<2>>, "NTLDR" :> <<3, 14>>, << <<Short("NTLDR", 3), EndMark>> >>)
Far == {Env([Ntldr EXCEPT !.hidd = 10, !.rsvd = 4, !.fatsz = 9210, !.nfats = 4,
                          !.dir = (36854 :> <<Short("NTLDR", 3), EndMark>>)],
            [Drive(FALSE, TRUE, 18, 2) EXCEPT !.sectors = 60000])}
=============================================================================
