----------------------------- MODULE MCFat32Pbr -----------------------------
(* Small volumes and drives for Fat32Pbr.  Clusters have one or two         *)
(* sectors, chains are fragmented and run backwards, the root directory has *)
(* up to three clusters, and FAT entries carry reserved top bits.           *)
EXTENDS Fat32Pbr, Fat32Volumes, TLC

Both == ("BOOTMGR" :> <<9, 3, 4>>) @@ ("NTLDR" :> <<6, 10>>)
OnlyNtldr == "NTLDR" :> <<6, 10>>
One == "BOOTMGR" :> <<3>>
Two == "BOOTMGR" :> <<5, 3>>

Volumes ==
  UNION {{
    MkVol(s[1], s[2], 2, 2, <<2, 8>>, Both,
          << <<Deleted, Lfn>>, <<Other, Lfn>>, <<Deleted, Short("NTLDR", 6)>>,
             <<Short("BOOTMGR", 9), EndMark>> >>),
    MkVol(s[1], s[2], 1, 1, <<7, 2, 5>>, OnlyNtldr,
          << <<Lfn, Deleted>>, <<Other, Short("NTLDR", 6)>>, <<Other, Other>> >>),
    MkVol(s[1], s[2], 1, 2, <<2>>, Two,
          << <<Short("BOOTMGR", 5), EndMark>> >>),
    MkVol(s[1], s[2], 2, 1, <<2>>, One,
          << <<Short("BOOTMGR", 3), Other>>, <<EndMark, Short("NTLDR", 6)>> >>)
  } : s \in {<<"bootmgr", "bootmgr">>, <<"ntldr", "ntldr">>, <<"single", "none">>,
             <<"bootmgr", "ntldr">>}}

(* Truthful drives, drives that refuse the probe and are USB-FDDs, and one  *)
(* that refuses it and is not (read by the one-sector record only).         *)
Drives == {Drive(TRUE, r, g[1], g[2]) : r \in BOOLEAN, g \in {<<3, 4>>, <<63, 255>>, <<1, 1>>}}
          \cup {Drive(FALSE, r, 18, 2) : r \in BOOLEAN}

MCEnvironments == {[vol |-> v, bios |-> b] : v \in Volumes, b \in Drives}

ASSUME EnvironmentsAreSound == \A e \in MCEnvironments : Sound(e)

(* The registers of Pack against an odometer that never divides, over every *)
(* carry of five geometries: sector, head, cylinder, and the cylinder turns *)
(* over after 1023.                                                         *)
OdoNext(o, s, h) ==
  IF o.sec < s THEN [o EXCEPT !.sec = @ + 1]
  ELSE IF o.head + 1 < h THEN [o EXCEPT !.sec = 1, !.head = @ + 1]
  ELSE [cyl |-> (o.cyl + 1) % 1024, head |-> 0, sec |-> 1]
Shown(lba, s, h) ==
  LET regs == Pack(lba, s, h)
  IN  [cyl |-> regs.ch + 256 * (regs.cl \div 64), head |-> regs.dh, sec |-> regs.cl % 64]
ASSUME PackFollowsOdometer ==
  \A g \in {<<18, 2>>, <<63, 255>>, <<1, 1>>, <<63, 16>>, <<9, 128>>} :
    \A c \in {0, 255, 511, 1023, 1024, 1500} : \A n \in 0..1000 :
      LET lba == c * g[1] * g[2] + n
      IN  /\ Shown(lba + 1, g[1], g[2]) = OdoNext(Shown(lba, g[1], g[2]), g[1], g[2])
          /\ Seek(Pack(lba, g[1], g[2]), g[1], g[2]) = lba % Reach(g[1], g[2])
=============================================================================
