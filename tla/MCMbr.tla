------------------------------- MODULE MCMbr -------------------------------
(* Disks for Mbr: tables as build_mbr makes them and as fdisk leaves them,  *)
(* signed and unsigned boot sectors, drives that fail.                      *)
EXTENDS Mbr, TLC

Entry(active, type, lba) == [active |-> active, type |-> type, lba |-> lba, count |-> 2]
Zeros == [r \in Regions |-> <<"0">>]
Built == BuildMbr(Bytes(SectorSize, <<Zeros>>), 9).sectors[1]["table"]

Tables == {
  Built,
  <<Unused, Unused, Unused, Unused>>,
  <<Unused, Entry(FALSE, "ntfs", StartLba), Unused, Entry(TRUE, "ntfs", 6)>>,
  <<Entry(FALSE, "ntfs", 6), Entry(TRUE, "fat32lba", StartLba), Entry(TRUE, "ntfs", 6), Unused>>,
  <<Entry(TRUE, "gpt", 1), Unused, Unused, Unused>>,
  <<Entry(FALSE, "gpt", 1), Entry(TRUE, "fat32lba", StartLba), Unused, Unused>>,
  <<Entry(TRUE, "ntfs", 99), Unused, Unused, Unused>>,
  <<Unused, Unused, Entry(TRUE, "fat32lba", 0), Unused>> }

Sector(marked, byte) == [kind |-> "pbr", marked |-> marked, byte |-> byte]
(* The byte at A6h of the boot sectors: FAT32 bootmgr 0F, ntldr 00, NTFS B0 *)
Contents(marked) == (0 :> Own) @@ (1 :> Sector(FALSE, 0))
                    @@ (StartLba :> Sector(marked, 15)) @@ (6 :> Sector(TRUE, 176))

Machine(v, t, marked, drive, keeps, reliable) ==
  [variant |-> v, table |-> t, sectors |-> Contents(marked), drive |-> drive,
   others |-> <<>>, keepsDl |-> keeps, reliable |-> reliable]

AllMachines == {Machine(v, t, m, 128, k, r) :
                  v \in {"win7", "xp"}, t \in Tables, m \in BOOLEAN, k \in BOOLEAN, r \in BOOLEAN}

(* What build_mbr makes, on firmware that does all it should *)
XpBuilt == {Machine("xp", Built, TRUE, 128, TRUE, TRUE)}
=============================================================================
