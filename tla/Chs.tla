-------------------------------- MODULE Chs --------------------------------
(* Cylinder/head/sector addressing as the FAT32 and XP-setup boot sectors   *)
(* do it: a logical block address is divided by the geometry, packed into   *)
(* the registers of INT 13h fn 0x02, and the BIOS turns the registers back  *)
(* into a sector of the drive.  The packing is the same code in every boot  *)
(* sector that reads with fn 0x02 (read_one_sector_chs, read_one_sector).   *)
EXTENDS Integers

NoSector == -1     \* what a refused request addresses

(* The geometry stored by the probe of stage 1: sectors per track are the   *)
(* low six bits of CL, heads are DH + 1 kept in one byte.                   *)
ProbedSpt(cl)   == cl % 64
MutProbedHeads(dh) == dh
ProbedHeads(dh) == (dh + 1) % 256

(* Both divisions of the conversion raise #DE on a zero divisor. *)
Divides(spt, heads) == spt # 0 /\ heads # 0

(* Cylinder, head and sector index of an LBA. *)
Cylinder(lba, spt, heads) == (lba \div spt) \div heads
TrackHead(lba, spt, heads)     == (lba \div spt) % heads

(* CH holds cylinder bits 7..0; CL holds bits 9..8 above the 1-based        *)
(* sector number; DH holds the head.  Cylinder bits above 9 are lost.       *)
Pack(lba, spt, heads) ==
  LET cyl == Cylinder(lba, spt, heads)
  IN  [ch |-> cyl % 256,
       cl |-> ((cyl \div 256) % 4) * 64 + (lba % spt) + 1,
       dh |-> TrackHead(lba, spt, heads)]

(* The BIOS side: the sector of a drive with translation spt x heads that   *)
(* the registers address, or NoSector when they are out of the geometry.    *)
Seek(r, spt, heads) ==
  LET cyl == r.ch + 256 * (r.cl \div 64)
      sec == r.cl % 64
  IN  IF sec \in 1..spt /\ r.dh < heads
      THEN (cyl * heads + r.dh) * spt + sec - 1
      ELSE NoSector

(* A geometry that fits its cells: six bits of sectors, a byte of heads.    *)
Fits(spt, heads) ==
  /\ spt \in Nat /\ 1 <= spt /\ spt <= 63
  /\ heads \in Nat /\ 1 <= heads /\ heads <= 255

(* What ten bits of cylinder number can reach. *)
Reach(spt, heads) == 1024 * heads * spt
=============================================================================
