----------------------------- MODULE Fat32Layout -----------------------------
(* Where a FAT32 formatter puts things on a volume v, as the boot records   *)
(* take it from the BPB: v.hidd hidden sectors, v.rsvd reserved ones,       *)
(* v.nfats tables of v.fatsz sectors, clusters of v.spc sectors.            *)
EXTENDS Integers, Sequences

CONSTANTS
  EntPerSec,      \* FAT entries in a sector of 512 bytes, 128
  EntMod          \* 2^28: the bits of a FAT entry that count

EocMin == EntMod - 8          \* 0x0FFFFFF8

FatStart(v)    == v.hidd + v.rsvd
DataStart(v)   == FatStart(v) + v.nfats * v.fatsz
FirstLba(v, c) == DataStart(v) + (c - 2) * v.spc

(* The sectors of a chain of clusters, in order. *)
SectorsOf(v, chain) ==
  [n \in 1..(Len(chain) * v.spc) |->
     FirstLba(v, chain[((n - 1) \div v.spc) + 1]) + ((n - 1) % v.spc)]
=============================================================================
