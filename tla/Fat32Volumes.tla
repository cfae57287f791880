---------------------------- MODULE Fat32Volumes ----------------------------
(* Small FAT32 volumes and drives, for the instances that TLC checks: what  *)
(* a formatter makes of a root directory's chain, files and slots.          *)
EXTENDS Fat32Layout, TLC

(* A FAT from chains: each entry points to its successor, the last one to   *)
(* an end mark; "top" is added above the bits that count.                   *)
Links(chain, top) ==
  [c \in {chain[i] : i \in 1..Len(chain)} |->
     LET i == CHOOSE k \in 1..Len(chain) : chain[k] = c
     IN  top + IF i < Len(chain) THEN chain[i + 1] ELSE EocMin + (c % 8)]

Short(n, c) == [kind |-> "short", name |-> n, clus |-> c]
Deleted == [kind |-> "deleted", name |-> "BOOTMGR", clus |-> 3]
Lfn == [kind |-> "lfn", name |-> "BOOTMGR", clus |-> 0]
EndMark == [kind |-> "end", name |-> "", clus |-> 0]
Other == Short("AUTORUN", 4)

(* slots[n] are the slots of the n-th root sector *)
MkVol(stage1, stage2, spc, nfats, root, files, slots) ==
  LET base == [stage1 |-> stage1, stage2 |-> stage2, hidd |-> 5, rsvd |-> 4,
               nfats |-> nfats, fatsz |-> 3, spc |-> spc,
               bytsPerSec |-> 4 * EntPerSec,
               total |-> 4 + 3 * nfats + 10 * spc, rootClus |-> root[1],
               root |-> root, files |-> files,
               fat |-> (0 :> EocMin) @@ (1 :> EntMod - 1) @@ Links(root, 0)]
      fat == base.fat @@
             (IF "BOOTMGR" \in DOMAIN files THEN Links(files["BOOTMGR"], EntMod) ELSE <<>>) @@
             (IF "NTLDR" \in DOMAIN files THEN Links(files["NTLDR"], 0) ELSE <<>>)
      at == SectorsOf(base, root)
  IN  [base EXCEPT !.fat = fat] @@
      ("dir" :> [l \in {at[n] : n \in 1..Len(at)} |->
                   slots[CHOOSE n \in 1..Len(at) : at[n] = l]])

Drive(probe, reliable, s, h) ==
  [probe |-> probe, reliable |-> reliable, cl |-> 64 + s, dh |-> h - 1,
   spt |-> s, heads |-> h, sectors |-> 40]
=============================================================================
