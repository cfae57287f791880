------------------------------- MODULE MCWipe -------------------------------
(* Machines for Wipe: a stick and one or two disks, numbered either way     *)
(* round and differently from boot to boot; a stick that is a floppy or the *)
(* third drive; a DL that is not the boot drive's.                          *)
EXTENDS Wipe, TLC

Disk(sectors, reliable) == [sectors |-> sectors, reliable |-> reliable, extensions |-> TRUE]
Old == [Disk(9, TRUE) EXCEPT !.extensions = FALSE]
Drives(hdd) == ("stick" :> Disk(20, TRUE)) @@ ("hdd" :> hdd) @@ ("spare" :> Disk(9, TRUE))

(* 128 = 80h *)
Boot(slots, dl) == [slot |-> slots, dl |-> dl]
StickFirst == Boot((128 :> "stick") @@ (129 :> "hdd") @@ (130 :> "spare"), 128)
DiskFirst  == Boot((128 :> "hdd") @@ (129 :> "stick"), 129)
StickThird == Boot((128 :> "hdd") @@ (129 :> "spare") @@ (130 :> "stick"), 130)
Floppy     == Boot((0 :> "stick") @@ (128 :> "hdd"), 0)
(* DL as mbr_xp leaves it, and DL of the disk while the stick is the other. *)
NoDrive    == Boot((128 :> "stick") @@ (129 :> "hdd"), 15)
WrongDrive == Boot((128 :> "hdd") @@ (129 :> "stick"), 128)

Machine(hdd, b) == [drives |-> Drives(hdd), boots |-> b]
MCMachines ==
  {Machine(hdd, b) : hdd \in {Disk(64, TRUE), Disk(9, FALSE), Disk(3, TRUE), Old},
                     b \in {{StickFirst, DiskFirst}, {StickThird, StickFirst}, {Floppy},
                            {NoDrive, StickFirst}, {WrongDrive, DiskFirst}}}
=============================================================================
