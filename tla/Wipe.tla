-------------------------------- MODULE Wipe --------------------------------
(* boot-asm/wipe_bootsect.asm: NTLDR starts it with the number of the boot  *)
(* drive in DL; it asks, and zeroes the first sectors of drive DL xor 1.    *)
(* One action per BIOS call, with the code up to the next.  The machine may *)
(* lose power at any time and be started again, and its firmware may number *)
(* the drives differently then.                                             *)
EXTENDS Integers, FiniteSets

CONSTANTS
  Machines,    \* what may be plugged in, and how it may start
  Keys,        \* what the user may press
  WipeSectors, \* 2048
  MibSectors,  \* sectors of a MiB, 2048
  Low,         \* 2^32: the part of the sector count that is shown
  MaxBoots     \* bound: how often the machine is started

ASSUME WipeAssumption ==
  /\ WipeSectors \in Nat \ {0} /\ MibSectors \in Nat \ {0} /\ Low \in Nat \ {0}
  /\ MaxBoots \in Nat \ {0}

(* At each start a number names one drive of the machine, and a drive has   *)
(* one number at most; DL is a byte.                                        *)
ASSUME MachinesAssumption ==
  \A m \in Machines :
    /\ "stick" \in DOMAIN m.drives
    /\ \A b \in m.boots :
         /\ b.dl \in Nat
         /\ \A n \in DOMAIN b.slot : b.slot[n] \in DOMAIN m.drives
         /\ \A i, j \in DOMAIN b.slot : b.slot[i] = b.slot[j] => i = j

VARIABLES
  machine,   \* [drives, boots]: the drives; the numberings and DL of a boot
  slot,      \* this boot's numbering: drive number -> drive
  pc,
  usb,       \* usb_drive, as DL gave it
  target,    \* target_drive
  lba,       \* dap_lba_lo, in the memory copy of the sector
  left,      \* CX
  shown,     \* what is on the screen: [target, mib, usb]
  said,      \* the last message
  yes,       \* whether the question has been answered with Y or y
  zeroed,    \* drive -> the sectors of it that have been zeroed
  boots      \* how often the machine has been started
vars == <<machine, slot, pc, usb, target, lba, left, shown, said, yes, zeroed, boots>>

Nothing == [target |-> -1, mib |-> 0, usb |-> -1]
Present(n) == n \in DOMAIN slot
Drive(n) == machine.drives[slot[n]]
MutOther(n) == 129                                  \* 81h, as blobs.rs has it
Other(n) == IF n % 2 = 0 THEN n + 1 ELSE n - 1      \* n xor 1

(* NTLDR reads the file again and passes DL; what the machine remembers are *)
(* the drives.                                                              *)
Loaded ==
  /\ \E b \in machine.boots : slot' = b.slot /\ usb' = b.dl
  /\ pc' = "probe"
  /\ lba' = 0 /\ left' = 0
  /\ shown' = Nothing /\ said' = "none" /\ yes' = FALSE
Init ==
  /\ machine \in Machines
  /\ \E b \in machine.boots : slot = b.slot /\ usb = b.dl /\ target = Other(b.dl)
  /\ pc = "probe"
  /\ lba = 0 /\ left = 0
  /\ shown = Nothing /\ said = "none" /\ yes = FALSE
  /\ zeroed = [d \in DOMAIN machine.drives |-> {}]
  /\ boots = 1

KeepWipe == UNCHANGED <<lba, left, zeroed>>
KeepStart == UNCHANGED <<slot, usb, target, boots>>
Say(message) == said' = message /\ pc' = "reboot"

(* fn 0x41: there is such a drive, and it has the extensions; fn 0x48: its  *)
(* parameters.  Only the low half of the sector count is shown.             *)
Answers(n) == Present(n) /\ Drive(n).extensions
Mib(n) == (Drive(n).sectors % Low) \div MibSectors
Probe ==
  /\ pc = "probe"
  /\ \/ /\ ~Answers(target)
        /\ Say("no target") /\ UNCHANGED shown
     \/ /\ Answers(target)
        /\ shown' = [target |-> target, mib |-> Mib(target), usb |-> usb]
        /\ pc' = "ask" /\ UNCHANGED said
  /\ UNCHANGED yes /\ KeepWipe /\ KeepStart

(* INT 16h: only Y and y, which are the same with bit 5 set, go on.         *)
MutCount == WipeSectors + 1
Count == WipeSectors
Confirms(key) == key \in {"y", "Y"}
MutAnswer(key) ==
  /\ pc = "ask"
  /\ pc' = "write" /\ left' = Count
  /\ UNCHANGED <<said, yes, shown, lba, zeroed>> /\ KeepStart
Answer(key) ==
  /\ pc = "ask"
  /\ yes' = Confirms(key)
  /\ IF Confirms(key)
     THEN pc' = "write" /\ left' = Count /\ UNCHANGED said
     ELSE Say("skip") /\ UNCHANGED left
  /\ UNCHANGED <<shown, lba, zeroed>> /\ KeepStart

(* fn 0x43: one sector of the zeroed buffer; a write that fails may have    *)
(* changed the sector, and says so.                                         *)
Writable(n, l) == Present(n) /\ l < Drive(n).sectors
Zero(n, l) == zeroed' = [zeroed EXCEPT ![slot[n]] = @ \cup {l}]
MutWrite ==
  /\ pc = "write"
  /\ IF Writable(target, lba) THEN Zero(target, lba) ELSE UNCHANGED zeroed
  /\ lba' = lba + 1 /\ left' = left - 1
  /\ IF left = 1 THEN Say("OK") ELSE UNCHANGED <<pc, said>>
  /\ UNCHANGED <<shown, yes>> /\ KeepStart
MutWriteLosesCx ==
  /\ pc = "write"
  /\ \/ /\ Writable(target, lba)
        /\ Zero(target, lba)
        /\ lba' = lba + 1
        /\ UNCHANGED <<pc, said, left>>
     \/ /\ ~Writable(target, lba)
        /\ Say("ERR")
        /\ UNCHANGED <<lba, left, zeroed>>
  /\ UNCHANGED <<shown, yes>> /\ KeepStart
Write ==
  /\ pc = "write"
  /\ \/ /\ Writable(target, lba)
        /\ Zero(target, lba)
        /\ lba' = lba + 1 /\ left' = left - 1
        /\ IF left = 1 THEN Say("OK") ELSE UNCHANGED <<pc, said>>
     \/ /\ ~Writable(target, lba) \/ ~Drive(target).reliable
        /\ \/ UNCHANGED zeroed
           \/ Writable(target, lba) /\ Zero(target, lba)
        /\ Say("ERR")
        /\ UNCHANGED <<lba, left>>
  /\ UNCHANGED <<shown, yes>> /\ KeepStart

(* INT 16h and INT 19h: the machine starts again from whatever it likes.    *)
Reboot ==
  /\ pc = "reboot"
  /\ pc' = "left"
  /\ UNCHANGED <<shown, said, yes>> /\ KeepWipe /\ KeepStart

PowerLoss ==
  /\ pc \notin {"left", "off"}
  /\ pc' = "off"
  /\ UNCHANGED <<shown, said, yes>> /\ KeepWipe /\ KeepStart

(* The stick is started once more, and WIPE.DAT chosen. *)
Start ==
  /\ pc \in {"left", "off"} /\ boots < MaxBoots
  /\ boots' = boots + 1
  /\ Loaded
  /\ target' = Other(usb')
  /\ UNCHANGED zeroed

Step == Probe \/ (\E key \in Keys : Answer(key)) \/ Write \/ Reboot
Next == (Step \/ PowerLoss \/ Start) /\ UNCHANGED machine

(* While there is power the code goes on, and a user who is asked presses a *)
(* key at last; nobody has to start the machine again.                      *)
Spec == Init /\ [][Next]_vars
FairSpec == Spec /\ WF_vars(Step /\ UNCHANGED machine)

(***************************** properties *******************************)
AllHonest == \A b \in machine.boots : b.dl \in DOMAIN b.slot /\ b.slot[b.dl] = "stick"

(* Every drive's zeroed sectors are its first ones, without a gap, and no   *)
(* more than WipeSectors, however many runs were cut short or failed.       *)
PrefixZeroed ==
  \A d \in DOMAIN zeroed : \E n \in 0..WipeSectors : zeroed[d] = 0..(n - 1)

(* "We must never wipe the disk we're booting from": as long as DL is it,   *)
(* in either numbering, on any machine, and over any number of boots.       *)
StickKept == AllHonest => zeroed["stick"] = {}

(* A sector goes only after Y or y, and only on the drive whose number the  *)
(* user has read on the screen, in this boot.                               *)
OnlyWhatWasShown ==
  [][\A d \in DOMAIN zeroed : zeroed'[d] # zeroed[d] =>
       /\ yes /\ shown.target = target /\ slot[shown.target] = d /\ usb # target]_vars

(* "OK" says that all the sectors are gone, on the drive that is shown.     *)
OkMeansErased ==
  said = "OK" => zeroed[slot[shown.target]] = 0..(WipeSectors - 1)

(* A confirmed wipe of a drive that works ends in "OK", unless the power    *)
(* goes; and without a key the machine waits at a question for ever.        *)
Works(n) == Present(n) /\ Drive(n).reliable /\ Drive(n).sectors >= WipeSectors
ErasesWhenItCan == (pc = "write" /\ Works(target)) ~> (said = "OK" \/ pc = "off")
=============================================================================
