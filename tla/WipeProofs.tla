----------------------------- MODULE WipeProofs -----------------------------
(* What Wipe never does, on any machine that satisfies MachinesAssumption,  *)
(* with any number of drives, sectors and starts.                           *)
EXTENDS Wipe, TLAPS

Pcs == {"probe", "ask", "write", "reboot", "left", "off"}
Messages == {"none", "no target", "skip", "ERR", "OK"}

(* This start's numbering is one of the machine's, and the target is not    *)
(* the drive that DL names.                                                 *)
Numbered ==
  /\ machine \in Machines
  /\ \E b \in machine.boots : slot = b.slot /\ usb = b.dl
  /\ target = Other(usb)

(* What has been zeroed on a drive is a prefix of the wiped sectors.        *)
Prefix(set) == \E n \in 0..WipeSectors : set = 0..(n - 1)
Zeroed ==
  /\ DOMAIN zeroed = DOMAIN machine.drives
  /\ \A d \in DOMAIN zeroed : Prefix(zeroed[d])

(* In the loop CX and the LBA add up, every sector below the LBA is gone,   *)
(* and the user has confirmed what is on the screen.                        *)
Looping ==
  /\ lba \in Nat
  /\ pc \in {"probe", "ask"} => lba = 0
  /\ pc \in {"ask", "write"} => shown.target = target /\ Present(target)
  /\ pc = "write" =>
       /\ yes /\ left \in Nat \ {0} /\ lba + left = WipeSectors
       /\ 0..(lba - 1) \subseteq zeroed[slot[target]]

(* "OK" is said only after the loop.                                        *)
Saying ==
  /\ pc \in Pcs /\ said \in Messages
  /\ pc \in {"probe", "ask", "write"} => said = "none"
  /\ said = "OK" => shown.target = target /\ Present(target)

IInv == Numbered /\ Zeroed /\ Looping /\ Saying /\ OkMeansErased /\ StickKept

(* n xor 1 is another number, and a number.                                 *)
LEMMA OtherDiffers ==
  ASSUME NEW n \in Nat
  PROVE  Other(n) \in Int /\ Other(n) # n
  BY DEF Other

(* A prefix with the next sector is a prefix.                               *)
LEMMA PrefixGrows ==
  ASSUME NEW set, Prefix(set), NEW l \in Nat, l < WipeSectors, 0..(l - 1) \subseteq set
  PROVE  Prefix(set \cup {l}) /\ 0..l \subseteq set \cup {l}
  <1>1. PICK n \in 0..WipeSectors : set = 0..(n - 1)
    BY DEF Prefix
  <1>2. WipeSectors \in Nat
    BY WipeAssumption
  <1>3. l <= n
    <2>1. CASE l = 0
      BY <2>1, <1>1
    <2>2. CASE l # 0
      <3>1. l - 1 \in 0..(l - 1)
        BY <2>2
      <3>2. QED BY <3>1, <1>1
    <2>3. QED BY <2>1, <2>2
  <1>4. CASE l < n
    BY <1>1, <1>2, <1>4 DEF Prefix
  <1>5. CASE l = n
    <2>1. n + 1 \in 0..WipeSectors
      BY <1>1, <1>2, <1>5
    <2>2. set \cup {l} = 0..((n + 1) - 1)
      BY <1>1, <1>5
    <2>3. QED BY <2>1, <2>2, <1>5 DEF Prefix
  <1>6. QED BY <1>1, <1>3, <1>4, <1>5

(* Where DL is the boot drive, the target is another drive.                 *)
LEMMA TargetIsNotStick ==
  ASSUME Numbered, AllHonest, Present(target)
  PROVE  slot[target] # "stick" /\ usb # target
  <1>1. PICK b \in machine.boots : slot = b.slot /\ usb = b.dl
    BY DEF Numbered
  <1>2. b.dl \in Nat /\ b.dl \in DOMAIN b.slot /\ b.slot[b.dl] = "stick"
    BY MachinesAssumption DEF Numbered, AllHonest
  <1>3. target # usb
    BY <1>1, <1>2, OtherDiffers DEF Numbered
  <1>4. \A i, j \in DOMAIN b.slot : b.slot[i] = b.slot[j] => i = j
    BY MachinesAssumption DEF Numbered
  <1>5. QED BY <1>1, <1>2, <1>3, <1>4 DEF Present

LEMMA InitInv == Init => IInv
  <1>1. SUFFICES ASSUME Init PROVE IInv
    OBVIOUS
  <1>2. Numbered
    BY <1>1 DEF Init, Numbered
  <1>3. Prefix({})
    BY WipeAssumption DEF Prefix
  <1>4. Zeroed /\ StickKept
    BY <1>1, <1>2, <1>3, MachinesAssumption DEF Init, Zeroed, StickKept
  <1>5. Looping /\ Saying /\ OkMeansErased
    BY <1>1 DEF Init, Looping, Saying, OkMeansErased, Pcs, Messages
  <1>6. QED BY <1>2, <1>4, <1>5 DEF IInv

(* The steps that write nothing. *)
LEMMA QuietSteps ==
  ASSUME IInv, UNCHANGED <<machine, slot, usb, target, zeroed>>,
         Probe \/ (\E key \in Keys : Answer(key)) \/ Reboot \/ PowerLoss
  PROVE  IInv'
  <1>1. Numbered' /\ Zeroed' /\ StickKept'
    BY DEF IInv, Numbered, Zeroed, Prefix, StickKept, AllHonest
  <1>2. CASE Probe
    <2>1. Looping'
      <3>1. lba' = lba /\ lba = 0 /\ UNCHANGED <<slot, target>>
        BY <1>2 DEF IInv, Looping, Probe, KeepWipe, KeepStart
      <3>2. CASE ~Answers(target) /\ Say("no target")
        BY <3>1, <3>2 DEF Looping, Say
      <3>3. CASE /\ Answers(target) /\ pc' = "ask"
                 /\ shown' = [target |-> target, mib |-> Mib(target), usb |-> usb]
        <4>1. shown'.target = target'
          BY <3>1, <3>3
        <4>2. Present(target)'
          BY <3>1, <3>3 DEF Answers, Present
        <4>3. QED BY <3>1, <3>3, <4>1, <4>2 DEF Looping
      <3>4. QED BY <1>2, <3>2, <3>3 DEF Probe
    <2>2. said' # "OK" /\ said' \in Messages /\ pc' \in Pcs
      BY <1>2 DEF IInv, Saying, Pcs, Messages, Probe, Say
    <2>3. pc' \in {"probe", "ask", "write"} => said' = "none"
      BY <1>2 DEF IInv, Saying, Probe, Say
    <2>4. QED BY <1>1, <2>1, <2>2, <2>3 DEF IInv, Saying, OkMeansErased
  <1>3. CASE \E key \in Keys : Answer(key)
    <2>1. Looping'
      BY <1>3, WipeAssumption DEF IInv, Looping, Saying, Answer, Count, Say, KeepStart, Present
    <2>2. Saying' /\ OkMeansErased'
      BY <1>3 DEF IInv, Looping, Saying, OkMeansErased, Pcs, Messages, Answer, Say, KeepStart, Present
    <2>3. QED BY <1>1, <2>1, <2>2 DEF IInv
  <1>4. CASE Reboot \/ PowerLoss
    BY <1>1, <1>4 DEF IInv, Looping, Saying, OkMeansErased, Pcs, Messages,
       Reboot, PowerLoss, KeepWipe, KeepStart, Present
  <1>5. QED BY <1>2, <1>3, <1>4

(* One sector more on a drive, in the loop: it is not the boot drive's, and *)
(* what is gone of that drive is a longer prefix.                           *)
LEMMA ZeroStep ==
  ASSUME IInv, pc = "write", UNCHANGED <<machine, slot, usb, target>>,
         Zero(target, lba)
  PROVE  /\ Zeroed' /\ StickKept' /\ 0..lba \subseteq zeroed'[slot[target]]
         /\ \A d \in DOMAIN zeroed : zeroed'[d] # zeroed[d] => d = slot[target]
  <1> DEFINE d == slot[target]
  <1>0. lba \in Nat /\ lba < WipeSectors /\ 0..(lba - 1) \subseteq zeroed[d]
    BY WipeAssumption DEF IInv, Looping
  <1>1. PICK b \in machine.boots : slot = b.slot
    BY DEF IInv, Numbered
  <1>2. d \in DOMAIN zeroed
    BY <1>1, MachinesAssumption DEF IInv, Numbered, Looping, Present, Zeroed
  <1>3. zeroed' = [zeroed EXCEPT ![d] = zeroed[d] \cup {lba}]
    BY DEF Zero
  <1>4. Prefix(zeroed[d] \cup {lba}) /\ 0..lba \subseteq zeroed[d] \cup {lba}
    BY <1>0, <1>2, PrefixGrows DEF IInv, Zeroed
  <1>5. Zeroed'
    BY <1>2, <1>3, <1>4 DEF IInv, Zeroed, Prefix
  <1>6. StickKept'
    <2>1. SUFFICES ASSUME AllHonest PROVE zeroed'["stick"] = {}
      BY DEF StickKept, AllHonest
    <2>2. d # "stick"
      BY <2>1, TargetIsNotStick DEF IInv, Looping
    <2>3. "stick" \in DOMAIN zeroed
      BY MachinesAssumption DEF IInv, Numbered, Zeroed
    <2>4. QED BY <2>1, <2>2, <2>3, <1>3 DEF IInv, StickKept
  <1>7. QED BY <1>2, <1>3, <1>4, <1>5, <1>6

(* One turn of the loop: written, written and refused, or refused.          *)
LEMMA WriteStep ==
  ASSUME IInv, Write, UNCHANGED machine
  PROVE  IInv'
  <1>0. /\ pc = "write" /\ UNCHANGED <<slot, usb, target, shown, yes>>
        /\ Numbered' /\ Present(target)
    BY DEF Write, KeepStart, IInv, Numbered, Looping
  <1>1. CASE Zero(target, lba) /\ lba' = lba + 1 /\ left' = left - 1
             /\ IF left = 1 THEN Say("OK") ELSE UNCHANGED <<pc, said>>
    <2>1. Zeroed' /\ StickKept' /\ 0..lba \subseteq zeroed'[slot[target]]
      BY <1>0, <1>1, ZeroStep
    <2>2. lba + left = WipeSectors /\ lba \in Nat /\ left \in Nat \ {0} /\ yes
          /\ shown.target = target
      BY <1>0 DEF IInv, Looping
    <2>3. Looping'
      BY <1>0, <1>1, <2>1, <2>2, WipeAssumption DEF Looping, Say, Present
    <2>4. Saying'
      BY <1>0, <1>1, <2>2 DEF IInv, Saying, Say, Pcs, Messages, Present
    <2>5. OkMeansErased'
      <3>1. SUFFICES ASSUME said' = "OK" PROVE zeroed'[slot[target]] = 0..(WipeSectors - 1)
        BY <1>0, <2>2 DEF OkMeansErased
      <3>2. left = 1
        BY <3>1, <1>0, <1>1 DEF IInv, Saying, Say
      <3>3. 0..(WipeSectors - 1) \subseteq zeroed'[slot[target]]
        BY <3>2, <2>1, <2>2
      <3>4. PICK b \in machine.boots : slot = b.slot
        BY DEF IInv, Numbered
      <3>5. slot[target] \in DOMAIN zeroed'
        BY <1>0, <3>4, <2>1, MachinesAssumption DEF IInv, Numbered, Present, Zeroed
      <3>6. PICK n \in 0..WipeSectors : zeroed'[slot[target]] = 0..(n - 1)
        BY <3>5, <2>1 DEF Zeroed, Prefix
      <3>7. WipeSectors - 1 \in 0..(n - 1)
        <4>1. WipeSectors - 1 \in 0..(WipeSectors - 1)
          BY WipeAssumption
        <4>2. QED BY <4>1, <3>3, <3>6
      <3>8. n = WipeSectors
        BY <3>7, WipeAssumption
      <3>9. QED BY <3>6, <3>8
    <2>6. QED BY <1>0, <2>1, <2>3, <2>4, <2>5 DEF IInv
  <1>2. CASE (UNCHANGED zeroed \/ Zero(target, lba)) /\ Say("ERR") /\ UNCHANGED <<lba, left>>
    <2>1. Zeroed' /\ StickKept'
      <3>1. CASE UNCHANGED zeroed
        BY <3>1 DEF IInv, Zeroed, Prefix, StickKept, AllHonest
      <3>2. CASE Zero(target, lba)
        BY <3>2, <1>0, ZeroStep
      <3>3. QED BY <3>1, <3>2, <1>2
    <2>2. Looping' /\ Saying' /\ OkMeansErased'
      BY <1>0, <1>2 DEF IInv, Looping, Saying, OkMeansErased, Say, Pcs, Messages
    <2>3. QED BY <1>0, <2>1, <2>2 DEF IInv
  <1>3. QED BY <1>1, <1>2 DEF Write

(* The machine starts again: the drives are as they were left.              *)
LEMMA StartStep ==
  ASSUME IInv, Start, UNCHANGED machine
  PROVE  IInv'
  <1>1. Numbered'
    BY DEF IInv, Numbered, Start, Loaded
  <1>2. Zeroed' /\ StickKept'
    BY DEF IInv, Zeroed, Prefix, StickKept, AllHonest, Start
  <1>3. Looping' /\ Saying' /\ OkMeansErased'
    BY DEF Looping, Saying, OkMeansErased, Start, Loaded, Pcs, Messages
  <1>4. QED BY <1>1, <1>2, <1>3 DEF IInv

LEMMA NextInv == IInv /\ [Next]_vars => IInv'
  <1>1. SUFFICES ASSUME IInv, [Next]_vars PROVE IInv'
    OBVIOUS
  <1>2. CASE Write /\ UNCHANGED machine
    BY <1>1, <1>2, WriteStep
  <1>3. CASE Start /\ UNCHANGED machine
    BY <1>1, <1>3, StartStep
  <1>4. CASE (Probe \/ (\E key \in Keys : Answer(key)) \/ Reboot \/ PowerLoss) /\ UNCHANGED machine
    <2>1. UNCHANGED <<slot, usb, target, zeroed>>
      BY <1>4 DEF Probe, Answer, Reboot, PowerLoss, KeepWipe, KeepStart
    <2>2. QED BY <1>1, <1>4, <2>1, QuietSteps
  <1>5. CASE UNCHANGED vars
    BY <1>1, <1>5 DEF vars, IInv, Numbered, Zeroed, Prefix, Looping, Saying, OkMeansErased,
       StickKept, AllHonest, Present
  <1>6. QED BY <1>1, <1>2, <1>3, <1>4, <1>5 DEF Next, Step

LEMMA Invariance == Spec => []IInv
  BY InitInv, NextInv, PTL DEF Spec

(* "We must never wipe the disk we're booting from": the boot drive is left *)
(* alone on every machine whose firmware says truly which it is, whatever   *)
(* is plugged in, however often it is started, fails or loses power.        *)
THEOREM StickIsKept == Spec => []StickKept
  <1>1. IInv => StickKept
    BY DEF IInv
  <1>2. QED BY <1>1, Invariance, PTL

(* Whatever was cut short, what is gone of a drive is its beginning.        *)
THEOREM PrefixIsZeroed == Spec => []PrefixZeroed
  <1>1. IInv => PrefixZeroed
    BY DEF IInv, Zeroed, Prefix, PrefixZeroed
  <1>2. QED BY <1>1, Invariance, PTL

(* "OK" is the truth about the drive that is on the screen.                 *)
THEOREM OkIsTrue == Spec => []OkMeansErased
  <1>1. IInv => OkMeansErased
    BY DEF IInv
  <1>2. QED BY <1>1, Invariance, PTL

(* A sector goes only after Y or y, and only on the drive that is shown.    *)
THEOREM WipesWhatWasShown == Spec => OnlyWhatWasShown
  <1> DEFINE Shown == \A d \in DOMAIN zeroed : zeroed'[d] # zeroed[d] =>
                        /\ yes /\ shown.target = target /\ slot[shown.target] = d /\ usb # target
  <1>1. IInv /\ [Next]_vars => [Shown]_vars
    <2>1. SUFFICES ASSUME IInv, Next PROVE Shown
      OBVIOUS
    <2>2. CASE UNCHANGED zeroed
      BY <2>2
    <2>3. CASE Write /\ Zero(target, lba)
      <3>1. pc = "write" /\ UNCHANGED <<machine, slot, usb, target>>
        BY <2>1, <2>3 DEF Write, KeepStart, Next
      <3>2. \A d \in DOMAIN zeroed : zeroed'[d] # zeroed[d] => d = slot[target]
        BY <2>1, <2>3, <3>1, ZeroStep
      <3>3. yes /\ shown.target = target
        BY <2>1, <3>1 DEF IInv, Looping
      <3>4. usb # target
        <4>1. PICK b \in machine.boots : usb = b.dl
          BY <2>1 DEF IInv, Numbered
        <4>2. usb \in Nat
          BY <2>1, <4>1, MachinesAssumption DEF IInv, Numbered
        <4>3. QED BY <2>1, <4>2, OtherDiffers DEF IInv, Numbered
      <3>5. QED BY <3>2, <3>3, <3>4
    <2>4. QED
      BY <2>1, <2>2, <2>3 DEF Next, Step, Probe, Answer, Write, Reboot, PowerLoss, Start, KeepWipe
  <1>2. QED BY <1>1, Invariance, PTL DEF Spec, OnlyWhatWasShown
=============================================================================
