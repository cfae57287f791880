------------------------- MODULE XpSetupChainProofs -------------------------
(* The XP setup boot sector on every request the library accepts: what it   *)
(* becomes of a request that fits its place, and of one that does not.      *)
EXTENDS XpSetupChain, ChsProofs, SequenceTheorems

Labels == {"build", "refused", "probe", "setup", "read", "allDone",
           "jumped", "halted", "fault", "wild"}
Before == {"build", "refused", "probe", "setup"}
ZeroGeometry == bios.probe /\ (bios.cl % 64 = 0 \/ bios.dh = 255)

(* After n sectors, none of which landed on the code's own, the loop stands *)
(* at the next one, in its run.                                             *)
After(n) ==
  /\ n \in Nat /\ n <= Needed(req)
  /\ IF pc \in Before THEN n = 0 ELSE es = SegAt(req, n)
  /\ \A k \in 0..(n - 1) : ~Hits(SegAt(req, k))
  /\ pc = "read" =>
       /\ run \in 1..Len(runs) /\ left \in 1..Iterations(runs[run].count)
       /\ n + left = req.at[run + 1]
  /\ pc \in {"allDone", "jumped"} => n = Needed(req)
  /\ pc = "wild" => n < Needed(req) /\ Hits(SegAt(req, n))
  /\ pc = "fault" => ZeroGeometry

(* And if the request is sound, they are the first n of the file, each in   *)
(* its place.                                                               *)
Place(n) == req.segment + Step * (n - 1)
Holds(n) ==
  /\ DOMAIN mem = {Place(k) : k \in 1..n}
  /\ \A k \in 1..n : mem[Place(k)] = req.file[k]
  /\ pc = "read" => absLba = req.file[n + 1]
  /\ pc \notin {"wild", "fault"}

(* Only accepted requests get past the builder, and the probe has left what *)
(* the BIOS said.                                                           *)
Accepted == pc \notin {"build", "refused"} => Accepts(req) /\ runs # <<>> /\ Len(runs) <= MaxRuns
Probed ==
  pc \notin {"build", "refused", "probe"} =>
    IF bios.probe THEN spt = ProbedSpt(bios.cl) /\ heads = ProbedHeads(bios.dh)
    ELSE spt = 18 /\ heads = 2
Letters == (pc \in {"halted", "refused"} <=> err # "none") /\ err \in Errors

IInv ==
  /\ TypeOK /\ Accepted /\ Probed /\ Letters
  /\ \E n : After(n) /\ (Sound(req) => Holds(n))

(************************* what is accepted *****************************)
(* An error is one of the six, and what is accepted fails none of them.     *)
LEMMA BuilderVerdict ==
  ASSUME NEW r, Len(r.runs) \in Nat
  PROVE  /\ Accepts(r) => Len(r.runs) >= 1 /\ Len(r.runs) <= MaxRuns
         /\ ~Accepts(r) => Verdict(Checks(r), <<>>).error \in Errors \ {"none", "B"}
  <1> DEFINE checks == Checks(r)
             failed == {i \in DOMAIN checks : checks[i][1]}
             first == CHOOSE i \in failed : \A j \in failed : i <= j
             total == TotalSectors(r.runs) > MaxSectors
             result == Verdict(checks, <<>>)
  <1>1. checks = << <<r.template.len = 0, "NotEmbedded">>,
                    <<Len(r.runs) < 1, "EmptyRuns">>,
                    <<Len(r.runs) > MaxRuns, "TooManyRuns">>,
                    <<total, "TooManySectors">>,
                    <<~r.marked, "MissingBootSignature">>,
                    <<r.segment < MinTargetSeg \/ r.segment > MaxTargetSeg, "BadTargetSegment">> >>
    BY DEF Checks, ChecksOf
  <1> HIDE DEF total
  <1>2. DOMAIN checks = 1..6
    BY <1>1
  <1>3. \A i \in 1..6 : checks[i][2] \in Errors \ {"none", "B"}
    <2>1. /\ checks[1][2] = "NotEmbedded" /\ checks[2][2] = "EmptyRuns"
          /\ checks[3][2] = "TooManyRuns" /\ checks[4][2] = "TooManySectors"
          /\ checks[5][2] = "MissingBootSignature" /\ checks[6][2] = "BadTargetSegment"
      BY <1>1
    <2> HIDE DEF checks
    <2> QED  BY <2>1 DEF Errors
  <1>4. checks[2][1] = (Len(r.runs) < 1) /\ checks[3][1] = (Len(r.runs) > MaxRuns)
    BY <1>1
  <1> HIDE DEF checks
  <1>5. result = IF failed = {} THEN [ok |-> TRUE, sectors |-> <<>>]
                 ELSE [ok |-> FALSE, error |-> checks[first][2]]
    BY DEF Verdict
  <1>6. CASE failed = {}
    <2>1. ~checks[2][1] /\ ~checks[3][1]
      BY <1>2, <1>6
    <2>2. ~(Len(r.runs) < 1) /\ ~(Len(r.runs) > MaxRuns)
      BY <1>4, <2>1, Zenon
    <2>3. result.ok
      BY <1>5, <1>6
    <2> QED  BY <2>2, <2>3, ChainAssumption DEF Accepts, checks
  <1>7. CASE failed # {}
    <2>1. \E i \in failed : \A j \in failed : i <= j
      <3>1. failed \subseteq Nat
        BY <1>2
      <3> HIDE DEF failed
      <3> QED  BY <1>7, <3>1, Least
    <2>2. first \in 1..6
      BY <1>2, <2>1
    <2> HIDE DEF failed, first
    <2>3. ~result.ok /\ result.error \in Errors \ {"none", "B"}
      BY <1>3, <1>5, <1>7, <2>2
    <2> QED  BY <2>3 DEF Accepts, checks
  <1> QED  BY <1>6, <1>7

(*************************** the requests *******************************)
LEMMA RequestFacts ==
  ASSUME req \in Requests
  PROVE  /\ Len(runs) \in Nat /\ runs \in Seq([start : Nat, count : 0..(CountRange - 1)])
         /\ req.segment \in Nat /\ req.segment < Segments /\ req.hidd \in Nat
         /\ req.file \in Seq(Nat) /\ Len(req.file) \in Nat
         /\ bios.probe => bios.cl \in 0..255 /\ bios.dh \in 0..255
         /\ req.at[1] = 0 /\ Needed(req) \in Nat /\ Needed(req) = req.at[Len(runs) + 1]
         /\ \A i \in 1..(Len(runs) + 1) : req.at[i] \in Nat
  <1>1. /\ runs \in Seq([start : Nat, count : 0..(CountRange - 1)])
        /\ req.segment \in 0..(Segments - 1) /\ req.hidd \in Nat /\ req.file \in Seq(Nat)
        /\ bios.probe => bios.cl \in 0..255 /\ bios.dh \in 0..255
        /\ req.at \in [1..(Len(runs) + 1) -> Nat] /\ req.at[1] = 0
    BY RequestsAssumption DEF runs, bios
  <1>2. Segments \in Nat
    BY ChainAssumption
  <1>3. Len(runs) \in Nat /\ Len(req.file) \in Nat /\ req.segment \in Nat /\ req.segment < Segments
    BY <1>1, <1>2
  <1>4. \A i \in 1..(Len(runs) + 1) : req.at[i] \in Nat
    BY <1>1
  <1>5. Needed(req) = req.at[Len(runs) + 1] /\ Len(runs) + 1 \in 1..(Len(runs) + 1)
    BY <1>3 DEF Needed, runs
  <1> QED  BY <1>1, <1>3, <1>4, <1>5

LEMMA RunFacts ==
  ASSUME req \in Requests, NEW i \in 1..Len(runs)
  PROVE  /\ runs[i].count \in Nat /\ runs[i].count < CountRange /\ runs[i].start \in Nat
         /\ Iterations(runs[i].count) \in 1..CountRange
         /\ req.at[i] \in Nat /\ req.at[i + 1] \in Nat
         /\ req.at[i + 1] = req.at[i] + Iterations(runs[i].count)
         /\ req.at[i + 1] <= Needed(req)
  <1>1. /\ runs \in Seq([start : Nat, count : 0..(CountRange - 1)]) /\ Len(runs) \in Nat
        /\ \A k \in 1..(Len(runs) + 1) : req.at[k] \in Nat
    BY RequestFacts
  <1>2. runs[i] \in [start : Nat, count : 0..(CountRange - 1)]
    BY <1>1, ElementOfSeq, Zenon
  <1>3. CountRange \in Nat \ {0}
    BY ChainAssumption
  <1>4. runs[i].start \in Nat /\ runs[i].count \in 0..(CountRange - 1)
    BY <1>2
  <1>5. runs[i].count \in Nat /\ runs[i].count < CountRange
    BY <1>3, <1>4
  <1>6. Iterations(runs[i].count) \in 1..CountRange
    BY <1>3, <1>5 DEF Iterations
  <1>7. req.at[i] \in Nat /\ req.at[i + 1] \in Nat
    <2>1. i \in 1..(Len(runs) + 1) /\ i + 1 \in 1..(Len(runs) + 1)
      BY <1>1
    <2> QED  BY <1>1, <2>1
  <1>8. /\ req.at[i + 1] = req.at[i] + Iterations(runs[i].count)
        /\ req.at[i + 1] <= req.at[Len(runs) + 1]
    BY RequestsAssumption DEF runs
  <1> QED  BY <1>4, <1>5, <1>6, <1>7, <1>8 DEF Needed, runs

(* One sector later ES is one step further, modulo its width.               *)
LEMMA SegmentFacts ==
  ASSUME req \in Requests, NEW n \in Nat
  PROVE  /\ SegAt(req, n) \in Nat /\ SegAt(req, n) < Segments
         /\ SegAt(req, 0) = req.segment
         /\ NextSegment(SegAt(req, n)) = SegAt(req, n + 1)
  <1>1. /\ Segments \in Nat \ {0} /\ Step \in Nat /\ req.segment \in Nat
        /\ req.segment < Segments
    BY RequestFacts, ChainAssumption
  <1>2. PICK a : a = req.segment + Step * n
    OBVIOUS
  <1>3. a \in Nat /\ req.segment + Step * (n + 1) = a + Step
    <2>1. n * Step \in Nat /\ (n + 1) * Step = n * Step + Step
      BY <1>1, ProductSteps
    <2>2. Step * n = n * Step /\ Step * (n + 1) = (n + 1) * Step
      BY <1>1, Z3
    <2> QED  BY <1>1, <1>2, <2>1, <2>2
  <1>4. PICK q, r : q = a \div Segments /\ r = a % Segments
    OBVIOUS
  <1>5. q \in Nat /\ r \in 0..(Segments - 1) /\ a = Segments * q + r
    BY <1>1, <1>3, <1>4, DivMod
  <1>6. PICK p, t : p = (r + Step) \div Segments /\ t = (r + Step) % Segments
    OBVIOUS
  <1>7. p \in Nat /\ t \in 0..(Segments - 1) /\ r + Step = Segments * p + t
    <2>1. r + Step \in Nat
      BY <1>1, <1>5
    <2> QED  BY <1>1, <1>6, <2>1, DivMod
  <1>8. a + Step = (q + p) * Segments + t
    <2>1. (q + p) * Segments = Segments * q + Segments * p
      BY <1>1, <1>5, <1>7, Z3
    <2>2. Segments * q \in Nat /\ Segments * p \in Nat
      BY <1>1, <1>5, <1>7, Z3
    <2> QED  BY <1>1, <1>5, <1>7, <2>1, <2>2
  <1>9. ((q + p) * Segments + t) % Segments = t
    <2>1. q + p \in Nat
      BY <1>5, <1>7
    <2> QED  BY <1>1, <1>7, <2>1, DivModUnique
  <1>10. SegAt(req, n) = r /\ SegAt(req, n + 1) = t
    BY <1>2, <1>3, <1>4, <1>8, <1>9 DEF SegAt
  <1>11. SegAt(req, 0) = req.segment
    <2>1. req.segment + Step * 0 = req.segment
      BY <1>1
    <2> QED  BY <1>1, <2>1, SmallMod DEF SegAt
  <1> QED  BY <1>1, <1>5, <1>6, <1>10, <1>11 DEF NextSegment

(* The divisors are zero only if the BIOS reported a zero.                  *)
LEMMA GeometryFacts ==
  ASSUME req \in Requests, bios.probe
  PROVE  /\ ProbedSpt(bios.cl) \in Nat /\ ProbedSpt(bios.cl) <= 63
         /\ ProbedHeads(bios.dh) \in Nat /\ ProbedHeads(bios.dh) <= 255
         /\ ProbedSpt(bios.cl) = bios.cl % 64
         /\ ProbedHeads(bios.dh) = 0 => bios.dh = 255
  <1>1. PICK c, d : c = bios.cl /\ d = bios.dh
    OBVIOUS
  <1>2. c \in 0..255 /\ d \in 0..255
    BY <1>1, RequestFacts
  <1>3. c % 64 \in 0..63 /\ (d + 1) % 256 \in 0..255 /\ ((d + 1) % 256 = 0 => d = 255)
    BY <1>2
  <1> QED  BY <1>1, <1>3 DEF ProbedSpt, ProbedHeads

(************************ what soundness gives **************************)
LEMMA SoundFacts ==
  ASSUME Sound(req), req \in Requests
  PROVE  Needed(req) = Len(req.file)
         /\ \A i \in 1..Len(runs) :
              /\ runs[i].count >= 1 /\ Iterations(runs[i].count) = runs[i].count
              /\ \A k \in 1..runs[i].count :
                   req.file[req.at[i] + k] = req.hidd + runs[i].start + k - 1
  <1>1. /\ req.at[Len(runs) + 1] = Len(req.file)
        /\ \A i \in 1..Len(runs) :
             /\ runs[i].count >= 1
             /\ \A k \in 1..runs[i].count :
                  req.file[req.at[i] + k] = req.hidd + runs[i].start + k - 1
    BY DEF Sound, Describes, runs
  <1>2. \A i \in 1..Len(runs) : runs[i].count \in Nat
    BY RunFacts
  <1>3. \A i \in 1..Len(runs) : Iterations(runs[i].count) = runs[i].count
    BY <1>1, <1>2 DEF Iterations
  <1> QED  BY <1>1, <1>3 DEF Needed, runs

(* The probe has left the drive's own geometry, whose numbers are not zero. *)
LEMMA SoundGeometry ==
  ASSUME Sound(req), req \in Requests, Probed, pc \notin {"build", "refused", "probe"}
  PROVE  spt = bios.spt /\ heads = bios.heads /\ Fits(bios.spt, bios.heads)
  <1>1. /\ Fits(bios.spt, bios.heads)
        /\ IF bios.probe THEN bios.cl % 64 = bios.spt /\ bios.dh = bios.heads - 1
           ELSE bios.spt = 18 /\ bios.heads = 2
    BY DEF Sound, DriveOK, bios
  <1>2. CASE bios.probe
    <2>1. spt = bios.cl % 64 /\ heads = (bios.dh + 1) % 256
      BY <1>2 DEF Probed, ProbedSpt, ProbedHeads
    <2>2. (bios.heads - 1 + 1) % 256 = bios.heads
      BY <1>1, SmallMod DEF Fits
    <2> QED  BY <1>1, <1>2, <2>1, <2>2
  <1>3. CASE ~bios.probe
    BY <1>1, <1>3 DEF Probed
  <1> QED  BY <1>2, <1>3

(* A sector of the file is read as itself.                                  *)
LEMMA FileFacts ==
  ASSUME Sound(req), req \in Requests, NEW n \in Nat, n < Len(req.file)
  PROVE  /\ req.file[n + 1] \in Nat /\ req.file[n + 1] < Word
         /\ spt = bios.spt /\ heads = bios.heads =>
              Divides(spt, heads) /\ Accessed(req.file[n + 1]) = req.file[n + 1]
  <1>1. req.file \in Seq(Nat) /\ Fits(bios.spt, bios.heads)
    BY RequestFacts DEF Sound, DriveOK, bios
  <1>2. n + 1 \in 1..Len(req.file) /\ req.file[n + 1] \in Nat
    BY <1>1
  <1>3. req.file[n + 1] < Word /\ req.file[n + 1] < Reach(bios.spt, bios.heads)
    BY <1>2 DEF Sound, DriveOK, bios
  <1>4. Seek(Pack(req.file[n + 1], bios.spt, bios.heads), bios.spt, bios.heads) = req.file[n + 1]
    BY <1>1, <1>2, <1>3, ChsRoundTrip
  <1>5. bios.spt # 0 /\ bios.heads # 0
    BY <1>1 DEF Fits
  <1> QED  BY <1>2, <1>3, <1>4, <1>5 DEF Divides, Accessed

(* Each sector of the file has a place of its own, free and below RamTop.   *)
LEMMA PlaceFacts ==
  ASSUME Sound(req), req \in Requests, NEW n \in Nat, n <= Len(req.file)
  PROVE  /\ Place(n + 1) = req.segment + Step * n /\ Place(n + 1) \in Nat
         /\ SegAt(req, n) = Place(n + 1)
         /\ n < Len(req.file) => ~Hits(SegAt(req, n))
         /\ \A k \in 1..n : Place(k) # Place(n + 1)
  <1> DEFINE len == Len(req.file)
  <1>0. /\ req.segment \in Nat /\ len \in Nat /\ Step \in Nat /\ Step >= 1
        /\ RamTop \in Nat /\ Segments \in Nat /\ RamTop < Segments /\ Resident \subseteq Int
    BY RequestFacts, ChainAssumption
  <1>1. /\ n * Step \in Nat /\ len * Step \in Nat
        /\ n < len => n * Step + Step <= len * Step
    BY <1>0, ProductSteps
  <1>2. Step * n = n * Step /\ Step * len = len * Step
    BY <1>0, Z3
  <1>3. Place(n + 1) = req.segment + Step * n
    BY <1>0 DEF Place
  <1>4. /\ req.segment + Step * len <= RamTop
        /\ \A q \in Resident : q < req.segment \/ q >= req.segment + Step * len
    BY DEF Sound, FitsMemory
  <1> HIDE DEF len
  <1>5. /\ Place(n + 1) \in Nat /\ Place(n + 1) >= req.segment
        /\ Place(n + 1) <= req.segment + Step * len
        /\ n < len => Place(n + 1) + Step <= req.segment + Step * len
    <2>1. n <= len /\ n * Step <= len * Step
      <3>1. n <= len
        BY DEF len
      <3>2. CASE n = len
        BY <1>1, <3>2
      <3>3. CASE n < len
        BY <1>0, <1>1, <3>3
      <3> QED  BY <1>0, <3>1, <3>2, <3>3
    <2> QED  BY <1>0, <1>1, <1>2, <1>3, <2>1
  <1>6. SegAt(req, n) = Place(n + 1)
    <2>1. Place(n + 1) < Segments
      BY <1>0, <1>1, <1>2, <1>4, <1>5
    <2>2. Place(n + 1) % Segments = Place(n + 1)
      BY <1>0, <1>5, <2>1, SmallMod
    <2> QED  BY <1>3, <2>2 DEF SegAt
  <1>7. ASSUME n < len PROVE ~Hits(SegAt(req, n))
    <2>1. SUFFICES ASSUME NEW k \in 0..(Step - 1), (Place(n + 1) + k) % Segments \in Resident
                   PROVE  FALSE
      BY <1>6 DEF Hits
    <2>2. PICK a : a = Place(n + 1) + k
      OBVIOUS
    <2>3. /\ a \in Nat /\ a >= req.segment /\ a < req.segment + Step * len
          /\ a < Segments
      BY <1>0, <1>1, <1>2, <1>4, <1>5, <1>7, <2>2
    <2>4. a % Segments = a
      BY <1>0, <2>3, SmallMod
    <2> QED  BY <1>0, <1>1, <1>2, <1>4, <2>1, <2>2, <2>3, <2>4
  <1>8. ASSUME NEW k \in 1..n PROVE Place(k) # Place(n + 1)
    <2>1. k - 1 \in Nat /\ k - 1 < n /\ n \in Nat
      OBVIOUS
    <2>2. (k - 1) * Step + Step <= n * Step /\ (k - 1) * Step \in Nat
      BY <1>0, <2>1, ProductSteps
    <2>3. Step * (k - 1) = (k - 1) * Step
      BY <1>0, <2>1, Z3
    <2>4. Place(k) = req.segment + (k - 1) * Step
      BY <2>3 DEF Place
    <2> QED  BY <1>0, <1>1, <1>2, <1>3, <2>2, <2>4
  <1> QED  BY <1>3, <1>5, <1>6, <1>7, <1>8 DEF len

(*************************** the invariant ******************************)
LEMMA InitInv == Init => IInv
  <1>1. SUFFICES ASSUME Init PROVE IInv
    OBVIOUS
  <1>2. req \in Requests /\ Len(runs) \in Nat /\ Needed(req) \in Nat
    BY <1>1, RequestFacts DEF Init
  <1>3. TypeOK
    BY <1>1, <1>2, ChainAssumption DEF Init, TypeOK, Errors
  <1>4. After(0)
    BY <1>1, <1>2 DEF Init, After, Before
  <1>5. Holds(0)
    BY <1>1 DEF Init, Holds
  <1> QED  BY <1>1, <1>3, <1>4, <1>5 DEF Init, IInv, Accepted, Probed, Letters, Errors

(* Before the loop nothing is copied.                                       *)
LEMMA Frame ==
  ASSUME NEW n, After(n), Sound(req) => Holds(n), UNCHANGED <<req, mem>>,
         pc \in Before, pc' \in Before
  PROVE  After(n)' /\ (Sound(req)' => Holds(n)')
  BY DEF After, Holds, Place, Before, ZeroGeometry

LEMMA BuildStep ==
  ASSUME IInv, Build, UNCHANGED req
  PROVE  IInv'
  <1>1. PICK n : After(n) /\ (Sound(req) => Holds(n))
    BY DEF IInv
  <1>2. /\ UNCHANGED <<runs, bios, spt, heads, run, absLba, left, es, mem>>
        /\ pc = "build" /\ err = "none" /\ req \in Requests
    BY DEF Build, KeepLoop, runs, bios, IInv, TypeOK, Letters
  <1>3. CASE Accepts(req) /\ pc' = "probe" /\ UNCHANGED err
    <2>1. Len(runs) <= MaxRuns /\ runs # <<>>
      BY <1>2, <1>3, RequestFacts, BuilderVerdict DEF runs
    <2>2. Accepted' /\ TypeOK'
      BY <1>2, <1>3, <2>1 DEF Accepted, IInv, TypeOK
    <2>3. After(n)' /\ (Sound(req)' => Holds(n)')
      BY <1>1, <1>2, <1>3, Frame DEF Before
    <2> QED  BY <1>2, <1>3, <2>2, <2>3 DEF IInv, Probed, Letters
  <1>4. CASE ~Accepts(req) /\ pc' = "refused" /\ err' = Verdict(Checks(req), <<>>).error
    <2>1. err' \in Errors \ {"none", "B"}
      BY <1>2, <1>4, RequestFacts, BuilderVerdict DEF runs
    <2>2. Accepted' /\ TypeOK'
      BY <1>2, <1>4, <2>1 DEF Accepted, IInv, TypeOK
    <2>3. After(n)' /\ (Sound(req)' => Holds(n)')
      BY <1>1, <1>2, <1>4, Frame DEF Before
    <2> QED  BY <1>2, <1>4, <2>1, <2>2, <2>3 DEF IInv, Probed, Letters
  <1> QED  BY <1>3, <1>4 DEF Build, Accepts, Goto

(* Either way the cells hold what the BIOS said, or the profile.            *)
LEMMA ProbeStep ==
  ASSUME IInv, ProbeAnswered \/ ProbeFallback, UNCHANGED req
  PROVE  IInv'
  <1>1. PICK n : After(n) /\ (Sound(req) => Holds(n))
    BY DEF IInv
  <1>2. /\ UNCHANGED <<runs, bios, run, absLba, left, es, mem, err>>
        /\ pc = "probe" /\ pc' = "setup" /\ req \in Requests
    BY DEF ProbeAnswered, ProbeFallback, Goto, KeepLoop, runs, bios, IInv, TypeOK
  <1>3. Probed'
    BY <1>2 DEF ProbeAnswered, ProbeFallback, Probed
  <1>4. spt' \in Nat /\ spt' <= 63 /\ heads' \in Nat /\ heads' <= 255
    <2>1. CASE ProbeAnswered
      BY <1>2, <2>1, GeometryFacts DEF ProbeAnswered
    <2>2. CASE ProbeFallback
      BY <2>2 DEF ProbeFallback
    <2> QED  BY <2>1, <2>2
  <1>5. TypeOK'
    BY <1>2, <1>4 DEF IInv, TypeOK
  <1>6. After(n)' /\ (Sound(req)' => Holds(n)')
    BY <1>1, <1>2, Frame DEF Before
  <1> QED  BY <1>2, <1>3, <1>5, <1>6 DEF IInv, Accepted, Letters

(* Entering run i after at[i] sectors, or the end after the last run.       *)
LEMMA EnterFacts ==
  ASSUME req \in Requests, NEW i \in 1..(Len(runs) + 1), EnterRun(i), UNCHANGED req
  PROVE  /\ UNCHANGED err /\ run' = i
         /\ \/ /\ pc' = "read" /\ i \in 1..Len(runs)
               /\ absLba' = Absolute(i) /\ absLba' \in Nat /\ absLba' < Word
               /\ left' = Iterations(runs[i].count) /\ left' \in 1..CountRange
               /\ req.at[i] + left' = req.at[i + 1] /\ req.at[i] < Needed(req)
            \/ /\ pc' = "allDone" /\ req.at[i] = Needed(req)
               /\ UNCHANGED <<absLba, left>>
  <1>0. Len(runs) \in Nat /\ Needed(req) = req.at[Len(runs) + 1]
    BY RequestFacts
  <1>1. CASE i <= Len(runs)
    <2>1. i \in 1..Len(runs)
      BY <1>0, <1>1
    <2>2. PICK c, s, a, b, h : /\ c = Iterations(runs[i].count) /\ s = runs[i].start
                               /\ a = req.at[i] /\ b = req.at[i + 1] /\ h = req.hidd
      OBVIOUS
    <2>3. /\ c \in 1..CountRange /\ s \in Nat /\ a \in Nat /\ b = a + c
          /\ b <= Needed(req) /\ Needed(req) \in Nat /\ h \in Nat /\ CountRange \in Nat
      BY <2>1, <2>2, RunFacts, RequestFacts, ChainAssumption
    <2>4. Absolute(i) = (s + h) % Word
      BY <2>2 DEF Absolute
    <2>5. Absolute(i) \in Nat /\ Absolute(i) < Word
      BY <2>3, <2>4, ChainAssumption
    <2>6. a + c = b /\ a < Needed(req)
      BY <2>3
    <2>7. /\ pc' = "read" /\ run' = i /\ absLba' = Absolute(i)
          /\ left' = Iterations(runs[i].count) /\ UNCHANGED err
      BY <1>1 DEF EnterRun, Goto
    <2> QED  BY <2>1, <2>2, <2>3, <2>5, <2>6, <2>7
  <1>2. CASE i = Len(runs) + 1
    BY <1>0, <1>2 DEF EnterRun, Goto
  <1> QED  BY <1>0, <1>1, <1>2

(* Of a sound request, a run is entered at the next sector of the file.     *)
LEMMA EnterSound ==
  ASSUME Sound(req), req \in Requests, NEW i \in 1..Len(runs)
  PROVE  Absolute(i) = req.file[req.at[i] + 1]
  <1>1. PICK a, s, h, f : /\ a = req.at[i] /\ s = runs[i].start /\ h = req.hidd
                          /\ f = req.file[req.at[i] + 1]
    OBVIOUS
  <1>2. /\ a \in Nat /\ s \in Nat /\ h \in Nat /\ runs[i].count \in Nat /\ runs[i].count >= 1
        /\ a + runs[i].count <= Needed(req) /\ Needed(req) = Len(req.file)
        /\ Needed(req) \in Nat
    BY <1>1, RunFacts, RequestFacts, SoundFacts
  <1>3. f = h + s + 1 - 1
    BY <1>1, <1>2, SoundFacts
  <1>4. f \in Nat /\ f < Word
    <2>1. a < Len(req.file)
      BY <1>2
    <2> QED  BY <1>1, <1>2, <2>1, FileFacts
  <1>5. s + h = f
    BY <1>2, <1>3
  <1> QED  BY <1>1, <1>4, <1>5, SmallMod, ChainAssumption DEF Absolute

LEMMA SetupStep ==
  ASSUME IInv, Setup, UNCHANGED req
  PROVE  IInv' /\ After(0)' /\ (Sound(req)' => Holds(0)')
  <1>1. PICK n : After(n) /\ (Sound(req) => Holds(n))
    BY DEF IInv
  <1>2. /\ UNCHANGED <<runs, bios, spt, heads, mem>> /\ EnterRun(1) /\ es' = req.segment
        /\ pc = "setup" /\ req \in Requests /\ Accepts(req) /\ runs # <<>> /\ Len(runs) <= MaxRuns
    BY DEF Setup, runs, bios, IInv, TypeOK, Accepted
  <1>3. /\ Len(runs) \in Nat /\ req.at[1] = 0 /\ Needed(req) \in Nat /\ n = 0
        /\ 1 \in 1..(Len(runs) + 1)
    BY <1>1, <1>2, RequestFacts DEF After, Before
  <1>4. /\ UNCHANGED err /\ run' = 1
        /\ \/ /\ pc' = "read" /\ 1 \in 1..Len(runs)
              /\ absLba' = Absolute(1) /\ absLba' \in Nat /\ absLba' < Word
              /\ left' = Iterations(runs[1].count) /\ left' \in 1..CountRange
              /\ 0 + left' = req.at[1 + 1] /\ 0 < Needed(req)
           \/ pc' = "allDone" /\ 0 = Needed(req) /\ UNCHANGED <<absLba, left>>
    BY <1>2, <1>3, EnterFacts
  <1>5. es' = SegAt(req, 0) /\ es' \in Nat /\ es' < Segments
    BY <1>2, SegmentFacts
  <1>6. After(0)'
    <2>1. CASE pc' = "read"
      <3>1. left' \in 1..Iterations(runs[1].count)
        BY <1>4, <2>1, ChainAssumption
      <3> QED  BY <1>2, <1>3, <1>4, <1>5, <2>1, <3>1 DEF After, Before
    <2>2. CASE pc' = "allDone"
      BY <1>2, <1>3, <1>4, <1>5, <2>2 DEF After, Before
    <2> QED  BY <1>4, <2>1, <2>2
  <1>7. ASSUME Sound(req) PROVE Holds(0)'
    <2>0. 1..n = {} /\ 1..0 = {}
      BY <1>3
    <2>1. DOMAIN mem = {}
      BY <1>1, <1>7, <2>0 DEF Holds
    <2>2. pc' = "read" => absLba' = req.file[0 + 1]
      BY <1>2, <1>3, <1>4, <1>7, EnterSound
    <2> QED  BY <1>2, <1>4, <2>1, <2>2 DEF Holds
  <1>8. TypeOK'
    BY <1>2, <1>3, <1>4, <1>5, ChainAssumption DEF IInv, TypeOK
  <1>9. Accepted' /\ Probed' /\ Letters'
    BY <1>2, <1>4 DEF IInv, Accepted, Probed, Letters
  <1> QED  BY <1>6, <1>7, <1>8, <1>9 DEF IInv

(* The jump, and the halt after a failed read, copy nothing.                *)
LEMMA StopStep ==
  ASSUME IInv, UNCHANGED <<req, spt, heads>>, KeepLoop,
         \/ pc = "allDone" /\ Goto("jumped")
         \/ pc = "read" /\ Halt
  PROVE  IInv' /\ \A n : After(n) => After(n)' /\ (Holds(n) => Holds(n)')
  <1>1. UNCHANGED <<runs, bios, run, absLba, left, es, mem>>
        /\ pc \in {"allDone", "read"} /\ pc' \in {"jumped", "halted"}
        /\ (pc' = "jumped" => pc = "allDone")
    BY DEF KeepLoop, runs, bios, Goto, Halt
  <1>2. ASSUME NEW n, After(n) PROVE After(n)' /\ (Holds(n) => Holds(n)')
    <2>1. After(n)'
      BY <1>1, <1>2 DEF After, Before
    <2>2. Holds(n) => Holds(n)'
      BY <1>1 DEF Holds, Place
    <2> QED  BY <2>1, <2>2
  <1>3. TypeOK'
    BY <1>1 DEF IInv, TypeOK, Goto, Halt, Errors
  <1>4. Accepted' /\ Probed' /\ Letters'
    BY <1>1 DEF IInv, Accepted, Probed, Letters, Goto, Halt, Errors
  <1>5. \E n : After(n)' /\ (Sound(req)' => Holds(n)')
    <2>1. PICK n : After(n) /\ (Sound(req) => Holds(n))
      BY DEF IInv
    <2> QED  BY <1>2, <2>1
  <1> QED  BY <1>2, <1>3, <1>4, <1>5 DEF IInv

(* Where the loop stands when it reads.                                     *)
LEMMA ReadFacts ==
  ASSUME IInv, pc = "read", NEW n, After(n)
  PROVE  /\ req \in Requests /\ n \in Nat /\ n < Needed(req) /\ Needed(req) \in Nat
         /\ es = SegAt(req, n) /\ run \in 1..Len(runs) /\ Len(runs) \in Nat
         /\ left \in 1..Iterations(runs[run].count) /\ Iterations(runs[run].count) \in 1..CountRange
         /\ n + left = req.at[run + 1] /\ req.at[run + 1] = req.at[run] + Iterations(runs[run].count)
         /\ req.at[run] \in Nat /\ req.at[run + 1] \in Nat
         /\ Accepts(req) /\ runs # <<>> /\ Len(runs) <= MaxRuns /\ err = "none"
  <1>1. /\ req \in Requests /\ Accepts(req) /\ runs # <<>> /\ Len(runs) <= MaxRuns /\ err = "none"
    BY DEF IInv, TypeOK, Accepted, Letters
  <1>2. /\ n \in Nat /\ es = SegAt(req, n) /\ run \in 1..Len(runs)
        /\ left \in 1..Iterations(runs[run].count) /\ n + left = req.at[run + 1]
    BY DEF After, Before
  <1>3. /\ Len(runs) \in Nat /\ Needed(req) \in Nat
        /\ Iterations(runs[run].count) \in 1..CountRange
        /\ req.at[run + 1] = req.at[run] + Iterations(runs[run].count)
        /\ req.at[run] \in Nat /\ req.at[run + 1] \in Nat /\ req.at[run + 1] <= Needed(req)
    BY <1>1, <1>2, RequestFacts, RunFacts
  <1>4. PICK a, c : a = req.at[run + 1] /\ c = Iterations(runs[run].count)
    OBVIOUS
  <1>5. n < Needed(req)
    <2>1. /\ a \in Nat /\ a <= Needed(req) /\ left \in 1..c /\ n + left = a /\ c \in 1..CountRange
          /\ CountRange \in Nat
      BY <1>2, <1>3, <1>4, ChainAssumption
    <2> QED  BY <1>2, <1>3, <2>1
  <1> QED  BY <1>1, <1>2, <1>3, <1>5

(* Of a sound request, the sector about to be read is the file's next, and  *)
(* its place is free.                                                       *)
LEMMA CopyFacts ==
  ASSUME IInv, pc = "read", Sound(req), NEW n, After(n), Holds(n)
  PROVE  /\ n < Len(req.file) /\ es = Place(n + 1) /\ ~Hits(es)
         /\ Divides(spt, heads) /\ absLba = req.file[n + 1] /\ Accessed(absLba) = req.file[n + 1]
         /\ \A k \in 1..n : Place(k) # Place(n + 1)
  <1>1. /\ req \in Requests /\ n \in Nat /\ n < Needed(req) /\ es = SegAt(req, n)
    BY ReadFacts
  <1>2. n < Len(req.file) /\ Len(req.file) \in Nat
    BY <1>1, SoundFacts, RequestFacts
  <1>3. /\ es = Place(n + 1) /\ ~Hits(es) /\ \A k \in 1..n : Place(k) # Place(n + 1)
    <2>1. n <= Len(req.file)
      BY <1>1, <1>2
    <2> QED  BY <1>1, <1>2, <2>1, PlaceFacts
  <1>4. spt = bios.spt /\ heads = bios.heads
    BY <1>1, SoundGeometry DEF IInv
  <1> QED  BY <1>1, <1>2, <1>3, <1>4, FileFacts DEF Holds

(* One sector more in memory, at the end of what is there.                  *)
LEMMA HoldsOneMore ==
  ASSUME NEW n \in Nat, Holds(n), \A k \in 1..n : Place(k) # Place(n + 1), UNCHANGED req,
         mem' = Stored(Place(n + 1), req.file[n + 1]), pc' \notin {"wild", "fault"},
         pc' = "read" => absLba' = req.file[(n + 1) + 1]
  PROVE  Holds(n + 1)'
  <1>1. DOMAIN mem = {Place(k) : k \in 1..n} /\ \A k \in 1..n : mem[Place(k)] = req.file[k]
    BY DEF Holds
  <1>2. mem' = [x \in DOMAIN mem \cup {Place(n + 1)} |->
                  IF x = Place(n + 1) THEN req.file[n + 1] ELSE mem[x]]
    BY DEF Stored
  <1>3. \A k : Place(k)' = Place(k)
    BY DEF Place
  <1>4. 1..(n + 1) = (1..n) \cup {n + 1}
    OBVIOUS
  <1>5. DOMAIN mem' = {Place(k)' : k \in 1..(n + 1)}
    BY <1>1, <1>2, <1>3, <1>4
  <1>6. \A k \in 1..(n + 1) : mem'[Place(k)'] = req.file[k]
    BY <1>1, <1>2, <1>3, <1>4
  <1> QED  BY <1>5, <1>6 DEF Holds

(* The two ways to go on, in the run and at its end.                        *)
LEMMA AdvanceFacts ==
  ASSUME IInv, pc = "read", NEW n, After(n), Advance, UNCHANGED req
  PROVE  /\ UNCHANGED err /\ pc' \in {"read", "allDone"} /\ run' \in 1..(Len(runs) + 1)
         /\ absLba' \in Nat /\ absLba' < Word /\ left' \in Nat /\ left' <= CountRange
         /\ pc' = "read" =>
              /\ run' \in 1..Len(runs) /\ left' \in 1..Iterations(runs[run'].count)
              /\ (n + 1) + left' = req.at[run' + 1]
         /\ pc' = "allDone" => n + 1 = Needed(req)
         /\ \/ /\ left > 1 /\ pc' = "read" /\ run' = run /\ absLba' = (absLba + 1) % Word
            \/ /\ pc' = "read" /\ run' \in 1..Len(runs) /\ absLba' = Absolute(run')
               /\ req.at[run'] = n + 1
            \/ pc' = "allDone"
  <1>1. /\ req \in Requests /\ n \in Nat /\ run \in 1..Len(runs) /\ Len(runs) \in Nat
        /\ left \in 1..Iterations(runs[run].count) /\ Iterations(runs[run].count) \in 1..CountRange
        /\ n + left = req.at[run + 1] /\ Needed(req) \in Nat
    BY ReadFacts
  <1>2. PICK c, a : c = Iterations(runs[run].count) /\ a = req.at[run + 1]
    OBVIOUS
  <1>3. /\ c \in 1..CountRange /\ left \in 1..c /\ n + left = a /\ CountRange \in Nat
        /\ Word \in Nat \ {0} /\ absLba \in Nat /\ absLba < Word
    BY <1>1, <1>2, ChainAssumption DEF IInv, TypeOK
  <1>4. CASE left > 1
    <2>1. absLba' = (absLba + 1) % Word /\ left' = left - 1 /\ pc' = "read" /\ UNCHANGED <<run, err>>
      BY <1>4 DEF Advance, Goto
    <2>2. left' \in 1..c /\ left' \in Nat /\ left' <= CountRange /\ (n + 1) + left' = a
      BY <1>1, <1>3, <1>4, <2>1
    <2>3. absLba' \in Nat /\ absLba' < Word
      BY <1>3, <2>1
    <2> QED  BY <1>1, <1>2, <1>4, <2>1, <2>2, <2>3
  <1>5. CASE ~(left > 1)
    <2>1. left = 1 /\ a = n + 1 /\ EnterRun(run + 1)
      BY <1>1, <1>3, <1>5 DEF Advance
    <2>2. PICK i \in 1..(Len(runs) + 1) : i = run + 1
      BY <1>1
    <2>3. EnterRun(i) /\ req.at[i] = n + 1
      BY <1>2, <2>1, <2>2
    <2>4. /\ UNCHANGED err /\ run' = i
          /\ \/ /\ pc' = "read" /\ i \in 1..Len(runs)
                /\ absLba' = Absolute(i) /\ absLba' \in Nat /\ absLba' < Word
                /\ left' = Iterations(runs[i].count) /\ left' \in 1..CountRange
                /\ (n + 1) + left' = req.at[i + 1]
             \/ /\ pc' = "allDone" /\ n + 1 = Needed(req)
                /\ UNCHANGED <<absLba, left>>
      BY <1>1, <2>3, EnterFacts
    <2>5. CASE pc' = "read"
      <3>1. left' \in 1..left' /\ left' \in Nat /\ left' <= CountRange
        BY <1>3, <2>4, <2>5
      <3> QED  BY <2>3, <2>4, <2>5, <3>1
    <2>6. CASE pc' = "allDone"
      <3>1. left \in Nat /\ left <= CountRange
        BY DEF IInv, TypeOK
      <3> QED  BY <1>3, <2>4, <2>6, <3>1
    <2> QED  BY <2>4, <2>5, <2>6
  <1> QED  BY <1>4, <1>5

(* The next sector read is the next of the file, in its run or at the start *)
(* of the next one.                                                         *)
LEMMA NextOfFile ==
  ASSUME IInv, pc = "read", Sound(req), NEW n, After(n), Holds(n), Advance, UNCHANGED req,
         pc' = "read"
  PROVE  absLba' = req.file[(n + 1) + 1]
  <1>1. /\ req \in Requests /\ n \in Nat /\ run \in 1..Len(runs)
        /\ left \in 1..Iterations(runs[run].count) /\ Iterations(runs[run].count) \in 1..CountRange
        /\ n + left = req.at[run + 1] /\ req.at[run + 1] = req.at[run] + Iterations(runs[run].count)
        /\ req.at[run] \in Nat /\ absLba = req.file[n + 1]
    BY ReadFacts, CopyFacts
  <1>2. CASE left > 1 /\ absLba' = (absLba + 1) % Word
    <2>1. PICK a, c, s, h : /\ a = req.at[run] /\ c = runs[run].count
                            /\ s = runs[run].start /\ h = req.hidd
      OBVIOUS
    <2>2. /\ Iterations(runs[run].count) = c /\ c \in Nat /\ s \in Nat /\ h \in Nat
          /\ \A k \in 1..c : req.file[a + k] = h + s + k - 1
          /\ req.at[run + 1] <= Len(req.file) /\ Len(req.file) \in Nat
      BY <1>1, <2>1, SoundFacts, RunFacts, RequestFacts
    <2>3. /\ a \in Nat /\ left \in 1..c /\ left > 1 /\ n + left = a + c
      BY <1>1, <1>2, <2>1, <2>2
    <2>4. PICK k : k = n + 1 - a
      OBVIOUS
    <2>5. k \in 1..c /\ k + 1 \in 1..c /\ a + k = n + 1 /\ a + (k + 1) = (n + 1) + 1
      <3>1. n \in Nat /\ c \in Nat /\ left \in 1..c
        BY <1>1, <2>2, <2>3
      <3> QED  BY <2>3, <2>4, <3>1
    <2>6. req.file[a + k] = h + s + k - 1 /\ req.file[a + (k + 1)] = h + s + (k + 1) - 1
      BY <2>2, <2>5
    <2>7. PICK x, y : x = req.file[n + 1] /\ y = req.file[(n + 1) + 1]
      OBVIOUS
    <2>8. x = h + s + k - 1 /\ y = h + s + (k + 1) - 1
      BY <2>5, <2>6, <2>7
    <2>9. y = x + 1 /\ y \in Nat
      BY <2>2, <2>5, <2>8
    <2>10. y < Word
      <3>1. n + 1 \in Nat /\ n + 1 < Len(req.file)
        BY <1>1, <2>1, <2>2, <2>3
      <3> QED  BY <1>1, <2>7, <3>1, FileFacts
    <2>11. absLba' = (x + 1) % Word
      BY <1>1, <1>2, <2>7
    <2> QED  BY <2>7, <2>9, <2>10, <2>11, SmallMod, ChainAssumption
  <1>3. CASE run' \in 1..Len(runs) /\ absLba' = Absolute(run') /\ req.at[run'] = n + 1
    BY <1>1, <1>3, EnterSound
  <1> QED  BY <1>2, <1>3, AdvanceFacts

(* A sector is read where no code is needed, and the loop goes on.          *)
LEMMA CopyStep ==
  ASSUME IInv, pc = "read", UNCHANGED <<req, spt, heads>>,
         mem' = Stored(es, Accessed(absLba)), ~Hits(es), Advance,
         NEW n, After(n), Sound(req) => Holds(n)
  PROVE  IInv' /\ After(n + 1)' /\ (Sound(req) => Holds(n + 1)')
  <1>1. /\ req \in Requests /\ n \in Nat /\ n < Needed(req) /\ Needed(req) \in Nat
        /\ es = SegAt(req, n) /\ Len(runs) \in Nat
        /\ Accepts(req) /\ runs # <<>> /\ Len(runs) <= MaxRuns /\ err = "none"
        /\ UNCHANGED <<runs, bios>>
    BY ReadFacts DEF runs, bios
  <1>2. /\ UNCHANGED err /\ pc' \in {"read", "allDone"} /\ run' \in 1..(Len(runs) + 1)
        /\ absLba' \in Nat /\ absLba' < Word /\ left' \in Nat /\ left' <= CountRange
        /\ pc' = "read" =>
             /\ run' \in 1..Len(runs) /\ left' \in 1..Iterations(runs[run'].count)
             /\ (n + 1) + left' = req.at[run' + 1]
        /\ pc' = "allDone" => n + 1 = Needed(req)
    BY AdvanceFacts
  <1>3. es' = SegAt(req, n + 1) /\ es' \in Nat /\ es' < Segments
    <2>1. n + 1 \in Nat
      BY <1>1
    <2> QED  BY <1>1, <2>1, SegmentFacts DEF Advance
  <1>4. After(n + 1)'
    <2>1. \A k \in 0..((n + 1) - 1) : ~Hits(SegAt(req, k))
      <3>1. \A k \in 0..(n - 1) : ~Hits(SegAt(req, k))
        BY DEF After
      <3>2. 0..((n + 1) - 1) = (0..(n - 1)) \cup {n}
        BY <1>1
      <3> QED  BY <1>1, <3>1, <3>2
    <2>2. n + 1 \in Nat /\ n + 1 <= Needed(req)
      BY <1>1
    <2> QED  BY <1>1, <1>2, <1>3, <2>1, <2>2 DEF After, Before
  <1>5. ASSUME Sound(req) PROVE Holds(n + 1)'
    <2>1. /\ es = Place(n + 1) /\ Accessed(absLba) = req.file[n + 1]
          /\ \A k \in 1..n : Place(k) # Place(n + 1)
      BY <1>5, CopyFacts
    <2>2. pc' = "read" => absLba' = req.file[(n + 1) + 1]
      BY <1>5, NextOfFile
    <2> QED  BY <1>1, <1>2, <1>5, <2>1, <2>2, HoldsOneMore
  <1>6. TypeOK'
    <2>1. run' \in Nat /\ 1 <= run' /\ run' <= Len(runs') + 1
      BY <1>1, <1>2
    <2> QED  BY <1>1, <1>2, <1>3, <2>1 DEF IInv, TypeOK
  <1>7. Accepted' /\ Probed' /\ Letters'
    BY <1>1, <1>2 DEF IInv, Accepted, Probed, Letters
  <1> QED  BY <1>4, <1>5, <1>6, <1>7 DEF IInv

(* The two ways to be lost: a division by zero, and a sector over the code. *)
LEMMA LostStep ==
  ASSUME IInv, pc = "read", UNCHANGED <<req, spt, heads, run, absLba, left, es>>,
         \/ pc' = "fault" /\ ~Divides(spt, heads)
         \/ pc' = "wild" /\ Hits(es),
         UNCHANGED err
  PROVE  IInv' /\ ~Sound(req)
  <1>1. PICK n : After(n) /\ (Sound(req) => Holds(n))
    BY DEF IInv
  <1>2. /\ req \in Requests /\ n \in Nat /\ n < Needed(req) /\ es = SegAt(req, n)
        /\ err = "none" /\ UNCHANGED <<runs, bios>> /\ pc' \in {"fault", "wild"}
    BY <1>1, ReadFacts DEF runs, bios
  <1>3. ~Sound(req)
    BY <1>1, CopyFacts
  <1>4. pc' = "fault" => ZeroGeometry
    <2>1. SUFFICES ASSUME pc' = "fault" PROVE ZeroGeometry
      OBVIOUS
    <2>2. spt = 0 \/ heads = 0
      BY <2>1 DEF Divides
    <2> QED  BY <1>2, <2>2, GeometryFacts DEF IInv, Probed, ZeroGeometry
  <1>5. pc' = "wild" => Hits(SegAt(req, n))
    BY <1>2
  <1>6. After(n)'
    <2>1. ZeroGeometry' = ZeroGeometry
      BY <1>2 DEF ZeroGeometry
    <2>2. After(n)
      BY <1>1
    <2> QED  BY <1>2, <1>4, <1>5, <2>1, <2>2 DEF After, Before
  <1>7. TypeOK'
    BY <1>2 DEF IInv, TypeOK
  <1>8. Accepted' /\ Probed' /\ Letters'
    BY <1>2 DEF IInv, Accepted, Probed, Letters
  <1> QED  BY <1>3, <1>6, <1>7, <1>8 DEF IInv

(* The step that reads: it halts, is lost, or copies a sector.              *)
LEMMA ReadStep ==
  ASSUME IInv, ReadSector, UNCHANGED req
  PROVE  /\ IInv'
         /\ \/ pc' = "halted" /\ KeepLoop /\ UNCHANGED <<spt, heads>> /\ Halt
            \/ ~Sound(req)
            \/ /\ pc' \in {"read", "allDone"}
               /\ \A n : After(n) /\ Holds(n) => After(n + 1)' /\ Holds(n + 1)'
  <1>1. pc = "read" /\ UNCHANGED <<spt, heads>>
    BY DEF ReadSector
  <1>2. CASE Halt /\ KeepLoop
    BY <1>1, <1>2, StopStep DEF Halt
  <1>3. CASE \/ ~Divides(spt, heads) /\ Goto("fault") /\ KeepLoop
             \/ Hits(es) /\ Goto("wild") /\ UNCHANGED <<run, absLba, left, es>>
    BY <1>1, <1>3, LostStep DEF Goto, KeepLoop
  <1>4. CASE mem' = Stored(es, Accessed(absLba)) /\ ~Hits(es) /\ Advance
    <2>1. PICK n : After(n) /\ (Sound(req) => Holds(n))
      BY DEF IInv
    <2>2. IInv' /\ pc' \in {"read", "allDone"}
      BY <1>1, <1>4, <2>1, CopyStep, AdvanceFacts
    <2>3. ASSUME Sound(req), NEW k, After(k), Holds(k) PROVE After(k + 1)' /\ Holds(k + 1)'
      BY <1>1, <1>4, <2>3, CopyStep
    <2> QED  BY <2>2, <2>3
  <1> QED  BY <1>1, <1>2, <1>3, <1>4 DEF ReadSector

LEMMA StutterStep ==
  ASSUME IInv, UNCHANGED vars
  PROVE  IInv'
  <1>1. UNCHANGED <<req, pc, err, spt, heads, run, absLba, left, es, mem, runs, bios>>
    BY DEF vars, runs, bios
  <1>2. TypeOK' /\ Accepted' /\ Probed' /\ Letters'
    BY <1>1 DEF IInv, TypeOK, Accepted, Probed, Letters
  <1>3. \A n : After(n) /\ (Sound(req) => Holds(n)) => After(n)' /\ (Sound(req)' => Holds(n)')
    BY <1>1 DEF After, Holds, Place, ZeroGeometry
  <1> QED  BY <1>2, <1>3 DEF IInv

LEMMA NextInv == IInv /\ [Next]_vars => IInv'
  BY BuildStep, ProbeStep, SetupStep, ReadStep, StopStep, StutterStep DEF Next, Jump

LEMMA Invariance == Spec => []IInv
  BY InitInv, NextInv, PTL DEF Spec

(**************************** what follows ******************************)
(* The registers keep their widths, also where 16-bit segments and 32-bit   *)
(* LBAs wrap.                                                               *)
THEOREM TypeCorrect == Spec => []TypeOK
  <1>1. IInv => TypeOK
    BY DEF IInv
  <1> QED  BY <1>1, Invariance, PTL

(* Whatever is asked for: the sector is lost only when one of the sectors   *)
(* asked for lands on the interrupt table, the stack or the code, it jumps  *)
(* only when none does, and it divides by zero only on a geometry reported  *)
(* with a zero.                                                             *)
THEOREM LostExactly == Spec => []LostJustWhenItOverruns
  <1>1. ASSUME IInv PROVE LostJustWhenItOverruns
    <2>1. PICK n : After(n)
      BY <1>1 DEF IInv
    <2>2. req \in Requests /\ Needed(req) \in Nat
      BY <1>1, RequestFacts DEF IInv, TypeOK
    <2>3. ASSUME pc = "wild" PROVE Overruns(req)
      <3>1. n \in Nat /\ n < Needed(req) /\ Hits(SegAt(req, n))
        BY <2>1, <2>3 DEF After
      <3>2. n \in 0..(Needed(req) - 1)
        BY <2>2, <3>1
      <3> QED  BY <3>1, <3>2 DEF Overruns
    <2>4. ASSUME pc = "jumped" PROVE ~Overruns(req)
      <3>1. n = Needed(req) /\ \A k \in 0..(n - 1) : ~Hits(SegAt(req, k))
        BY <2>1, <2>4 DEF After
      <3> QED  BY <3>1 DEF Overruns
    <2>5. pc = "fault" => bios.probe /\ (bios.cl % 64 = 0 \/ bios.dh = 255)
      BY <2>1 DEF After, ZeroGeometry
    <2> QED  BY <1>1, <2>3, <2>4, <2>5 DEF LostJustWhenItOverruns, IInv, Letters
  <1> QED  BY <1>1, Invariance, PTL

LEMMA CopiedIs ==
  ASSUME IInv, Sound(req), NEW n, After(n), Holds(n)
  PROVE  Copied = n /\ n \in Nat /\ n <= Len(req.file)
  <1>1. req \in Requests /\ Len(req.file) \in Nat
    BY RequestFacts DEF IInv, TypeOK
  <1>2. n \in Nat /\ n <= Len(req.file)
    BY <1>1, SoundFacts DEF After
  <1>3. CASE pc \in Before
    BY <1>2, <1>3 DEF After, Copied, Before
  <1>4. CASE pc \notin Before
    <2>1. es = req.segment + Step * n
      BY <1>1, <1>2, <1>4, PlaceFacts DEF After
    <2>2. req.segment \in Nat /\ Step \in Nat \ {0}
      BY <1>1, RequestFacts, ChainAssumption
    <2>3. (n * Step + 0) \div Step = n
      BY <1>2, <2>2, DivModUnique
    <2>4. n * Step + 0 = es - req.segment
      <3>1. n * Step \in Nat /\ Step * n = n * Step
        BY <1>2, <2>2, Z3
      <3> QED  BY <2>1, <2>2, <3>1
    <2> QED  BY <1>2, <1>4, <2>3, <2>4 DEF Copied, Before
  <1> QED  BY <1>3, <1>4

LEMMA ImageIs ==
  ASSUME IInv, Sound(req), NEW n, After(n), Holds(n)
  PROVE  Image = [k \in 1..n |-> req.file[k]] /\ ImageIsPrefix
  BY CopiedIs DEF Image, ImageIsPrefix, Holds, Place

(* What has been copied of a sound request is the beginning of $LDR$, in    *)
(* file order over any number of runs of any lengths, and nothing else in   *)
(* memory has changed.                                                      *)
THEOREM ImageCorrect == Spec => []ImageIsPrefix
  <1>1. ASSUME IInv PROVE ImageIsPrefix
    <2>1. CASE Sound(req)
      BY <1>1, <2>1, ImageIs DEF IInv
    <2>2. CASE ~Sound(req)
      BY <2>2 DEF ImageIsPrefix
    <2> QED  BY <2>1, <2>2
  <1> QED  BY <1>1, Invariance, PTL

(*************************** the refinement *****************************)
(* What the abstract loader is shown of a sound request.                    *)
File == IF Sound(req) THEN req.file ELSE <<>>
Loaded == IF Sound(req) THEN Image ELSE <<>>

LEMMA LoadedIs ==
  ASSUME IInv, Sound(req), NEW n, After(n), Holds(n)
  PROVE  /\ Loaded = [k \in 1..n |-> req.file[k]] /\ File = req.file
         /\ n \in Nat /\ n <= Len(req.file) /\ req.file \in Seq(Nat)
  BY CopiedIs, ImageIs, RequestFacts DEF Loaded, File, IInv, TypeOK

LEMMA LoadedNext ==
  ASSUME IInv', Sound(req), UNCHANGED req, NEW n, After(n)', Holds(n)'
  PROVE  Loaded' = [k \in 1..n |-> req.file[k]] /\ File' = req.file
         /\ n \in Nat /\ n <= Len(req.file)
  <1>1. (Loaded = [k \in 1..n |-> req.file[k]] /\ File = req.file
         /\ n \in Nat /\ n <= Len(req.file))'
    <2>1. Sound(req)'
      OBVIOUS
    <2> QED  BY <2>1, LoadedIs, PTL
  <1> QED  BY <1>1

(* A step that copies nothing stops, starts the whole image, or is          *)
(* invisible to the caller.                                                 *)
LEMMA OtherStep ==
  ASSUME IInv, IInv', Sound(req), UNCHANGED req,
         NEW n, After(n), Holds(n), After(n)', Holds(n)',
         pc \notin {"jumped", "refused", "halted", "fault", "wild"}
  PROVE  [L!Next]_(L!vars)
  <1>1. /\ Loaded = [k \in 1..n |-> req.file[k]] /\ Loaded' = [k \in 1..n |-> req.file[k]]
        /\ File = req.file /\ File' = req.file /\ req.file \in Seq(Nat) /\ n \in Nat
    BY LoadedIs, LoadedNext
  <1>2. Status = "loading"
    BY DEF Status
  <1>3. CASE pc' = "jumped"
    <2>1. n = Needed(req) /\ runs # <<>> /\ req \in Requests
      BY <1>3 DEF After, Accepted, IInv, TypeOK, runs
    <2>2. n = Len(req.file)
      BY <2>1, SoundFacts
    <2>3. Loaded = File
      BY <1>1, <2>2
    <2>4. File # <<>>
      <3>1. Len(runs) \in Nat /\ 1 \in 1..Len(runs)
        BY <2>1, RequestFacts
      <3>2. /\ Iterations(runs[1].count) \in 1..CountRange /\ req.at[1 + 1] = 0 + Iterations(runs[1].count)
            /\ req.at[1 + 1] <= Needed(req) /\ Needed(req) \in Nat /\ CountRange \in Nat
        BY <2>1, <3>1, RunFacts, RequestFacts, ChainAssumption
      <3>3. PICK c : c = Iterations(runs[1].count)
        OBVIOUS
      <3>4. 1 <= n
        BY <2>1, <3>2, <3>3
      <3> QED  BY <1>1, <2>2, <3>4
    <2>5. Status' = "running"
      BY <1>3 DEF Status
    <2>6. L!Run
      BY <1>1, <1>2, <2>3, <2>4, <2>5 DEF L!Run, File, Loaded
    <2> QED  BY <2>6 DEF L!Next
  <1>4. CASE pc' \in {"refused", "halted", "fault", "wild"}
    <2>1. Status' = "stopped"
      BY <1>4 DEF Status
    <2>2. L!Stop
      BY <1>1, <1>2, <2>1 DEF L!Stop, File, Loaded
    <2> QED  BY <2>2 DEF L!Next
  <1>5. CASE pc' \notin {"jumped", "refused", "halted", "fault", "wild"}
    <2>1. Status' = "loading"
      BY <1>5 DEF Status
    <2> QED  BY <1>1, <1>2, <2>1 DEF L!vars, File, Loaded
  <1> QED  BY <1>3, <1>4, <1>5

(* Reading a sector of the file appends it to the image.                    *)
LEMMA CopyLoad ==
  ASSUME IInv, IInv', Sound(req), UNCHANGED req,
         NEW n, After(n), Holds(n), After(n + 1)', Holds(n + 1)',
         pc = "read", pc' \in {"read", "allDone"}
  PROVE  L!Load
  <1>1. /\ Loaded = [k \in 1..n |-> req.file[k]] /\ n \in Nat /\ File = req.file
        /\ req.file \in Seq(Nat)
    BY LoadedIs
  <1>2. PICK m : m = n + 1 /\ After(m)' /\ Holds(m)'
    OBVIOUS
  <1>3. Loaded' = [k \in 1..m |-> req.file[k]] /\ m <= Len(req.file) /\ File' = req.file
    BY <1>2, LoadedNext
  <1>4. Len(Loaded) = n /\ Len(Loaded) < Len(File)
    BY <1>1, <1>2, <1>3
  <1>5. Loaded' = Append(Loaded, File[Len(Loaded) + 1])
    <2>1. ASSUME NEW f, NEW k \in Nat
          PROVE  [i \in 1..(k + 1) |-> f[i]] = Append([i \in 1..k |-> f[i]], f[k + 1])
      OBVIOUS
    <2> QED  BY <1>1, <1>2, <1>3, <1>4, <2>1
  <1>6. Status = "loading" /\ Status' = "loading"
    BY DEF Status
  <1> QED  BY <1>1, <1>3, <1>4, <1>5, <1>6 DEF L!Load, File, Loaded

LEMMA MapsToAStep ==
  ASSUME IInv, IInv', [Next]_vars
  PROVE  [L!Next]_(L!vars)
  <1>1. CASE UNCHANGED vars
    BY <1>1 DEF vars, L!vars, Image, Copied, Status
  <1>2. CASE ~Sound(req) /\ UNCHANGED req
    <2>1. ~Sound(req) /\ ~Sound(req)'
      BY <1>2
    <2> QED  BY <2>1 DEF L!vars, Status
  <1>3. CASE Sound(req) /\ Next
    <2>0. UNCHANGED req /\ Sound(req)'
      BY <1>3 DEF Next
    <2>1. PICK n : After(n) /\ Holds(n)
      BY <1>3 DEF IInv
    <2>2. CASE Build \/ ProbeAnswered \/ ProbeFallback
      <3>1. UNCHANGED mem /\ pc \in {"build", "probe"} /\ pc' \in Before
        BY <2>2 DEF Build, ProbeAnswered, ProbeFallback, KeepLoop, Goto, Before
      <3>2. After(n)' /\ Holds(n)'
        BY <2>0, <2>1, <3>1, Frame DEF Before
      <3> QED  BY <1>3, <2>0, <2>1, <3>1, <3>2, OtherStep
    <2>3. CASE Setup
      <3>1. pc = "setup" /\ n = 0
        BY <2>1, <2>3 DEF Setup, After, Before
      <3> QED  BY <1>3, <2>0, <2>1, <2>3, <3>1, SetupStep, OtherStep
    <2>4. CASE ReadSector
      <3>1. pc = "read"
        BY <2>4 DEF ReadSector
      <3>2. CASE KeepLoop /\ UNCHANGED <<spt, heads>> /\ Halt
        <4>1. After(n)' /\ Holds(n)'
          BY <2>0, <2>1, <3>1, <3>2, StopStep
        <4> QED  BY <1>3, <2>0, <2>1, <3>1, <4>1, OtherStep
      <3>3. CASE /\ pc' \in {"read", "allDone"}
                 /\ \A k : After(k) /\ Holds(k) => After(k + 1)' /\ Holds(k + 1)'
        BY <1>3, <2>0, <2>1, <3>1, <3>3, CopyLoad DEF L!Next
      <3> QED  BY <1>3, <2>0, <2>4, <3>2, <3>3, ReadStep
    <2>5. CASE Jump
      <3>1. pc = "allDone" /\ Goto("jumped") /\ KeepLoop /\ UNCHANGED <<spt, heads>>
        BY <2>5 DEF Jump
      <3>2. After(n)' /\ Holds(n)'
        BY <2>0, <2>1, <3>1, StopStep
      <3> QED  BY <1>3, <2>0, <2>1, <3>1, <3>2, OtherStep
    <2> QED  BY <1>3, <2>2, <2>3, <2>4, <2>5 DEF Next
  <1> QED  BY <1>1, <1>2, <1>3 DEF Next

(* For every file that fits its place, of any length and in any number of   *)
(* runs the table holds, a boot is a behaviour of Loader: $LDR$ is entered  *)
(* only when it is whole, in order and at the segment the jump goes to.     *)
THEOREM ImplementsLoader == Spec => LoaderSpec
  <1>1. ASSUME Init PROVE L!Init
    <2>1. pc = "build"
      BY <1>1 DEF Init
    <2>2. Copied = 0
      BY <2>1 DEF Copied
    <2>3. Image = <<>>
      BY <2>2 DEF Image
    <2>4. Status = "loading"
      BY <2>1 DEF Status
    <2> QED  BY <2>3, <2>4 DEF L!Init
  <1>2. IInv /\ IInv' /\ [Next]_vars => [L!Next]_(L!vars)
    BY MapsToAStep
  <1> QED  BY <1>1, <1>2, Invariance, PTL DEF Spec, LoaderSpec, L!Spec
=============================================================================
