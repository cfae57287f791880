---------------------------- MODULE NtfsPbrProofs ----------------------------
(* The NTFS boot record on every sound volume: records of any size, $MFT    *)
(* and BOOTMGR in any number of runs, directories of any number of blocks.  *)
EXTENDS NtfsPbr, SequenceTheorems, TLAPS

Arith == INSTANCE ChsProofs

(************************ what soundness gives **************************)
LEMMA VolumeFacts ==
  ASSUME NEW v, VolumeOK(v)
  PROVE  /\ v.hidd \in Nat /\ v.total \in Nat /\ 4 <= v.total
         /\ v.spc \in Nat /\ 1 <= v.spc /\ v.spc < LoopRange
         /\ RecSectors(v) \in Nat /\ 1 <= RecSectors(v) /\ RecSectors(v) <= BufSectors
         /\ v.hidd + v.total < Word /\ Word \in Nat \ {0}
         /\ v.file \in Seq(Nat) /\ Len(v.file) \in Nat /\ LoadBlock + Len(v.file) <= RamTop
         /\ v.mft \in Seq(Nat) /\ Len(v.mft) \in Nat /\ Len(v.mft) < Word
  <1>1. RecSectors(v) \in 1..BufSectors /\ BufSectors \in Nat
    BY NtfsAssumption DEF VolumeOK
  <1>2. v.mft \in Seq(Nat) /\ Len(v.mft) \in Nat /\ Len(v.mft) <= v.total
    BY DEF VolumeOK, MftOK
  <1>3. /\ v.hidd \in Nat /\ v.total \in Nat /\ 4 <= v.total
        /\ v.spc \in Nat /\ 1 <= v.spc /\ v.spc < LoopRange
        /\ v.hidd + v.total < Word
    BY DEF VolumeOK
  <1>4. v.file \in Seq(Nat) /\ Len(v.file) \in Nat /\ LoadBlock + Len(v.file) <= RamTop
    BY DEF VolumeOK
  <1>5. Word \in Nat \ {0}
    BY NtfsAssumption
  <1>6. Len(v.mft) < Word
    BY <1>2, <1>3, <1>5
  <1> QED  BY <1>1, <1>2, <1>3, <1>4, <1>5, <1>6

(* The first sector of a cluster of the partition.                          *)
LEMMA ClusterInside ==
  ASSUME NEW v, VolumeOK(v), NEW c \in Nat, c * v.spc < v.total
  PROVE  ClusterLba(v, c) = v.hidd + c * v.spc /\ c * v.spc \in Nat /\ c < Word
  <1>1. /\ v.hidd \in Nat /\ v.spc \in Nat /\ 1 <= v.spc /\ v.total \in Nat
        /\ v.hidd + v.total < Word /\ Word \in Nat \ {0}
    BY VolumeFacts
  <1>2. c * v.spc \in Nat /\ c <= c * v.spc
    BY <1>1, Z3
  <1>3. v.hidd + c * v.spc \in Nat /\ v.hidd + c * v.spc < Word
    BY <1>1, <1>2
  <1>4. ClusterLba(v, c) = (v.hidd + c * v.spc) % Word
    BY <1>1, <1>2 DEF ClusterLba
  <1> QED  BY <1>1, <1>2, <1>3, <1>4, Arith!SmallMod

LEMMA Distribute ==
  ASSUME NEW a \in Nat, NEW b \in Nat, NEW k \in Nat, 1 <= b, 1 <= k
  PROVE  /\ (a + b) * k = a * k + b * k
         /\ a * k \in Nat /\ b * k \in Nat /\ 1 <= b * k /\ a <= a * k
  <1>1. (a + b) * k = a * k + b * k /\ a * k \in Nat /\ b * k \in Nat
    BY Z3
  <1>2. 1 * k <= b * k /\ a * 1 <= a * k
    BY Z3
  <1> QED  BY <1>1, <1>2

(* Where a run of a list lies on the disk and in its stream.                *)
LEMMA RunFacts ==
  ASSUME NEW v, VolumeOK(v), NEW attr, NEW sectors \in Seq(Nat), Describes(v, attr, sectors),
         NEW i \in 1..Len(attr.runs)
  PROVE  /\ attr.runs[i].len \in Nat /\ 1 <= attr.runs[i].len
         /\ attr.runs[i].len * v.spc \in Nat /\ 1 <= attr.runs[i].len * v.spc
         /\ attr.runs[i].len * v.spc < Word
         /\ attr.at[i] \in Nat /\ attr.at[i + 1] \in Nat
         /\ attr.at[i + 1] = attr.at[i] + attr.runs[i].len * v.spc
         /\ attr.at[i + 1] <= Len(sectors)
         /\ attr.lcn[i] \in Nat /\ attr.lcn[i] < Word /\ attr.lcn[i] * v.spc \in Nat
         /\ ClusterLba(v, attr.lcn[i]) = v.hidd + attr.lcn[i] * v.spc
         /\ attr.lcn[i] * v.spc + attr.runs[i].len * v.spc <= v.total
         /\ \A k \in 1..(attr.runs[i].len * v.spc) :
              sectors[attr.at[i] + k] = v.hidd + attr.lcn[i] * v.spc + k - 1
  <1> DEFINE runs == attr.runs
             n == runs[i].len
             c == attr.lcn[i]
  <1>1. /\ v.hidd \in Nat /\ v.spc \in Nat /\ 1 <= v.spc /\ v.total \in Nat
        /\ v.hidd + v.total < Word /\ Word \in Nat \ {0}
    BY VolumeFacts
  <1>2. /\ n \in Nat /\ c \in Nat /\ n >= 1 /\ (c + n) * v.spc <= v.total
        /\ attr.at[i] \in Nat /\ attr.at[i + 1] \in Nat
        /\ attr.at[i + 1] = attr.at[i] + n * v.spc /\ attr.at[i + 1] <= Len(sectors)
        /\ \A k \in 1..(n * v.spc) : sectors[attr.at[i] + k] = v.hidd + c * v.spc + k - 1
    <2>1. /\ runs \in Seq([len : Nat, delta : Int]) /\ Len(runs) \in Nat
          /\ attr.at \in [1..(Len(runs) + 1) -> Nat] /\ attr.lcn \in [1..Len(runs) -> Nat]
      BY SMTT(60) DEF Describes
    <2>2. runs[i].len \in Nat
      <3>1. PICK q \in Seq([len : Nat, delta : Int]) : q = runs
        BY <2>1
      <3>2. i \in 1..Len(q)
        BY <3>1
      <3>3. q[i] \in [len : Nat, delta : Int]
        BY <3>2, ElementOfSeq
      <3> QED  BY <3>1, <3>3
    <2>3. i \in 1..(Len(runs) + 1) /\ i + 1 \in 1..(Len(runs) + 1)
      BY <2>1
    <2>4. attr.at[i] \in Nat /\ attr.at[i + 1] \in Nat /\ attr.lcn[i] \in Nat
      BY <2>1, <2>3
    <2> QED  BY <2>2, <2>4 DEF Describes
  <1> HIDE DEF n, c
  <1>3. /\ (c + n) * v.spc = c * v.spc + n * v.spc
        /\ c * v.spc \in Nat /\ n * v.spc \in Nat /\ 1 <= n * v.spc
    <2>1. v.spc \in Nat /\ 1 <= v.spc /\ c \in Nat /\ n \in Nat /\ 1 <= n
      BY <1>1, <1>2
    <2> QED  BY <2>1, Distribute, ZenonT(60)
  <1>4. c * v.spc < v.total /\ n * v.spc < Word
    <2>1. PICK x, y, z : x = c * v.spc /\ y = n * v.spc /\ z = (c + n) * v.spc
      OBVIOUS
    <2>2. x \in Nat /\ y \in Nat /\ 1 <= y /\ z = x + y /\ z <= v.total
      BY <1>2, <1>3, <2>1, Zenon
    <2>3. x < v.total /\ y < Word
      BY <1>1, <2>2
    <2> QED  BY <2>1, <2>3, Zenon
  <1>5. ClusterLba(v, c) = v.hidd + c * v.spc /\ c < Word
    BY <1>2, <1>4, ClusterInside
  <1> QED  BY <1>2, <1>3, <1>4, <1>5 DEF n, c

(* The same, with names for what is computed.                               *)
LiesAt(v, attr, sectors, i, a, x, y) ==
  /\ a \in Nat /\ x \in Nat /\ y \in Nat /\ 1 <= y /\ y < Word /\ x + y <= v.total
  /\ attr.at[i + 1] \in Nat /\ attr.at[i + 1] = a + y /\ attr.at[i + 1] <= Len(sectors)
  /\ attr.lcn[i] \in Nat /\ attr.lcn[i] < Word
  /\ ClusterLba(v, attr.lcn[i]) = v.hidd + x
  /\ \A k \in 1..y : sectors[a + k] = v.hidd + x + k - 1
LEMMA RunNumbers ==
  ASSUME NEW v, VolumeOK(v), NEW attr, NEW sectors \in Seq(Nat), Describes(v, attr, sectors),
         NEW i \in 1..Len(attr.runs), NEW a, NEW x, NEW y,
         a = attr.at[i], x = attr.lcn[i] * v.spc, y = attr.runs[i].len * v.spc
  PROVE  LiesAt(v, attr, sectors, i, a, x, y)
  <1>1. /\ attr.runs[i].len * v.spc \in Nat /\ 1 <= attr.runs[i].len * v.spc
        /\ attr.runs[i].len * v.spc < Word
        /\ attr.at[i] \in Nat /\ attr.at[i + 1] \in Nat
        /\ attr.at[i + 1] = attr.at[i] + attr.runs[i].len * v.spc
        /\ attr.at[i + 1] <= Len(sectors)
        /\ attr.lcn[i] \in Nat /\ attr.lcn[i] < Word /\ attr.lcn[i] * v.spc \in Nat
        /\ ClusterLba(v, attr.lcn[i]) = v.hidd + attr.lcn[i] * v.spc
        /\ attr.lcn[i] * v.spc + attr.runs[i].len * v.spc <= v.total
        /\ \A k \in 1..(attr.runs[i].len * v.spc) :
             sectors[attr.at[i] + k] = v.hidd + attr.lcn[i] * v.spc + k - 1
    BY RunFacts, ZenonT(60)
  <1> QED  BY <1>1, ZenonT(60) DEF LiesAt

(* Every sector of the stream is in one of the runs.                        *)
LEMMA RunOfSector ==
  ASSUME NEW v, VolumeOK(v), NEW attr, NEW sectors \in Seq(Nat), Describes(v, attr, sectors),
         NEW s \in Nat, s < Len(sectors)
  PROVE  \E i \in 1..Len(attr.runs) : attr.at[i] <= s /\ s < attr.at[i + 1]
  <1>1. Len(attr.runs) \in Nat /\ attr.at \in [1..(Len(attr.runs) + 1) -> Nat]
        /\ attr.at[1] = 0 /\ attr.at[Len(attr.runs) + 1] = Len(sectors)
    BY DEF Describes
  <1> DEFINE S == {i \in 1..(Len(attr.runs) + 1) : s < attr.at[i]}
  <1>2. S \subseteq Nat /\ S # {}
    BY <1>1
  <1>3. PICK m \in S : \A k \in S : m <= k
    BY <1>2, Arith!Least
  <1>4. m \in 1..(Len(attr.runs) + 1) /\ s < attr.at[m] /\ m # 1
    BY <1>1, <1>3
  <1>5. m - 1 \in 1..Len(attr.runs) /\ (m - 1) + 1 = m
    BY <1>1, <1>4
  <1>6. m - 1 \in 1..(Len(attr.runs) + 1) /\ m \in Nat
    BY <1>1, <1>4, <1>5
  <1>7. attr.at[m - 1] \in Nat
    BY <1>1, <1>6
  <1>8. ~(s < attr.at[m - 1])
    BY <1>3, <1>6
  <1> QED  BY <1>4, <1>5, <1>6, <1>7, <1>8

(* Two ways of counting up that start alike and step alike.                 *)
AgreeUpTo(n, f, h) == \A i \in 0..n : f[i] = h[i]
StepAlike(n, f, h) == f[0] = h[0] /\ \A i \in 1..n : f[i - 1] = h[i - 1] => f[i] = h[i]
LEMMA Agree ==
  ASSUME NEW n \in Nat, NEW f, NEW h, StepAlike(n, f, h)
  PROVE  AgreeUpTo(n, f, h)
  <1> USE DEF AgreeUpTo, StepAlike
  <1> DEFINE S == {i \in 0..n : f[i] # h[i]}
  <1>1. SUFFICES ASSUME S # {} PROVE FALSE
    OBVIOUS
  <1>2. S \subseteq Nat
    OBVIOUS
  <1>3. PICK m \in S : \A k \in S : m <= k
    BY <1>1, <1>2, Arith!Least
  <1>4. m \in 1..n /\ f[m] # h[m]
    BY <1>3
  <1>5. m - 1 \in 0..n /\ ~(m <= m - 1)
    BY <1>4
  <1>6. f[m - 1] = h[m - 1]
    BY <1>3, <1>5
  <1> QED  BY <1>4, <1>6

(* $MFT's runs as the mapping pairs of its own record give them.            *)
LEMMA AbsoluteRuns ==
  ASSUME NEW v, VolumeOK(v), NEW attr, NEW sectors \in Seq(Nat), Describes(v, attr, sectors)
  PROVE  Absolute(attr.runs) =
           [i \in 1..Len(attr.runs) |-> [lcn |-> attr.lcn[i], len |-> attr.runs[i].len]]
  <1> DEFINE runs == attr.runs
             n == Len(runs)
             W == [i \in 0..n |-> IF i = 0 THEN 0 ELSE attr.lcn[i]]
             A == CHOOSE f : f = [i \in 0..n |-> IF i = 0 THEN 0
                                                ELSE (f[i - 1] + runs[i].delta) % Word]
  <1>1. runs \in Seq([len : Nat, delta : Int]) /\ n \in Nat /\ DOMAIN runs = 1..n
    BY DEF Describes
  <1>2. \A i \in 1..n : /\ i - 1 \in 0..n /\ i \in 0..n /\ i # 0
                        /\ (i - 1 = 0) = (i = 1)
    BY <1>1
  <1>3. ASSUME NEW i \in 1..n PROVE (W[i - 1] + runs[i].delta) % Word = attr.lcn[i]
    <2>1. W[i - 1] = IF i = 1 THEN 0 ELSE attr.lcn[i - 1]
      BY <1>2
    <2>2. attr.lcn[i] = (IF i = 1 THEN 0 ELSE attr.lcn[i - 1]) + runs[i].delta
      BY DEF Describes
    <2>3. attr.lcn[i] \in Nat /\ attr.lcn[i] < Word
      BY RunFacts
    <2>4. attr.lcn[i] % Word = attr.lcn[i]
      BY <2>3, NtfsAssumption, Arith!SmallMod
    <2> QED  BY <2>1, <2>2, <2>4
  <1>4. W = [i \in 0..n |-> IF i = 0 THEN 0 ELSE (W[i - 1] + runs[i].delta) % Word]
    <2> DEFINE V == [i \in 0..n |-> IF i = 0 THEN 0 ELSE (W[i - 1] + runs[i].delta) % Word]
    <2>1. ASSUME NEW i \in 0..n PROVE V[i] = W[i]
      <3>1. CASE i = 0
        BY <3>1
      <3>2. CASE i # 0
        <4>1. i \in 1..n
          BY <1>1, <3>2
        <4>2. W[i] = attr.lcn[i] /\ V[i] = (W[i - 1] + runs[i].delta) % Word
          BY <3>2
        <4> HIDE DEF W, V
        <4> QED  BY <1>3, <4>1, <4>2
      <3> QED  BY <3>1, <3>2
    <2>2. DOMAIN V = 0..n /\ DOMAIN W = 0..n
      OBVIOUS
    <2>3. V = [i \in DOMAIN V |-> V[i]] /\ W = [i \in DOMAIN W |-> W[i]]
      OBVIOUS
    <2>4. V = W
      <3> HIDE DEF W, V
      <3> QED  BY <2>1, <2>2, <2>3
    <2> QED  BY <2>4
  <1>5. A = [i \in 0..n |-> IF i = 0 THEN 0 ELSE (A[i - 1] + runs[i].delta) % Word]
    BY <1>4
  <1> HIDE DEF A
  <1>6. A[0] = W[0]
    <2>1. 0 \in 0..n
      BY <1>1
    <2> QED  BY <1>5, <2>1
  <1>7. ASSUME NEW i \in 1..n, A[i - 1] = W[i - 1] PROVE A[i] = W[i]
    <2>1. A[i] = (A[i - 1] + runs[i].delta) % Word /\ W[i] = attr.lcn[i]
      BY <1>2, <1>5
    <2> HIDE DEF W
    <2> QED  BY <1>3, <1>7, <2>1
  <1> HIDE DEF W, n
  <1>8. \A i \in 0..n : A[i] = W[i]
    <2>1. n \in Nat
      BY <1>1 DEF n
    <2>2. \A i \in 1..n : A[i - 1] = W[i - 1] => A[i] = W[i]
      BY <1>7
    <2>3. StepAlike(n, A, W)
      BY <2>2, <1>6, Zenon DEF StepAlike
    <2>4. AgreeUpTo(n, A, W)
      BY <2>1, <2>3, Agree, Zenon
    <2> QED  BY <2>4, Zenon DEF AgreeUpTo
  <1>9. \A i \in 1..n : A[i] = attr.lcn[i]
    BY <1>2, <1>8 DEF W, n
  <1>10. Absolute(runs) = [i \in DOMAIN runs |-> [lcn |-> A[i], len |-> runs[i].len]]
    BY DEF Absolute, A, n
  <1> QED  BY <1>1, <1>9, <1>10 DEF n

(* How many sectors of $MFT precede an entry of the table.                  *)
LEMMA OffsetsOf ==
  ASSUME NEW n \in Nat, Len(table) = n, NEW at \in [1..(n + 1) -> Nat], at[1] = 0,
         \A i \in 1..n : at[i + 1] = at[i] + RunSectors(table[i])
  PROVE  \A i \in 0..n : Offsets[i] = at[i + 1]
  <1> DEFINE W == [i \in 0..n |-> at[i + 1]]
             A == CHOOSE f : f = [i \in 0..n |-> IF i = 0 THEN 0
                                                ELSE f[i - 1] + RunSectors(table[i])]
  <1>1. ASSUME NEW i \in 1..n PROVE W[i - 1] + RunSectors(table[i]) = W[i]
    <2>1. i - 1 \in 0..n /\ i \in 0..n /\ (i - 1) + 1 = i
      OBVIOUS
    <2>2. W[i - 1] = at[i] /\ W[i] = at[i + 1]
      BY <2>1
    <2> HIDE DEF W
    <2> QED  BY <2>2
  <1>2. W = [i \in 0..n |-> IF i = 0 THEN 0 ELSE W[i - 1] + RunSectors(table[i])]
    <2> DEFINE V == [i \in 0..n |-> IF i = 0 THEN 0 ELSE W[i - 1] + RunSectors(table[i])]
    <2>1. ASSUME NEW i \in 0..n PROVE V[i] = W[i]
      <3>1. CASE i = 0
        BY <3>1
      <3>2. CASE i # 0
        <4>1. i \in 1..n
          BY <3>2
        <4>2. V[i] = W[i - 1] + RunSectors(table[i])
          BY <3>2
        <4> HIDE DEF W, V
        <4> QED  BY <1>1, <4>1, <4>2
      <3> QED  BY <3>1, <3>2
    <2>2. DOMAIN V = 0..n /\ DOMAIN W = 0..n
      OBVIOUS
    <2>3. V = [i \in DOMAIN V |-> V[i]] /\ W = [i \in DOMAIN W |-> W[i]]
      OBVIOUS
    <2>4. V = W
      <3> HIDE DEF W, V
      <3> QED  BY <2>1, <2>2, <2>3
    <2> QED  BY <2>4
  <1>3. A = [i \in 0..n |-> IF i = 0 THEN 0 ELSE A[i - 1] + RunSectors(table[i])]
    BY <1>2
  <1> HIDE DEF A
  <1>4. 0 \in 0..n /\ A[0] = W[0]
    BY <1>3
  <1>5. ASSUME NEW i \in 1..n, A[i - 1] = W[i - 1] PROVE A[i] = W[i]
    <2>1. A[i] = A[i - 1] + RunSectors(table[i])
      BY <1>3
    <2> HIDE DEF W
    <2> QED  BY <1>1, <1>5, <2>1
  <1>6. \A i \in 0..n : A[i] = W[i]
    <2> HIDE DEF W
    <2>1. \A i \in 1..n : A[i - 1] = W[i - 1] => A[i] = W[i]
      BY <1>5
    <2>2. PICK p, q : p = A /\ q = W
      OBVIOUS
    <2>3. StepAlike(n, p, q)
      BY <1>4, <2>1, <2>2, Zenon DEF StepAlike
    <2>4. AgreeUpTo(n, p, q)
      BY <2>3, Agree, Zenon
    <2> QED  BY <2>2, <2>4, Zenon DEF AgreeUpTo
  <1>7. Offsets = A
    BY DEF Offsets, A
  <1> QED  BY <1>6, <1>7

(* The cluster a sector of a stream lies in is inside the partition.        *)
LEMMA SectorInside ==
  ASSUME NEW v, VolumeOK(v), NEW attr, NEW sectors \in Seq(Nat), Describes(v, attr, sectors),
         NEW j \in 1..Len(sectors)
  PROVE  sectors[j] \in Nat /\ v.hidd <= sectors[j] /\ sectors[j] < v.hidd + v.total
  <1>1. j - 1 \in Nat /\ j - 1 < Len(sectors)
    OBVIOUS
  <1>2. PICK i \in 1..Len(attr.runs) : attr.at[i] <= j - 1 /\ j - 1 < attr.at[i + 1]
    BY <1>1, RunOfSector
  <1> DEFINE a == attr.at[i]
             y == attr.runs[i].len * v.spc
             x == attr.lcn[i] * v.spc
             k == j - a
  <1>3. /\ a \in Nat /\ attr.at[i + 1] = a + y /\ y \in Nat /\ x \in Nat
        /\ x + y <= v.total
        /\ \A q \in 1..y : sectors[a + q] = v.hidd + x + q - 1
    BY RunFacts
  <1>4. v.hidd \in Nat /\ v.total \in Nat
    BY VolumeFacts
  <1> HIDE DEF a, x, y
  <1>5. k \in 1..y /\ a + k = j
    <2>1. a <= j - 1 /\ j - 1 < a + y /\ a \in Nat /\ y \in Nat /\ j \in Int
      BY <1>2, <1>3 DEF a
    <2> QED  BY <2>1
  <1> HIDE DEF k
  <1>6. sectors[j] = v.hidd + x + k - 1
    BY <1>3, <1>5
  <1>7. sectors[j] \in Nat /\ sectors[j] = v.hidd + x + k - 1
    BY <1>6, ElementOfSeq
  <1>8. x \in Nat /\ y \in Nat /\ x + y <= v.total /\ k \in 1..y
    BY <1>3, <1>5
  <1> QED  BY <1>4, <1>7, <1>8, SMTT(60)

(* A record that is whole where the code looks for it lies in the           *)
(* partition, and no other one lies there.                                  *)
LEMMA RecordPlace ==
  ASSUME NEW v, VolumeOK(v), NEW n, RecordOK(v, n)
  PROVE  /\ n \in Nat /\ n * RecSectors(v) \in Nat /\ n <= n * RecSectors(v)
         /\ n * RecSectors(v) < Len(v.mft) /\ n < Word
         /\ v.mft[n * RecSectors(v) + 1] \in Nat
         /\ v.mft[n * RecSectors(v) + 1] + RecSectors(v) <= v.hidd + v.total
         /\ RecordsFrom(v, v.mft[n * RecSectors(v) + 1]) = {n}
  <1> DEFINE RS == RecSectors(v)
             at == n * RS
             l == v.mft[at + 1]
  <1>1. /\ RS \in Nat /\ 1 <= RS /\ v.mft \in Seq(Nat) /\ Len(v.mft) \in Nat
        /\ Len(v.mft) < Word /\ v.hidd \in Nat /\ v.total \in Nat /\ Word \in Nat
    BY VolumeFacts
  <1>2. n \in Nat /\ at + 1 \in DOMAIN v.mft /\ RecordsFrom(v, l) = {n}
    BY DEF RecordOK
  <1>3. DOMAIN v.mft = 1..Len(v.mft)
    BY <1>1
  <1> HIDE DEF RS
  <1>4. at \in Nat /\ n <= at
    BY <1>1, <1>2, Distribute
  <1> HIDE DEF at
  <1>5. at < Len(v.mft) /\ n < Word
    BY <1>1, <1>2, <1>3, <1>4
  <1>6. \A i \in 1..RS : at + i \in DOMAIN v.mft /\ v.mft[at + i] = l + i - 1
    BY <1>2 DEF RecordsFrom, RS, at
  <1>7. RS \in 1..RS /\ 1 \in 1..RS
    BY <1>1
  <1>8. Describes(v, v.recs[0].data, v.mft)
    BY DEF VolumeOK, MftOK
  <1>9. \A j \in 1..Len(v.mft) : v.mft[j] \in Nat /\ v.mft[j] < v.hidd + v.total
    BY <1>1, <1>8, SectorInside
  <1>10. l \in Nat
    BY <1>3, <1>6, <1>7, <1>9
  <1>11. l + RS - 1 < v.hidd + v.total
    BY <1>3, <1>6, <1>7, <1>9
  <1>12. l + RS <= v.hidd + v.total
    <2>1. l \in Nat /\ RS \in Nat /\ v.hidd \in Nat /\ v.total \in Nat
      BY <1>1, <1>10
    <2> HIDE DEF l
    <2> QED  BY <2>1, <1>11
  <1> QED  BY <1>2, <1>4, <1>5, <1>10, <1>12, Zenon DEF at, RS

(************************ the table of $MFT's runs **********************)
Bootstrap == <<[lcn |-> vol.mftLcn, len |-> Word \div 2 - 1]>>
MftRuns ==
  LET d == vol.recs[0].data IN
  [i \in 1..Len(d.runs) |-> [lcn |-> d.lcn[i], len |-> d.runs[i].len]]

(* Whose record is asked for, with which table.                             *)
Asked ==
  \/ ret = "parseMft" /\ rec = 0 /\ table = Bootstrap
  \/ ret = "scanRoot" /\ rec = 5 /\ table = MftRuns
  \/ ret = "loadFile" /\ vol.named /\ rec = vol.fileRec /\ table = MftRuns
RecordStart == vol.mft[rec * RecSectors(vol) + 1]

LEMMA AskedRecord ==
  ASSUME Sound(env), Asked
  PROVE  VolumeOK(vol) /\ RecordOK(vol, rec)
  BY Zenon DEF Sound, vol, Asked, VolumeOK, MftOK, RootOK, FileOK

(* The bootstrap entry leads to the first record.                           *)
Wanted == (rec * RecSectors(vol)) % Word
Leads(i) == (ClusterLba(vol, table[i].lcn) + Wanted - Offsets[i - 1]) % Word = RecordStart
LEMMA BootstrapFinds ==
  ASSUME Sound(env), rec = 0, table = Bootstrap
  PROVE  Holders(Wanted) # {} /\ \A i \in Holders(Wanted) : Leads(i)
  <1> DEFINE s == Wanted
             r == table[1]
             n == RunSectors(r)
  <1>1. /\ VolumeOK(vol) /\ RecSectors(vol) \in Nat /\ Word \in Nat \ {0}
        /\ vol.spc \in Nat
    BY VolumeFacts, Zenon DEF Sound, vol
  <1>2. s = 0
    BY <1>1 DEF Wanted
  <1>3. DOMAIN table = {1} /\ Len(table) = 1
    BY DEF Bootstrap
  <1>4. r.lcn = vol.mftLcn /\ r.len = Word \div 2 - 1
    BY DEF Bootstrap
  <1>5. /\ Word >= 4 /\ ((Word \div 2 - 1) * vol.spc) % Word # 0
        /\ vol.mft[1] = ClusterLba(vol, vol.mftLcn)
    BY <1>1 DEF VolumeOK, MftOK
  <1>6. r.len \in Nat \ {0}
    BY <1>1, <1>4, <1>5
  <1>7. n \in Nat \ {0}
    <2>1. n = ((Word \div 2 - 1) * vol.spc) % Word
      BY <1>4, Zenon DEF RunSectors
    <2>2. PICK m \in Nat : m = r.len * vol.spc
      BY <1>1, <1>6, Arith!ProductSteps
    <2>3. n = m % Word
      BY <2>2 DEF RunSectors
    <2>4. m % Word \in Nat
      BY <1>1, <2>2
    <2> QED  BY <1>5, <2>1, <2>3, <2>4
  <1>8. Offsets[0] = 0 /\ Offsets[1] = n
    <2> DEFINE at == [i \in 1..2 |-> IF i = 1 THEN 0 ELSE n]
    <2>1. PICK a : a = at
      OBVIOUS
    <2>2. a \in [1..(1 + 1) -> Nat] /\ a[1] = 0 /\ a[2] = n
      BY <1>7, <2>1
    <2>3. \A i \in 1..1 : a[i + 1] = a[i] + RunSectors(table[i])
      <3> HIDE DEF n
      <3>1. n = 0 + n
        BY <1>7
      <3>2. a[1 + 1] = a[1] + RunSectors(table[1])
        BY <2>2, <3>1 DEF n
      <3> QED  BY <3>2
    <2>4. \A i \in 0..1 : Offsets[i] = a[i + 1]
      BY <1>3, <2>2, <2>3, OffsetsOf
    <2> QED  BY <2>2, <2>4
  <1> HIDE DEF n, s
  <1>9. Holders(s) = {1}
    <2>1. table[1].len # 0 /\ Offsets[1 - 1] <= s /\ s < Offsets[1]
      BY <1>2, <1>6, <1>7, <1>8
    <2> QED  BY <1>3, <2>1 DEF Holders
  <1>10. ClusterLba(vol, r.lcn) % Word = RecordStart
    <2>1. RecordStart = vol.mft[1]
      BY <1>1 DEF RecordStart
    <2>2. RecordOK(vol, 0)
      BY <1>1 DEF VolumeOK, MftOK
    <2>3. vol.mft[1] \in Nat /\ vol.mft[1] < Word
      <3>1. PICK v : v = vol
        OBVIOUS
      <3>2. /\ v.mft[0 * RecSectors(v) + 1] \in Nat
            /\ v.mft[0 * RecSectors(v) + 1] + RecSectors(v) <= v.hidd + v.total
        BY <1>1, <2>2, <3>1, RecordPlace
      <3>3. /\ v.hidd \in Nat /\ v.total \in Nat /\ v.hidd + v.total < Word
            /\ RecSectors(v) \in Nat
        BY <1>1, <3>1, VolumeFacts
      <3>4. 0 * RecSectors(v) + 1 = 1
        BY <3>3
      <3> QED  BY <1>1, <3>1, <3>2, <3>3, <3>4
    <2>4. vol.mft[1] % Word = vol.mft[1]
      BY <1>1, <2>3, Arith!SmallMod
    <2> QED  BY <1>4, <1>5, <2>1, <2>4
  <1>11. ClusterLba(vol, r.lcn) \in Nat
    <2>1. ClusterLba(vol, r.lcn) = vol.mft[1]
      BY <1>4, <1>5
    <2>2. vol.mft \in Seq(Nat) /\ 1 \in 1..Len(vol.mft)
      <3>1. PICK v : v = vol
        OBVIOUS
      <3>2. v.mft \in Seq(Nat) /\ Len(v.mft) \in Nat /\ RecSectors(v) \in Nat
        BY <1>1, <3>1, VolumeFacts
      <3>3. 0 * RecSectors(v) < Len(v.mft)
        BY <1>1, <3>1, RecordPlace DEF VolumeOK, MftOK
      <3> QED  BY <3>1, <3>2, <3>3
    <2> QED  BY <2>1, <2>2, ElementOfSeq
  <1>12. \A i \in Holders(s) : Leads(i)
    BY <1>2, <1>8, <1>9, <1>10, <1>11 DEF Leads, s
  <1> QED  BY <1>9, <1>12 DEF s

(* The runs of $MFT lead to every record that is whole.                     *)
LEMMA MftFinds ==
  ASSUME Sound(env), RecordOK(vol, rec), table = MftRuns
  PROVE  Holders(Wanted) # {} /\ \A i \in Holders(Wanted) : Leads(i)
  <1>1. PICK v : v = vol
    OBVIOUS
  <1> DEFINE d == v.recs[0].data
             n == Len(d.runs)
  <1>2. VolumeOK(v) /\ RecordOK(v, rec)
    BY <1>1, Zenon DEF Sound, vol
  <1>3. /\ v.mft \in Seq(Nat) /\ Len(v.mft) \in Nat /\ Len(v.mft) < Word /\ Word \in Nat \ {0}
        /\ v.hidd \in Nat /\ v.total \in Nat /\ v.hidd + v.total < Word
    BY <1>2, VolumeFacts
  <1>4. Describes(v, d, v.mft)
    BY <1>2 DEF VolumeOK, MftOK
  <1>5. n \in Nat /\ d.at \in [1..(n + 1) -> Nat] /\ d.at[1] = 0
    <2>1. PICK t : t = d
      OBVIOUS
    <2>2. /\ t.runs \in Seq([len : Nat, delta : Int])
          /\ t.at \in [1..(Len(t.runs) + 1) -> Nat] /\ t.at[1] = 0
      BY <1>4, <2>1 DEF Describes
    <2>3. Len(t.runs) \in Nat
      BY <2>2
    <2> QED  BY <2>1, <2>2, <2>3
  <1>6. /\ DOMAIN table = 1..n /\ Len(table) = n
        /\ \A i \in 1..n : table[i].lcn = d.lcn[i] /\ table[i].len = d.runs[i].len
    <2>1. PICK t, m : t = d /\ m = n
      OBVIOUS
    <2>2. table = [i \in 1..m |-> [lcn |-> t.lcn[i], len |-> t.runs[i].len]]
      BY <1>1, <2>1, ZenonT(60) DEF MftRuns
    <2>3. m \in Nat
      BY <1>5, <2>1
    <2>4. DOMAIN table = 1..m /\ Len(table) = m
      BY <2>2, <2>3, SMTT(60)
    <2>5. \A i \in 1..m : table[i].lcn = t.lcn[i] /\ table[i].len = t.runs[i].len
      BY <2>2, SMTT(60)
    <2> QED  BY <2>1, <2>4, <2>5, ZenonT(60)
  <1>7. ASSUME NEW i \in 1..n
        PROVE  /\ RunSectors(table[i]) = d.runs[i].len * v.spc
               /\ d.at[i + 1] = d.at[i] + d.runs[i].len * v.spc /\ table[i].len # 0
    <2>1. PICK y : y = d.runs[i].len * v.spc
      OBVIOUS
    <2>2. /\ d.runs[i].len \in Nat /\ 1 <= d.runs[i].len /\ y \in Nat /\ y < Word
          /\ d.at[i + 1] = d.at[i] + y
      BY <1>2, <1>3, <1>4, <2>1, RunFacts
    <2>3. RunSectors(table[i]) = y % Word
      BY <1>1, <1>6, <2>1 DEF RunSectors
    <2>4. y % Word = y
      BY <1>3, <2>2, Arith!SmallMod
    <2>5. table[i].len # 0
      BY <1>6, <2>2
    <2> QED  BY <2>1, <2>2, <2>3, <2>4, <2>5
  <1>8. \A i \in 0..n : Offsets[i] = d.at[i + 1]
    <2>1. PICK a, m : a = d.at /\ m = n
      OBVIOUS
    <2>2. m \in Nat /\ Len(table) = m /\ a \in [1..(m + 1) -> Nat] /\ a[1] = 0
      BY <1>5, <1>6, <2>1
    <2>3. \A i \in 1..m : a[i + 1] = a[i] + RunSectors(table[i])
      BY <1>7, <2>1
    <2>4. \A i \in 0..m : Offsets[i] = a[i + 1]
      BY <2>2, <2>3, OffsetsOf
    <2> QED  BY <2>1, <2>4
  <1>9. PICK s : s = rec * RecSectors(v)
    OBVIOUS
  <1>10. s \in Nat /\ s < Len(v.mft) /\ s < Word
    <2>1. PICK r : r = rec
      OBVIOUS
    <2>2. r * RecSectors(v) \in Nat /\ r * RecSectors(v) < Len(v.mft)
      BY <1>2, <2>1, RecordPlace
    <2> QED  BY <1>3, <1>9, <2>1, <2>2
  <1>11. Wanted = s /\ RecordStart = v.mft[s + 1]
    BY <1>1, <1>3, <1>9, <1>10, Arith!SmallMod DEF Wanted, RecordStart
  <1>12. \A i \in 1..n : Offsets[i - 1] = d.at[i] /\ Offsets[i] = d.at[i + 1]
    BY <1>5, <1>8
  <1>13. Holders(s) # {}
    <2>1. PICK i \in 1..n : d.at[i] <= s /\ s < d.at[i + 1]
      BY <1>2, <1>3, <1>4, <1>10, RunOfSector
    <2>2. \A j \in 1..i : table[j].len # 0
      BY <1>7, <1>5
    <2>3. i \in Holders(s)
      BY <1>6, <1>12, <2>1, <2>2 DEF Holders
    <2> QED  BY <2>3
  <1>14. ASSUME NEW i \in Holders(s) PROVE Leads(i)
    <2>1. i \in 1..n /\ d.at[i] <= s /\ s < d.at[i + 1]
      BY <1>6, <1>12 DEF Holders
    <2>2. PICK a, x, y : a = d.at[i] /\ x = d.lcn[i] * v.spc /\ y = d.runs[i].len * v.spc
      OBVIOUS
    <2>3. /\ a \in Nat /\ x \in Nat /\ y \in Nat /\ d.at[i + 1] = a + y /\ x + y <= v.total
          /\ ClusterLba(v, d.lcn[i]) = v.hidd + x
          /\ \A k \in 1..y : v.mft[a + k] = v.hidd + x + k - 1
      <3>1. LiesAt(v, d, v.mft, i, a, x, y)
        BY <1>2, <1>3, <1>4, <2>1, <2>2, RunNumbers
      <3> QED  BY <3>1 DEF LiesAt
    <2>4. a <= s /\ s < a + y
      BY <2>1, <2>2, <2>3
    <2>5. (s - a) + 1 \in 1..y /\ a + ((s - a) + 1) = s + 1
      BY <1>10, <2>3, <2>4
    <2>6. v.mft[s + 1] = v.hidd + x + ((s - a) + 1) - 1
      BY <2>3, <2>5
    <2>7. v.mft[s + 1] = (v.hidd + x) + s - a /\ v.mft[s + 1] \in Nat /\ v.mft[s + 1] < Word
      BY ONLY <1>3, <1>10, <2>3, <2>4, <2>6, SMTT(60)
    <2>8. ((v.hidd + x) + s - a) % Word = v.mft[s + 1]
      BY <1>3, <2>7, Arith!SmallMod
    <2>9. ClusterLba(vol, table[i].lcn) = v.hidd + x /\ Offsets[i - 1] = a
      BY <1>1, <1>6, <1>12, <2>1, <2>2, <2>3
    <2> QED  BY <1>11, <2>8, <2>9 DEF Leads
  <1> QED  BY <1>11, <1>13, <1>14

(* The look-up never fails, and it leads to the record's first sector.      *)
LEMMA Finds ==
  ASSUME Sound(env), Asked
  PROVE  Holders(Wanted) # {} /\ \A i \in Holders(Wanted) : Leads(i)
  BY AskedRecord, BootstrapFinds, MftFinds DEF Asked

(* What is in BUF then is the record that was asked for, and no other.      *)
LEMMA RecordHere ==
  ASSUME Sound(env), Asked, buf = RecordStart
  PROVE  RecordsAt(buf) = {vol.recs[rec]}
  <1>1. PICK v, n : v = vol /\ n = rec
    OBVIOUS
  <1>2. VolumeOK(v) /\ RecordOK(v, n)
    BY <1>1, AskedRecord
  <1>3. RecordsFrom(vol, buf) = {rec}
    BY <1>1, <1>2, RecordPlace DEF RecordStart
  <1> QED  BY <1>3 DEF RecordsAt

(************************ the inductive invariant ***********************)
Parsing == {"parseMft", "scanRoot", "loadFile"}
Scanning == {"nextIndexRun", "readBlock", "scanBlock"}
Copying == {"nextRun", "loadSector"}

(* The registers hold what fits them, and the code is where it should be.   *)
Registers ==
  /\ pc \in {"readStage2", "setup", "readMftRec", "readRec", "run", "halted"}
            \cup Parsing \cup Scanning \cup Copying
  /\ table \in {<<>>, Bootstrap, MftRuns}
  /\ rec \in 0..(Word - 1) /\ buf \in 0..(Word - 1) /\ lba \in 0..(Word - 1)
  /\ lcn \in 0..(Word - 1) /\ base \in 0..(Word - 1)
  /\ left \in 0..LoopRange /\ clusters \in 0..LoopRange
  /\ es \in LoadBlock..RamTop /\ DOMAIN mem = 0..(Blocks - 1)

(* The record that is being read, or has been, is the one asked for.        *)
RecordRead ==
  /\ pc \in {"readMftRec", "readRec"} \cup Parsing => Asked
  /\ pc \in Parsing => ret = pc
  /\ pc \in {"readRec"} \cup Parsing => buf = RecordStart
  /\ pc = "readRec" => left \in 1..RecSectors(vol) /\ lba = buf + RecSectors(vol) - left

(* The name is not in any block scanned so far.                             *)
IndexRun == vol.recs[5].alloc.runs[1]
IndexScan ==
  /\ pc \in Scanning => /\ table = MftRuns /\ vol.recs[5].root.large
                        /\ Hits(vol.recs[5].root.entries) = {}
  /\ pc = "nextIndexRun" => todo = vol.recs[5].alloc.runs /\ base = 0
  /\ pc \in {"readBlock", "scanBlock"} =>
       /\ lcn \in FirstRun(vol) /\ clusters = (IndexRun.delta + IndexRun.len) - lcn
       /\ buf = ClusterLba(vol, lcn)
       /\ \A c \in FirstRun(vol) : c < lcn => Hits(vol.blocks[c].entries) = {}
  /\ pc = "readBlock" => left \in 1..vol.spc /\ lba = buf + vol.spc - left

(* What is left of BOOTMGR's runs, and how far the copy is in the last one. *)
FileData == vol.recs[vol.fileRec].data
RestFrom(i) == SubSeq(FileData.runs, i + 1, Len(FileData.runs))
BetweenRuns(i) ==
  /\ todo = RestFrom(i)
  /\ base = IF i = 0 THEN 0 ELSE FileData.lcn[i]
  /\ es = LoadBlock + FileData.at[i + 1]
InRun(i) ==
  LET sectors == FileData.runs[i].len * vol.spc IN
  /\ todo = RestFrom(i) /\ base = FileData.lcn[i]
  /\ left \in 1..sectors
  /\ es = LoadBlock + FileData.at[i + 1] - left
  /\ lba = vol.hidd + FileData.lcn[i] * vol.spc + sectors - left
FileCopy ==
  /\ pc \notin Copying \cup {"run", "halted"} => es = LoadBlock
  /\ pc \in Copying \cup {"run"} => vol.named /\ FileData.form = "runs"
  /\ pc = "nextRun" => \E i \in 0..Len(FileData.runs) : BetweenRuns(i)
  /\ pc = "loadSector" => \E i \in 1..Len(FileData.runs) : InRun(i)
  /\ pc = "run" => es = LoadBlock + Len(vol.file)

Letters == {"none"} \cup (IF bios.reliable THEN {} ELSE {"R", "I"})
           \cup (IF ~vol.named THEN {"F"} ELSE IF vol.file = <<>> THEN {"D"} ELSE {})

IInv ==
  /\ Sound(env) /\ Registers /\ RecordRead /\ IndexScan /\ FileCopy
  /\ ImageIsPrefix /\ err \in Letters

LEMMA SoundVolume ==
  ASSUME Sound(env)
  PROVE  VolumeOK(vol) /\ bios.sectors \in Nat /\ vol.hidd + vol.total <= bios.sectors
  BY Zenon DEF Sound, vol, bios

LEMMA Start == Init /\ Sound(env) => IInv
  <1> SUFFICES ASSUME Init, Sound(env) PROVE IInv
    OBVIOUS
  <1>1. Registers
    <2>1. 0 \in 0..(Word - 1) /\ 0 \in 0..LoopRange /\ LoadBlock \in LoadBlock..RamTop
      BY NtfsAssumption
    <2> QED  BY <2>1 DEF Init, Registers
  <1>2. RecordRead /\ IndexScan /\ FileCopy
    BY DEF Init, RecordRead, IndexScan, FileCopy, Parsing, Scanning, Copying
  <1>3. ImageIsPrefix
    <2>1. es = LoadBlock /\ mem = [b \in 0..(Blocks - 1) |-> NoSector]
      BY DEF Init
    <2>2. PICK v : v = vol
      OBVIOUS
    <2>3. Len(v.file) \in Nat
      BY <2>2, SoundVolume, VolumeFacts
    <2>4. LoadBlock \in Nat /\ LoadBlock..(LoadBlock - 1) = {}
      BY NtfsAssumption
    <2> QED  BY <2>1, <2>2, <2>3, <2>4 DEF ImageIsPrefix, Copied
  <1>4. err \in Letters
    BY DEF Init, Letters
  <1> QED  BY <1>1, <1>2, <1>3, <1>4 DEF IInv

(* A step that copies nothing leaves the image as it was.                   *)
LEMMA SameImage ==
  ASSUME ImageIsPrefix, UNCHANGED <<env, es, mem>>
  PROVE  ImageIsPrefix'
  BY DEF ImageIsPrefix, Copied, vol

LEMMA SameVolume ==
  ASSUME Sound(env), UNCHANGED env
  PROVE  Sound(env)' /\ vol' = vol /\ bios' = bios /\ Letters' = Letters
         /\ Bootstrap' = Bootstrap /\ MftRuns' = MftRuns /\ FileData' = FileData
  BY DEF vol, bios, Letters, Bootstrap, MftRuns, FileData

(* Printing one of the letters that say why.                                *)
LEMMA Halts ==
  ASSUME IInv, UNCHANGED <<env, table, rec, ret, buf, todo, base, lcn, clusters, lba, left, es, mem>>,
         pc' = "halted", err' \in Letters
  PROVE  IInv'
  <1>1. Sound(env) /\ Registers
    BY DEF IInv
  <1>2. /\ Sound(env)' /\ Letters' = Letters /\ Bootstrap' = Bootstrap /\ MftRuns' = MftRuns
    BY <1>1, SameVolume
  <1>3. ImageIsPrefix'
    BY SameImage DEF IInv
  <1>4. Registers'
    BY <1>1, <1>2, Zenon DEF Registers
  <1>5. RecordRead' /\ IndexScan' /\ FileCopy'
    BY DEF RecordRead, IndexScan, FileCopy, Parsing, Scanning, Copying
  <1> QED  BY <1>2, <1>3, <1>4, <1>5 DEF IInv

(* Asking for a record that is whole.                                       *)
LEMMA Asks ==
  ASSUME IInv, UNCHANGED <<env, buf, lba, left, todo, base, lcn, clusters, es, mem, err>>,
         es = LoadBlock, Asked', pc' = "readMftRec"
  PROVE  IInv'
  <1>1. Sound(env) /\ Registers
    BY DEF IInv
  <1>2. /\ Sound(env)' /\ Letters' = Letters /\ vol' = vol
        /\ Bootstrap' = Bootstrap /\ MftRuns' = MftRuns
    BY <1>1, SameVolume
  <1>3. ImageIsPrefix'
    BY SameImage DEF IInv
  <1>4. rec' \in 0..(Word - 1)
    <2>0. (VolumeOK(vol) /\ RecordOK(vol, rec))'
      BY <1>2, AskedRecord, PTL
    <2>1. VolumeOK(vol') /\ RecordOK(vol', rec')
      BY <2>0
    <2>2. PICK v, n : v = vol' /\ n = rec'
      OBVIOUS
    <2>3. n \in Nat /\ n < Word
      BY <2>1, <2>2, RecordPlace
    <2> QED  BY <2>2, <2>3, NtfsAssumption
  <1>5. Registers'
    <2>1. table' \in {<<>>, Bootstrap', MftRuns'}
      BY <1>2 DEF Asked
    <2> QED  BY <1>1, <1>4, <2>1, Zenon DEF Registers
  <1>6. RecordRead' /\ IndexScan' /\ FileCopy'
    BY DEF RecordRead, IndexScan, FileCopy, Parsing, Scanning, Copying
  <1> QED  BY <1>2, <1>3, <1>5, <1>6 DEF IInv

LEMMA FromReadStage2 ==
  ASSUME IInv, UNCHANGED env, ReadStage2
  PROVE  IInv'
  <1> USE DEF KeepRead, KeepLists, KeepCopy
  <1>1. VolumeOK(vol) /\ bios.sectors \in Nat /\ vol.hidd + vol.total <= bios.sectors
    BY SoundVolume DEF IInv
  <1>2. PICK v : v = vol
    OBVIOUS
  <1>3. /\ v.hidd \in Nat /\ v.total \in Nat /\ 4 <= v.total /\ v.hidd + v.total < Word
        /\ Word \in Nat \ {0}
    BY <1>1, <1>2, VolumeFacts
  <1>4. vol.stage2
    BY <1>1 DEF VolumeOK
  <1>5. (vol.hidd + 2) % Word = v.hidd + 2
    BY <1>2, <1>3, Arith!SmallMod
  <1>6. Reads((vol.hidd + 2) % Word) /\ Reads(((vol.hidd + 2) % Word) + 1)
    BY <1>1, <1>2, <1>3, <1>5 DEF Reads
  <1>7. CASE pc' = "halted"
    <2>1. err' \in Letters
      BY <1>6, <1>7 DEF ReadStage2, Fails, Die, Goto, Letters
    <2> QED  BY <1>7, <2>1, Halts DEF ReadStage2
  <1>8. CASE pc' # "halted"
    <2>1. /\ pc = "readStage2" /\ pc' = "setup"
          /\ UNCHANGED <<env, table, rec, ret, buf, todo, base, lcn, clusters, lba, left, es, mem, err>>
      BY <1>4, <1>8 DEF ReadStage2, Goto, Die
    <2>2. /\ Sound(env)' /\ Letters' = Letters /\ Bootstrap' = Bootstrap /\ MftRuns' = MftRuns
      BY SameVolume DEF IInv
    <2>3. ImageIsPrefix'
      BY <2>1, SameImage DEF IInv
    <2>4. Registers'
      BY <2>1, <2>2, Zenon DEF Registers, IInv
    <2>5. RecordRead' /\ IndexScan' /\ FileCopy'
      BY <2>1 DEF RecordRead, IndexScan, FileCopy, Parsing, Scanning, Copying, IInv
    <2> QED  BY <2>1, <2>2, <2>3, <2>4, <2>5 DEF IInv
  <1> QED  BY <1>7, <1>8

LEMMA FromSetup ==
  ASSUME IInv, UNCHANGED env, Setup
  PROVE  IInv'
  <1>1. /\ pc = "setup" /\ pc' = "readMftRec" /\ table' = Bootstrap /\ rec' = 0 /\ ret' = "parseMft"
        /\ UNCHANGED <<env, buf, lba, left, todo, base, lcn, clusters, es, mem, err>>
    BY DEF Setup, Ask, Goto, KeepCopy, Bootstrap
  <1>2. es = LoadBlock
    BY <1>1 DEF IInv, FileCopy, Copying
  <1>3. Asked'
    BY <1>1, SameVolume DEF IInv, Asked
  <1> QED  BY <1>1, <1>2, <1>3, Asks

(* Where the record that is asked for lies, in plain numbers.               *)
LEMMA RecordSpan ==
  ASSUME Sound(env), Asked
  PROVE  /\ RecordStart \in Nat /\ RecSectors(vol) \in Nat /\ 1 <= RecSectors(vol)
         /\ RecSectors(vol) <= BufSectors /\ RecSectors(vol) <= LoopRange
         /\ RecordStart + RecSectors(vol) < Word
         /\ RecordStart + RecSectors(vol) <= bios.sectors /\ bios.sectors \in Nat
  <1>1. PICK v, n : v = vol /\ n = rec
    OBVIOUS
  <1>2. /\ VolumeOK(v) /\ RecordOK(v, n) /\ bios.sectors \in Nat
        /\ v.hidd + v.total <= bios.sectors
    BY <1>1, AskedRecord, SoundVolume
  <1>3. PICK l, k : l = v.mft[n * RecSectors(v) + 1] /\ k = RecSectors(v)
    OBVIOUS
  <1>4. l \in Nat /\ l + k <= v.hidd + v.total
    BY <1>2, <1>3, RecordPlace
  <1>5. /\ v.hidd \in Nat /\ v.total \in Nat /\ v.hidd + v.total < Word
        /\ k \in Nat /\ 1 <= k /\ k <= BufSectors
    BY <1>2, <1>3, VolumeFacts
  <1>6. RecordStart = l /\ RecSectors(vol) = k
    BY <1>1, <1>3 DEF RecordStart
  <1>7. l + k < Word /\ l + k <= bios.sectors /\ k <= LoopRange
    BY <1>2, <1>4, <1>5, NtfsAssumption
  <1> QED  BY <1>2, <1>4, <1>5, <1>6, <1>7

LEMMA FromReadMftRec ==
  ASSUME IInv, UNCHANGED env, ReadMftRec
  PROVE  IInv'
  <1> USE DEF KeepLists, KeepCopy
  <1>1. Sound(env) /\ Registers /\ Asked /\ es = LoadBlock /\ pc = "readMftRec"
    BY DEF IInv, RecordRead, FileCopy, ReadMftRec, Copying, Parsing
  <1>2. /\ lba' = RecordStart /\ buf' = RecordStart /\ left' = RecSectors(vol)
        /\ pc' = "readRec" /\ UNCHANGED <<rec, ret, table, todo, base, lcn, clusters, es, mem, err>>
    <2>1. Holders(Wanted) # {} /\ \A i \in Holders(Wanted) : Leads(i)
      BY <1>1, Finds
    <2>2. /\ \E i \in Holders(Wanted) :
               /\ lba' = (ClusterLba(vol, table[i].lcn) + Wanted - Offsets[i - 1]) % Word
               /\ buf' = lba' /\ left' = RecSectors(vol) /\ Goto("readRec")
          /\ UNCHANGED <<rec, ret, table, todo, base, lcn, clusters, es, mem>>
      BY <2>1, Zenon DEF ReadMftRec, Wanted
    <2> QED  BY <2>1, <2>2, Zenon DEF Leads, Goto
  <1>3. /\ Sound(env)' /\ vol' = vol /\ Letters' = Letters /\ Bootstrap' = Bootstrap
        /\ MftRuns' = MftRuns
    BY <1>1, SameVolume
  <1>4. /\ RecordStart \in Nat /\ RecSectors(vol) \in Nat /\ 1 <= RecSectors(vol)
        /\ RecSectors(vol) <= LoopRange /\ RecordStart + RecSectors(vol) < Word
    BY <1>1, RecordSpan
  <1>5. ImageIsPrefix'
    BY <1>2, SameImage DEF IInv
  <1>6. Registers'
    <2>1. lba' \in 0..(Word - 1) /\ buf' \in 0..(Word - 1) /\ left' \in 0..LoopRange
      BY <1>2, <1>4, NtfsAssumption
    <2> QED  BY <1>1, <1>2, <1>3, <2>1, Zenon DEF Registers
  <1>7. RecordRead'
    <2>1. Asked' /\ RecordStart' = RecordStart
      BY <1>1, <1>2, <1>3 DEF Asked, RecordStart
    <2>2. left' \in 1..RecSectors(vol) /\ lba' = buf' + RecSectors(vol) - left'
      BY <1>2, <1>4
    <2> QED  BY <1>2, <1>3, <2>1, <2>2 DEF RecordRead, Parsing
  <1>8. IndexScan' /\ FileCopy'
    BY <1>1, <1>2 DEF IndexScan, FileCopy, Scanning, Copying
  <1> QED  BY <1>2, <1>3, <1>5, <1>6, <1>7, <1>8 DEF IInv

LEMMA FromReadRecord ==
  ASSUME IInv, UNCHANGED env, ReadRecord
  PROVE  IInv'
  <1> USE DEF KeepLists, KeepCopy
  <1>1. /\ Sound(env) /\ Registers /\ Asked /\ es = LoadBlock /\ pc = "readRec"
        /\ buf = RecordStart /\ left \in 1..RecSectors(vol)
        /\ lba = buf + RecSectors(vol) - left
    BY DEF IInv, RecordRead, FileCopy, ReadRecord, ReadToBuf, Copying, Parsing
  <1>2. /\ RecordStart \in Nat /\ RecSectors(vol) \in Nat /\ 1 <= RecSectors(vol)
        /\ RecSectors(vol) <= BufSectors /\ RecSectors(vol) <= LoopRange
        /\ RecordStart + RecSectors(vol) < Word
        /\ RecordStart + RecSectors(vol) <= bios.sectors /\ bios.sectors \in Nat
    BY <1>1, RecordSpan
  <1>3. /\ lba \in Nat /\ lba < bios.sectors /\ lba - buf \in Nat /\ lba - buf < BufSectors
        /\ lba + 1 < Word
    BY <1>1, <1>2, NtfsAssumption
  <1>4. Reads(lba) /\ ~(lba - buf >= BufSectors) /\ (lba + 1) % Word = lba + 1
    <2>1. PICK l, m : l = lba /\ m = lba - buf
      OBVIOUS
    <2>2. l + 1 \in Nat /\ l + 1 < Word /\ Word \in Nat /\ ~(m >= BufSectors)
      BY <1>3, <2>1, NtfsAssumption
    <2>3. (l + 1) % Word = l + 1
      BY <2>2, Arith!SmallMod, Zenon
    <2> QED  BY <1>3, <2>1, <2>2, <2>3 DEF Reads
  <1>5. CASE pc' = "halted" /\ UNCHANGED <<lba, left>>
    <2>1. err' \in Letters
      <3>1. ~bios.reliable /\ err' = "I"
        BY <1>1, <1>4, <1>5 DEF ReadRecord, ReadToBuf, Goto, Die, Fails, Asked
      <3> QED  BY <3>1 DEF Letters
    <2> QED  BY <1>5, <2>1, Halts DEF ReadRecord, ReadToBuf
  <1>6. CASE ~(pc' = "halted" /\ UNCHANGED <<lba, left>>)
    <2>1. /\ lba' = lba + 1 /\ left' = left - 1
          /\ pc' = IF left = 1 THEN ret ELSE "readRec"
          /\ UNCHANGED <<rec, ret, buf, table, todo, base, lcn, clusters, es, mem, err>>
      BY <1>4, <1>6 DEF ReadRecord, ReadToBuf, Goto, Die
    <2>2. /\ Sound(env)' /\ vol' = vol /\ Letters' = Letters /\ Bootstrap' = Bootstrap
          /\ MftRuns' = MftRuns
      BY <1>1, SameVolume
    <2>3. ImageIsPrefix'
      BY <2>1, SameImage DEF IInv
    <2>4. ret \in Parsing /\ pc' \in {"readRec"} \cup Parsing
      BY <1>1, <2>1 DEF Asked, Parsing
    <2>5. Registers'
      <3>1. lba' \in 0..(Word - 1) /\ left' \in 0..LoopRange
        BY <1>1, <1>2, <1>3, <2>1, NtfsAssumption
      <3> QED  BY <1>1, <2>1, <2>2, <2>4, <3>1, Zenon DEF Registers
    <2>6. RecordRead'
      <3>1. Asked' /\ RecordStart' = RecordStart
        BY <1>1, <2>1, <2>2 DEF Asked, RecordStart
      <3>2. pc' = "readRec" => left' \in 1..RecSectors(vol) /\ lba' = buf' + RecSectors(vol) - left'
        <4>1. SUFFICES ASSUME left # 1
              PROVE  left' \in 1..RecSectors(vol) /\ lba' = buf' + RecSectors(vol) - left'
          BY <2>1, <2>4 DEF Parsing, Asked, RecordRead
        <4> QED  BY <1>1, <1>2, <2>1, <4>1
      <3>3. pc' \in Parsing => ret' = pc'
        BY <2>1 DEF Parsing
      <3> QED  BY <1>1, <2>1, <2>2, <3>1, <3>2, <3>3, Zenon DEF RecordRead
    <2>7. IndexScan' /\ FileCopy'
      BY <1>1, <2>1, <2>4 DEF IndexScan, FileCopy, Scanning, Copying, Parsing
    <2> QED  BY <2>1, <2>2, <2>3, <2>5, <2>6, <2>7 DEF IInv
  <1> QED  BY <1>5, <1>6

LEMMA FromParseMft ==
  ASSUME IInv, UNCHANGED env, ParseMft
  PROVE  IInv'
  <1>1. Sound(env) /\ Asked /\ es = LoadBlock /\ pc = "parseMft" /\ ret = "parseMft"
        /\ buf = RecordStart
    BY DEF IInv, RecordRead, FileCopy, ParseMft, Copying, Parsing
  <1>2. VolumeOK(vol) /\ rec = 0
    BY <1>1, SoundVolume DEF Asked
  <1>3. PICK v : v = vol
    OBVIOUS
  <1>4. /\ Describes(v, v.recs[0].data, v.mft) /\ v.mft \in Seq(Nat)
        /\ v.recs[0].data.form = "runs" /\ Len(v.recs[0].data.runs) < TableRuns
    <2>1. MftOK(v)
      BY <1>2, <1>3, Zenon DEF VolumeOK
    <2>2. /\ Describes(v, v.recs[0].data, v.mft) /\ v.mft \in Seq(Nat)
          /\ Len(v.recs[0].data.runs) < TableRuns
      BY <2>1, Zenon DEF MftOK
    <2>3. v.recs[0].data.form = "runs"
      BY <2>2, Zenon DEF Describes
    <2> QED  BY <2>2, <2>3
  <1>5. Absolute(v.recs[0].data.runs) = MftRuns
    BY <1>2, <1>3, <1>4, AbsoluteRuns DEF MftRuns
  <1>6. RecordsAt(buf) = {vol.recs[0]}
    BY <1>1, <1>2, RecordHere
  <1>7. ~(Len(v.recs[0].data.runs) >= TableRuns)
    <2>1. v.recs[0].data.runs \in Seq([len : Nat, delta : Int])
      BY <1>4 DEF Describes
    <2>2. Len(v.recs[0].data.runs) \in Nat
      BY <2>1
    <2> QED  BY <1>4, <2>2, NtfsAssumption
  <1>8. /\ table' = MftRuns /\ Ask(5, "scanRoot")
        /\ UNCHANGED <<todo, base, lcn, clusters, es, mem>>
    BY <1>3, <1>4, <1>5, <1>6, <1>7 DEF ParseMft, Lacks, KeepCopy
  <1>9. /\ rec' = 5 /\ ret' = "scanRoot" /\ pc' = "readMftRec"
        /\ UNCHANGED <<env, buf, lba, left, todo, base, lcn, clusters, es, mem, err>>
    BY <1>8 DEF Ask, Goto
  <1>10. Asked'
    BY <1>1, <1>8, <1>9, SameVolume DEF Asked
  <1> QED  BY <1>1, <1>9, <1>10, Asks

(************************ the index of the root *************************)
LEMMA Cancel ==
  ASSUME NEW a \in Nat, NEW b \in Nat, NEW k \in Nat, 1 <= k, a * k = b * k
  PROVE  a = b
  <1>1. ASSUME NEW x \in Nat, NEW y \in Nat, x < y PROVE x * k + k <= y * k
    BY <1>1, Arith!ProductSteps
  <1>2. PICK p : p = a * k
    OBVIOUS
  <1>3. p \in Nat /\ b * k = p
    BY <1>2, Arith!ProductSteps
  <1>4. ~(a < b)
    <2>1. SUFFICES ASSUME a < b PROVE FALSE
      OBVIOUS
    <2>2. p + k <= p
      BY <1>1, <1>2, <1>3, <2>1
    <2> QED  BY <1>3, <2>2
  <1>5. ~(b < a)
    <2>1. SUFFICES ASSUME b < a PROVE FALSE
      OBVIOUS
    <2>2. p + k <= p
      BY <1>1, <1>2, <1>3, <2>1
    <2> QED  BY <1>3, <2>2
  <1> QED  BY <1>4, <1>5

(* The one run of the index, and its blocks.                                *)
LEMMA IndexFacts ==
  ASSUME NEW v, VolumeOK(v), v.recs[5].root.large = TRUE
  PROVE  LET r == v.recs[5].alloc.runs[1] IN
         /\ v.recs[5].alloc.form = "runs" /\ v.recs[5].alloc.runs # <<>>
         /\ v.recs[5].alloc.runs[1].delta \in Nat
         /\ r.len \in Nat /\ 1 <= r.len /\ r.len < LoopRange
         /\ v.spc <= BufSectors /\ v.named
         /\ FirstRun(v) = r.delta..(r.delta + r.len - 1)
         /\ \A c \in FirstRun(v) :
              /\ c \in Nat /\ c < Word /\ c * v.spc \in Nat /\ c * v.spc + v.spc <= v.total
              /\ ClusterLba(v, c) = v.hidd + c * v.spc
              /\ c \in DOMAIN v.blocks /\ v.blocks[c].form = "index" /\ v.blocks[c].entries \in Slots
  <1> DEFINE runs == v.recs[5].alloc.runs
  <1>1. RootOK(v)
    BY Zenon DEF VolumeOK
  <1>2. /\ v.recs[5].alloc.form = "runs" /\ runs \in Seq([len : Nat, delta : Nat])
        /\ Len(runs) = 1 /\ runs[1].len >= 1 /\ InOneLoop(v, runs)
        /\ (runs[1].delta + runs[1].len) * v.spc <= v.total
        /\ v.named /\ v.spc <= BufSectors
    BY <1>1, Zenon DEF RootOK
  <1>3. runs[1] \in [len : Nat, delta : Nat] /\ 1 \in DOMAIN runs /\ runs # <<>>
    <2>1. PICK q \in Seq([len : Nat, delta : Nat]) : q = runs
      BY <1>2
    <2>2. 1 \in 1..Len(q) /\ q # <<>> /\ DOMAIN q = 1..Len(q)
      BY <1>2, <2>1
    <2>3. q[1] \in [len : Nat, delta : Nat]
      BY <2>2, ElementOfSeq
    <2> QED  BY <2>1, <2>2, <2>3, Zenon
  <1>4. PICK d \in Nat, n \in Nat : d = runs[1].delta /\ n = runs[1].len
    BY <1>3
  <1>5. 1 <= n /\ (d + n) * v.spc <= v.total /\ n * v.spc < LoopRange
    BY <1>2, <1>3, <1>4 DEF InOneLoop
  <1>6. /\ v.spc \in Nat /\ 1 <= v.spc /\ v.hidd \in Nat /\ v.total \in Nat
    BY VolumeFacts
  <1>7. n < LoopRange
    <2>1. PICK p, k : p = n * v.spc /\ k = v.spc
      OBVIOUS
    <2>2. p \in Nat /\ n <= p
      BY <1>5, <1>6, <2>1, Distribute
    <2> QED  BY <1>5, <2>1, <2>2, NtfsAssumption
  <1>8. FirstRun(v) = d..(d + n - 1)
    <2>1. FirstRun(v) = {d + k : k \in 0..(n - 1)}
      BY <1>4 DEF FirstRun
    <2>2. ASSUME NEW c \in d..(d + n - 1) PROVE c \in {d + k : k \in 0..(n - 1)}
      <3>1. c - d \in 0..(n - 1) /\ c = d + (c - d)
        OBVIOUS
      <3> QED  BY <3>1, Zenon
    <2>3. \A k \in 0..(n - 1) : d + k \in d..(d + n - 1)
      OBVIOUS
    <2> QED  BY <2>1, <2>2, <2>3, Zenon
  <1>9. ASSUME NEW c \in FirstRun(v)
        PROVE  /\ c \in Nat /\ c < Word /\ c * v.spc \in Nat /\ c * v.spc + v.spc <= v.total
               /\ ClusterLba(v, c) = v.hidd + c * v.spc
    <2>1. c \in Nat /\ c < d + n /\ d + n \in Nat
      BY <1>8
    <2>2. PICK p, q : p = c * v.spc /\ q = (d + n) * v.spc
      OBVIOUS
    <2>3. p \in Nat /\ q \in Nat /\ p + v.spc <= q
      BY <1>6, <2>1, <2>2, Arith!ProductSteps
    <2>4. p + v.spc <= v.total /\ p < v.total
      BY <1>5, <1>6, <2>2, <2>3
    <2>5. ClusterLba(v, c) = v.hidd + c * v.spc /\ c < Word
      BY <2>1, <2>2, <2>4, ClusterInside
    <2> QED  BY <2>1, <2>2, <2>3, <2>4, <2>5
  <1>10. \A c \in FirstRun(v) :
           c \in DOMAIN v.blocks /\ v.blocks[c].form = "index" /\ v.blocks[c].entries \in Slots
    BY <1>1, Zenon DEF RootOK
  <1> QED  BY <1>2, <1>3, <1>4, <1>5, <1>7, <1>8, <1>9, <1>10

(* What is in BUF is the block that was asked for.                          *)
LEMMA BlockHere ==
  ASSUME Sound(env), vol.recs[5].root.large = TRUE, lcn \in FirstRun(vol),
         buf = ClusterLba(vol, lcn)
  PROVE  BlocksAt(buf) = {vol.blocks[lcn]}
  <1>1. PICK v, n, l : v = vol /\ n = lcn /\ l = buf
    OBVIOUS
  <1>2. VolumeOK(v)
    BY <1>1, SoundVolume
  <1>3. /\ v.spc \in Nat /\ 1 <= v.spc /\ v.hidd \in Nat
    BY <1>2, VolumeFacts
  <1>4. /\ n \in Nat /\ n * v.spc \in Nat /\ l = v.hidd + n * v.spc
        /\ n \in DOMAIN v.blocks
    <2>1. v.recs[5].root.large = TRUE /\ n \in FirstRun(v) /\ l = ClusterLba(v, n)
      BY <1>1
    <2> QED  BY <1>2, <2>1, IndexFacts
  <1>5. ASSUME NEW c \in DOMAIN v.blocks, ClusterLba(v, c) = l PROVE c = n
    <2>1. c \in Nat /\ c * v.spc < v.total
      BY <1>2, Zenon DEF VolumeOK, RootOK
    <2>2. ClusterLba(v, c) = v.hidd + c * v.spc /\ c * v.spc \in Nat
      BY <1>2, <2>1, ClusterInside
    <2>3. PICK p, q : p = c * v.spc /\ q = n * v.spc
      OBVIOUS
    <2>4. p = q
      BY <1>3, <1>4, <1>5, <2>2, <2>3
    <2> QED  BY <1>3, <1>4, <2>1, <2>3, <2>4, Cancel
  <1>6. {c \in DOMAIN vol.blocks : ClusterLba(vol, c) = buf} = {lcn}
    BY <1>1, <1>4, <1>5
  <1> QED  BY <1>6 DEF BlocksAt

(* Whoever finds the name asks for the file it names.                       *)
LEMMA FindsTheFile ==
  ASSUME IInv, NEW entries \in Slots, NamedIn(entries) \subseteq Named(vol), Found(entries),
         table = MftRuns, es = LoadBlock,
         UNCHANGED <<env, table, todo, base, lcn, clusters, es, mem>>
  PROVE  IInv'
  <1>1. Hits(entries) = {i \in DOMAIN entries : entries[i].saved = "BOOTMGR"}
    BY DEF Hits, ApplyFixups
  <1>2. Hits(entries) \subseteq Nat /\ Hits(entries) # {}
    <2>1. DOMAIN entries = 1..Len(entries)
      BY DEF Slots
    <2>2. Hits(entries) # {}
      BY Zenon DEF Found
    <2> QED  BY <1>1, <2>1, <2>2
  <1> DEFINE first == CHOOSE i \in Hits(entries) : \A j \in Hits(entries) : i <= j
  <1>3. first \in Hits(entries)
    BY <1>2, Arith!Least
  <1>4. entries[first].rec \in NamedIn(entries)
    BY <1>1, <1>3 DEF NamedIn
  <1>5. Named(vol) = IF vol.named THEN {vol.fileRec} ELSE {}
    BY SoundVolume, Zenon DEF IInv, VolumeOK, RootOK
  <1>6. vol.named /\ entries[first].rec = vol.fileRec
    BY <1>4, <1>5
  <1>7. Ask(entries[first].rec, "loadFile")
    BY Zenon DEF Found
  <1> HIDE DEF first
  <1>8. /\ rec' = vol.fileRec /\ ret' = "loadFile" /\ pc' = "readMftRec"
        /\ UNCHANGED <<buf, lba, left, err>>
    BY <1>6, <1>7 DEF Ask, Goto
  <1>9. Asked'
    BY <1>6, <1>8, SameVolume DEF IInv, Asked
  <1> QED  BY <1>8, <1>9, Asks

LEMMA LargeIsTrue ==
  ASSUME Sound(env), vol.recs[5].root.large
  PROVE  vol.recs[5].root.large = TRUE
  BY SoundVolume, Zenon DEF VolumeOK, RootOK

LEMMA ShortLoop ==
  ASSUME NEW n \in Nat, 1 <= n, n < LoopRange
  PROVE  Iterations(n) = n
  <1>1. n % LoopRange = n
    BY NtfsAssumption, Arith!SmallMod
  <1> QED  BY <1>1 DEF Iterations

(* Going on to a block of the index.                                        *)
LEMMA Enters ==
  ASSUME IInv, UNCHANGED <<env, table, rec, ret, es, mem, err>>, es = LoadBlock, table = MftRuns,
         vol.recs[5].root.large, Hits(vol.recs[5].root.entries) = {},
         lcn' \in FirstRun(vol), lba' = ClusterLba(vol, lcn'), buf' = lba',
         left' = Iterations(vol.spc), pc' = "readBlock",
         clusters' = (IndexRun.delta + IndexRun.len) - lcn',
         \A c \in FirstRun(vol) : c < lcn' => Hits(vol.blocks[c].entries) = {},
         base' \in 0..(Word - 1)
  PROVE  IInv'
  <1>1. /\ Sound(env)' /\ vol' = vol /\ Letters' = Letters /\ Bootstrap' = Bootstrap
        /\ MftRuns' = MftRuns
    BY SameVolume DEF IInv
  <1>2. PICK v, c : v = vol /\ c = lcn'
    OBVIOUS
  <1>3. VolumeOK(v) /\ v.recs[5].root.large = TRUE
    BY <1>2, SoundVolume, LargeIsTrue DEF IInv
  <1>4. PICK r : r = v.recs[5].alloc.runs[1]
    OBVIOUS
  <1>5. /\ r.delta \in Nat /\ r.len \in Nat /\ r.len < LoopRange
        /\ FirstRun(v) = r.delta..(r.delta + r.len - 1)
        /\ c \in Nat /\ c < Word /\ c * v.spc \in Nat /\ c * v.spc + v.spc <= v.total
        /\ ClusterLba(v, c) = v.hidd + c * v.spc
    BY <1>2, <1>3, <1>4, IndexFacts
  <1>6. /\ v.spc \in Nat /\ 1 <= v.spc /\ v.spc < LoopRange /\ v.hidd \in Nat /\ v.total \in Nat
        /\ v.hidd + v.total < Word /\ Word \in Nat \ {0} /\ LoopRange \in Nat
    BY <1>3, VolumeFacts, NtfsAssumption
  <1>7. left' = v.spc
    BY <1>2, <1>6, ShortLoop
  <1>8. ImageIsPrefix'
    BY SameImage DEF IInv
  <1>9. Registers'
    <2>1. clusters' = (r.delta + r.len) - c
      BY <1>2, <1>4 DEF IndexRun
    <2>2. clusters' \in 0..LoopRange
      <3>1. c \in r.delta..(r.delta + r.len - 1)
        BY <1>2, <1>5
      <3>2. PICK d, n : d = r.delta /\ n = r.len
        OBVIOUS
      <3>3. d \in Nat /\ n \in Nat /\ n < LoopRange /\ c \in d..(d + n - 1)
        BY <1>5, <3>1, <3>2
      <3>4. (d + n) - c \in 0..LoopRange
        BY <1>6, <3>3
      <3> QED  BY <2>1, <3>2, <3>4
    <2>3. left' \in 0..LoopRange /\ lcn' \in 0..(Word - 1)
      BY <1>2, <1>5, <1>6, <1>7
    <2>4. lba' \in 0..(Word - 1)
      <3>1. PICK p : p = c * v.spc
        OBVIOUS
      <3>2. lba' = v.hidd + p /\ p \in Nat /\ p + v.spc <= v.total
        BY <1>2, <1>5, <3>1
      <3> QED  BY <1>6, <3>2
    <2> QED  BY <1>1, <2>2, <2>3, <2>4, Zenon DEF Registers, IInv, Scanning
  <1>10. RecordRead' /\ FileCopy'
    BY DEF RecordRead, FileCopy, Parsing, Copying
  <1>11. IndexScan'
    <2>1. IndexRun' = IndexRun
      BY <1>1 DEF IndexRun
    <2>2. left' \in 1..vol.spc /\ lba' = buf' + vol.spc - left'
      <3>1. PICK p : p = lba'
        OBVIOUS
      <3>2. p \in Int
        BY <1>9, <3>1 DEF Registers
      <3> QED  BY <1>2, <1>6, <1>7, <3>1, <3>2
    <2> QED  BY <1>1, <2>1, <2>2, Zenon DEF IndexScan
  <1> QED  BY <1>1, <1>8, <1>9, <1>10, <1>11 DEF IInv

LEMMA FromScanRoot ==
  ASSUME IInv, UNCHANGED env, ScanRoot
  PROVE  IInv'
  <1>1. /\ Sound(env) /\ Asked /\ es = LoadBlock /\ pc = "scanRoot" /\ ret = "scanRoot"
        /\ buf = RecordStart
    BY DEF IInv, RecordRead, FileCopy, ScanRoot, Copying, Parsing
  <1>2. VolumeOK(vol) /\ rec = 5 /\ table = MftRuns
    BY <1>1, SoundVolume DEF Asked
  <1>3. RecordsAt(buf) = {vol.recs[5]}
    BY <1>1, <1>2, RecordHere
  <1> DEFINE root == vol.recs[5].root
             alloc == vol.recs[5].alloc
  <1>4. /\ root.form = "index" /\ root.entries \in Slots /\ root.large \in BOOLEAN
        /\ Named(vol) = IF vol.named THEN {vol.fileRec} ELSE {}
    BY <1>2, Zenon DEF VolumeOK, RootOK
  <1>5. root.large => /\ alloc.form = "runs"
    BY <1>2, Zenon DEF VolumeOK, RootOK
  <1>6. CASE /\ Found(root.entries) /\ KeepLists /\ KeepCopy
    <2>1. NamedIn(root.entries) \subseteq Named(vol)
      BY DEF Named
    <2> QED  BY <1>1, <1>2, <1>4, <1>6, <2>1, FindsTheFile DEF KeepLists, KeepCopy
  <1>7. CASE /\ Hits(root.entries) = {} /\ ~root.large
             /\ Die("F") /\ KeepRead /\ KeepLists /\ KeepCopy
    <2>1. NamedIn(root.entries) = {}
      BY <1>7 DEF NamedIn, Hits, ApplyFixups
    <2>2. Named(vol) = {}
      BY <1>7, <2>1 DEF Named, FirstRun
    <2>3. "F" \in Letters
      BY <1>4, <2>2 DEF Letters
    <2> QED  BY <1>7, <2>3, Halts DEF Die, KeepRead, KeepLists, KeepCopy
  <1>8. CASE /\ Hits(root.entries) = {} /\ root.large /\ todo' = alloc.runs /\ base' = 0
             /\ Goto("nextIndexRun") /\ KeepRead /\ UNCHANGED <<table, lcn, clusters>> /\ KeepCopy
    <2>1. /\ pc' = "nextIndexRun"
          /\ UNCHANGED <<env, table, rec, ret, buf, lcn, clusters, lba, left, es, mem, err>>
      BY <1>8 DEF Goto, KeepRead, KeepCopy
    <2>2. /\ Sound(env)' /\ vol' = vol /\ Letters' = Letters /\ Bootstrap' = Bootstrap
          /\ MftRuns' = MftRuns
      BY <1>1, SameVolume
    <2>3. ImageIsPrefix'
      BY <2>1, SameImage DEF IInv
    <2>4. Registers'
      <3>1. base' \in 0..(Word - 1)
        BY <1>8, NtfsAssumption
      <3> QED  BY <2>1, <2>2, <3>1, Zenon DEF Registers, IInv, Scanning
    <2>5. RecordRead' /\ FileCopy'
      BY <1>1, <2>1 DEF RecordRead, FileCopy, Parsing, Copying
    <2>6. IndexScan'
      BY <1>2, <1>8, <2>1, <2>2 DEF IndexScan, Scanning
    <2> QED  BY <2>1, <2>2, <2>3, <2>4, <2>5, <2>6 DEF IInv
  <1> QED  BY <1>3, <1>4, <1>5, <1>6, <1>7, <1>8 DEF ScanRoot, Lacks

LEMMA FromNextIndexRun ==
  ASSUME IInv, UNCHANGED env, NextIndexRun
  PROVE  IInv'
  <1>1. /\ Sound(env) /\ es = LoadBlock /\ table = MftRuns /\ vol.recs[5].root.large
        /\ Hits(vol.recs[5].root.entries) = {} /\ todo = vol.recs[5].alloc.runs /\ base = 0
    BY DEF IInv, IndexScan, FileCopy, NextIndexRun, Copying, Scanning
  <1>2. PICK v, runs, d, n :
          /\ v = vol /\ runs = v.recs[5].alloc.runs /\ d = runs[1].delta /\ n = runs[1].len
    OBVIOUS
  <1>3. VolumeOK(v) /\ v.recs[5].root.large = TRUE
    BY <1>1, <1>2, SoundVolume, LargeIsTrue
  <1>4. /\ runs # <<>> /\ d \in Nat /\ n \in Nat /\ 1 <= n /\ n < LoopRange
        /\ FirstRun(v) = d..(d + n - 1) /\ \A c \in FirstRun(v) : c < Word
    BY <1>2, <1>3, IndexFacts
  <1>5. d \in FirstRun(v) /\ d < Word
    BY <1>4
  <1>6. /\ base' = (0 + Head(runs).delta) % Word /\ clusters' = Iterations(Head(runs).len)
        /\ EnterCluster(base') /\ UNCHANGED <<table, es, mem>>
    BY <1>1, <1>2, <1>4, Zenon DEF NextIndexRun, KeepCopy
  <1>7. Head(runs) = runs[1]
    OBVIOUS
  <1>8. base' = d /\ clusters' = n
    <2>1. (0 + d) % Word = d
      BY <1>4, <1>5, NtfsAssumption, Arith!SmallMod
    <2> QED  BY <1>2, <1>4, <1>6, <1>7, <2>1, ShortLoop
  <1>9. /\ lcn' = d /\ lba' = ClusterLba(vol, lcn') /\ buf' = lba' /\ left' = Iterations(vol.spc)
        /\ pc' = "readBlock" /\ UNCHANGED <<rec, ret, err>>
    BY <1>6, <1>8 DEF EnterCluster, Goto
  <1>10. clusters' = (IndexRun.delta + IndexRun.len) - lcn'
    <2>1. IndexRun.delta = d /\ IndexRun.len = n
      BY <1>2 DEF IndexRun
    <2>2. n = (d + n) - d
      BY <1>4
    <2> QED  BY <1>8, <1>9, <2>1, <2>2, Zenon
  <1>11. \A c \in FirstRun(vol) : c < lcn' => Hits(vol.blocks[c].entries) = {}
    <2>1. \A c \in FirstRun(v) : ~(c < d)
      BY <1>4
    <2> QED  BY <1>2, <1>9, <2>1, Zenon
  <1>12. base' \in 0..(Word - 1) /\ lcn' \in FirstRun(vol)
    <2>1. d \in 0..(Word - 1)
      BY <1>4, <1>5, NtfsAssumption
    <2> QED  BY <1>2, <1>5, <1>8, <1>9, <2>1, Zenon
  <1> QED  BY <1>1, <1>6, <1>9, <1>10, <1>11, <1>12, Enters

LEMMA FromReadBlock ==
  ASSUME IInv, UNCHANGED env, ReadBlock
  PROVE  IInv'
  <1> USE DEF KeepLists, KeepCopy
  <1>1. /\ Sound(env) /\ Registers /\ es = LoadBlock /\ pc = "readBlock" /\ table = MftRuns
        /\ vol.recs[5].root.large /\ Hits(vol.recs[5].root.entries) = {}
        /\ lcn \in FirstRun(vol) /\ clusters = (IndexRun.delta + IndexRun.len) - lcn
        /\ buf = ClusterLba(vol, lcn)
        /\ \A c \in FirstRun(vol) : c < lcn => Hits(vol.blocks[c].entries) = {}
        /\ left \in 1..vol.spc /\ lba = buf + vol.spc - left
    BY DEF IInv, IndexScan, FileCopy, ReadBlock, ReadToBuf, Copying, Scanning
  <1>2. PICK v, n, p : v = vol /\ n = lcn /\ p = n * v.spc
    OBVIOUS
  <1>3. VolumeOK(v) /\ v.recs[5].root.large = TRUE /\ bios.sectors \in Nat
        /\ v.hidd + v.total <= bios.sectors
    BY <1>1, <1>2, SoundVolume, LargeIsTrue
  <1>4. /\ p \in Nat /\ p + v.spc <= v.total /\ buf = v.hidd + p /\ v.spc <= BufSectors
    BY <1>1, <1>2, <1>3, IndexFacts
  <1>5. /\ v.spc \in Nat /\ 1 <= v.spc /\ v.spc < LoopRange /\ v.hidd \in Nat /\ v.total \in Nat
        /\ v.hidd + v.total < Word /\ Word \in Nat \ {0} /\ LoopRange \in Nat /\ BufSectors \in Nat
    BY <1>3, VolumeFacts, NtfsAssumption
  <1>6. /\ lba \in Nat /\ lba < bios.sectors /\ lba - buf \in Nat /\ lba - buf < BufSectors
        /\ lba + 1 < Word
    BY <1>1, <1>2, <1>3, <1>4, <1>5
  <1>7. Reads(lba) /\ ~(lba - buf >= BufSectors) /\ (lba + 1) % Word = lba + 1
    <2>1. PICK l, m : l = lba /\ m = lba - buf
      OBVIOUS
    <2>2. l + 1 \in Nat /\ l + 1 < Word /\ Word \in Nat /\ ~(m >= BufSectors)
      BY <1>5, <1>6, <2>1
    <2>3. (l + 1) % Word = l + 1
      BY <2>2, Arith!SmallMod, Zenon
    <2> QED  BY <1>6, <2>1, <2>2, <2>3 DEF Reads
  <1>8. CASE pc' = "halted" /\ UNCHANGED <<lba, left>>
    <2>1. err' \in Letters
      <3>1. ~bios.reliable /\ err' = "I"
        BY <1>1, <1>7, <1>8 DEF ReadBlock, ReadToBuf, Goto, Die, Fails
      <3> QED  BY <3>1 DEF Letters
    <2> QED  BY <1>8, <2>1, Halts DEF ReadBlock, ReadToBuf
  <1>9. CASE ~(pc' = "halted" /\ UNCHANGED <<lba, left>>)
    <2>1. /\ lba' = lba + 1 /\ left' = left - 1
          /\ pc' = IF left = 1 THEN "scanBlock" ELSE "readBlock"
          /\ UNCHANGED <<rec, ret, buf, table, todo, base, lcn, clusters, es, mem, err>>
      BY <1>7, <1>9 DEF ReadBlock, ReadToBuf, Goto, Die
    <2>2. /\ Sound(env)' /\ vol' = vol /\ Letters' = Letters /\ Bootstrap' = Bootstrap
          /\ MftRuns' = MftRuns
      BY <1>1, SameVolume
    <2>3. ImageIsPrefix'
      BY <2>1, SameImage DEF IInv
    <2>4. pc' \in {"scanBlock", "readBlock"}
      BY <2>1
    <2>5. Registers'
      <3>1. lba' \in 0..(Word - 1) /\ left' \in 0..LoopRange
        BY <1>1, <1>2, <1>5, <1>6, <2>1
      <3> QED  BY <1>1, <2>1, <2>2, <2>4, <3>1, Zenon DEF Registers, Scanning
    <2>6. RecordRead' /\ FileCopy'
      BY <1>1, <2>1, <2>4 DEF RecordRead, FileCopy, Copying, Parsing
    <2>7. IndexScan'
      <3>1. IndexRun' = IndexRun
        BY <2>2 DEF IndexRun
      <3>2. pc' = "readBlock" => left' \in 1..vol.spc /\ lba' = buf' + vol.spc - left'
        <4>1. SUFFICES ASSUME left # 1
              PROVE  left' \in 1..vol.spc /\ lba' = buf' + vol.spc - left'
          BY <2>1
        <4>2. PICK k, b : k = v.spc /\ b = buf
          OBVIOUS
        <4>3. k \in Nat /\ b \in Int /\ left \in 1..k /\ lba = b + k - left
          BY <1>1, <1>2, <1>4, <1>5, <4>2
        <4>4. left - 1 \in 1..k /\ lba + 1 = b + k - (left - 1)
          BY <4>1, <4>3
        <4> QED  BY <1>2, <2>1, <4>2, <4>4, Zenon
      <3>3. /\ pc' # "nextIndexRun" /\ pc' \in Scanning
        BY <2>4 DEF Scanning
      <3> QED  BY <1>1, <2>1, <2>2, <3>1, <3>2, <3>3, Zenon DEF IndexScan
    <2> QED  BY <2>1, <2>2, <2>3, <2>5, <2>6, <2>7 DEF IInv
  <1> QED  BY <1>8, <1>9

LEMMA FromScanBlock ==
  ASSUME IInv, UNCHANGED env, ScanBlock
  PROVE  IInv'
  <1>1. /\ Sound(env) /\ Registers /\ es = LoadBlock /\ pc = "scanBlock" /\ table = MftRuns
        /\ vol.recs[5].root.large /\ Hits(vol.recs[5].root.entries) = {}
        /\ lcn \in FirstRun(vol) /\ clusters = (IndexRun.delta + IndexRun.len) - lcn
        /\ buf = ClusterLba(vol, lcn)
        /\ \A c \in FirstRun(vol) : c < lcn => Hits(vol.blocks[c].entries) = {}
    BY DEF IInv, IndexScan, FileCopy, ScanBlock, Copying, Scanning
  <1>2. PICK v, n, d, k, b :
          /\ v = vol /\ n = lcn /\ d = IndexRun.delta /\ k = IndexRun.len /\ b = vol.blocks[lcn]
    OBVIOUS
  <1>3. VolumeOK(v) /\ v.recs[5].root.large = TRUE
    BY <1>1, <1>2, SoundVolume, LargeIsTrue
  <1>4. /\ d \in Nat /\ k \in Nat /\ FirstRun(v) = d..(d + k - 1) /\ v.named
        /\ \A c \in FirstRun(v) : c < Word /\ c \in Nat
        /\ b.form = "index" /\ b.entries \in Slots
    <2>1. /\ d = v.recs[5].alloc.runs[1].delta /\ k = v.recs[5].alloc.runs[1].len
          /\ b = v.blocks[n] /\ n \in FirstRun(v)
      BY <1>1, <1>2 DEF IndexRun
    <2> QED  BY <1>3, <2>1, IndexFacts
  <1>5. n \in d..(d + k - 1) /\ clusters = (d + k) - n
    BY <1>1, <1>2, <1>4
  <1>6. BlocksAt(buf) = {b}
    BY <1>1, <1>2, <1>3, BlockHere
  <1>7. CASE /\ Found(b.entries) /\ KeepLists /\ KeepCopy
    <2>1. NamedIn(b.entries) \subseteq Named(vol)
      BY <1>1, <1>2 DEF Named
    <2> QED  BY <1>1, <1>4, <1>7, <2>1, FindsTheFile DEF KeepLists, KeepCopy
  <1>8. CASE /\ Hits(b.entries) = {} /\ clusters' = clusters - 1 /\ clusters > 1
             /\ EnterCluster((lcn + 1) % Word) /\ UNCHANGED <<table, base, es, mem>>
    <2>1. n + 1 \in FirstRun(v) /\ n + 1 < Word
      BY <1>4, <1>5, <1>8
    <2>2. (lcn + 1) % Word = n + 1
      BY <1>2, <1>4, <2>1, NtfsAssumption, Arith!SmallMod
    <2>3. /\ lcn' = n + 1 /\ lba' = ClusterLba(vol, lcn') /\ buf' = lba'
          /\ left' = Iterations(vol.spc) /\ pc' = "readBlock" /\ UNCHANGED <<rec, ret, err>>
      BY <1>8, <2>2 DEF EnterCluster, Goto
    <2>4. clusters' = (IndexRun.delta + IndexRun.len) - lcn'
      <3>1. clusters - 1 = (d + k) - (n + 1)
        BY <1>4, <1>5
      <3> QED  BY <1>2, <1>8, <2>3, <3>1, Zenon
    <2>5. \A c \in FirstRun(vol) : c < lcn' => Hits(vol.blocks[c].entries) = {}
      <3>1. ASSUME NEW c \in FirstRun(v), c < n + 1 PROVE c < n \/ c = n
        BY <1>4, <1>5, <3>1
      <3> QED  BY <1>1, <1>2, <1>8, <2>3, <3>1, Zenon
    <2>6. base' \in 0..(Word - 1) /\ lcn' \in FirstRun(vol)
      BY <1>1, <1>2, <1>8, <2>1, <2>3 DEF Registers
    <2> QED  BY <1>1, <1>8, <2>3, <2>4, <2>5, <2>6, Enters
  <1>9. CASE Hits(b.entries) = {} /\ ~(clusters > 1)
    <2>1. n = d + k - 1
      BY <1>4, <1>5, <1>9
    <2>2. ASSUME NEW c \in FirstRun(v) PROVE Hits(vol.blocks[c].entries) = {}
      <3>1. c < n \/ c = n
        BY <1>4, <2>1
      <3> QED  BY <1>1, <1>2, <1>9, <3>1, Zenon
    <2>3. Named(vol) = {}
      <3>1. NamedIn(vol.recs[5].root.entries) = {}
        BY <1>1 DEF NamedIn, Hits, ApplyFixups
      <3>2. \A c \in FirstRun(vol) : NamedIn(vol.blocks[c].entries) = {}
        BY <1>2, <2>2 DEF NamedIn, Hits, ApplyFixups
      <3> QED  BY <3>1, <3>2 DEF Named
    <2>4. Named(vol) = IF vol.named THEN {vol.fileRec} ELSE {}
      BY <1>2, <1>3, Zenon DEF VolumeOK, RootOK
    <2> QED  BY <1>2, <1>4, <2>3, <2>4
  <1> QED  BY <1>4, <1>6, <1>7, <1>8, <1>9 DEF ScanBlock, KeepLists, KeepCopy

(************************ the copy of the file **************************)
LEMMA FileFacts ==
  ASSUME Sound(env), vol.named, FileData.form = "runs"
  PROVE  /\ VolumeOK(vol) /\ RecordOK(vol, vol.fileRec)
         /\ Describes(vol, FileData, vol.file) /\ InOneLoop(vol, FileData.runs)
         /\ vol.file # <<>> /\ vol.file \in Seq(Nat)
         /\ Len(FileData.runs) \in Nat /\ DOMAIN FileData.runs = 1..Len(FileData.runs)
         /\ FileData.at[1] = 0 /\ FileData.at[Len(FileData.runs) + 1] = Len(vol.file)
         /\ \A i \in 0..Len(FileData.runs) : FileData.at[i + 1] \in Nat
  <1>1. PICK v, d : v = vol /\ d = FileData
    OBVIOUS
  <1>2. VolumeOK(v) /\ v.named /\ d.form = "runs" /\ d = v.recs[v.fileRec].data
    BY <1>1, SoundVolume DEF FileData
  <1>3. FileOK(v) /\ v.file \in Seq(Nat)
    BY <1>2, Zenon DEF VolumeOK
  <1>4. RecordOK(v, v.fileRec) /\ Describes(v, d, v.file) /\ InOneLoop(v, d.runs) /\ v.file # <<>>
    BY <1>2, <1>3 DEF FileOK
  <1>5. /\ d.runs \in Seq([len : Nat, delta : Int]) /\ d.at \in [1..(Len(d.runs) + 1) -> Nat]
        /\ d.at[1] = 0 /\ d.at[Len(d.runs) + 1] = Len(v.file)
    BY <1>4, Zenon DEF Describes
  <1>6. Len(d.runs) \in Nat /\ DOMAIN d.runs = 1..Len(d.runs)
    BY <1>5
  <1>7. ASSUME NEW i \in 0..Len(d.runs) PROVE d.at[i + 1] \in Nat
    <2>1. PICK a, m : a = d.at /\ m = Len(d.runs)
      OBVIOUS
    <2>2. a \in [1..(m + 1) -> Nat] /\ m \in Nat /\ i \in 0..m
      BY <1>5, <1>6, <2>1
    <2>3. i + 1 \in 1..(m + 1)
      BY <2>2
    <2> QED  BY <2>1, <2>2, <2>3
  <1> QED  BY <1>1, <1>2, <1>3, <1>4, <1>5, <1>6, <1>7, Zenon

LEMMA FromLoadFile ==
  ASSUME IInv, UNCHANGED env, LoadFile
  PROVE  IInv'
  <1>1. /\ Sound(env) /\ Asked /\ es = LoadBlock /\ pc = "loadFile" /\ ret = "loadFile"
        /\ buf = RecordStart
    BY DEF IInv, RecordRead, FileCopy, LoadFile, Copying, Parsing
  <1>2. VolumeOK(vol) /\ vol.named /\ rec = vol.fileRec
    BY <1>1, SoundVolume DEF Asked
  <1>3. RecordsAt(buf) = {vol.recs[vol.fileRec]}
    BY <1>1, <1>2, RecordHere
  <1>4. \/ FileData.form = "resident" /\ vol.file = <<>>
        \/ FileData.form = "runs"
    BY <1>2, Zenon DEF VolumeOK, FileOK, Describes, FileData
  <1>5. CASE FileData.form = "resident" /\ vol.file = <<>> /\ Die("D") /\ KeepRead /\ KeepLists /\ KeepCopy
    <2>1. err' \in Letters
      BY <1>2, <1>5 DEF Letters, Die
    <2> QED  BY <1>5, <2>1, Halts DEF Die, KeepRead, KeepLists, KeepCopy
  <1>6. CASE /\ FileData.form = "runs" /\ todo' = FileData.runs /\ base' = 0
             /\ Goto("nextRun") /\ KeepRead /\ UNCHANGED <<table, lcn, clusters>> /\ KeepCopy
    <2>1. /\ pc' = "nextRun"
          /\ UNCHANGED <<env, table, rec, ret, buf, lcn, clusters, lba, left, es, mem, err>>
      BY <1>6 DEF Goto, KeepRead, KeepCopy
    <2>2. /\ Sound(env)' /\ vol' = vol /\ Letters' = Letters /\ Bootstrap' = Bootstrap
          /\ MftRuns' = MftRuns /\ FileData' = FileData
      BY <1>1, SameVolume
    <2>3. ImageIsPrefix'
      BY <2>1, SameImage DEF IInv
    <2>4. Registers'
      <3>1. base' \in 0..(Word - 1)
        BY <1>6, NtfsAssumption
      <3> QED  BY <2>1, <2>2, <3>1, Zenon DEF Registers, IInv, Copying
    <2>5. RecordRead' /\ IndexScan'
      BY <2>1 DEF RecordRead, IndexScan, Parsing, Scanning
    <2>6. BetweenRuns(0)'
      <3>1. PICK d : d = FileData
        OBVIOUS
      <3>2. /\ d.runs \in Seq([len : Nat, delta : Int]) /\ d.at[1] = 0
        BY <1>1, <1>2, <1>6, <3>1, FileFacts DEF Describes
      <3>3. d.runs = SubSeq(d.runs, 0 + 1, Len(d.runs))
        <4>1. d.runs = SubSeq(d.runs, 1, Len(d.runs))
          BY <3>2, SubSeqFull
        <4>2. 0 + 1 = 1
          OBVIOUS
        <4> QED  BY <4>1, <4>2, Zenon
      <3>4. LoadBlock = LoadBlock + d.at[0 + 1]
        BY <3>2, NtfsAssumption
      <3>5. todo' = SubSeq(FileData'.runs, 0 + 1, Len(FileData'.runs))
        BY <1>6, <2>2, <3>1, <3>3
      <3> QED  BY <1>1, <1>6, <2>1, <2>2, <3>1, <3>4, <3>5 DEF BetweenRuns, RestFrom
    <2>7. FileCopy'
      <3>1. 0 \in 0..Len(FileData.runs)
        BY <1>1, <1>2, <1>6, FileFacts
      <3> QED  BY <1>2, <1>6, <2>1, <2>2, <2>6, <3>1 DEF FileCopy, Copying
    <2> QED  BY <2>1, <2>2, <2>3, <2>4, <2>5, <2>7 DEF IInv
  <1> QED  BY <1>3, <1>4, <1>5, <1>6 DEF LoadFile, Lacks, FileData

LEMMA FromNextRun ==
  ASSUME IInv, UNCHANGED env, NextRun
  PROVE  IInv'
  <1> USE DEF KeepRead, KeepLists, KeepCopy
  <1>1. /\ Sound(env) /\ Registers /\ pc = "nextRun" /\ vol.named /\ FileData.form = "runs"
        /\ \E i \in 0..Len(FileData.runs) : BetweenRuns(i)
    BY DEF IInv, FileCopy, NextRun, Copying
  <1>2. PICK i \in 0..Len(FileData.runs) : BetweenRuns(i)
    BY <1>1
  <1>3. PICK v, d, runs, m : v = vol /\ d = FileData /\ runs = d.runs /\ m = Len(runs)
    OBVIOUS
  <1>4. /\ VolumeOK(v) /\ Describes(v, d, v.file) /\ InOneLoop(v, runs) /\ v.file \in Seq(Nat)
        /\ m \in Nat /\ DOMAIN runs = 1..m /\ d.at[m + 1] = Len(v.file)
        /\ \A j \in 0..m : d.at[j + 1] \in Nat
    BY <1>1, <1>3, FileFacts, Zenon
  <1>5. /\ todo = SubSeq(runs, i + 1, m) /\ i \in 0..m
        /\ base = IF i = 0 THEN 0 ELSE d.lcn[i]
        /\ es = LoadBlock + d.at[i + 1]
    BY <1>2, <1>3 DEF BetweenRuns, RestFrom
  <1>6. UNCHANGED <<env, es, mem, err>> /\ ImageIsPrefix'
    BY SameImage DEF IInv, NextRun, Goto
  <1>7. /\ Sound(env)' /\ vol' = vol /\ Letters' = Letters /\ Bootstrap' = Bootstrap
        /\ MftRuns' = MftRuns /\ FileData' = FileData
    BY <1>1, SameVolume
  <1>8. todo = <<>> <=> i = m
    <2>1. runs \in Seq([len : Nat, delta : Int])
      BY <1>3, <1>4, Zenon DEF Describes
    <2>2. CASE i = m
      <3>1. i + 1 \in Int /\ m \in Int /\ m < i + 1
        BY <1>4, <2>2
      <3> QED  BY <1>5, <2>2, <3>1, SubSeqEmpty
    <2>3. CASE i # m
      <3>1. i + 1 \in 1..Len(runs) /\ m \in (i + 1)..Len(runs) /\ i + 1 \in Int /\ m \in Int
            /\ m - (i + 1) + 1 # 0 /\ i + 1 <= m
        BY <1>3, <1>4, <1>5, <2>3
      <3>2. \A q \in (i + 1)..m : runs[q] \in [len : Nat, delta : Int]
        <4>1. \A q \in (i + 1)..m : q \in 1..Len(runs)
          BY <1>3, <1>4, <1>5
        <4> QED  BY <2>1, <4>1, ElementOfSeq
      <3>3. Len(SubSeq(runs, i + 1, m)) = m - (i + 1) + 1
        BY <3>1, <3>2, SubSeqProperties
      <3> QED  BY <1>5, <2>3, <3>1, <3>3, EmptySeq
    <2> QED  BY <2>2, <2>3
  <1>9. CASE todo = <<>>
    <2>1. /\ pc' = "run"
          /\ UNCHANGED <<env, table, rec, ret, buf, todo, base, lcn, clusters, lba, left, es, mem, err>>
      BY <1>9 DEF NextRun, Goto
    <2>2. es = LoadBlock + Len(v.file)
      BY <1>4, <1>5, <1>8, <1>9
    <2>3. Registers'
      BY <1>1, <1>7, <2>1, Zenon DEF Registers, Copying
    <2>4. RecordRead' /\ IndexScan'
      BY <2>1 DEF RecordRead, IndexScan, Parsing, Scanning
    <2>5. FileCopy'
      BY <1>1, <1>3, <1>7, <2>1, <2>2 DEF FileCopy, Copying
    <2> QED  BY <1>6, <1>7, <2>3, <2>4, <2>5 DEF IInv
  <1>10. CASE todo # <<>>
    <2>1. PICK j : j = i + 1
      OBVIOUS
    <2>2. j \in 1..m /\ j \in 0..m /\ i = j - 1 /\ i + 1 = j /\ j \in Nat
      <3>1. m \in Nat /\ i \in 0..m /\ i # m
        BY <1>4, <1>5, <1>8, <1>10
      <3> QED  BY <2>1, <3>1
    <2>3. PICK x, y, n : x = d.lcn[j] * v.spc /\ y = runs[j].len * v.spc /\ n = runs[j].len
      OBVIOUS
    <2>4. /\ n \in Nat /\ y \in Nat /\ 1 <= y /\ y < Word /\ x \in Nat /\ x + y <= v.total
          /\ d.lcn[j] \in Nat /\ d.lcn[j] < Word /\ ClusterLba(v, d.lcn[j]) = v.hidd + x
          /\ d.at[j + 1] = d.at[j] + y /\ d.at[j] \in Nat /\ d.at[j + 1] \in Nat
      <3>1. /\ j \in 1..Len(d.runs) /\ d.at[j] = d.at[j] /\ x = d.lcn[j] * v.spc
            /\ y = d.runs[j].len * v.spc /\ v.file \in Seq(Nat)
        BY <1>3, <1>4, <2>2, <2>3, Zenon
      <3>2. /\ y \in Nat /\ 1 <= y /\ y < Word /\ x \in Nat /\ x + y <= v.total
            /\ d.lcn[j] \in Nat /\ d.lcn[j] < Word /\ ClusterLba(v, d.lcn[j]) = v.hidd + x
            /\ d.at[j + 1] = d.at[j] + y /\ d.at[j] \in Nat /\ d.at[j + 1] \in Nat
        <4>1. LiesAt(v, d, v.file, j, d.at[j], x, y)
          BY <1>4, <3>1, RunNumbers
        <4> QED  BY <2>2, <4>1 DEF LiesAt
      <3>3. n \in Nat
        BY <1>3, <1>4, <2>3, <3>1, RunFacts, ZenonT(60)
      <3> QED  BY <3>2, <3>3
    <2>5. y < LoopRange
      BY <1>4, <2>2, <2>3 DEF InOneLoop
    <2>6. v.hidd \in Nat /\ v.total \in Nat /\ v.hidd + v.total < Word /\ Word \in Nat \ {0}
      BY <1>4, VolumeFacts
    <2>7. Head(todo) = runs[j] /\ Tail(todo) = SubSeq(runs, j + 1, m)
      <3>1. runs \in Seq([len : Nat, delta : Int])
        BY <1>3, <1>4, Zenon DEF Describes
      <3>2. j \in 1..Len(runs) /\ m \in j..Len(runs) /\ todo = SubSeq(runs, j, m)
        BY <1>3, <1>4, <1>5, <2>2
      <3> QED  BY <3>1, <3>2, HeadTailOfSubSeq
    <2>8. (base + runs[j].delta) % Word = d.lcn[j]
      <3>1. d.lcn[j] = (IF j = 1 THEN 0 ELSE d.lcn[j - 1]) + runs[j].delta
        BY <1>3, <1>4, <2>2, Zenon DEF Describes
      <3>2. base = IF j = 1 THEN 0 ELSE d.lcn[j - 1]
        BY <1>5, <2>2
      <3>3. base + runs[j].delta = d.lcn[j]
        BY <3>1, <3>2, Zenon
      <3> QED  BY <2>4, <2>6, <3>3, Arith!SmallMod
    <2>9. /\ todo' = Tail(todo) /\ base' = d.lcn[j] /\ lba' = v.hidd + x
          /\ left' = Iterations(Sectors(runs[j].len)) /\ pc' = "loadSector"
          /\ UNCHANGED <<table, lcn, clusters, rec, ret, buf>>
      BY <1>3, <1>10, <2>4, <2>7, <2>8 DEF NextRun, Goto
    <2>10. left' = y
      <3>1. Sectors(runs[j].len) = y
        BY <1>3, <2>3 DEF Sectors
      <3> QED  BY <2>4, <2>5, <2>9, <3>1, ShortLoop
    <2>11. Registers'
      <3>1. lba' \in 0..(Word - 1) /\ base' \in 0..(Word - 1) /\ left' \in 0..LoopRange
        BY <2>4, <2>5, <2>6, <2>9, <2>10, NtfsAssumption, SMTT(60)
      <3> QED  BY <1>1, <1>6, <1>7, <2>9, <3>1, Zenon DEF Registers, Copying
    <2>12. RecordRead' /\ IndexScan'
      BY <2>9 DEF RecordRead, IndexScan, Parsing, Scanning
    <2>13. InRun(j)'
      <3>0. PICK a, b : a = d.at[j] /\ b = d.at[j + 1]
        OBVIOUS
      <3>1. es = LoadBlock + d.at[j + 1] - y /\ v.hidd + x = v.hidd + x + y - y /\ y \in 1..y
        <4>1. es = LoadBlock + a /\ b = a + y /\ a \in Nat /\ y \in Nat /\ 1 <= y
          BY <1>5, <2>2, <2>4, <3>0
        <4>2. LoadBlock + a = LoadBlock + b - y
          BY <4>1, NtfsAssumption
        <4>3. v.hidd + x = v.hidd + x + y - y /\ y \in 1..y
          BY <2>4, <2>6, <4>1
        <4> QED  BY <3>0, <4>1, <4>2, <4>3, Zenon
      <3>2. todo' = RestFrom(j)'
        BY <1>3, <1>7, <2>7, <2>9 DEF RestFrom
      <3>3. /\ FileData'.runs[j].len * vol'.spc = y /\ FileData'.lcn[j] * vol'.spc = x
            /\ FileData'.lcn[j] = d.lcn[j] /\ FileData'.at[j + 1] = d.at[j + 1]
        BY <1>3, <1>7, <2>3
      <3> QED  BY <1>3, <1>6, <1>7, <2>9, <2>10, <3>1, <3>2, <3>3, Zenon DEF InRun
    <2>14. FileCopy'
      <3>1. j \in 1..Len(FileData'.runs)
        BY <1>3, <1>7, <2>2
      <3> QED  BY <1>1, <1>7, <2>9, <2>13, <3>1, Zenon DEF FileCopy, Copying
    <2> QED  BY <1>6, <1>7, <2>11, <2>12, <2>14 DEF IInv
  <1> QED  BY <1>9, <1>10

(* The sector that is read is the next one of the file.                     *)
LEMMA FromLoadSector ==
  ASSUME IInv, UNCHANGED env, LoadSector
  PROVE  IInv'
  <1> USE DEF KeepLists, KeepCopy
  <1>1. /\ Sound(env) /\ Registers /\ pc = "loadSector" /\ vol.named /\ FileData.form = "runs"
        /\ ImageIsPrefix /\ \E i \in 1..Len(FileData.runs) : InRun(i)
    BY DEF IInv, FileCopy, LoadSector, Copying
  <1>2. PICK i \in 1..Len(FileData.runs) : InRun(i)
    BY <1>1
  <1>3. PICK v, d, f, x, y, a, b :
          /\ v = vol /\ d = FileData /\ f = v.file
          /\ x = d.lcn[i] * v.spc /\ y = d.runs[i].len * v.spc
          /\ a = d.at[i] /\ b = d.at[i + 1]
    OBVIOUS
  <1>4. /\ VolumeOK(v) /\ Describes(v, d, f) /\ f \in Seq(Nat) /\ Len(d.runs) \in Nat
        /\ bios.sectors \in Nat /\ v.hidd + v.total <= bios.sectors
    BY <1>1, <1>3, FileFacts, SoundVolume, Zenon
  <1>5. /\ x \in Nat /\ y \in Nat /\ x + y <= v.total /\ a \in Nat /\ b \in Nat /\ b = a + y
        /\ b <= Len(f) /\ \A k \in 1..y : f[a + k] = v.hidd + x + k - 1
    <2>1. i \in 1..Len(d.runs)
      BY <1>3
    <2>2. LiesAt(v, d, f, i, a, x, y)
      BY <1>3, <1>4, <2>1, RunNumbers
    <2> QED  BY <1>3, <2>2 DEF LiesAt
  <1>6. /\ v.hidd \in Nat /\ v.total \in Nat /\ v.hidd + v.total < Word /\ Word \in Nat \ {0}
        /\ Len(f) \in Nat /\ LoadBlock + Len(f) <= RamTop
    BY <1>3, <1>4, VolumeFacts
  <1>7. /\ left \in 1..y /\ es = LoadBlock + b - left /\ lba = v.hidd + x + y - left
        /\ todo = RestFrom(i) /\ base = d.lcn[i]
    BY <1>2, <1>3 DEF InRun
  <1>8. PICK l, e, n : l = lba /\ e = es /\ n = left
    OBVIOUS
  <1>9. /\ LoadBlock \in Nat /\ RamTop \in Nat /\ Blocks \in Nat /\ RamTop < Blocks
        /\ LoopRange \in Nat /\ Resident \cap (LoadBlock..(RamTop - 1)) = {}
    BY NtfsAssumption
  <1>10. /\ n \in 1..y /\ e = LoadBlock + b - n /\ l = v.hidd + x + y - n
    BY <1>7, <1>8
  <1>11. /\ l \in Nat /\ l + 1 < Word /\ l + 1 \in Nat /\ l < bios.sectors
    <2>1. PICK h, t, s : h = v.hidd /\ t = v.total /\ s = bios.sectors
      OBVIOUS
    <2>2. /\ h \in Nat /\ t \in Nat /\ h + t < Word /\ x \in Nat /\ y \in Nat /\ x + y <= t
          /\ n \in 1..y /\ l = h + x + y - n /\ h + t <= s /\ s \in Nat /\ Word \in Nat
      BY <1>4, <1>5, <1>6, <1>10, <2>1, Zenon
    <2>3. l \in Nat /\ l + 1 < Word /\ l < s
      BY <2>2
    <2> QED  BY <2>1, <2>3
  <1>12. e \in LoadBlock..(RamTop - 1) /\ e + 1 \in Nat /\ e + 1 < Blocks /\ e \in Nat
    <2>1. PICK k : k = Len(f)
      OBVIOUS
    <2>2. k \in Nat /\ b <= k /\ b \in Nat /\ n \in 1..y /\ b = a + y /\ a \in Nat /\ y \in Nat
          /\ LoadBlock + k <= RamTop
      BY <1>5, <1>6, <1>10, <2>1
    <2> QED  BY <1>9, <1>10, <2>2
  <1>13. /\ Reads(lba) /\ es \notin Resident /\ (lba + 1) % Word = l + 1 /\ NextBlock(es) = e + 1
    <2>1. (l + 1) % Word = l + 1 /\ (e + 1) % Blocks = e + 1
      BY <1>6, <1>9, <1>11, <1>12, Arith!SmallMod, Zenon
    <2> QED  BY <1>8, <1>9, <1>11, <1>12, <2>1 DEF Reads, NextBlock
  <1>14. f[e - LoadBlock + 1] = l /\ e - LoadBlock + 1 \in 1..Len(f)
    <2>1. (y - n) + 1 \in 1..y /\ a + ((y - n) + 1) = e - LoadBlock + 1
      BY <1>5, <1>9, <1>10
    <2>2. f[a + ((y - n) + 1)] = v.hidd + x + ((y - n) + 1) - 1
      BY <1>5, <2>1
    <2>3. v.hidd + x + ((y - n) + 1) - 1 = l
      BY <1>5, <1>6, <1>10
    <2>4. e - LoadBlock + 1 \in 1..Len(f)
      BY <1>5, <1>6, <1>9, <1>10
    <2> QED  BY <2>1, <2>2, <2>3, <2>4, Zenon
  <1>15. /\ Sound(env)' /\ vol' = vol /\ Letters' = Letters /\ Bootstrap' = Bootstrap
         /\ MftRuns' = MftRuns /\ FileData' = FileData
    BY <1>1, SameVolume
  <1>16. CASE pc' = "halted"
    <2>1. ~bios.reliable /\ err' = "I" /\ UNCHANGED <<lba, left, es, mem>>
      BY <1>13, <1>16 DEF LoadSector, Goto, Die, Fails
    <2>2. err' \in Letters
      BY <2>1 DEF Letters
    <2> QED  BY <1>16, <2>1, <2>2, Halts DEF LoadSector
  <1>17. CASE pc' # "halted"
    <2>1. /\ mem' = [mem EXCEPT ![e] = l] /\ lba' = l + 1 /\ es' = e + 1 /\ left' = n - 1
          /\ pc' = (IF n = 1 THEN "nextRun" ELSE "loadSector")
          /\ UNCHANGED <<err, rec, ret, buf, table, todo, base, lcn, clusters>>
      BY <1>8, <1>13, <1>17 DEF LoadSector, Goto, Die
    <2>2. ImageIsPrefix'
      <3>1. /\ e - LoadBlock <= Len(f)
            /\ \A q \in 0..(Blocks - 1) :
                 mem[q] = IF q \in LoadBlock..(e - 1) THEN f[q - LoadBlock + 1] ELSE NoSector
        BY <1>1, <1>3, <1>8 DEF ImageIsPrefix, Copied
      <3>2. (e + 1) - LoadBlock <= Len(f)
        BY <1>6, <1>9, <1>12, <1>14
      <3>3. ASSUME NEW q \in 0..(Blocks - 1)
            PROVE  mem'[q] = IF q \in LoadBlock..((e + 1) - 1) THEN f[q - LoadBlock + 1] ELSE NoSector
        <4>1. CASE q = e
          <5>1. mem'[q] = l
            <6>1. e \in DOMAIN mem
              BY <4>1, <1>1, <1>8 DEF Registers
            <6> QED  BY <2>1, <4>1, <6>1
          <5>2. q \in LoadBlock..((e + 1) - 1)
            BY <4>1, <1>9, <1>12
          <5> QED  BY <4>1, <5>1, <5>2, <1>14
        <4>2. CASE q # e
          <5>1. mem'[q] = mem[q]
            BY <2>1, <4>2
          <5>2. q \in LoadBlock..((e + 1) - 1) <=> q \in LoadBlock..(e - 1)
            BY <1>9, <1>12, <4>2
          <5> QED  BY <3>1, <5>1, <5>2
        <4> QED  BY <4>1, <4>2
      <3> QED  BY <1>3, <1>15, <2>1, <3>2, <3>3 DEF ImageIsPrefix, Copied
    <2>3. pc' \in Copying
      BY <2>1 DEF Copying
    <2>4. Registers'
      <3>1. lba' \in 0..(Word - 1) /\ left' \in 0..LoopRange /\ es' \in LoadBlock..RamTop
        <4>1. n \in 0..LoopRange
          BY <1>1, <1>8 DEF Registers
        <4>2. n - 1 \in 0..LoopRange
          BY <1>9, <1>10, <4>1
        <4>3. l + 1 \in 0..(Word - 1) /\ e + 1 \in LoadBlock..RamTop
          BY <1>6, <1>9, <1>11, <1>12
        <4> QED  BY <2>1, <4>2, <4>3
      <3>2. DOMAIN mem' = DOMAIN mem
        BY <2>1
      <3> QED  BY <1>1, <1>15, <2>1, <2>3, <3>1, <3>2, Zenon DEF Registers
    <2>5. RecordRead' /\ IndexScan'
      BY <2>3 DEF RecordRead, IndexScan, Parsing, Scanning, Copying
    <2>6. todo' = RestFrom(i)' /\ i \in 1..Len(FileData'.runs) /\ i \in 0..Len(FileData'.runs)
      BY <1>4, <1>3, <1>7, <1>15, <2>1 DEF RestFrom
    <2>7. CASE n = 1
      <3>1. es' = LoadBlock + b
        BY <1>5, <1>9, <1>10, <2>1, <2>7
      <3>2. i # 0
        OBVIOUS
      <3>3. BetweenRuns(i)'
        BY <1>3, <1>7, <1>15, <2>1, <2>6, <3>1, <3>2 DEF BetweenRuns
      <3> QED  BY <1>1, <1>15, <2>1, <2>2, <2>4, <2>5, <2>6, <2>7, <3>3 DEF FileCopy, Copying, IInv
    <2>8. CASE n # 1
      <3>1. /\ n - 1 \in 1..y /\ e + 1 = LoadBlock + b - (n - 1)
            /\ l + 1 = v.hidd + x + y - (n - 1)
        <4>1. PICK h : h = v.hidd
          OBVIOUS
        <4>2. h \in Nat /\ x \in Nat /\ y \in Nat /\ n \in 1..y /\ l = h + x + y - n
              /\ b \in Nat /\ e = LoadBlock + b - n
          BY <1>5, <1>6, <1>10, <4>1
        <4>3. n - 1 \in 1..y /\ e + 1 = LoadBlock + b - (n - 1) /\ l + 1 = h + x + y - (n - 1)
          BY <1>9, <2>8, <4>2
        <4> QED  BY <4>1, <4>3
      <3>2. /\ FileData'.runs[i].len * vol'.spc = y /\ FileData'.lcn[i] * vol'.spc = x
            /\ FileData'.lcn[i] = d.lcn[i] /\ FileData'.at[i + 1] = b
        BY <1>3, <1>15
      <3>3. InRun(i)'
        BY <1>3, <1>7, <1>15, <2>1, <2>6, <3>1, <3>2, Zenon DEF InRun
      <3> QED  BY <1>1, <1>15, <2>1, <2>2, <2>4, <2>5, <2>6, <2>8, <3>3 DEF FileCopy, Copying, IInv
    <2> QED  BY <2>7, <2>8
  <1> QED  BY <1>16, <1>17

(************************ the theorems **********************************)
LEMMA InvStep == IInv /\ [Next]_vars => IInv'
  <1> SUFFICES ASSUME IInv, [Next]_vars PROVE IInv'
    OBVIOUS
  <1>1. CASE UNCHANGED vars
    <2>1. /\ UNCHANGED <<env, table, rec, ret, buf, todo, base, lcn, clusters, lba, left, es, mem>>
          /\ UNCHANGED <<pc, err>>
      BY <1>1 DEF vars
    <2>2. /\ Sound(env)' /\ vol' = vol /\ Letters' = Letters /\ Bootstrap' = Bootstrap
          /\ MftRuns' = MftRuns /\ FileData' = FileData
      BY <2>1, SameVolume DEF IInv
    <2>3. Registers' /\ ImageIsPrefix'
      BY <2>1, <2>2, SameImage DEF IInv, Registers
    <2>4. RecordRead'
      <3>1. Asked' = Asked /\ RecordStart' = RecordStart
        BY <2>1, <2>2 DEF Asked, RecordStart
      <3> QED  BY <2>1, <2>2, <3>1, Zenon DEF RecordRead, IInv
    <2>5. IndexScan'
      <3>1. IndexRun' = IndexRun
        BY <2>2 DEF IndexRun
      <3> QED  BY <2>1, <2>2, <3>1, Zenon DEF IndexScan, IInv
    <2>6. FileCopy'
      <3>1. \A i : BetweenRuns(i)' = BetweenRuns(i) /\ InRun(i)' = InRun(i)
        BY <2>1, <2>2 DEF BetweenRuns, InRun, RestFrom
      <3> QED  BY <2>1, <2>2, <3>1, Zenon DEF FileCopy, IInv
    <2> QED  BY <2>1, <2>2, <2>3, <2>4, <2>5, <2>6 DEF IInv
  <1>2. CASE Next
    BY <1>2, FromReadStage2, FromSetup, FromReadMftRec, FromReadRecord, FromParseMft,
       FromScanRoot, FromNextIndexRun, FromReadBlock, FromScanBlock, FromLoadFile,
       FromNextRun, FromLoadSector, Zenon DEF Next
  <1> QED  BY <1>1, <1>2

Inv == env \in Environments /\ (Sound(env) => IInv)

LEMMA Invariance == Spec => []Inv
  <1>1. Init => Inv
    BY Start DEF Init, Inv
  <1>2. Inv /\ [Next]_vars => Inv'
    <2> SUFFICES ASSUME Inv, [Next]_vars PROVE Inv'
      OBVIOUS
    <2>1. UNCHANGED env
      BY DEF Next, vars
    <2>2. Sound(env)' = Sound(env)
      BY <2>1
    <2>3. Sound(env) => IInv'
      BY InvStep DEF Inv
    <2> QED  BY <2>1, <2>2, <2>3 DEF Inv
  <1> QED  BY <1>1, <1>2, PTL DEF Spec

(* On a sound volume the code executes nothing but its own and halts only   *)
(* with the letter of what is wrong, whatever the sizes of records and      *)
(* clusters, the pieces of $MFT and the blocks of the directory.            *)
THEOREM HaltsForAReason == Spec => []SaysWhy
  <1>1. Inv => SaysWhy
    <2> SUFFICES ASSUME Inv, Sound(env)
                 PROVE  pc \notin {"wild", "spin"} /\ err \in Letters
      BY DEF SaysWhy, Letters
    <2>1. IInv
      BY DEF Inv
    <2>2. pc \notin {"wild", "spin"}
      BY <2>1 DEF IInv, Registers, Parsing, Scanning, Copying
    <2> QED  BY <2>1, <2>2 DEF IInv
  <1> QED  BY <1>1, Invariance, PTL

(* On a sound volume every register holds what fits it, BUF is not overrun  *)
(* and neither is the table of $MFT's runs.                                 *)
THEOREM TypeCorrect == Spec => [](Sound(env) => TypeOK)
  <1>1. Inv /\ Sound(env) => TypeOK
    <2> SUFFICES ASSUME Inv, Sound(env) PROVE TypeOK
      OBVIOUS
    <2>1. env \in Environments /\ IInv /\ Registers
      BY DEF Inv, IInv
    <2>2. /\ pc \in {"readStage2", "setup", "readMftRec", "readRec", "parseMft", "scanRoot",
                     "nextIndexRun", "readBlock", "scanBlock", "loadFile", "nextRun",
                     "loadSector", "run", "halted", "spin", "wild"}
          /\ err \in {"none", "R", "A", "F", "M", "I", "D", "O"}
      BY <2>1 DEF IInv, Registers, Parsing, Scanning, Copying, Letters
    <2>3. (\A i \in DOMAIN table : table[i].lcn \in 0..(Word - 1)) /\ Len(table) <= TableRuns
      <3>1. PICK v, d, runs : v = vol /\ d = v.recs[0].data /\ runs = d.runs
        OBVIOUS
      <3>2. VolumeOK(v) /\ v.mft \in Seq(Nat)
        BY <2>1, <3>1, SoundVolume, VolumeFacts
      <3>3. MftOK(v)
        BY <3>2, Zenon DEF VolumeOK
      <3>4. Describes(v, d, v.mft) /\ Len(runs) < TableRuns /\ v.mftLcn \in 0..(Word - 1)
        BY <3>1, <3>3, Zenon DEF MftOK
      <3>5. \A i \in 1..Len(runs) : d.lcn[i] \in 0..(Word - 1)
        <4>1. \A i \in 1..Len(runs) : d.lcn[i] \in Nat /\ d.lcn[i] < Word
          BY <3>1, <3>2, <3>4, RunFacts
        <4> QED  BY <4>1, NtfsAssumption
      <3>6. Len(runs) \in Nat /\ TableRuns \in Nat \ {0}
        <4>1. runs \in Seq([len : Nat, delta : Int])
          BY <3>1, <3>4, Zenon DEF Describes
        <4> QED  BY <4>1, NtfsAssumption
      <3>7. CASE table = <<>>
        BY <3>6, <3>7
      <3>8. CASE table = Bootstrap
        BY <3>1, <3>4, <3>6, <3>8 DEF Bootstrap
      <3>9. CASE table = MftRuns
        <4>1. PICK m : m = Len(runs)
          OBVIOUS
        <4>2. table = [i \in 1..m |-> [lcn |-> d.lcn[i], len |-> runs[i].len]]
          BY <3>1, <3>9, <4>1, ZenonT(60) DEF MftRuns
        <4>3. m \in Nat /\ m < TableRuns /\ TableRuns \in Nat
          BY <3>4, <3>6, <4>1
        <4>4. DOMAIN table = 1..m /\ Len(table) = m
          BY <4>2, <4>3, SMTT(60)
        <4>5. \A i \in 1..m : table[i].lcn = d.lcn[i]
          BY <4>2, SMTT(60)
        <4> QED  BY <3>5, <4>1, <4>3, <4>4, <4>5
      <3> QED  BY <2>1, <3>7, <3>8, <3>9 DEF Registers
    <2>4. pc = "readRec" => lba - buf \in 0..BufSectors
      <3>1. SUFFICES ASSUME pc = "readRec" PROVE lba - buf \in 0..BufSectors
        OBVIOUS
      <3>2. /\ Asked /\ left \in 1..RecSectors(vol) /\ lba = buf + RecSectors(vol) - left
            /\ buf = RecordStart
        BY <2>1, <3>1 DEF IInv, RecordRead
      <3>3. /\ RecordStart \in Nat /\ RecSectors(vol) \in Nat /\ RecSectors(vol) <= BufSectors
        BY <3>2, RecordSpan
      <3> QED  BY <3>2, <3>3, NtfsAssumption
    <2>5. pc = "readBlock" => lba - buf \in 0..BufSectors
      <3>1. SUFFICES ASSUME pc = "readBlock" PROVE lba - buf \in 0..BufSectors
        OBVIOUS
      <3>2. PICK v : v = vol
        OBVIOUS
      <3>3. left \in 1..v.spc /\ lba = buf + v.spc - left /\ vol.recs[5].root.large
        BY <2>1, <3>1, <3>2 DEF IInv, IndexScan, Scanning
      <3>4. v.spc \in Nat /\ v.spc <= BufSectors
        BY <3>2, <3>3, SoundVolume, LargeIsTrue, VolumeFacts, IndexFacts
      <3>5. buf \in Nat
        BY <2>1, NtfsAssumption DEF Registers
      <3> QED  BY <3>3, <3>4, <3>5, NtfsAssumption
    <2>6. {rec, buf, lba, lcn, base} \subseteq 0..(Word - 1)
      BY <2>1 DEF Registers
    <2> QED  BY <2>1, <2>2, <2>3, <2>4, <2>5, <2>6, Zenon DEF TypeOK, Registers
  <1> QED  BY <1>1, Invariance, PTL

(* The image is always the beginning of BOOTMGR, across its runs.           *)
THEOREM CopiesInOrder == Spec => [](Sound(env) => ImageIsPrefix)
  <1>1. Inv /\ Sound(env) => ImageIsPrefix
    BY DEF Inv, IInv
  <1> QED  BY <1>1, Invariance, PTL

(* What a step does to the copy and to where the code is.                   *)
LEMMA StepShape ==
  ASSUME IInv, IInv', Next
  PROVE  /\ UNCHANGED env /\ pc \notin {"run", "halted"}
         /\ \/ UNCHANGED <<es, mem>> /\ (pc' = "run" => pc = "nextRun")
            \/ es' = es + 1 /\ pc' \notin {"run", "halted"}
  <1>1. CASE LoadSector
    <2>1. pc = "loadSector" /\ UNCHANGED env
      BY <1>1 DEF LoadSector, Next
    <2>2. \/ UNCHANGED <<es, mem>> /\ pc' \in {"halted", "wild"}
          \/ es' = NextBlock(es) /\ pc' \in {"nextRun", "loadSector", "wild"}
      BY <1>1 DEF LoadSector, KeepCopy, Goto, Die
    <2>3. es' = NextBlock(es) => es' = es + 1
      <3>1. es \in LoadBlock..RamTop /\ es' \in LoadBlock..RamTop
        BY DEF IInv, Registers
      <3>2. PICK e, f : e = es /\ f = es'
        OBVIOUS
      <3>3. e + 1 \in Nat /\ e + 1 <= Blocks /\ Blocks \in Nat \ {0} /\ f # 0
        BY <3>1, <3>2, NtfsAssumption
      <3>4. e + 1 < Blocks => (e + 1) % Blocks = e + 1
        BY <3>3, Arith!SmallMod, Zenon
      <3>5. Blocks % Blocks = 0
        BY <3>3, Z3
      <3> QED  BY <3>2, <3>3, <3>4, <3>5 DEF NextBlock
    <2> QED  BY <2>1, <2>2, <2>3
  <1>2. CASE NextRun
    BY <1>2 DEF NextRun, Next, KeepCopy, Goto
  <1>3. CASE ReadStage2 \/ Setup \/ ReadMftRec
    BY <1>3 DEF ReadStage2, Setup, ReadMftRec, KeepCopy, Goto, Die, Ask, Next
  <1>4. CASE ReadRecord
    <2>1. pc = "readRec" /\ ret # "run" /\ UNCHANGED env
      BY <1>4 DEF ReadRecord, ReadToBuf, IInv, RecordRead, Asked, Next
    <2> QED  BY <1>4, <2>1 DEF ReadRecord, ReadToBuf, KeepCopy, Goto, Die
  <1>5. CASE ReadBlock
    BY <1>5 DEF ReadBlock, ReadToBuf, KeepCopy, Goto, Die, Next
  <1>6. CASE ParseMft \/ LoadFile
    BY <1>6 DEF ParseMft, LoadFile, Lacks, KeepCopy, Goto, Die, Ask, Next
  <1>7. CASE ScanRoot
    BY <1>7 DEF ScanRoot, Lacks, Found, KeepCopy, Goto, Die, Ask, Next
  <1>8. CASE NextIndexRun
    BY <1>8 DEF NextIndexRun, EnterCluster, KeepCopy, Goto, Die, Next
  <1>9. CASE ScanBlock
    BY <1>9 DEF ScanBlock, EnterCluster, Found, KeepCopy, Goto, Die, Ask, Next
  <1> QED  BY <1>1, <1>2, <1>3, <1>4, <1>5, <1>6, <1>7, <1>8, <1>9 DEF Next

Beginning ==
  /\ Copied \in Nat /\ Copied <= Len(vol.file) /\ vol.file \in Seq(Nat)
  /\ Image = [n \in 1..Copied |-> vol.file[n]]
LEMMA ImageIs ==
  ASSUME IInv
  PROVE  Beginning
  <1>1. PICK v, c : v = vol /\ c = Copied
    OBVIOUS
  <1>2. /\ v.file \in Seq(Nat) /\ Len(v.file) \in Nat /\ LoadBlock + Len(v.file) <= RamTop
    BY <1>1, SoundVolume, VolumeFacts DEF IInv
  <1>3. /\ c <= Len(v.file)
        /\ \A b \in 0..(Blocks - 1) :
             mem[b] = IF b \in LoadBlock..(es - 1) THEN v.file[b - LoadBlock + 1] ELSE NoSector
    BY <1>1 DEF IInv, ImageIsPrefix
  <1>4. c \in Nat /\ es = LoadBlock + c
    BY <1>1, NtfsAssumption DEF IInv, Registers, Copied
  <1>5. ASSUME NEW n \in 1..c PROVE mem[LoadBlock + n - 1] = v.file[n]
    <2>1. /\ LoadBlock + n - 1 \in 0..(Blocks - 1) /\ LoadBlock + n - 1 \in LoadBlock..(es - 1)
          /\ (LoadBlock + n - 1) - LoadBlock + 1 = n
      BY <1>2, <1>3, <1>4, NtfsAssumption
    <2> QED  BY <1>3, <2>1
  <1> QED  BY <1>1, <1>2, <1>3, <1>4, <1>5 DEF Image, Beginning

LEMMA MapsToAStep ==
  ASSUME IInv, IInv', [Next]_vars
  PROVE  [L!Next]_(L!vars)
  <1>1. CASE UNCHANGED vars
    BY <1>1 DEF vars, L!vars, Image, Copied, Status, vol
  <1>2. CASE Next
    <2>1. /\ UNCHANGED env /\ pc \notin {"run", "halted"}
          /\ \/ UNCHANGED <<es, mem>> /\ (pc' = "run" => pc = "nextRun")
             \/ es' = es + 1 /\ pc' \notin {"run", "halted"}
      BY <1>2, StepShape
    <2>2. PICK f : f = vol.file /\ vol.file' = f
      BY <2>1 DEF vol
    <2>3. pc \notin {"wild", "spin"} /\ pc' \notin {"wild", "spin"}
      BY DEF IInv, Registers, Parsing, Scanning, Copying
    <2>4. Status = "loading"
      BY <2>1, <2>3 DEF Status
    <2>5. CASE es' = es + 1 /\ pc' \notin {"run", "halted"}
      <3>1. Status' = "loading"
        BY <2>3, <2>5 DEF Status
      <3>2. PICK m : m = Copied /\ Copied' = m + 1
        BY <2>5, NtfsAssumption DEF Copied, IInv, Registers
      <3>3. m \in Nat /\ f \in Seq(Nat) /\ Image = [i \in 1..m |-> f[i]]
        BY <2>2, <3>2, ImageIs DEF Beginning
      <3>4. Beginning'
        BY ImageIs, PTL
      <3>5. m + 1 <= Len(f) /\ Image' = [i \in 1..(m + 1) |-> f[i]]
        BY <2>2, <3>2, <3>4 DEF Beginning
      <3>6. ASSUME NEW g, NEW k \in Nat
            PROVE  [i \in 1..(k + 1) |-> g[i]] = Append([i \in 1..k |-> g[i]], g[k + 1])
        OBVIOUS
      <3>7. Len(Image) = m
        BY <3>3
      <3>8. Image' = Append(Image, f[m + 1])
        BY <3>3, <3>5, <3>6
      <3>9. Len(Image) < Len(f)
        BY <3>3, <3>5, <3>7
      <3> QED  BY <2>2, <2>4, <3>1, <3>7, <3>8, <3>9 DEF L!Next, L!Load
    <2>6. CASE UNCHANGED <<es, mem>> /\ (pc' = "run" => pc = "nextRun")
      <3>1. UNCHANGED Image
        BY <2>6 DEF Image, Copied
      <3>2. CASE pc' = "run"
        <4>1. vol.named /\ FileData.form = "runs" /\ es' = LoadBlock + Len(f)
          BY <2>2, <2>6, <3>2 DEF IInv, FileCopy, Copying
        <4>2. f # <<>> /\ f \in Seq(Nat)
          BY <2>2, <4>1, FileFacts DEF IInv
        <4>3. Copied = Len(f)
          BY <2>6, <4>1, <4>2, NtfsAssumption DEF Copied
        <4>4. Image = f
          BY <2>2, <4>2, <4>3, ImageIs DEF Beginning
        <4>5. Status' = "running"
          BY <3>2 DEF Status
        <4> QED  BY <2>2, <2>4, <3>1, <4>2, <4>4, <4>5 DEF L!Next, L!Run
      <3>3. CASE pc' = "halted"
        BY <2>2, <2>4, <3>1, <3>3 DEF L!Next, L!Stop, Status
      <3>4. CASE pc' \notin {"run", "halted"}
        <4>1. Status' = "loading"
          BY <2>3, <3>4 DEF Status
        <4> QED  BY <2>2, <2>4, <3>1, <4>1 DEF L!vars
      <3> QED  BY <3>2, <3>3, <3>4
    <2> QED  BY <2>1, <2>5, <2>6
  <1> QED  BY <1>1, <1>2

(* From every sound volume a boot is a behaviour of Loader: control passes  *)
(* only to the whole of BOOTMGR, in order, at 2000:0000.                    *)
THEOREM ImplementsLoader == Spec /\ Sound(env) => LoaderSpec
  <1>1. ASSUME Init, Sound(env) PROVE L!Init
    <2>1. Copied = 0 /\ Status = "loading"
      BY <1>1, NtfsAssumption DEF Init, Copied, Status
    <2>2. Image = <<>>
      BY <2>1 DEF Image
    <2> QED  BY <2>1, <2>2 DEF L!Init
  <1>2. Init /\ Sound(env) => IInv
    BY Start
  <1>3. IInv /\ [Next]_vars => IInv'
    BY InvStep
  <1>4. IInv /\ IInv' /\ [Next]_vars => [L!Next]_(L!vars)
    BY MapsToAStep
  <1> QED  BY <1>1, <1>2, <1>3, <1>4, PTL DEF Spec, LoaderSpec, L!Spec
=============================================================================
