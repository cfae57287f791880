----------------------------- MODULE ChsProofs -----------------------------
(* The conversion of Chs, proved for every geometry its byte-wide cells can *)
(* hold and every LBA within the reach of ten cylinder bits.                *)
EXTENDS Chs, TLAPS, WellFoundedInduction

(* Quotient and remainder put the dividend together again. *)
LEMMA DivMod ==
  ASSUME NEW n \in Nat, NEW d \in Nat \ {0}
  PROVE  /\ n = d * (n \div d) + (n % d)
         /\ n \div d \in Nat /\ n % d \in 0..(d - 1)
  BY Z3

(* A quotient is below q when the dividend is below d * q. *)
LEMMA DivBound ==
  ASSUME NEW n \in Nat, NEW d \in Nat \ {0}, NEW q \in Nat, n < d * q
  PROVE  n \div d < q
  <1>1. n = d * (n \div d) + (n % d) /\ n \div d \in Nat /\ n % d \in 0..(d - 1)
    BY DivMod
  <1> DEFINE k == n \div d
  <1>2. SUFFICES ASSUME k >= q PROVE FALSE
    BY <1>1
  <1>3. d * k >= d * q
    BY <1>1, <1>2, Z3
  <1> QED
    BY <1>1, <1>3

(* Quotient and remainder are determined by the sum they make. *)
LEMMA DivModUnique ==
  ASSUME NEW d \in Nat \ {0}, NEW k \in Nat, NEW r \in 0..(d - 1)
  PROVE  (k * d + r) \div d = k /\ (k * d + r) % d = r
  <1> DEFINE n == k * d + r
  <1>1. n \in Nat
    BY Z3
  <1>2. n = d * (n \div d) + (n % d) /\ n \div d \in Nat /\ n % d \in 0..(d - 1)
    BY <1>1, DivMod
  <1>3. d * (n \div d) + (n % d) = d * k + r
    BY <1>2, Z3
  <1> HIDE DEF n
  <1>4. n \div d = k
    <2> DEFINE q == n \div d
    <2>1. q \in Nat /\ n % d \in 0..(d - 1) /\ d * q + (n % d) = d * k + r
      BY <1>2, <1>3
    <2> HIDE DEF q
    <2>2. ~(q < k)
      <3>1. SUFFICES ASSUME q + 1 <= k PROVE FALSE
        BY <2>1
      <3>2. d * (q + 1) <= d * k /\ d * (q + 1) = d * q + d
        BY <2>1, <3>1, Z3
      <3> QED  BY <2>1, <3>2
    <2>3. ~(k < q)
      <3>1. SUFFICES ASSUME k + 1 <= q PROVE FALSE
        BY <2>1
      <3>2. d * (k + 1) <= d * q /\ d * (k + 1) = d * k + d
        BY <2>1, <3>1, Z3
      <3> QED  BY <2>1, <3>2
    <2> QED  BY <2>1, <2>2, <2>3 DEF q
  <1>5. n % d = r
    <2>1. PICK m : m = n % d
      OBVIOUS
    <2>2. m \in Int /\ d * k + m = d * k + r /\ d * k \in Int
      BY <1>2, <1>3, <1>4, <2>1
    <2>3. m = r
      BY <2>2
    <2> QED  BY <2>1, <2>3
  <1> QED  BY <1>4, <1>5 DEF n

(* Walking over n pieces of k: the next one is k further on.                *)
LEMMA ProductSteps ==
  ASSUME NEW i \in Nat, NEW n \in Nat, NEW k \in Nat
  PROVE  /\ i * k \in Nat
         /\ (i + 1) * k = i * k + k
         /\ i < n => i * k + k <= n * k
  <1>1. i * k \in Nat /\ (i + 1) * k = i * k + k
    BY Z3
  <1>2. ASSUME i < n PROVE (i + 1) * k <= n * k
    BY <1>2, Z3
  <1> QED  BY <1>1, <1>2

(* Below the modulus nothing wraps.                                         *)
LEMMA SmallMod ==
  ASSUME NEW n \in Nat, NEW m \in Nat, n < m
  PROVE  n % m = n /\ n \div m = 0
  BY Z3

(* A set of numbers has a least one.                                        *)
LEMMA Least ==
  ASSUME NEW T, T \subseteq Nat, T # {}
  PROVE  \E x \in T : \A y \in T : x <= y
  <1>1. PICK x \in T : \A y \in T : ~(<<y, x>> \in OpToRel(<, Nat))
    BY NatLessThanWellFounded, WFMin, Zenon
  <1>2. \A y \in T : ~(y < x)
    BY <1>1 DEF OpToRel
  <1> QED  BY <1>2

(* The fields of the registers, for an LBA within reach: the cylinder has   *)
(* ten bits, the sector number six, and they share CL without overlap.      *)
LEMMA Fields ==
  ASSUME NEW s, NEW h, Fits(s, h), NEW l \in Nat, l < Reach(s, h)
  PROVE  /\ Cylinder(l, s, h) \in Nat /\ Cylinder(l, s, h) < 1024
         /\ TrackHead(l, s, h) \in Nat /\ TrackHead(l, s, h) < h
         /\ l % s \in Nat /\ l % s < s
         /\ l = s * (h * Cylinder(l, s, h) + TrackHead(l, s, h)) + (l % s)
  <1> DEFINE t == l \div s
             k == l % s
  <1>0. s \in Nat \ {0} /\ h \in Nat \ {0} /\ h * 1024 \in Nat
    BY DEF Fits
  <1>1. l = s * t + k /\ t \in Nat /\ k \in 0..(s - 1)
    BY <1>0, DivMod, ZenonT(60)
  <1>2. l < s * (h * 1024)
    BY <1>0, Z3 DEF Reach
  <1>3. t < h * 1024
    BY <1>0, <1>2, DivBound, SMTT(60)
  <1> HIDE DEF t, k
  <1>4. t = h * (t \div h) + (t % h) /\ t \div h \in Nat /\ t % h \in 0..(h - 1)
    BY <1>0, <1>1, DivMod, ZenonT(60)
  <1>5. t \div h < 1024
    BY <1>0, <1>1, <1>3, DivBound
  <1>6. Cylinder(l, s, h) = t \div h /\ TrackHead(l, s, h) = t % h
    BY DEF t, Cylinder, TrackHead
  <1>7. s * t = s * (h * (t \div h) + (t % h))
    BY <1>4
  <1> QED  BY <1>0, <1>1, <1>4, <1>5, <1>6, <1>7 DEF k

(* What the BIOS makes of registers that hold cylinder c, head d, index i.  *)
LEMMA SeekFields ==
  ASSUME NEW s, NEW h, Fits(s, h),
         NEW c \in Nat, c < 1024, NEW d \in Nat, d < h, NEW i \in Nat, i < s,
         NEW r, r.ch = c % 256, r.cl = ((c \div 256) % 4) * 64 + i + 1, r.dh = d
  PROVE  Seek(r, s, h) = (c * h + d) * s + i
  <1>1. /\ c \div 256 \in Nat /\ (c \div 256) % 4 = c \div 256
        /\ (c % 256) + 256 * (c \div 256) = c
    BY Z3
  <1>2. r.cl = (c \div 256) * 64 + i + 1 /\ i + 1 < 64 /\ s \in Nat /\ h \in Nat
    BY <1>1 DEF Fits
  <1>3. r.cl \div 64 = c \div 256 /\ r.cl % 64 = i + 1
    BY <1>1, <1>2
  <1>4. r.ch + 256 * (r.cl \div 64) = c
    BY <1>1, <1>3
  <1>5. r.cl % 64 \in 1..s /\ r.dh < h
    BY <1>2, <1>3
  <1>6. Seek(r, s, h) = (c * h + d) * s + (i + 1) - 1
    BY <1>3, <1>4, <1>5, ZenonT(60) DEF Seek
  <1>7. (c * h + d) * s \in Int
    BY <1>2, Z3
  <1> QED  BY <1>6, <1>7

(* A BIOS with the geometry of the code reads the very sector that was      *)
(* asked for, for every LBA that ten bits of cylinder can express: the      *)
(* divisions, the split cylinder and the 1-based sector number of           *)
(* read_one_sector lose nothing.                                            *)
THEOREM ChsRoundTrip ==
  ASSUME NEW s, NEW h, Fits(s, h), NEW l \in Nat, l < Reach(s, h)
  PROVE  Seek(Pack(l, s, h), s, h) = l
  <1>1. PICK c, d, i : /\ c = Cylinder(l, s, h) /\ d = TrackHead(l, s, h) /\ i = l % s
    OBVIOUS
  <1>2. /\ c \in Nat /\ c < 1024 /\ d \in Nat /\ d < h /\ i \in Nat /\ i < s
        /\ l = s * (h * c + d) + i
    BY <1>1, Fields
  <1>3. PICK r : r = Pack(l, s, h)
    OBVIOUS
  <1>4. r.ch = c % 256 /\ r.cl = ((c \div 256) % 4) * 64 + i + 1 /\ r.dh = d
    BY <1>1, <1>3 DEF Pack
  <1>5. Seek(r, s, h) = (c * h + d) * s + i
    BY <1>2, <1>4, SeekFields
  <1>6. s \in Nat /\ h \in Nat
    BY DEF Fits
  <1> QED  BY <1>2, <1>3, <1>5, <1>6, Z3
=============================================================================
