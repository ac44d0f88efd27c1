---------------------------- MODULE Codec_proofs ----------------------------
(***************************************************************************)
(* For every size of the arrays, every value of a byte and everything the  *)
(* desktop may collect: what is unpacked is what was packed, whatever the  *)
(* receive buffer held before.                                             *)
(***************************************************************************)
EXTENDS Codec, TLAPS

-----------------------------------------------------------------------------
(* Bytes of numbers.                                                       *)

\* Division with remainder.
LEMMA DivMod ==
    ASSUME NEW v \in Nat, NEW d \in Nat, d > 0
    PROVE  /\ v \div d \in Nat /\ v % d \in 0..(d - 1)
           /\ v = (d * (v \div d)) + (v % d)
BY SMT

\* Dividing twice.
LEMMA DivTwice ==
    ASSUME NEW v \in Nat, NEW d \in Nat, NEW e \in Nat, d > 0, e > 0
    PROVE  v \div (d * e) = (v \div d) \div e
BY SMT

\* A quotient is bounded by the quotient of the bounds.
LEMMA DivBound ==
    ASSUME NEW v \in Nat, NEW d \in Nat, NEW w \in Nat, d > 0, v < d * w
    PROVE  v \div d < w
<1>1. /\ v \div d \in Nat /\ v % d \in 0..(d - 1)
      /\ v = (d * (v \div d)) + (v % d)
    BY DivMod
<1>. QED BY <1>1, SMT

LEMMA WeightFacts ==
    /\ Weight[1] = 1 /\ Weight[2] = Base /\ Weight[3] = Base * Base
    /\ Weight[4] = Base * Base * Base
    /\ Base \in Nat /\ Base > 1
    /\ Base * Base \in Nat /\ Base * Base > 0
    /\ Base * Base * Base \in Nat /\ Base * Base * Base > 0
    /\ Word = Base * Base * Base * Base /\ Word \in Nat /\ Word > 0
<1>1. Base \in Nat /\ Base > 1
    BY CodecAssumption
<1>2. Base * Base \in Nat /\ Base * Base > 0
    BY <1>1, SMT
<1>3. Base * Base * Base \in Nat /\ Base * Base * Base > 0
    BY <1>1, <1>2, SMT
<1>4. Word = Base * Base * Base * Base
    BY DEF Word, Weight
<1>5. Word \in Nat /\ Word > 0
    BY <1>1, <1>3, <1>4, SMT
<1>. QED BY <1>1, <1>2, <1>3, <1>4, <1>5 DEF Weight

\* A byte of a number is a byte.
LEMMA ByteType ==
    ASSUME NEW v \in Nat, NEW k \in 1..4
    PROVE  Byte(v, k) \in Bytes
<1>1. Weight[k] \in Nat /\ Weight[k] > 0
    BY WeightFacts
<1>2. v \div Weight[k] \in Nat
    BY <1>1, DivMod
<1>3. (v \div Weight[k]) % Base \in 0..(Base - 1)
    BY <1>2, DivMod, WeightFacts
<1>. QED BY <1>3 DEF Byte, Bytes

LEMMA LongByteType ==
    ASSUME NEW v \in Nat, NEW k \in 1..8
    PROVE  LongByte(v, k) \in Bytes
<1>1. v \div Word \in Nat
    BY DivMod, WeightFacts
<1>2. CASE k <= 4
    BY <1>2, ByteType DEF LongByte
<1>3. CASE ~(k <= 4)
    <2>1. k - 4 \in 1..4
        BY <1>3
    <2>. QED BY <2>1, <1>1, <1>3, ByteType DEF LongByte
<1>. QED BY <1>2, <1>3

\* Two bytes of a number give the number, up to a multiple of Base * Base.
LEMMA TwoBytes ==
    ASSUME NEW v \in Nat, NEW lo, NEW hi, lo = v % Base, hi = (v \div Base) % Base
    PROVE  /\ v \div (Base * Base) \in Nat
           /\ lo + Base * hi = v - Base * Base * (v \div (Base * Base))
<1>. DEFINE q == v \div Base
<1>1. /\ q \in Nat /\ lo \in 0..(Base - 1) /\ v = (Base * q) + lo
    BY DivMod, WeightFacts
<1>2. /\ q \div Base \in Nat /\ hi \in 0..(Base - 1)
      /\ q = (Base * (q \div Base)) + hi
    BY <1>1, DivMod, WeightFacts
<1>3. v \div (Base * Base) = q \div Base
    BY DivTwice, WeightFacts
<1>. HIDE DEF q
<1>4. \A h \in Nat : q = (Base * h) + hi =>
          lo + Base * hi = v - Base * Base * h
    BY <1>1, <1>2, WeightFacts, SMT
<1>. QED BY <1>2, <1>3, <1>4

\* Packing a number and reading it back, for each width.
LEMMA ReadTwo ==
    ASSUME NEW v \in Nat, NEW b, NEW at \in Nat,
           b[at] = Byte(v, 1), b[at + 1] = Byte(v, 2)
    PROVE  /\ v \div (Base * Base) \in Nat
           /\ Value2(b, at) = v - Base * Base * (v \div (Base * Base))
<1>1. v \div 1 = v
    BY SMT
<1>2. b[at] = v % Base /\ b[at + 1] = (v \div Base) % Base
    BY <1>1, WeightFacts DEF Byte
<1>. QED BY <1>2, TwoBytes DEF Value2

LEMMA Two ==
    ASSUME NEW v \in Bytes2, NEW b, NEW at \in Nat,
           b[at] = Byte(v, 1), b[at + 1] = Byte(v, 2)
    PROVE  Value2(b, at) = v
<1>1. v \in Nat /\ v < Base * Base * 1
    BY WeightFacts DEF Bytes2
<1>2. v \div (Base * Base) \in Nat /\ v \div (Base * Base) < 1
    BY <1>1, DivBound, DivMod, WeightFacts
<1>3. v \div (Base * Base) = 0
    BY <1>2
<1>4. Value2(b, at) = v - Base * Base * 0
    BY <1>1, <1>3, ReadTwo
<1>. QED BY <1>1, <1>4, WeightFacts

LEMMA ReadFour ==
    ASSUME NEW v \in Nat, NEW b, NEW at \in Nat,
           \A k \in 1..4 : b[at + k - 1] = Byte(v, k)
    PROVE  v \div Word \in Nat /\ Value4(b, at) = v - Word * (v \div Word)
<1>. DEFINE B2 == Base * Base
            h == v \div B2
<1>1. h \in Nat
    BY DivMod, WeightFacts
<1>2. Value2(b, at) = v - B2 * h
    BY ReadTwo, 1 \in 1..4, 2 \in 1..4, at + 1 - 1 = at, at + 2 - 1 = at + 1
<1>3. h \div 1 = h
    BY <1>1, SMT
<1>4. Byte(v, 3) = Byte(h, 1)
    BY <1>3, WeightFacts DEF Byte
<1>5. v \div (B2 * Base) = h \div Base
    BY DivTwice, WeightFacts
<1>6. Byte(v, 4) = Byte(h, 2)
    BY <1>5, WeightFacts DEF Byte
<1>7. /\ h \div B2 \in Nat
      /\ Value2(b, at + 2) = h - B2 * (h \div B2)
    <2>1. b[at + 2] = Byte(h, 1) /\ b[at + 2 + 1] = Byte(h, 2)
        BY <1>4, <1>6, 3 \in 1..4, 4 \in 1..4, at + 3 - 1 = at + 2,
           at + 4 - 1 = at + 2 + 1
    <2>. QED BY <2>1, <1>1, ReadTwo
<1>8. v \div Word = h \div B2
    <2>1. Word = B2 * B2
        BY WeightFacts, SMT
    <2>. QED BY <2>1, DivTwice, WeightFacts
<1>9. Value4(b, at) = (v - B2 * h) + B2 * (h - B2 * (h \div B2))
    BY <1>2, <1>7, WeightFacts DEF Value4
<1>10. Word = B2 * B2
    BY WeightFacts, SMT
<1>. HIDE DEF B2, h
<1>11. B2 \in Nat
    BY WeightFacts DEF B2
<1>12. \A x \in Nat : (v - B2 * h) + B2 * (h - B2 * x) = v - (B2 * B2) * x
    BY <1>1, <1>11, SMT
<1>. QED BY <1>7, <1>8, <1>9, <1>10, <1>12

LEMMA Four ==
    ASSUME NEW v \in Bytes4, NEW b, NEW at \in Nat,
           \A k \in 1..4 : b[at + k - 1] = Byte(v, k)
    PROVE  Value4(b, at) = v
<1>1. v \in Nat /\ v < Word * 1
    BY WeightFacts DEF Bytes4
<1>2. v \div Word \in Nat /\ v \div Word < 1
    BY <1>1, DivBound, DivMod, WeightFacts
<1>3. Value4(b, at) = v - Word * 0
    BY <1>1, <1>2, ReadFour
<1>. QED BY <1>1, <1>3, WeightFacts

LEMMA Eight ==
    ASSUME NEW v \in Bytes8, NEW b, NEW at \in Nat,
           \A k \in 1..8 : b[at + k - 1] = LongByte(v, k)
    PROVE  Value8(b, at) = v
<1>. DEFINE h == v \div Word
<1>1. v \in Nat /\ v < Word * Word
    BY WeightFacts DEF Bytes8
<1>2. h \in Nat /\ h < Word
    BY <1>1, DivBound, DivMod, WeightFacts
<1>3. h \in Bytes4
    BY <1>2, WeightFacts DEF Bytes4
<1>4. \A k \in 1..4 : b[at + k - 1] = Byte(v, k)
    BY DEF LongByte
<1>5. Value4(b, at) = v - Word * h
    BY <1>1, <1>4, ReadFour
<1>6. ASSUME NEW k \in 1..4 PROVE b[at + 4 + k - 1] = Byte(h, k)
    <2>1. k + 4 \in 1..8 /\ ~(k + 4 <= 4) /\ at + (k + 4) - 1 = at + 4 + k - 1
          /\ (k + 4) - 4 = k
        OBVIOUS
    <2>2. b[at + (k + 4) - 1] = LongByte(v, k + 4)
        BY <2>1
    <2>. QED BY <2>1, <2>2 DEF LongByte
<1>7. Value4(b, at + 4) = h
    BY <1>3, <1>6, Four
<1>8. Value8(b, at) = (v - Word * h) + Word * h
    BY <1>5, <1>7 DEF Value8
<1>. HIDE DEF h
<1>. QED BY <1>1, <1>2, <1>8, WeightFacts

-----------------------------------------------------------------------------
(* Strings.                                                                *)

LEMMA SizeFacts ==
    /\ NameLen \in Nat /\ NameLen > 0 /\ AppLen \in Nat /\ AppLen > 0
    /\ TextLen \in Nat /\ TextLen > 0 /\ BufLen \in Nat
    /\ StatsSize <= BufLen /\ GitSize <= BufLen /\ NotifSize <= BufLen
    /\ StatsSize \in Bytes4 /\ GitSize \in Bytes4 /\ NotifSize \in Bytes4
    /\ 0 \in Bytes
<1>1. \A n \in {StatsSize, GitSize, NotifSize} :
          BufLen \in Nat /\ n <= BufLen /\ n \in Bytes4
    BY CodecAssumption
<1>2. 0 \in Bytes
    BY WeightFacts DEF Bytes
<1>. QED BY <1>1, <1>2, CodecAssumption

LEMMA ClipType ==
    ASSUME NEW n \in Nat, NEW s \in Chars(n)
    PROVE  Clip(s, n) \in Chars(n)
<1>1. \A i \in 1..n : Packed(s, n, i) \in Bytes
    BY SizeFacts DEF Packed, Chars
<1>. QED BY <1>1 DEF Clip, Chars

\* A clipped string packs into itself.
LEMMA ClipTwice ==
    ASSUME NEW n \in Nat, NEW s \in Chars(n), NEW i \in 1..n
    PROVE  Packed(Clip(s, n), n, i) = Clip(s, n)[i]
<1>. DEFINE c == Clip(s, n)
<1>1. \A j \in 1..n : c[j] = Packed(s, n, j)
    BY DEF Clip
<1>2. CASE i = n
    BY <1>1, <1>2 DEF Packed
<1>3. CASE i # n /\ EndsBefore(s, i)
    <2>1. c[i] = 0
        BY <1>1, <1>3 DEF Packed
    <2>2. EndsBefore(c, i)
        BY <2>1 DEF EndsBefore
    <2>. QED BY <2>1, <2>2, <1>3 DEF Packed
<1>4. CASE i # n /\ ~EndsBefore(s, i)
    <2>1. ASSUME NEW j \in 1..i PROVE c[j] # 0
        <3>1. j \in 1..n /\ j # n
            BY <1>4
        <3>2. ~EndsBefore(s, j) /\ s[j] # 0
            BY <1>4 DEF EndsBefore
        <3>. QED BY <3>1, <3>2, <1>1 DEF Packed
    <2>2. ~EndsBefore(c, i)
        BY <2>1 DEF EndsBefore
    <2>. QED BY <2>2, <1>4 DEF Packed
<1>. QED BY <1>2, <1>3, <1>4

\* Reading back a field that holds a clipped string gives that string.
LEMMA StringBack ==
    ASSUME NEW n \in Nat, n > 0, NEW s \in Chars(n), NEW b, NEW at \in Nat,
           \A i \in 1..n : b[at + i - 1] = Packed(Clip(s, n), n, i)
    PROVE  Unpacked(b, at, n) = Clip(s, n)
<1>1. \A i \in 1..n : Packed(Clip(s, n), n, i) = Clip(s, n)[i]
    BY ClipTwice
<1>2. Clip(s, n)[n] = 0
    BY DEF Clip, Packed
<1>3. \A i \in 1..n : Unpacked(b, at, n)[i] = Clip(s, n)[i]
    BY <1>1, <1>2 DEF Unpacked
<1>4. Clip(s, n) = [i \in 1..n |-> Clip(s, n)[i]]
    BY DEF Clip
<1>5. Unpacked(b, at, n) = [i \in 1..n |-> Unpacked(b, at, n)[i]]
    BY DEF Unpacked
<1>. QED BY <1>3, <1>4, <1>5

LEMMA UnpackedType ==
    ASSUME NEW n \in Nat, NEW m \in Nat, NEW b \in [1..m -> Bytes],
           NEW at \in Nat \ {0}, at + n - 1 <= m
    PROVE  Unpacked(b, at, n) \in Chars(n)
<1>1. \A i \in 1..n : at + i - 1 \in 1..m
    OBVIOUS
<1>. QED BY <1>1, SizeFacts DEF Unpacked, Chars

-----------------------------------------------------------------------------
(* Payloads.                                                               *)

\* What the PSP reads from a telemetry packet is what the desktop packed.
THEOREM StatsRoundTrip ==
    ASSUME NEW s \in StatsType
    PROVE  UnpackStats(PackStats(s)) = s
<1>. DEFINE b == PackStats(s)
<1>1. b[1] = s.cpu_usage /\ b[2] = s.ram_usage
    BY DEF PackStats, StatsSize
<1>2. b[3] = Byte(s.cpu_temp, 1) /\ b[4] = Byte(s.cpu_temp, 2)
    BY DEF PackStats, StatsSize
<1>3. ASSUME NEW k \in 1..8
      PROVE  /\ b[5 + k - 1] = LongByte(s.ram_total, k)
             /\ b[13 + k - 1] = LongByte(s.ram_free, k)
    <2>1. /\ 5 + k - 1 \in 5..12 /\ (5 + k - 1) - 4 = k
          /\ 13 + k - 1 \in 13..20 /\ (13 + k - 1) - 12 = k
        OBVIOUS
    <2>. QED BY <2>1 DEF PackStats, StatsSize
<1>4. /\ s.cpu_temp \in Bytes2 /\ s.ram_total \in Bytes8 /\ s.ram_free \in Bytes8
    BY DEF StatsType
<1>. HIDE DEF b
<1>5. Value2(b, 3) = s.cpu_temp
    BY <1>2, <1>4, Two, 3 + 1 = 4
<1>6. Value8(b, 5) = s.ram_total /\ Value8(b, 13) = s.ram_free
    BY <1>3, <1>4, Eight
<1>7. UnpackStats(b) = s
    BY <1>1, <1>5, <1>6 DEF UnpackStats, StatsType
<1>. QED BY <1>7 DEF b

\* ... and from a git status packet, with the branch as far as it fits.
THEOREM GitRoundTrip ==
    ASSUME NEW g \in GitType
    PROVE  UnpackGit(PackGit(ClipGit(g))) = ClipGit(g)
<1>. DEFINE c == ClipGit(g)
            b == PackGit(c)
<1>1. /\ c = [modified_files |-> g.modified_files,
              untracked_files |-> g.untracked_files,
              branch_name |-> Clip(g.branch_name, NameLen)]
      /\ c.modified_files = g.modified_files
      /\ c.untracked_files = g.untracked_files
      /\ c.branch_name = Clip(g.branch_name, NameLen)
      /\ g.modified_files \in Bytes4 /\ g.untracked_files \in Bytes4
      /\ g.branch_name \in Chars(NameLen)
    BY DEF ClipGit, GitType
<1>2. ASSUME NEW k \in 1..4
      PROVE  /\ b[1 + k - 1] = Byte(g.modified_files, k)
             /\ b[5 + k - 1] = Byte(g.untracked_files, k)
    <2>1. /\ 1 + k - 1 = k /\ k <= 4 /\ (5 + k - 1) - 4 = k
          /\ ~(5 + k - 1 <= 4) /\ 5 + k - 1 <= 8
          /\ k \in 1..GitSize /\ 5 + k - 1 \in 1..GitSize
        BY SizeFacts DEF GitSize
    <2>. QED BY <2>1, <1>1 DEF PackGit
<1>3. ASSUME NEW i \in 1..NameLen
      PROVE  b[9 + i - 1] = Packed(Clip(g.branch_name, NameLen), NameLen, i)
    <2>1. /\ 9 + i - 1 \in 1..GitSize /\ (9 + i - 1) - 8 = i
          /\ ~(9 + i - 1 <= 4) /\ ~(9 + i - 1 <= 8)
        BY SizeFacts DEF GitSize
    <2>. QED BY <2>1, <1>1 DEF PackGit
<1>. HIDE DEF b
<1>4. Value4(b, 1) = g.modified_files /\ Value4(b, 5) = g.untracked_files
    BY <1>1, <1>2, Four
<1>5. Unpacked(b, 9, NameLen) = Clip(g.branch_name, NameLen)
    BY <1>1, <1>3, StringBack, SizeFacts
<1>. HIDE DEF c
<1>6. UnpackGit(b) = c
    BY <1>1, <1>4, <1>5 DEF UnpackGit
<1>. QED BY <1>6 DEF b, c

\* ... and from a notification packet, with each of its texts as far as it fits.
THEOREM NotifRoundTrip ==
    ASSUME NEW n \in NotifType
    PROVE  UnpackNotif(PackNotif(ClipNotif(n))) = ClipNotif(n)
<1>. DEFINE c == ClipNotif(n)
            b == PackNotif(c)
<1>1. /\ c.app_name = Clip(n.app_name, AppLen)
      /\ c.summary = Clip(n.summary, TextLen) /\ c.body = Clip(n.body, TextLen)
      /\ n.app_name \in Chars(AppLen) /\ n.summary \in Chars(TextLen)
      /\ n.body \in Chars(TextLen)
    BY DEF ClipNotif, NotifType
<1>2. ASSUME NEW i \in 1..AppLen
      PROVE  b[1 + i - 1] = Packed(Clip(n.app_name, AppLen), AppLen, i)
    <2>1. 1 + i - 1 = i /\ i \in 1..NotifSize /\ i <= AppLen
        BY SizeFacts DEF NotifSize
    <2>. QED BY <2>1, <1>1 DEF PackNotif
<1>3. ASSUME NEW i \in 1..TextLen
      PROVE  b[AppLen + 1 + i - 1] = Packed(Clip(n.summary, TextLen), TextLen, i)
    <2>1. /\ AppLen + 1 + i - 1 \in 1..NotifSize /\ ~(AppLen + 1 + i - 1 <= AppLen)
          /\ AppLen + 1 + i - 1 <= AppLen + TextLen
          /\ (AppLen + 1 + i - 1) - AppLen = i
        BY SizeFacts DEF NotifSize
    <2>. QED BY <2>1, <1>1 DEF PackNotif
<1>4. ASSUME NEW i \in 1..TextLen
      PROVE  b[AppLen + TextLen + 1 + i - 1]
                 = Packed(Clip(n.body, TextLen), TextLen, i)
    <2>. DEFINE p == AppLen + TextLen + 1 + i - 1
    <2>1. /\ p \in 1..NotifSize /\ ~(p <= AppLen) /\ ~(p <= AppLen + TextLen)
          /\ p - AppLen - TextLen = i
        BY SizeFacts DEF NotifSize
    <2>. QED BY <2>1, <1>1 DEF PackNotif
<1>. HIDE DEF b
<1>5. Unpacked(b, 1, AppLen) = Clip(n.app_name, AppLen)
    BY <1>1, <1>2, StringBack, SizeFacts
<1>6. AppLen + 1 \in Nat /\ AppLen + TextLen + 1 \in Nat
    BY SizeFacts
<1>7. Unpacked(b, AppLen + 1, TextLen) = Clip(n.summary, TextLen)
    BY <1>1, <1>3, <1>6, StringBack, SizeFacts
<1>8. Unpacked(b, AppLen + TextLen + 1, TextLen) = Clip(n.body, TextLen)
    BY <1>1, <1>4, <1>6, StringBack, SizeFacts
<1>9. UnpackNotif(b) = c
    BY <1>5, <1>7, <1>8 DEF UnpackNotif, ClipNotif
<1>. QED BY <1>9 DEF b

-----------------------------------------------------------------------------
(* What bytes can become.                                                  *)

LEMMA Value2Type ==
    ASSUME NEW m \in Nat, NEW b \in [1..m -> Bytes], NEW at \in Nat \ {0},
           at + 1 <= m
    PROVE  Value2(b, at) \in Bytes2
<1>1. b[at] \in 0..(Base - 1) /\ b[at + 1] \in 0..(Base - 1)
    BY DEF Bytes
<1>2. \A x, y \in 0..(Base - 1) : x + Base * y \in 0..(Base * Base - 1)
    BY WeightFacts, SMT
<1>. QED BY <1>1, <1>2 DEF Value2, Bytes2

LEMMA Value4Type ==
    ASSUME NEW m \in Nat, NEW b \in [1..m -> Bytes], NEW at \in Nat \ {0},
           at + 3 <= m
    PROVE  Value4(b, at) \in Bytes4
<1>. DEFINE B2 == Base * Base
<1>1. Value2(b, at) \in 0..(B2 - 1) /\ Value2(b, at + 2) \in 0..(B2 - 1)
    BY Value2Type DEF Bytes2
<1>2. \A e \in Nat : \A x, y \in 0..(e - 1) : x + e * y \in 0..(e * e - 1)
    BY SMT
<1>3. B2 \in Nat /\ Word = B2 * B2
    BY WeightFacts, SMT
<1>4. Value4(b, at) = Value2(b, at) + B2 * Value2(b, at + 2)
    BY WeightFacts DEF Value4
<1>. HIDE DEF B2
<1>. QED BY <1>1, <1>2, <1>3, <1>4 DEF Bytes4

LEMMA Value8Type ==
    ASSUME NEW m \in Nat, NEW b \in [1..m -> Bytes], NEW at \in Nat \ {0},
           at + 7 <= m
    PROVE  Value8(b, at) \in Bytes8
<1>1. Value4(b, at) \in 0..(Word - 1) /\ Value4(b, at + 4) \in 0..(Word - 1)
    BY Value4Type DEF Bytes4
<1>2. \A e \in Nat : \A x, y \in 0..(e - 1) : x + e * y \in 0..(e * e - 1)
    BY SMT
<1>. QED BY ZenonT(30), <1>1, <1>2, WeightFacts DEF Value8, Bytes8

LEMMA UnpackTypes ==
    ASSUME NEW m \in Nat, NEW b \in [1..m -> Bytes]
    PROVE  /\ StatsSize <= m => UnpackStats(b) \in StatsType
           /\ GitSize <= m => /\ UnpackGit(b) \in GitType
                              /\ UnpackGit(b).branch_name[NameLen] = 0
           /\ NotifSize <= m => /\ UnpackNotif(b) \in NotifType
                                /\ UnpackNotif(b).app_name[AppLen] = 0
                                /\ UnpackNotif(b).summary[TextLen] = 0
                                /\ UnpackNotif(b).body[TextLen] = 0
<1>1. ASSUME StatsSize <= m PROVE UnpackStats(b) \in StatsType
    <2>1. b[1] \in Bytes /\ b[2] \in Bytes
        BY <1>1 DEF StatsSize
    <2>2. Value2(b, 3) \in Bytes2 /\ Value8(b, 5) \in Bytes8
          /\ Value8(b, 13) \in Bytes8
        BY <1>1, Value2Type, Value8Type DEF StatsSize
    <2>. QED BY <2>1, <2>2 DEF UnpackStats, StatsType
<1>2. ASSUME GitSize <= m
      PROVE  /\ UnpackGit(b) \in GitType
             /\ UnpackGit(b).branch_name[NameLen] = 0
    <2>1. Value4(b, 1) \in Bytes4 /\ Value4(b, 5) \in Bytes4
        BY <1>2, Value4Type, SizeFacts DEF GitSize
    <2>2. Unpacked(b, 9, NameLen) \in Chars(NameLen)
        BY <1>2, UnpackedType, SizeFacts DEF GitSize
    <2>3. Unpacked(b, 9, NameLen)[NameLen] = 0
        BY SizeFacts DEF Unpacked
    <2>. QED BY <2>1, <2>2, <2>3 DEF UnpackGit, GitType
<1>3. ASSUME NotifSize <= m
      PROVE  /\ UnpackNotif(b) \in NotifType
             /\ UnpackNotif(b).app_name[AppLen] = 0
             /\ UnpackNotif(b).summary[TextLen] = 0
             /\ UnpackNotif(b).body[TextLen] = 0
    <2>1. /\ 1 + AppLen - 1 <= m /\ AppLen + 1 + TextLen - 1 <= m
          /\ AppLen + TextLen + 1 + TextLen - 1 <= m
          /\ AppLen + 1 \in Nat \ {0} /\ AppLen + TextLen + 1 \in Nat \ {0}
        BY <1>3, SizeFacts DEF NotifSize
    <2>2. /\ Unpacked(b, 1, AppLen) \in Chars(AppLen)
          /\ Unpacked(b, AppLen + 1, TextLen) \in Chars(TextLen)
          /\ Unpacked(b, AppLen + TextLen + 1, TextLen) \in Chars(TextLen)
        BY <2>1, UnpackedType, SizeFacts
    <2>3. /\ Unpacked(b, 1, AppLen)[AppLen] = 0
          /\ Unpacked(b, AppLen + 1, TextLen)[TextLen] = 0
          /\ Unpacked(b, AppLen + TextLen + 1, TextLen)[TextLen] = 0
        BY SizeFacts DEF Unpacked
    <2>. QED BY <2>2, <2>3 DEF UnpackNotif, NotifType
<1>. QED BY <1>1, <1>2, <1>3

ShownOK(shown) == shown \in ShownType /\ Terminated(shown)

\* Whatever packet is dispatched, the structures hold values of their types and
\* strings that end.
LEMMA DispatchOK ==
    ASSUME NEW cur, ShownOK(cur), NEW h, h.size \in Nat,
           NEW b \in [1..h.size -> Bytes]
    PROVE  ShownOK(Dispatch(cur, h, b))
<1>. DEFINE new == Dispatch(cur, h, b)
<1>1. CASE h.id = Ids.STATS /\ h.size >= StatsSize
    <2>1. new = [cur EXCEPT !.stats = UnpackStats(b)]
        BY <1>1 DEF Dispatch, Ids
    <2>2. UnpackStats(b) \in StatsType
        BY <1>1, UnpackTypes DEF StatsSize
    <2>. QED BY <2>1, <2>2 DEF ShownOK, ShownType, Terminated
<1>2. CASE h.id = Ids.GIT /\ h.size >= GitSize
    <2>1. new = [cur EXCEPT !.git = UnpackGit(b)]
        BY <1>2 DEF Dispatch, Ids
    <2>2. UnpackGit(b) \in GitType /\ UnpackGit(b).branch_name[NameLen] = 0
        BY <1>2, UnpackTypes, SizeFacts DEF GitSize
    <2>. QED BY <2>1, <2>2 DEF ShownOK, ShownType, Terminated
<1>3. CASE h.id = Ids.NOTIF /\ h.size >= NotifSize
    <2>1. new = [cur EXCEPT !.notif = UnpackNotif(b)]
        BY <1>3 DEF Dispatch, Ids
    <2>2. /\ UnpackNotif(b) \in NotifType /\ UnpackNotif(b).app_name[AppLen] = 0
          /\ UnpackNotif(b).summary[TextLen] = 0
          /\ UnpackNotif(b).body[TextLen] = 0
        BY <1>3, UnpackTypes, SizeFacts DEF NotifSize
    <2>. QED BY <2>1, <2>2 DEF ShownOK, ShownType, Terminated
<1>4. CASE h.id = Ids.CONTROL /\ h.size >= ControlSize
    <2>1. new = [cur EXCEPT !.command = b[1]]
        BY <1>4 DEF Dispatch, Ids
    <2>2. b[1] \in Bytes
        BY <1>4 DEF ControlSize
    <2>. QED BY <2>1, <2>2 DEF ShownOK, ShownType, Terminated
<1>5. CASE /\ ~(h.id = Ids.STATS /\ h.size >= StatsSize)
           /\ ~(h.id = Ids.GIT /\ h.size >= GitSize)
           /\ ~(h.id = Ids.NOTIF /\ h.size >= NotifSize)
           /\ ~(h.id = Ids.CONTROL /\ h.size >= ControlSize)
    <2>1. new = cur
        BY <1>5 DEF Dispatch
    <2>. QED BY <2>1
<1>. QED BY <1>1, <1>2, <1>3, <1>4, <1>5

\* Only the bytes of the packet itself count, not what is behind them.
LEMMA DispatchSame ==
    ASSUME NEW cur, NEW h, h.size \in Nat, NEW b, NEW c,
           \A i \in 1..h.size : b[i] = c[i]
    PROVE  Dispatch(cur, h, b) = Dispatch(cur, h, c)
<1>1. ASSUME h.size >= StatsSize PROVE UnpackStats(b) = UnpackStats(c)
    <2>1. \A i \in 1..20 : b[i] = c[i]
        BY <1>1 DEF StatsSize
    <2>. QED BY <2>1 DEF UnpackStats, Value2, Value4, Value8
<1>2. ASSUME h.size >= GitSize PROVE UnpackGit(b) = UnpackGit(c)
    <2>1. \A i \in 1..8 : b[i] = c[i]
        BY <1>2, SizeFacts DEF GitSize
    <2>2. \A i \in 1..NameLen : b[9 + i - 1] = c[9 + i - 1]
        BY <1>2, SizeFacts DEF GitSize
    <2>3. Unpacked(b, 9, NameLen) = Unpacked(c, 9, NameLen)
        BY <2>2 DEF Unpacked
    <2>4. Value4(b, 1) = Value4(c, 1) /\ Value4(b, 5) = Value4(c, 5)
        BY <2>1 DEF Value2, Value4
    <2>. QED BY <2>3, <2>4 DEF UnpackGit
<1>3. ASSUME h.size >= NotifSize PROVE UnpackNotif(b) = UnpackNotif(c)
    <2>1. /\ \A i \in 1..AppLen : b[1 + i - 1] = c[1 + i - 1]
          /\ \A i \in 1..TextLen : b[AppLen + 1 + i - 1] = c[AppLen + 1 + i - 1]
          /\ \A i \in 1..TextLen : b[AppLen + TextLen + 1 + i - 1]
                                        = c[AppLen + TextLen + 1 + i - 1]
        BY <1>3, SizeFacts DEF NotifSize
    <2>. QED BY <2>1 DEF UnpackNotif, Unpacked
<1>4. ASSUME h.size >= ControlSize PROVE b[1] = c[1]
    BY <1>4 DEF ControlSize
<1>. QED BY <1>1, <1>2, <1>3, <1>4 DEF Dispatch

\* The header that arrives is the one that was sent.
LEMMA HeaderBack ==
    ASSUME NEW id \in Bytes4, NEW size \in Bytes4
    PROVE  /\ PackHeader(id, size) \in [1..HeaderSize -> Bytes]
           /\ PackHeader(id, size) # <<>>
           /\ UnpackHeader(PackHeader(id, size)) =
                  [magic |-> Magic, version |-> Version, id |-> id, size |-> size]
<1>. DEFINE b == PackHeader(id, size)
<1>1. Magic \in Bytes2 /\ Version \in Bytes2 /\ Magic \in Nat /\ Version \in Nat
      /\ id \in Nat /\ size \in Nat
    BY CodecAssumption, WeightFacts DEF Bytes2, Bytes4
<1>2. \A k \in 1..4 : /\ Byte(Magic, k) \in Bytes /\ Byte(Version, k) \in Bytes
                       /\ Byte(id, k) \in Bytes /\ Byte(size, k) \in Bytes
    BY <1>1, ByteType
<1>3. b = [i \in 1..12 |-> b[i]] /\ \A i \in 1..12 : b[i] \in Bytes
    <2>1. ASSUME NEW i \in 1..12 PROVE b[i] \in Bytes
        <3>1. i \in 1..2 \/ i \in 3..4 \/ i \in 5..8 \/ i \in 9..12
            OBVIOUS
        <3>2. CASE i \in 1..2
            BY <3>2, <1>2 DEF PackHeader, HeaderSize
        <3>3. CASE i \in 3..4
            BY <3>3, <1>2, i - 2 \in 1..4 DEF PackHeader, HeaderSize
        <3>4. CASE i \in 5..8
            BY <3>4, <1>2, i - 4 \in 1..4 DEF PackHeader, HeaderSize
        <3>5. CASE i \in 9..12
            BY <3>5, <1>2, i - 8 \in 1..4 DEF PackHeader, HeaderSize
        <3>. QED BY <3>1, <3>2, <3>3, <3>4, <3>5
    <2>. QED BY <2>1 DEF PackHeader, HeaderSize
<1>4. /\ b[1] = Byte(Magic, 1) /\ b[2] = Byte(Magic, 2)
      /\ b[3] = Byte(Version, 1) /\ b[4] = Byte(Version, 2)
    BY DEF PackHeader, HeaderSize
<1>5. ASSUME NEW k \in 1..4
      PROVE  b[5 + k - 1] = Byte(id, k) /\ b[9 + k - 1] = Byte(size, k)
    <2>1. /\ 5 + k - 1 \in 5..8 /\ (5 + k - 1) - 4 = k
          /\ 9 + k - 1 \in 9..12 /\ (9 + k - 1) - 8 = k
        OBVIOUS
    <2>. QED BY <2>1 DEF PackHeader, HeaderSize
<1>. HIDE DEF b
<1>6. Value2(b, 1) = Magic /\ Value2(b, 3) = Version
    BY <1>1, <1>4, Two, 1 + 1 = 2, 3 + 1 = 4
<1>7. Value4(b, 5) = id /\ Value4(b, 9) = size
    BY <1>5, Four
<1>8. b # <<>>
    BY <1>3
<1>9. b \in [1..HeaderSize -> Bytes]
    BY <1>3 DEF HeaderSize
<1>. QED BY <1>6, <1>7, <1>8, <1>9 DEF UnpackHeader, b

-----------------------------------------------------------------------------
(* The behaviours.                                                         *)

\* The packet on the wire, when there is one, will make the PSP show what was
\* sent.
OnTheWire ==
    LET h == UnpackHeader(header) IN
    /\ header \in [1..HeaderSize -> Bytes]
    /\ h.magic = Magic /\ h.size \in 0..BufLen
    /\ payload \in [1..h.size -> Bytes]
    /\ Dispatch(current, h, payload) = sent

CodecInv ==
    /\ ShownOK(current) /\ ShownOK(sent)
    /\ payload_buf \in [1..BufLen -> Bytes]
    /\ header = <<>> => current = sent
    /\ header # <<>> => OnTheWire

LEMMA InitCodec == Init => CodecInv
<1>. SUFFICES ASSUME Init PROVE CodecInv
    OBVIOUS
<1>1. \A n \in Nat : Zeros(n) \in Chars(n)
    BY SizeFacts DEF Zeros, Chars
<1>2. 0 \in Bytes /\ 0 \in Bytes2 /\ 0 \in Bytes4 /\ 0 \in Bytes8
    BY SizeFacts, WeightFacts DEF Bytes2, Bytes4, Bytes8
<1>3. NoStats \in StatsType
    BY <1>2 DEF NoStats, StatsType
<1>4. NoGit \in GitType /\ NoGit.branch_name[NameLen] = 0
    BY <1>1, <1>2, SizeFacts DEF NoGit, GitType, Zeros
<1>5. /\ NoNotif \in NotifType /\ NoNotif.app_name[AppLen] = 0
      /\ NoNotif.summary[TextLen] = 0 /\ NoNotif.body[TextLen] = 0
    BY <1>1, SizeFacts DEF NoNotif, NotifType, Zeros
<1>6. ShownOK(Initially)
    BY <1>2, <1>3, <1>4, <1>5 DEF ShownOK, ShownType, Terminated, Initially
<1>7. payload_buf \in [1..BufLen -> Bytes]
    BY <1>1, SizeFacts DEF Init, Chars
<1>. QED BY <1>6, <1>7 DEF Init, CodecInv

LEMMA IdFacts ==
    /\ {Ids.STATS, Ids.GIT, Ids.NOTIF, Ids.CONTROL} \subseteq Bytes4
    /\ SizeOf(Ids.STATS) = StatsSize /\ SizeOf(Ids.GIT) = GitSize
    /\ SizeOf(Ids.NOTIF) = NotifSize /\ SizeOf(Ids.CONTROL) = ControlSize
    /\ \A id \in {Ids.STATS, Ids.GIT, Ids.NOTIF, Ids.CONTROL} :
          /\ SizeOf(id) \in 1..BufLen
          /\ \A size \in 1..SizeOf(id) : size \in Bytes4
<1>1. \A x \in Bytes4 : \A y \in 0..x : y \in Bytes4
    BY WeightFacts DEF Bytes4
<1>2. {Ids.STATS, Ids.GIT, Ids.NOTIF, Ids.CONTROL} \subseteq Bytes4
    BY <1>1, CodecAssumption DEF Ids
<1>3. /\ SizeOf(Ids.STATS) = StatsSize /\ SizeOf(Ids.GIT) = GitSize
      /\ SizeOf(Ids.NOTIF) = NotifSize /\ SizeOf(Ids.CONTROL) = ControlSize
    BY DEF SizeOf, Ids
<1>4. /\ StatsSize \in 1..BufLen /\ GitSize \in 1..BufLen
      /\ NotifSize \in 1..BufLen /\ ControlSize \in 1..BufLen
      /\ ControlSize \in Bytes4
    BY SizeFacts, <1>1, CodecAssumption
       DEF StatsSize, GitSize, NotifSize, ControlSize
<1>. QED BY <1>1, <1>2, <1>3, <1>4, SizeFacts

\* Sending: what the packet unpacks to is what is remembered as sent.
LEMMA PutKeeps ==
    ASSUME CodecInv, NEW id \in {Ids.STATS, Ids.GIT, Ids.NOTIF, Ids.CONTROL},
           NEW bytes \in [1..SizeOf(id) -> Bytes], Put(id, bytes),
           \A h : h.id = id /\ h.size = SizeOf(id) =>
               Dispatch(current, h, bytes) = sent'
    PROVE  CodecInv'
<1>1. id \in Bytes4 /\ SizeOf(id) \in Bytes4 /\ SizeOf(id) \in 1..BufLen
    BY IdFacts
<1>. DEFINE h == UnpackHeader(PackHeader(id, SizeOf(id)))
<1>2. /\ PackHeader(id, SizeOf(id)) \in [1..HeaderSize -> Bytes]
      /\ PackHeader(id, SizeOf(id)) # <<>>
      /\ h = [magic |-> Magic, version |-> Version, id |-> id,
              size |-> SizeOf(id)]
    BY <1>1, HeaderBack
<1>3. header' = PackHeader(id, SizeOf(id)) /\ payload' = bytes
      /\ current' = current /\ payload_buf' = payload_buf
    BY DEF Put
<1>. HIDE DEF h
<1>4. Dispatch(current, h, bytes) = sent'
    BY <1>2
<1>5. ShownOK(sent')
    <2>1. h.size \in Nat /\ bytes \in [1..h.size -> Bytes]
        BY <1>1, <1>2
    <2>. QED BY <2>1, <1>4, DispatchOK DEF CodecInv
<1>6. OnTheWire'
    BY <1>1, <1>2, <1>3, <1>4 DEF OnTheWire, h
<1>7. ShownOK(current') /\ payload_buf' \in [1..BufLen -> Bytes]
    BY <1>3 DEF CodecInv
<1>. QED BY <1>2, <1>3, <1>5, <1>6, <1>7 DEF CodecInv

LEMMA PackTypes ==
    /\ \A s \in StatsType : PackStats(s) \in [1..StatsSize -> Bytes]
    /\ \A g \in GitType : PackGit(g) \in [1..GitSize -> Bytes]
    /\ \A n \in NotifType : PackNotif(n) \in [1..NotifSize -> Bytes]
<1>1. ASSUME NEW s \in StatsType PROVE PackStats(s) \in [1..StatsSize -> Bytes]
    <2>1. /\ s.cpu_usage \in Bytes /\ s.ram_usage \in Bytes
          /\ s.cpu_temp \in Nat /\ s.ram_total \in Nat /\ s.ram_free \in Nat
        BY WeightFacts DEF StatsType, Bytes2, Bytes8
    <2>2. ASSUME NEW i \in 1..20 PROVE PackStats(s)[i] \in Bytes
        <3>1. i = 1 \/ i = 2 \/ i \in 3..4 \/ i \in 5..12 \/ i \in 13..20
            OBVIOUS
        <3>2. CASE i = 1 \/ i = 2
            BY <3>2, <2>1 DEF PackStats, StatsSize
        <3>3. CASE i \in 3..4
            BY <3>3, <2>1, i - 2 \in 1..4, ByteType DEF PackStats, StatsSize
        <3>4. CASE i \in 5..12
            BY <3>4, <2>1, i - 4 \in 1..8, LongByteType DEF PackStats, StatsSize
        <3>5. CASE i \in 13..20
            BY <3>5, <2>1, i - 12 \in 1..8, LongByteType DEF PackStats, StatsSize
        <3>. QED BY <3>1, <3>2, <3>3, <3>4, <3>5
    <2>. QED BY <2>2 DEF PackStats, StatsSize
<1>2. ASSUME NEW n \in Nat, NEW s \in Chars(n), NEW i \in 1..n
      PROVE  Packed(s, n, i) \in Bytes
    BY SizeFacts DEF Packed, Chars
<1>3. ASSUME NEW g \in GitType PROVE PackGit(g) \in [1..GitSize -> Bytes]
    <2>1. /\ g.modified_files \in Nat /\ g.untracked_files \in Nat
          /\ g.branch_name \in Chars(NameLen)
        BY WeightFacts DEF GitType, Bytes4
    <2>2. ASSUME NEW i \in 1..GitSize PROVE PackGit(g)[i] \in Bytes
        <3>2. CASE i <= 4
            BY <3>2, <2>1, ByteType DEF PackGit
        <3>3. CASE ~(i <= 4) /\ i <= 8
            BY <3>3, <2>1, i - 4 \in 1..4, ByteType DEF PackGit
        <3>4. CASE ~(i <= 8)
            <4>1. i - 8 \in 1..NameLen
                BY <3>4, SizeFacts DEF GitSize
            <4>. QED BY <4>1, <3>4, <2>1, <1>2, SizeFacts DEF PackGit
        <3>. QED BY <3>2, <3>3, <3>4
    <2>. QED BY <2>2 DEF PackGit
<1>4. ASSUME NEW n \in NotifType PROVE PackNotif(n) \in [1..NotifSize -> Bytes]
    <2>1. /\ n.app_name \in Chars(AppLen) /\ n.summary \in Chars(TextLen)
          /\ n.body \in Chars(TextLen)
        BY DEF NotifType
    <2>2. ASSUME NEW i \in 1..NotifSize PROVE PackNotif(n)[i] \in Bytes
        <3>2. CASE i <= AppLen
            BY <3>2, <2>1, <1>2, i \in 1..AppLen, SizeFacts DEF PackNotif
        <3>3. CASE ~(i <= AppLen) /\ i <= AppLen + TextLen
            <4>1. i - AppLen \in 1..TextLen
                BY <3>3, SizeFacts
            <4>. QED BY <4>1, <3>3, <2>1, <1>2, SizeFacts DEF PackNotif
        <3>4. CASE ~(i <= AppLen) /\ ~(i <= AppLen + TextLen)
            <4>1. i - AppLen - TextLen \in 1..TextLen
                BY <3>4, SizeFacts DEF NotifSize
            <4>. QED BY <4>1, <3>4, <2>1, <1>2, SizeFacts DEF PackNotif
        <3>. QED BY <3>2, <3>3, <3>4
    <2>. QED BY <2>2 DEF PackNotif
<1>. QED BY <1>1, <1>3, <1>4

\* The strings the desktop packs are clipped ones.
LEMMA ClippedTypes ==
    /\ \A g \in GitType : ClipGit(g) \in GitType
    /\ \A n \in NotifType : ClipNotif(n) \in NotifType
<1>1. ASSUME NEW g \in GitType PROVE ClipGit(g) \in GitType
    <2>1. Clip(g.branch_name, NameLen) \in Chars(NameLen)
        BY ClipType, SizeFacts DEF GitType
    <2>. QED BY <2>1 DEF ClipGit, GitType
<1>2. ASSUME NEW n \in NotifType PROVE ClipNotif(n) \in NotifType
    <2>1. /\ Clip(n.app_name, AppLen) \in Chars(AppLen)
          /\ Clip(n.summary, TextLen) \in Chars(TextLen)
          /\ Clip(n.body, TextLen) \in Chars(TextLen)
        BY ClipType, SizeFacts DEF NotifType
    <2>. QED BY <2>1 DEF ClipNotif, NotifType
<1>. QED BY <1>1, <1>2

LEMMA SendStatsKeeps ==
    ASSUME CodecInv, NEW s \in StatsInputs, SendStats(s)
    PROVE  CodecInv'
<1>1. s \in StatsType
    BY CodecAssumption
<1>2. PackStats(s) \in [1..SizeOf(Ids.STATS) -> Bytes]
    BY <1>1, PackTypes, IdFacts
<1>3. ASSUME NEW h, h.id = Ids.STATS, h.size = SizeOf(Ids.STATS)
      PROVE  Dispatch(current, h, PackStats(s)) = sent'
    <2>1. h.size >= StatsSize
        BY <1>3, IdFacts DEF StatsSize
    <2>2. Dispatch(current, h, PackStats(s)) = [current EXCEPT !.stats = s]
        BY <1>1, <1>3, <2>1, StatsRoundTrip DEF Dispatch, Ids
    <2>3. current = sent
        BY DEF CodecInv, SendStats, Put
    <2>. QED BY <2>2, <2>3 DEF SendStats
<1>4. Put(Ids.STATS, PackStats(s))
    BY DEF SendStats
<1>. QED BY <1>2, <1>3, <1>4, PutKeeps

LEMMA SendGitKeeps ==
    ASSUME CodecInv, NEW g \in GitInputs, SendGit(g)
    PROVE  CodecInv'
<1>. DEFINE b == PackGit(ClipGit(g))
<1>1. g \in GitType
    BY CodecAssumption
<1>2. b \in [1..SizeOf(Ids.GIT) -> Bytes]
    BY <1>1, ClippedTypes, PackTypes, IdFacts
<1>3. UnpackGit(b) = ClipGit(g)
    BY <1>1, GitRoundTrip
<1>4. Put(Ids.GIT, b) /\ sent' = [sent EXCEPT !.git = ClipGit(g)]
    BY DEF SendGit
<1>. HIDE DEF b
<1>5. ASSUME NEW h, h.id = Ids.GIT, h.size = SizeOf(Ids.GIT)
      PROVE  Dispatch(current, h, b) = sent'
    <2>1. h.size >= GitSize
        BY <1>5, IdFacts, SizeFacts DEF GitSize
    <2>2. Dispatch(current, h, b) = [current EXCEPT !.git = ClipGit(g)]
        BY <1>3, <1>5, <2>1 DEF Dispatch, Ids
    <2>3. current = sent
        BY <1>4 DEF CodecInv, Put
    <2>. QED BY <2>2, <2>3, <1>4
<1>. QED BY <1>2, <1>4, <1>5, PutKeeps

LEMMA SendNotifKeeps ==
    ASSUME CodecInv, NEW n \in NotifInputs, SendNotif(n)
    PROVE  CodecInv'
<1>. DEFINE b == PackNotif(ClipNotif(n))
<1>1. n \in NotifType
    BY CodecAssumption
<1>2. b \in [1..SizeOf(Ids.NOTIF) -> Bytes]
    BY <1>1, ClippedTypes, PackTypes, IdFacts
<1>3. UnpackNotif(b) = ClipNotif(n)
    BY <1>1, NotifRoundTrip
<1>4. Put(Ids.NOTIF, b) /\ sent' = [sent EXCEPT !.notif = ClipNotif(n)]
    BY DEF SendNotif
<1>. HIDE DEF b
<1>5. ASSUME NEW h, h.id = Ids.NOTIF, h.size = SizeOf(Ids.NOTIF)
      PROVE  Dispatch(current, h, b) = sent'
    <2>1. h.size >= NotifSize
        BY <1>5, IdFacts, SizeFacts DEF NotifSize
    <2>2. Dispatch(current, h, b) = [current EXCEPT !.notif = ClipNotif(n)]
        BY <1>3, <1>5, <2>1 DEF Dispatch, Ids
    <2>3. current = sent
        BY <1>4 DEF CodecInv, Put
    <2>. QED BY <2>2, <2>3, <1>4
<1>. QED BY <1>2, <1>4, <1>5, PutKeeps

LEMMA SendControlKeeps ==
    ASSUME CodecInv, NEW c \in Commands, SendControl(c)
    PROVE  CodecInv'
<1>1. c \in Bytes
    BY CodecAssumption
<1>2. <<c>> \in [1..SizeOf(Ids.CONTROL) -> Bytes] /\ <<c>>[1] = c
    BY <1>1, IdFacts DEF ControlSize
<1>3. Put(Ids.CONTROL, <<c>>) /\ sent' = [sent EXCEPT !.command = c]
    BY DEF SendControl
<1>4. ASSUME NEW h, h.id = Ids.CONTROL, h.size = SizeOf(Ids.CONTROL)
      PROVE  Dispatch(current, h, <<c>>) = sent'
    <2>1. h.size >= ControlSize
        BY <1>4, IdFacts DEF ControlSize
    <2>2. Dispatch(current, h, <<c>>) = [current EXCEPT !.command = c]
        BY <1>2, <1>4, <2>1 DEF Dispatch, Ids
    <2>3. current = sent
        BY <1>3 DEF CodecInv, Put
    <2>. QED BY <2>2, <2>3, <1>3
<1>. QED BY <1>2, <1>3, <1>4, PutKeeps

LEMMA MisreadKeeps ==
    ASSUME CodecInv, Misread
    PROVE  CodecInv'
<1>1. PICK id \in {Ids.STATS, Ids.GIT, Ids.NOTIF, Ids.CONTROL} :
          \E size \in {1, SizeOf(id) - 1, SizeOf(id)} \ {0} :
             /\ header' = PackHeader(id, size)
             /\ payload' = [i \in 1..size |-> Base - 1]
             /\ sent' = Dispatch(sent, UnpackHeader(header'), payload')
    BY DEF Misread
<1>2. PICK size \in {1, SizeOf(id) - 1, SizeOf(id)} \ {0} :
             /\ header' = PackHeader(id, size)
             /\ payload' = [i \in 1..size |-> Base - 1]
             /\ sent' = Dispatch(sent, UnpackHeader(header'), payload')
    BY <1>1
<1>3. size \in 1..SizeOf(id) /\ size \in 0..BufLen /\ size \in Nat
    BY IdFacts, SizeFacts
<1>4. id \in Bytes4 /\ size \in Bytes4
    BY <1>3, IdFacts
<1>5. /\ header' \in [1..HeaderSize -> Bytes] /\ header' # <<>>
      /\ UnpackHeader(header') =
             [magic |-> Magic, version |-> Version, id |-> id, size |-> size]
    BY <1>2, <1>4, HeaderBack
<1>6. payload' \in [1..size -> Bytes]
    BY SMTT(30), <1>2, WeightFacts DEF Bytes
<1>. DEFINE h == UnpackHeader(header')
<1>7. h.magic = Magic /\ h.size = size
    BY <1>5
<1>. HIDE DEF h
<1>8. sent' = Dispatch(sent, h, payload')
    BY <1>2 DEF h
<1>9. /\ sent = current /\ current' = current /\ payload_buf' = payload_buf
    BY DEF CodecInv, Misread
<1>10. ShownOK(sent')
    BY <1>3, <1>6, <1>7, <1>8, DispatchOK DEF CodecInv
<1>11. OnTheWire'
    BY <1>3, <1>5, <1>6, <1>7, <1>8, <1>9 DEF OnTheWire, h
<1>. QED BY <1>5, <1>9, <1>10, <1>11 DEF CodecInv

LEMMA ReceiveKeeps ==
    ASSUME CodecInv, Receive
    PROVE  CodecInv'
<1>. DEFINE h == UnpackHeader(header)
            buf == [i \in 1..BufLen |-> IF i <= h.size THEN payload[i]
                                        ELSE payload_buf[i]]
<1>1. OnTheWire /\ ShownOK(sent) /\ payload_buf \in [1..BufLen -> Bytes]
    BY DEF CodecInv, Receive
<1>2. h.magic = Magic /\ h.size \in 0..BufLen /\ h.size \in Nat
      /\ payload \in [1..h.size -> Bytes]
    BY <1>1, SizeFacts DEF OnTheWire
<1>3. Dispatch(current, h, payload) = sent
    BY <1>1 DEF OnTheWire
<1>4. payload_buf' = buf /\ current' = Dispatch(current, h, buf)
    BY <1>2, SizeFacts DEF Receive
<1>. HIDE DEF h
<1>5. buf \in [1..BufLen -> Bytes]
    BY <1>1, <1>2, SizeFacts
<1>6. \A i \in 1..h.size : buf[i] = payload[i]
    BY <1>2, SizeFacts
<1>. HIDE DEF buf
<1>7. current' = sent
    BY <1>2, <1>3, <1>4, <1>6, DispatchSame
<1>8. header' = <<>> /\ sent' = sent
    BY DEF Receive
<1>. QED BY <1>1, <1>4, <1>5, <1>7, <1>8 DEF CodecInv

LEMMA NextCodec == CodecInv /\ [Next]_vars => CodecInv'
<1>. SUFFICES ASSUME CodecInv, [Next]_vars PROVE CodecInv'
    OBVIOUS
<1>1. ASSUME NEW s \in StatsInputs, SendStats(s) PROVE CodecInv'
    BY <1>1, SendStatsKeeps
<1>2. ASSUME NEW g \in GitInputs, SendGit(g) PROVE CodecInv'
    BY <1>2, SendGitKeeps
<1>3. ASSUME NEW n \in NotifInputs, SendNotif(n) PROVE CodecInv'
    BY <1>3, SendNotifKeeps
<1>4. ASSUME NEW c \in Commands, SendControl(c) PROVE CodecInv'
    BY <1>4, SendControlKeeps
<1>5. CASE Misread
    BY <1>5, MisreadKeeps
<1>6. CASE Receive
    BY <1>6, ReceiveKeeps
<1>7. CASE UNCHANGED vars
    BY <1>7 DEF CodecInv, OnTheWire, vars
<1>. QED BY <1>1, <1>2, <1>3, <1>4, <1>5, <1>6, <1>7 DEF Next

\* For every size of the fields and everything the desktop collects: the PSP
\* shows exactly what was sent last of each kind, whatever packets went through
\* its one payload buffer before (main.c, message_router.c).
THEOREM CodecCorrect == Spec => []Delivered
<1>1. CodecInv => Delivered
    BY DEF CodecInv, Delivered
<1>. QED BY <1>1, InitCodec, NextCodec, PTL DEF Spec

\* For every size and every byte that may arrive: all fields keep their widths
\* and every string the PSP draws ends inside its array (payload.c).
THEOREM CodecTypeCorrect == Spec => []TypeOK
<1>1. CodecInv => TypeOK
    <2>. SUFFICES ASSUME CodecInv PROVE TypeOK
        OBVIOUS
    <2>1. header # <<>> => /\ header \in [1..HeaderSize -> Bytes]
                           /\ payload \in [1..UnpackHeader(header).size -> Bytes]
        BY DEF CodecInv, OnTheWire
    <2>. QED BY <2>1 DEF CodecInv, ShownOK, TypeOK
<1>. QED BY <1>1, InitCodec, NextCodec, PTL DEF Spec
=============================================================================
