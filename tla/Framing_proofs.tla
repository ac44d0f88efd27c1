---------------------------- MODULE Framing_proofs ----------------------------
(***************************************************************************)
(* The byte stream, for every value of the constants: what the PSP acts on *)
(* is what was sent, in order and whole, and without adverse events it is  *)
(* everything that was sent. The argument follows the units in the pipe    *)
(* and those of the transfer under way as one stream, of which the host    *)
(* extends the end and the PSP takes the front.                            *)
(***************************************************************************)
EXTENDS Framing, SequenceTheorems, TLAPS

Unit == Nat \X Nat

\* What the PSP has yet to read, now or later.
stream == pipe \o sending

Typed ==
    /\ usbPacket \in UsbPackets
    /\ sent \in Seq(PayloadSizes) /\ Len(sent) <= MaxSends
    /\ pipe \in Seq(Unit) /\ sending \in Seq(Unit) /\ body \in Seq(Unit)
    /\ mode \in {"header", "payload"}
    /\ hdr \in 0..Len(sent)
    /\ mode = "payload" => hdr # 0 /\ Len(body) < sent[hdr] /\ tries < MaxTries
    /\ Len(body) <= PayloadCap
    /\ tries \in 0..MaxTries
    /\ accepted \in Seq([hdr : Nat, body : Seq(Unit)])
    /\ cutMidway \in BOOLEAN /\ faults \in 0..MaxFaults

-----------------------------------------------------------------------------
\* The place of the last unit of packet n, when ss are the sizes of the packets.
End(n, ss) == HeaderUnits + ss[n]

OfPackets(s, ss) ==
    \A i \in 1..Len(s) : s[i][1] \in 1..Len(ss) /\ s[i][2] \in 1..End(s[i][1], ss)

\* Packets are in the order of sending, and no beginning of one is repeated.
Ordered(s) ==
    \A i, j \in 1..Len(s) : i < j =>
        s[i][1] <= s[j][1] /\ (s[j][2] = 1 => s[i][1] < s[j][1])

\* Nothing is from before packet n, whose beginning is not there any more.
Later(s, n) ==
    \A i \in 1..Len(s) : s[i][1] >= n /\ (s[i][2] = 1 => s[i][1] > n)

\* Each unit is followed by all that its packet has after it.
Whole(s, ss) ==
    /\ \A i, j \in 1..Len(s) :
          i <= j /\ s[i][2] + (j - i) <= End(s[i][1], ss)
              => s[j] = <<s[i][1], s[i][2] + (j - i)>>
    /\ \A i \in 1..Len(s) : s[i][2] + (Len(s) - i) >= End(s[i][1], ss)

\* A packet is followed by the next one, up to the last one sent.
Consecutive(s, ss) ==
    /\ \A i, j \in 1..Len(s) : j = i + 1 /\ s[i][2] = End(s[i][1], ss)
                                   => s[j] = <<s[i][1] + 1, 1>>
    /\ s # <<>> => s[Len(s)] = <<Len(ss), End(Len(ss), ss)>>

\* The transfer under way holds the last packet from some unit on, which is the
\* first one or comes after the header.
SendingInv ==
    sending # <<>> =>
        /\ sent # <<>>
        /\ \E q \in 0..HeaderUnits + PayloadCap :
              /\ q = 0 \/ q >= HeaderUnits
              /\ q + Len(sending) = End(Len(sent), sent)
              /\ \A i \in 1..Len(sending) : sending[i] = <<Len(sent), q + i>>

StreamInv ==
    OfPackets(stream, sent) /\ OfPackets(body, sent) /\ Ordered(stream)
    /\ Later(stream, hdr) /\ SendingInv

-----------------------------------------------------------------------------
\* The payload of packet n up to the last unit of b.
Begins(b, n) == \A i \in 1..Len(b) : b[i] = <<n, HeaderUnits + i>>

OrderInv ==
    /\ \A i \in 1..Len(accepted) :
          /\ accepted[i].hdr \in 1..Len(sent) /\ accepted[i].hdr <= hdr
          /\ mode = "payload" => accepted[i].hdr < hdr
    /\ \A i, j \in 1..Len(accepted) : i < j => accepted[i].hdr < accepted[j].hdr

IntactInv ==
    ~cutMidway =>
        /\ Whole(stream, sent)
        /\ mode = "payload" =>
              /\ Begins(body, hdr)
              /\ stream # <<>> /\ stream[1] = <<hdr, HeaderUnits + Len(body) + 1>>
        /\ \A i \in 1..Len(accepted) :
              /\ Begins(accepted[i].body, accepted[i].hdr)
              /\ Len(accepted[i].body) = sent[accepted[i].hdr]

\* While nothing adverse happened, the reader is at packet n of ss.
AtPacket(s, ss, n) == IF s = <<>> THEN Len(ss) + 1 = n ELSE s[1] = <<n, 1>>

LossInv ==
    faults = 0 =>
        /\ ~cutMidway /\ Consecutive(stream, sent)
        /\ \A i \in 1..Len(accepted) : accepted[i].hdr = i
        /\ mode = "header" => AtPacket(stream, sent, Len(accepted) + 1)
        /\ mode = "payload" => hdr = Len(accepted) + 1

FramingInv == Typed /\ StreamInv /\ OrderInv /\ IntactInv /\ LossInv

-----------------------------------------------------------------------------
(***************************************************************************)
(* Taking the front of a sequence.                                         *)
(***************************************************************************)
LEMMA Split ==
    ASSUME NEW S, NEW s \in Seq(S), NEW k \in 0..Len(s)
    PROVE  /\ Len(s) \in Nat /\ k \in Nat
           /\ Front(s, k) \in Seq(S) /\ Len(Front(s, k)) = k
           /\ \A i \in 1..k : Front(s, k)[i] = s[i]
           /\ Rest(s, k) \in Seq(S) /\ Len(Rest(s, k)) = Len(s) - k
           /\ \A i \in 1..Len(s) - k : Rest(s, k)[i] = s[k + i]
<1>1. Len(s) \in Nat /\ k \in Nat /\ k <= Len(s) /\ \A i \in 1..Len(s) : s[i] \in S
  BY LenProperties, ElementOfSeq
<1>2. /\ Front(s, k) \in Seq(S) /\ Len(Front(s, k)) = k
      /\ \A i \in 1..k : Front(s, k)[i] = s[i]
  <2>1. \A i \in 1..k : s[i] \in S
    BY <1>1
  <2>2. QED
    BY <1>1, <2>1, SubSeqProperties DEF Front
<1>3. /\ Rest(s, k) \in Seq(S) /\ Len(Rest(s, k)) = Len(s) - k
      /\ \A i \in 1..Len(s) - k : Rest(s, k)[i] = s[k + i]
  <2>1. \A i \in k + 1..Len(s) : s[i] \in S
    BY <1>1
  <2>2. QED
    BY <1>1, <2>1, SubSeqProperties DEF Rest
<1>4. QED
  BY <1>1, <1>2, <1>3

LEMMA RestOfConcat ==
    ASSUME NEW S, NEW s \in Seq(S), NEW t \in Seq(S), NEW k \in 0..Len(s)
    PROVE  Rest(s, k) \o t = Rest(s \o t, k) /\ k \in 0..Len(s \o t)
<1> DEFINE p == Rest(s, k)
           l == p \o t
           u == s \o t
           r == Rest(u, k)
<1>1. /\ Len(s) \in Nat /\ Len(t) \in Nat /\ k \in Nat /\ k <= Len(s)
      /\ p \in Seq(S) /\ Len(p) = Len(s) - k
      /\ \A i \in 1..Len(p) : p[i] = s[k + i]
  <2>1. Len(s) \in Nat /\ Len(t) \in Nat /\ k \in Nat /\ k <= Len(s)
    BY LenProperties
  <2>2. QED
    BY <2>1, Split
<1>2. /\ u \in Seq(S) /\ Len(u) = Len(s) + Len(t)
      /\ \A i \in 1..Len(s) + Len(t) : u[i] = IF i <= Len(s) THEN s[i] ELSE t[i - Len(s)]
  BY <1>1, ConcatProperties
<1> HIDE DEF p
<1>3. /\ l \in Seq(S) /\ Len(l) = Len(p) + Len(t)
      /\ \A i \in 1..Len(p) + Len(t) : l[i] = IF i <= Len(p) THEN p[i] ELSE t[i - Len(p)]
  BY <1>1, ConcatProperties
<1> HIDE DEF u, l
<1>4. k \in 0..Len(u)
  BY <1>1, <1>2
<1>5. /\ r \in Seq(S) /\ Len(r) = Len(u) - k
      /\ \A i \in 1..Len(u) - k : r[i] = u[k + i]
  BY ZenonT(30), <1>2, <1>4, Split
<1> HIDE DEF r
<1>6. Len(l) = Len(r)
  BY <1>1, <1>2, <1>3, <1>5
<1>7. ASSUME NEW i \in 1..Len(l) PROVE l[i] = r[i]
  <2>1. k + i \in 1..Len(s) + Len(t) /\ i \in 1..Len(u) - k
    BY <1>1, <1>2, <1>3
  <2>2. CASE i <= Len(p)
    BY <2>1, <2>2, <1>1, <1>2, <1>3, <1>5
  <2>3. CASE i > Len(p)
    <3>1. i - Len(p) = k + i - Len(s)
      BY <1>1
    <3>2. r[i] = t[k + i - Len(s)]
      BY <2>1, <2>3, <1>1, <1>2, <1>5
    <3>3. l[i] = t[i - Len(p)]
      BY <2>3, <1>1, <1>3
    <3>4. QED
      BY <3>1, <3>2, <3>3
  <2>4. QED
    BY <2>2, <2>3, <1>1
<1>8. l = r
  BY <1>3, <1>5, <1>6, <1>7, SeqEqual
<1>9. QED
  BY <1>4, <1>8 DEF l, r, u, p

LEMMA ConcatIs ==
    ASSUME NEW S, NEW s \in Seq(S), NEW t \in Seq(S), NEW u, u = s \o t
    PROVE  /\ u \in Seq(S) /\ Len(u) = Len(s) + Len(t)
           /\ \A i \in 1..Len(s) + Len(t) : u[i] = IF i <= Len(s) THEN s[i] ELSE t[i - Len(s)]
BY ConcatProperties

LEMMA MoveFront ==
    ASSUME NEW S, NEW s \in Seq(S), NEW t \in Seq(S), NEW k \in 0..Len(t)
    PROVE  (s \o Front(t, k)) \o Rest(t, k) = s \o t
<1> DEFINE f == Front(t, k)
           r == Rest(t, k)
           a == s \o f
           l == a \o r
           u == s \o t
<1>1. Len(s) \in Nat /\ Len(t) \in Nat /\ k \in Nat /\ k <= Len(t)
  BY LenProperties
<1>2. /\ f \in Seq(S) /\ Len(f) = k /\ \A i \in 1..k : f[i] = t[i]
      /\ r \in Seq(S) /\ Len(r) = Len(t) - k /\ \A i \in 1..Len(t) - k : r[i] = t[k + i]
  BY Split
<1>3. /\ u \in Seq(S) /\ Len(u) = Len(s) + Len(t)
      /\ \A i \in 1..Len(s) + Len(t) : u[i] = IF i <= Len(s) THEN s[i] ELSE t[i - Len(s)]
  BY ConcatProperties
<1> HIDE DEF f, r, a, l, u
<1>4. /\ a \in Seq(S) /\ Len(a) = Len(s) + Len(f)
      /\ \A i \in 1..Len(s) + Len(f) : a[i] = IF i <= Len(s) THEN s[i] ELSE f[i - Len(s)]
  <2>1. f \in Seq(S)
    BY <1>2
  <2>2. a = s \o f
    BY DEF a
  <2>3. QED
    BY <2>1, <2>2, ConcatIs
<1>5. /\ l \in Seq(S) /\ Len(l) = Len(a) + Len(r)
      /\ \A i \in 1..Len(a) + Len(r) : l[i] = IF i <= Len(a) THEN a[i] ELSE r[i - Len(a)]
  <2>1. a \in Seq(S) /\ r \in Seq(S)
    BY <1>2, <1>4
  <2>2. l = a \o r
    BY DEF l
  <2>3. QED
    BY <2>1, <2>2, ConcatIs
<1>6. Len(l) = Len(u) /\ Len(a) = Len(s) + k /\ Len(a) \in Nat /\ Len(a) + Len(r) = Len(u)
  <2>1. /\ Len(f) = k /\ Len(r) = Len(t) - k /\ Len(u) = Len(s) + Len(t)
        /\ Len(a) = Len(s) + Len(f) /\ Len(l) = Len(a) + Len(r)
    BY <1>2, <1>3, <1>4, <1>5
  <2>2. QED
    BY <1>1, <2>1
<1>7. ASSUME NEW i \in 1..Len(l) PROVE l[i] = u[i]
  <2>1. /\ i \in 1..Len(s) + Len(t) /\ i \in 1..Len(a) + Len(r)
    BY <1>3, <1>5, <1>6
  <2>2. u[i] = IF i <= Len(s) THEN s[i] ELSE t[i - Len(s)]
    BY <1>3, <2>1
  <2>3. CASE i <= Len(a)
    <3>1. l[i] = a[i] /\ i \in 1..Len(s) + Len(f)
      BY <1>1, <1>2, <1>5, <1>6, <2>1, <2>3
    <3>2. a[i] = IF i <= Len(s) THEN s[i] ELSE f[i - Len(s)]
      BY <1>4, <3>1
    <3>3. ~(i <= Len(s)) => i - Len(s) \in 1..k
      BY <1>1, <1>6, <2>1, <2>3
    <3>4. QED
      BY <1>2, <2>2, <3>1, <3>2, <3>3
  <2>4. CASE ~(i <= Len(a))
    <3>1. /\ ~(i <= Len(s)) /\ i - Len(a) \in 1..Len(t) - k
          /\ k + (i - Len(a)) = i - Len(s)
      BY <1>1, <1>2, <1>6, <2>1, <2>4
    <3>2. l[i] = r[i - Len(a)]
      BY <1>5, <2>1, <2>4
    <3>3. r[i - Len(a)] = t[k + (i - Len(a))]
      BY <1>2, <3>1
    <3>4. QED
      BY <2>2, <3>1, <3>2, <3>3
  <2>5. QED
    BY <2>3, <2>4
<1>8. l = u
  BY <1>3, <1>5, <1>6, <1>7, SeqEqual
<1>9. QED
  BY <1>8 DEF l, u, a, r, f

LEMMA ConcatFirst ==
    ASSUME NEW S, NEW s \in Seq(S), NEW t \in Seq(S), s # <<>>
    PROVE  s \o t # <<>> /\ (s \o t)[1] = s[1]
<1>1. Len(s) \in Nat \ {0} /\ Len(t) \in Nat
  BY EmptySeq, LenProperties
<1>2. 1 \in 1..Len(s) + Len(t) /\ 1 <= Len(s)
  BY <1>1
<1>3. (s \o t)[1] = s[1]
  BY <1>2, ConcatProperties
<1>4. s \o t # <<>>
  BY ConcatEqualIffEmpty
<1>5. QED
  BY <1>3, <1>4

\* The smaller of two lengths.
LEMMA SmallerIs ==
    ASSUME NEW a \in Nat, NEW b \in Nat
    PROVE  /\ Smaller(a, b) \in 0..a /\ Smaller(a, b) \in 0..b
           /\ Smaller(a, b) \in {a, b}
BY DEF Smaller

-----------------------------------------------------------------------------
(***************************************************************************)
(* The stream when its front is taken, its end cut off or extended.        *)
(***************************************************************************)
LEMMA UnitType ==
    ASSUME NEW s \in Seq(Unit)
    PROVE  /\ Len(s) \in Nat
           /\ \A i \in 1..Len(s) : /\ s[i] \in Unit /\ s[i][1] \in Nat /\ s[i][2] \in Nat
                                   /\ s[i] = <<s[i][1], s[i][2]>>
<1>1. Len(s) \in Nat /\ \A i \in 1..Len(s) : s[i] \in Unit
  BY LenProperties, ElementOfSeq
<1>2. QED
  BY <1>1 DEF Unit

LEMMA TakeFront ==
    ASSUME NEW s \in Seq(Unit), NEW k \in 0..Len(s), NEW t, t = Rest(s, k), NEW ss
    PROVE  /\ OfPackets(s, ss) => OfPackets(t, ss)
           /\ Ordered(s) => Ordered(t)
           /\ \A n : Later(s, n) => Later(t, n)
           /\ Whole(s, ss) => Whole(t, ss)
           /\ Consecutive(s, ss) => Consecutive(t, ss)
<1>1. /\ Len(s) \in Nat /\ k \in Nat /\ t \in Seq(Unit) /\ Len(t) = Len(s) - k
      /\ \A i \in 1..Len(t) : k + i \in 1..Len(s) /\ t[i] = s[k + i]
  <2>1. /\ Len(s) \in Nat /\ k \in Nat /\ t \in Seq(Unit) /\ Len(t) = Len(s) - k
        /\ \A i \in 1..Len(s) - k : t[i] = s[k + i]
    BY Split
  <2>2. \A i \in 1..Len(t) : k + i \in 1..Len(s)
    BY <2>1
  <2>3. QED
    BY <2>1, <2>2
<1>2. OfPackets(s, ss) => OfPackets(t, ss)
  BY <1>1 DEF OfPackets
<1>3. Ordered(s) => Ordered(t)
  <2>1. \A i, j \in 1..Len(t) : i < j => k + i < k + j
    BY <1>1
  <2>2. QED
    BY SMTT(30), <1>1, <2>1 DEF Ordered
<1>4. \A n : Later(s, n) => Later(t, n)
  BY <1>1 DEF Later
<1>5. ASSUME Whole(s, ss) PROVE Whole(t, ss)
  <2>1. ASSUME NEW i \in 1..Len(t), NEW j \in 1..Len(t), i <= j,
               t[i][2] + (j - i) <= End(t[i][1], ss)
        PROVE  t[j] = <<t[i][1], t[i][2] + (j - i)>>
    <3>1. k + i <= k + j /\ (k + j) - (k + i) = j - i
      BY <1>1, <2>1
    <3>2. s[k + j] = <<s[k + i][1], s[k + i][2] + (j - i)>>
      BY <1>1, <1>5, <2>1, <3>1 DEF Whole
    <3>3. QED
      BY <1>1, <3>2
  <2>2. ASSUME NEW i \in 1..Len(t) PROVE t[i][2] + (Len(t) - i) >= End(t[i][1], ss)
    <3>1. Len(s) - (k + i) = Len(t) - i
      BY <1>1
    <3>2. QED
      BY <1>1, <1>5, <3>1 DEF Whole
  <2>3. QED
    BY <2>1, <2>2 DEF Whole
<1>6. ASSUME Consecutive(s, ss) PROVE Consecutive(t, ss)
  <2>1. ASSUME NEW i \in 1..Len(t), NEW j \in 1..Len(t), j = i + 1,
               t[i][2] = End(t[i][1], ss)
        PROVE  t[j] = <<t[i][1] + 1, 1>>
    <3>1. k + i \in 1..Len(s) /\ k + j \in 1..Len(s) /\ k + j = (k + i) + 1
      BY <1>1, <2>1
    <3>2. s[k + i] = t[i] /\ s[k + j] = t[j]
      BY <1>1
    <3>3. s[k + i][2] = End(s[k + i][1], ss)
      BY <2>1, <3>2
    <3>4. s[k + j] = <<s[k + i][1] + 1, 1>>
      BY <1>6, <3>1, <3>3 DEF Consecutive
    <3>5. QED
      BY <3>2, <3>4
  <2>2. ASSUME t # <<>> PROVE t[Len(t)] = <<Len(ss), End(Len(ss), ss)>>
    <3>1. Len(t) \in 1..Len(t) /\ k + Len(t) = Len(s) /\ Len(s) # 0
      BY <1>1, <2>2, EmptySeq
    <3>2. s # <<>>
      BY <3>1, EmptySeq
    <3>3. QED
      BY <1>1, <1>6, <3>1, <3>2 DEF Consecutive
  <2>3. QED
    BY <2>1, <2>2 DEF Consecutive
<1>7. QED
  BY <1>2, <1>3, <1>4, <1>5, <1>6

\* Losing the end of the stream. Packets stay whole if the end is a whole number
\* of them.
LEMMA CutEnd ==
    ASSUME NEW s \in Seq(Unit), NEW t \in Seq(Unit), NEW ss \in Seq(Nat)
    PROVE  /\ OfPackets(s \o t, ss) => OfPackets(s, ss)
           /\ Ordered(s \o t) => Ordered(s)
           /\ \A n : Later(s \o t, n) => Later(s, n)
           /\ /\ Whole(s \o t, ss) /\ OfPackets(s \o t, ss)
              /\ t # <<>> /\ t[1][2] = 1
              => Whole(s, ss)
<1> DEFINE u == s \o t
<1>1. /\ Len(s) \in Nat /\ Len(t) \in Nat /\ Len(u) = Len(s) + Len(t)
      /\ \A i \in 1..Len(s) : u[i] = s[i]
      /\ t # <<>> => Len(s) + 1 \in 1..Len(u) /\ u[Len(s) + 1] = t[1]
  <2>1. /\ Len(s) \in Nat /\ Len(t) \in Nat /\ Len(u) = Len(s) + Len(t)
        /\ \A i \in 1..Len(s) + Len(t) : u[i] = IF i <= Len(s) THEN s[i] ELSE t[i - Len(s)]
    BY LenProperties, ConcatProperties
  <2> HIDE DEF u
  <2>2. ASSUME t # <<>> PROVE Len(s) + 1 \in 1..Len(u) /\ u[Len(s) + 1] = t[1]
    <3>1. Len(t) >= 1
      BY <2>2, EmptySeq
    <3>2. /\ Len(s) + 1 \in 1..Len(s) + Len(t) /\ ~(Len(s) + 1 <= Len(s))
          /\ Len(s) + 1 - Len(s) = 1
      BY <2>1, <3>1
    <3>3. QED
      BY <2>1, <3>2
  <2>3. \A i \in 1..Len(s) : i \in 1..Len(s) + Len(t) /\ i <= Len(s)
    BY <2>1
  <2>4. QED
    BY <2>1, <2>2, <2>3
<1> HIDE DEF u
<1>2. \A i \in 1..Len(s) : i \in 1..Len(u)
  BY <1>1
<1>3. OfPackets(u, ss) => OfPackets(s, ss)
  BY <1>1, <1>2 DEF OfPackets
<1>4. Ordered(u) => Ordered(s)
  BY <1>1, <1>2 DEF Ordered
<1>5. \A n : Later(u, n) => Later(s, n)
  BY <1>1, <1>2 DEF Later
<1>6. ASSUME Whole(u, ss), OfPackets(u, ss), t # <<>>, t[1][2] = 1 PROVE Whole(s, ss)
  <2>1. \A i, j \in 1..Len(s) :
            i <= j /\ s[i][2] + (j - i) <= End(s[i][1], ss)
                => s[j] = <<s[i][1], s[i][2] + (j - i)>>
    BY <1>1, <1>2, <1>6 DEF Whole
  <2>2. ASSUME NEW i \in 1..Len(s) PROVE s[i][2] + (Len(s) - i) >= End(s[i][1], ss)
    <3> DEFINE k == Len(s) + 1
               e == End(s[i][1], ss)
               a == s[i][2]
    <3>1. a \in Nat \ {0} /\ e \in Nat
      <4>1. a \in 1..e /\ s[i][1] \in 1..Len(ss)
        BY <1>3, <1>6 DEF OfPackets
      <4>2. ss[s[i][1]] \in Nat
        BY <4>1, ElementOfSeq
      <4>3. QED
        <5>1. e \in Nat
          BY SMTT(30), <4>2, FramingAssumption DEF End
        <5>2. QED
          BY <4>1, <5>1
    <3>2. k \in 1..Len(u) /\ i \in 1..Len(u) /\ i <= k /\ u[k] = t[1] /\ u[i] = s[i]
      BY <1>1, <1>2, <1>6
    <3>3. a + (k - i) <= e => u[k] = <<u[i][1], a + (k - i)>>
      BY <1>6, <3>2 DEF Whole
    <3> HIDE DEF e, a
    <3>4. a + (k - i) # 1 /\ a + (k - i) \in Int
      BY <1>1, <3>1
    <3>5. ~(a + (k - i) <= e)
      BY <1>6, <3>2, <3>3, <3>4
    <3>6. a + (Len(s) - i) >= e
      BY <1>1, <3>1, <3>5
    <3>7. QED
      BY <3>6 DEF a, e
  <2>3. QED
    BY <2>1, <2>2 DEF Whole
<1>7. QED
  BY <1>3, <1>4, <1>5, <1>6 DEF u

LEMMA PacketUnitsAre ==
    ASSUME NEW n \in Nat, NEW size \in Nat
    PROVE  LET t == PacketUnits(n, size) IN
           /\ t \in Seq(Unit) /\ Len(t) = HeaderUnits + size /\ t # <<>>
           /\ \A i \in 1..HeaderUnits + size : t[i] = <<n, i>>
<1> DEFINE t == PacketUnits(n, size)
           k == HeaderUnits + size
<1>1. k \in Nat \ {0}
  BY FramingAssumption
<1>2. t = [i \in 1..k |-> <<n, i>>]
  BY DEF PacketUnits
<1> HIDE DEF t, k
<1>3. \A i \in 1..k : <<n, i>> \in Unit
  BY <1>1 DEF Unit
<1>4. t \in [1..k -> Unit] /\ \A i \in 1..k : t[i] = <<n, i>>
  BY <1>2, <1>3
<1>5. t \in Seq(Unit) /\ Len(t) = k
  BY <1>1, <1>2, <1>4
<1>6. QED
  BY <1>1, <1>4, <1>5, EmptySeq DEF t, k

\* Sequence u is s, of length k, with the h units of packet m after it, the next
\* one when ss are the sizes of the packets before; new are the sizes with its own.
Extended(u, new, s, ss, k, h, m) ==
    /\ k = Len(s) /\ h >= 1 /\ m >= 1
    /\ Len(ss) \in Nat /\ m = Len(ss) + 1 /\ Len(new) = m
    /\ \A n \in 1..Len(ss) : End(n, new) = End(n, ss) /\ End(n, ss) \in Nat
    /\ End(m, new) = h
    /\ Len(u) = k + h
    /\ \A i \in 1..k : i \in 1..Len(u) /\ u[i] = s[i]
    /\ \A x \in 1..h : /\ k + x \in 1..Len(u) /\ u[k + x] = <<m, x>>
                       /\ u[k + x][1] = m /\ u[k + x][2] = x

LEMMA ExtendBy ==
    ASSUME NEW s \in Seq(Unit), NEW ss, NEW k \in Nat, NEW h \in Nat, NEW m \in Nat,
           NEW u, NEW new, Extended(u, new, s, ss, k, h, m), OfPackets(s, ss)
    PROVE  /\ OfPackets(u, new)
           /\ Ordered(s) => Ordered(u)
           /\ \A n \in 0..Len(ss) : Later(s, n) => Later(u, n)
           /\ Whole(s, ss) => Whole(u, new)
           /\ Consecutive(s, ss) => Consecutive(u, new)
<1> USE DEF Extended
<1>1. ASSUME NEW i \in 1..Len(u) PROVE i \in 1..k \/ \E x \in 1..h : i = k + x
  <2>1. CASE i > k
    <3>1. i - k \in 1..h /\ i = k + (i - k)
      BY <2>1
    <3>2. QED
      BY <3>1
  <2>2. CASE i <= k
    BY <2>2
  <2>3. QED
    BY <2>1, <2>2
<1>2. \A i \in 1..k : /\ u[i] = s[i] /\ s[i][1] \in 1..Len(ss) /\ s[i][1] \in 1..Len(new)
                      /\ s[i][1] < m /\ s[i][1] \in Nat /\ s[i][2] \in Nat
                      /\ s[i][2] \in 1..End(s[i][1], ss)
                      /\ End(s[i][1], new) = End(s[i][1], ss) /\ End(s[i][1], ss) \in Nat
  <2>1. \A i \in 1..k : s[i][1] \in 1..Len(ss) /\ s[i][2] \in 1..End(s[i][1], ss)
    BY DEF OfPackets
  <2>2. \A n \in 1..Len(ss) : n \in 1..Len(new) /\ n < m /\ n \in Nat
    OBVIOUS
  <2>3. QED
    BY <2>1, <2>2
<1>3. OfPackets(u, new)
  <2>1. ASSUME NEW x \in 1..h
        PROVE  u[k + x][1] \in 1..Len(new) /\ u[k + x][2] \in 1..End(u[k + x][1], new)
    <3>1. u[k + x][1] = m /\ u[k + x][2] = x
      OBVIOUS
    <3>2. m \in 1..Len(new)
      OBVIOUS
    <3>3. QED
      BY <3>1, <3>2
  <2>2. \A i \in 1..k : u[i][1] \in 1..Len(new) /\ u[i][2] \in 1..End(u[i][1], new)
    BY <1>2
  <2>3. QED
    BY ZenonT(30), <1>1, <2>1, <2>2 DEF OfPackets
<1>4. ASSUME Ordered(s), NEW i \in 1..Len(u), NEW j \in 1..Len(u), i < j
      PROVE  u[i][1] <= u[j][1] /\ (u[j][2] = 1 => u[i][1] < u[j][1])
  <2>1. CASE j \in 1..k
    <3>1. i \in 1..k
      BY <1>4, <2>1
    <3>2. QED
      BY <1>4, <2>1, <3>1 DEF Ordered
  <2>2. CASE \E y \in 1..h : j = k + y
    <3>0. PICK y \in 1..h : j = k + y
      BY <2>2
    <3>1. u[j][1] = m /\ u[j][2] = y
      BY <3>0
    <3>2. CASE i \in 1..k
      BY <1>2, <3>1, <3>2
    <3>3. CASE \E x \in 1..h : i = k + x
      <4>0. PICK x \in 1..h : i = k + x
        BY <3>3
      <4>1. u[i][1] = m
        BY <4>0
      <4>2. y # 1
        BY <1>4, <3>0, <4>0
      <4>3. QED
        BY <3>1, <4>1, <4>2
    <3>4. QED
      BY <1>1, <3>2, <3>3
  <2>3. QED
    BY <1>1, <2>1, <2>2
<1>5. ASSUME NEW n \in 0..Len(ss), Later(s, n) PROVE Later(u, n)
  <2>1. \A x \in 1..h : u[k + x][1] >= n /\ u[k + x][1] > n
    <3>1. m >= n /\ m > n
      OBVIOUS
    <3>2. QED
      BY <3>1
  <2>2. \A i \in 1..k : u[i][1] >= n /\ (u[i][2] = 1 => u[i][1] > n)
    BY <1>5 DEF Later
  <2>3. QED
    BY ZenonT(30), <1>1, <2>1, <2>2 DEF Later
<1>6. ASSUME Whole(s, ss) PROVE Whole(u, new)
  <2>1. ASSUME NEW i \in 1..Len(u), NEW j \in 1..Len(u), i <= j,
               u[i][2] + (j - i) <= End(u[i][1], new)
        PROVE  u[j] = <<u[i][1], u[i][2] + (j - i)>>
    <3>1. CASE j \in 1..k
      <4>1. i \in 1..k
        BY <2>1, <3>1
      <4>2. s[i][2] + (j - i) <= End(s[i][1], ss)
        BY <1>2, <2>1, <4>1
      <4>3. s[j] = <<s[i][1], s[i][2] + (j - i)>>
        BY <1>6, <2>1, <3>1, <4>1, <4>2 DEF Whole
      <4>4. QED
        BY <3>1, <4>1, <4>3
    <3>2. CASE \E y \in 1..h : j = k + y
      <4>0. PICK y \in 1..h : j = k + y
        BY <3>2
      <4>1. CASE i \in 1..k
        <5>1. s[i][2] + (k - i) >= End(s[i][1], ss)
          BY <1>6, <4>1 DEF Whole
        <5>2. s[i][2] + (j - i) <= End(s[i][1], ss)
          BY <1>2, <2>1, <4>1
        <5>3. s[i][2] \in Nat /\ End(s[i][1], ss) \in Nat
          BY <1>2, <4>1
        <5>4. QED
          BY SMTT(30), <4>0, <4>1, <5>1, <5>2, <5>3
      <4>2. CASE \E x \in 1..h : i = k + x
        <5>0. PICK x \in 1..h : i = k + x
          BY <4>2
        <5>1. u[i][1] = m /\ u[i][2] = x /\ u[j] = <<m, y>>
          BY <4>0, <5>0
        <5>2. x + (j - i) = y
          BY <4>0, <5>0
        <5>3. QED
          BY <5>1, <5>2
      <4>3. QED
        BY <1>1, <4>1, <4>2
    <3>3. QED
      BY <1>1, <3>1, <3>2
  <2>2. ASSUME NEW i \in 1..Len(u)
        PROVE  u[i][2] + (Len(u) - i) >= End(u[i][1], new)
    <3>1. CASE i \in 1..k
      <4>1. s[i][2] + (k - i) >= End(s[i][1], ss)
        BY <1>6, <3>1 DEF Whole
      <4>2. PICK a \in Nat, e \in Nat : a = s[i][2] /\ e = End(s[i][1], ss)
        BY <1>2, <3>1
      <4>3. a + (k + h - i) >= e
        <5>1. a + (k - i) >= e
          BY <4>1, <4>2
        <5> HIDE DEF Extended
        <5>2. QED
          BY <3>1, <5>1
      <4>4. u[i] = s[i] /\ End(s[i][1], new) = End(s[i][1], ss) /\ Len(u) = k + h
        BY <1>2, <3>1
      <4>5. QED
        BY <4>2, <4>3, <4>4
    <3>2. CASE \E x \in 1..h : i = k + x
      <4>0. PICK x \in 1..h : i = k + x
        BY <3>2
      <4>1. u[i][1] = m /\ u[i][2] = x /\ End(u[i][1], new) = h /\ Len(u) = k + h
        BY <4>0
      <4>2. x + (k + h - i) = h
        BY <4>0
      <4>3. QED
        BY SMTT(30), <4>1, <4>2
    <3>3. QED
      BY <1>1, <3>1, <3>2
  <2>3. QED
    BY <2>1, <2>2 DEF Whole
<1>7. ASSUME Consecutive(s, ss) PROVE Consecutive(u, new)
  <2>1. ASSUME NEW i \in 1..Len(u), NEW j \in 1..Len(u), j = i + 1,
               u[i][2] = End(u[i][1], new)
        PROVE  u[j] = <<u[i][1] + 1, 1>>
    <3>1. CASE j \in 1..k
      <4>1. i \in 1..k
        BY <2>1, <3>1
      <4>2. s[i][2] = End(s[i][1], ss)
        BY <1>2, <2>1, <4>1
      <4>3. s[j] = <<s[i][1] + 1, 1>>
        BY <1>7, <2>1, <3>1, <4>1, <4>2 DEF Consecutive
      <4>4. QED
        BY <3>1, <4>1, <4>3
    <3>2. CASE \E y \in 1..h : j = k + y
      <4>0. PICK y \in 1..h : j = k + y
        BY <3>2
      <4>1. CASE i \in 1..k
        <5>1. i = k /\ y = 1
          BY SMTT(30), <2>1, <4>0, <4>1
        <5>2. s # <<>>
          BY <4>1, EmptySeq
        <5>3. s[k] = <<Len(ss), End(Len(ss), ss)>>
          BY <1>7, <5>2 DEF Consecutive
        <5>4. u[i][1] = Len(ss)
          BY <4>1, <5>1, <5>3
        <5>5. QED
          BY <4>0, <5>1, <5>4
      <4>2. CASE \E x \in 1..h : i = k + x
        <5>0. PICK x \in 1..h : i = k + x
          BY <4>2
        <5>1. x = h
          BY <2>1, <5>0
        <5>2. QED
          BY <2>1, <4>0, <5>0, <5>1
      <4>3. QED
        BY <1>1, <4>1, <4>2
    <3>3. QED
      BY <1>1, <3>1, <3>2
  <2>2. u[Len(u)] = <<Len(new), End(Len(new), new)>>
    <3>1. h \in 1..h /\ Len(u) = k + h /\ Len(new) = m /\ End(m, new) = h
      OBVIOUS
    <3>2. u[k + h] = <<m, h>>
      BY <3>1
    <3> HIDE DEF Extended
    <3>3. QED
      BY <3>1, <3>2
  <2>3. QED
    BY <2>1, <2>2 DEF Consecutive
<1>8. QED
  BY <1>3, <1>4, <1>5, <1>6, <1>7 DEF Ordered

\* A new packet is added to the stream.
LEMMA Extend ==
    ASSUME NEW s \in Seq(Unit), NEW ss \in Seq(Nat), NEW size \in Nat,
           OfPackets(s, ss)
    PROVE  LET u   == s \o PacketUnits(Len(ss) + 1, size)
               new == Append(ss, size)
           IN  /\ OfPackets(u, new)
               /\ Ordered(s) => Ordered(u)
               /\ \A n \in 0..Len(ss) : Later(s, n) => Later(u, n)
               /\ Whole(s, ss) => Whole(u, new)
               /\ Consecutive(s, ss) => Consecutive(u, new)
<1> DEFINE t   == PacketUnits(Len(ss) + 1, size)
           u   == s \o t
           new == Append(ss, size)
<1>1. PICK k \in Nat, h \in Nat, m \in Nat :
          /\ k = Len(s) /\ h = HeaderUnits + size /\ h >= 1
          /\ Len(ss) \in Nat /\ m = Len(ss) + 1 /\ m >= 1
  <2>1. /\ Len(s) \in Nat /\ HeaderUnits + size \in Nat /\ HeaderUnits + size >= 1
        /\ Len(ss) \in Nat /\ Len(ss) + 1 \in Nat /\ Len(ss) + 1 >= 1
    BY LenProperties, FramingAssumption
  <2>2. QED
    BY <2>1
<1>2. /\ Len(new) = m /\ new[m] = size
      /\ \A i \in 1..Len(ss) : new[i] = ss[i] /\ ss[i] \in Nat
  BY <1>1, AppendProperties, ElementOfSeq
<1>3. t \in Seq(Unit) /\ Len(t) = h /\ \A i \in 1..h : t[i] = <<m, i>>
  BY ZenonT(30), <1>1, PacketUnitsAre
<1> HIDE DEF t
<1>4. /\ Len(u) = k + h
      /\ \A i \in 1..k + h : u[i] = IF i <= k THEN s[i] ELSE t[i - k]
  <2>1. /\ Len(u) = Len(s) + Len(t)
        /\ \A i \in 1..Len(s) + Len(t) : u[i] = IF i <= Len(s) THEN s[i] ELSE t[i - Len(s)]
    BY <1>3, ConcatProperties
  <2> HIDE DEF u
  <2>2. QED
    BY <1>1, <1>3, <2>1
<1> HIDE DEF u, new
<1>5. /\ \A i \in 1..k : i \in 1..Len(u) /\ u[i] = s[i]
      /\ \A x \in 1..h : /\ k + x \in 1..Len(u) /\ u[k + x] = <<m, x>>
                         /\ u[k + x][1] = m /\ u[k + x][2] = x
  <2>1. \A i \in 1..k : i \in 1..k + h /\ i <= k
    OBVIOUS
  <2>2. \A x \in 1..h : k + x \in 1..k + h /\ ~(k + x <= k) /\ k + x - k = x
    OBVIOUS
  <2>3. QED
    BY <1>3, <1>4, <2>1, <2>2
<1>6. /\ \A n \in 1..Len(ss) : End(n, new) = End(n, ss) /\ End(n, ss) \in Nat
      /\ End(m, new) = h
  BY <1>1, <1>2, FramingAssumption DEF End
<1>7. /\ OfPackets(u, new)
      /\ Ordered(s) => Ordered(u)
      /\ \A n \in 0..Len(ss) : Later(s, n) => Later(u, n)
      /\ Whole(s, ss) => Whole(u, new)
      /\ Consecutive(s, ss) => Consecutive(u, new)
  <2>1. Extended(u, new, s, ss, k, h, m)
    BY <1>1, <1>2, <1>4, <1>5, <1>6 DEF Extended
  <2>2. QED
    BY <2>1, ExtendBy
<1>8. QED
  BY <1>7 DEF u, t, new

-----------------------------------------------------------------------------
(***************************************************************************)
(* The steps of the desktop and the controller.                            *)
(***************************************************************************)
LEMMA Facts ==
    ASSUME Typed
    PROVE  /\ sent \in Seq(Nat) /\ Len(sent) \in Nat
           /\ \A n \in 1..Len(sent) : sent[n] \in 0..PayloadCap /\ sent[n] \in Nat
           /\ stream \in Seq(Unit) /\ Len(stream) \in Nat
           /\ Len(pipe) \in Nat /\ Len(sending) \in Nat /\ Len(body) \in Nat
           /\ Len(accepted) \in Nat
           /\ HeaderUnits \in Nat /\ HeaderUnits >= 1 /\ PayloadCap \in Nat
<1>1. PayloadCap \in Nat /\ PayloadSizes \subseteq 0..PayloadCap /\ HeaderUnits \in Nat \ {0}
  BY FramingAssumption
<1>2. /\ sent \in Seq(PayloadSizes) /\ pipe \in Seq(Unit)
      /\ sending \in Seq(Unit) /\ body \in Seq(Unit)
  BY DEF Typed
<1>3. PayloadSizes \subseteq Nat
  BY <1>1
<1>4. sent \in Seq(Nat)
  BY <1>2, <1>3, SeqMonotonic
<1>5. \A n \in 1..Len(sent) : sent[n] \in 0..PayloadCap /\ sent[n] \in Nat
  BY <1>1, <1>2, <1>3, ElementOfSeq
<1>6. stream \in Seq(Unit)
  BY <1>2, ConcatProperties DEF stream
<1>7. Len(accepted) \in Nat
  BY LenProperties DEF Typed
<1>8. QED
  BY <1>1, <1>2, <1>4, <1>5, <1>6, <1>7, LenProperties

\* The sizes of the packets before stay as they are.
LEMMA SizesGrow ==
    ASSUME NEW ss \in Seq(Nat), NEW size \in Nat
    PROVE  /\ Len(ss) \in Nat /\ Len(Append(ss, size)) = Len(ss) + 1
           /\ Append(ss, size)[Len(ss) + 1] = size
           /\ \A n \in 1..Len(ss) : Append(ss, size)[n] = ss[n]
           /\ \A b : OfPackets(b, ss) => OfPackets(b, Append(ss, size))
<1> DEFINE new == Append(ss, size)
<1>1. /\ Len(ss) \in Nat /\ Len(new) = Len(ss) + 1 /\ new[Len(ss) + 1] = size
      /\ \A n \in 1..Len(ss) : new[n] = ss[n]
  BY AppendProperties, LenProperties
<1> HIDE DEF new
<1>2. \A n \in 1..Len(ss) : n \in 1..Len(new) /\ End(n, new) = End(n, ss)
  BY <1>1 DEF End
<1>3. \A b : OfPackets(b, ss) => OfPackets(b, new)
  BY <1>2 DEF OfPackets
<1>4. QED
  BY <1>1, <1>3 DEF new

LEMMA BeginSendKeeps ==
    ASSUME FramingInv, BeginSend
    PROVE  FramingInv'
<1>1. Typed /\ StreamInv /\ OrderInv /\ IntactInv /\ LossInv
  BY DEF FramingInv
<1>2. PICK size \in PayloadSizes : /\ sent' = Append(sent, size)
                                   /\ sending' = PacketUnits(Len(sent) + 1, size)
  BY DEF BeginSend
<1> DEFINE m == Len(sent) + 1
           t == PacketUnits(m, size)
<1>3. /\ UNCHANGED <<usbPacket, pipe, mode, hdr, body, tries, accepted, cutMidway, faults>>
      /\ sending = <<>> /\ Len(sent) < MaxSends
  BY DEF BeginSend, pspVars
<1>4. /\ sent \in Seq(Nat) /\ Len(sent) \in Nat /\ m \in Nat /\ size \in Nat
      /\ stream \in Seq(Unit) /\ Len(stream) \in Nat /\ stream = pipe
  <2>1. stream = pipe
    BY <1>1, <1>3, ConcatEmptySeq DEF stream, Typed
  <2>2. size \in Nat
    BY FramingAssumption
  <2>3. QED
    BY <1>1, <2>1, <2>2, Facts
<1>5. /\ t \in Seq(Unit) /\ Len(t) = HeaderUnits + size /\ t # <<>>
      /\ \A i \in 1..HeaderUnits + size : t[i] = <<m, i>>
  BY <1>4, PacketUnitsAre
<1> HIDE DEF t
<1>6. stream' = stream \o t /\ sending' = t
  BY <1>2, <1>3, <1>4 DEF t, stream
<1>7. /\ OfPackets(stream', sent') /\ Ordered(stream')
      /\ Later(stream', hdr)
      /\ Whole(stream, sent) => Whole(stream', sent')
      /\ Consecutive(stream, sent) => Consecutive(stream', sent')
  <2>1. hdr \in 0..Len(sent)
    BY <1>1 DEF Typed
  <2>2. OfPackets(stream, sent) /\ Ordered(stream) /\ Later(stream, hdr)
    BY <1>1 DEF StreamInv
  <2>3. stream' = stream \o PacketUnits(Len(sent) + 1, size) /\ sent' = Append(sent, size)
    BY <1>2, <1>6 DEF t
  <2>4. QED
    BY <1>4, <2>1, <2>2, <2>3, Extend
<1>8. /\ Len(sent') = m /\ sent'[m] = size /\ sent' \in Seq(PayloadSizes)
      /\ \A n \in 1..Len(sent) : sent'[n] = sent[n]
      /\ OfPackets(body, sent) => OfPackets(body, sent')
  BY <1>1, <1>2, <1>4, SizesGrow, AppendProperties DEF Typed
<1>9. stream' # <<>> /\ stream'[1] = IF stream = <<>> THEN <<m, 1>> ELSE stream[1]
  <2>1. /\ HeaderUnits \in Nat /\ HeaderUnits >= 1
        /\ Len(t) >= 1 /\ 1 \in 1..HeaderUnits + size
    BY <1>4, <1>5, FramingAssumption
  <2>2. /\ Len(stream') = Len(stream) + Len(t)
        /\ \A i \in 1..Len(stream) + Len(t) :
              stream'[i] = IF i <= Len(stream) THEN stream[i] ELSE t[i - Len(stream)]
    BY <1>4, <1>5, <1>6, ConcatProperties
  <2>3. 1 \in 1..Len(stream) + Len(t) /\ Len(stream') # 0
    BY <1>4, <1>5, <2>1, <2>2
  <2>4. stream = <<>> => Len(stream) = 0
    OBVIOUS
  <2>5. stream # <<>> => Len(stream) >= 1
    BY <1>4, EmptySeq
  <2>6. stream' # <<>>
    BY <2>3, EmptySeq
  <2>7. CASE stream = <<>>
    <3>1. ~(1 <= Len(stream)) /\ 1 - Len(stream) = 1
      BY <2>4, <2>7
    <3>2. stream'[1] = t[1]
      BY <2>2, <2>3, <3>1
    <3>3. QED
      BY <1>5, <2>1, <2>6, <2>7, <3>2
  <2>8. CASE stream # <<>>
    BY <2>2, <2>3, <2>5, <2>6, <2>8
  <2>9. QED
    BY <2>7, <2>8
<1>10. Typed'
  <2>1. sending' \in Seq(Unit)
    BY <1>5, <1>6
  <2>2. Len(sent') <= MaxSends /\ hdr' \in 0..Len(sent')
    BY <1>1, <1>3, <1>4, <1>8, FramingAssumption DEF Typed
  <2>3. mode' = "payload" => hdr' # 0 /\ Len(body') < sent'[hdr'] /\ tries' < MaxTries
    BY <1>1, <1>3, <1>4, <1>8 DEF Typed
  <2>4. QED
    BY <1>1, <1>3, <1>8, <2>1, <2>2, <2>3 DEF Typed
<1>11. StreamInv'
  <2>1. SendingInv'
    <3>1. sent' # <<>>
      BY <1>4, <1>8, EmptySeq
    <3>2. 0 \in 0..HeaderUnits + PayloadCap /\ 0 + Len(t) = End(Len(sent'), sent')
      BY <1>4, <1>5, <1>8, FramingAssumption DEF End
    <3>3. \A i \in 1..Len(t) : t[i] = <<Len(sent'), 0 + i>>
      BY <1>4, <1>5, <1>8, FramingAssumption
    <3>4. QED
      BY <1>6, <3>1, <3>2, <3>3 DEF SendingInv
  <2>2. QED
    BY <1>1, <1>3, <1>7, <1>8, <2>1 DEF StreamInv
<1>12. OrderInv'
  <2>1. \A n \in 1..Len(sent) : n \in 1..Len(sent')
    BY <1>4, <1>8
  <2>2. QED
    BY <1>1, <1>3, <2>1 DEF OrderInv
<1>13. IntactInv'
  <2>1. \A i \in 1..Len(accepted) : sent'[accepted[i].hdr] = sent[accepted[i].hdr]
    BY <1>1, <1>8 DEF OrderInv
  <2>2. QED
    BY <1>1, <1>3, <1>7, <1>9, <2>1 DEF IntactInv
<1>14. LossInv'
  <2>1. \A n : AtPacket(stream, sent, n) => AtPacket(stream', sent', n)
    BY <1>4, <1>9 DEF AtPacket
  <2>2. QED
    BY <1>1, <1>3, <1>7, <2>1 DEF LossInv
<1>15. QED
  BY <1>10, <1>11, <1>12, <1>13, <1>14 DEF FramingInv

LEMMA DeliverKeeps ==
    ASSUME FramingInv, Deliver
    PROVE  FramingInv'
<1>1. Typed /\ StreamInv /\ OrderInv /\ IntactInv /\ LossInv
  BY DEF FramingInv
<1> DEFINE k == Smaller(usbPacket, Len(sending))
<1>2. /\ UNCHANGED <<usbPacket, sent, mode, hdr, body, tries, accepted, cutMidway, faults>>
      /\ sending # <<>>
      /\ pipe' = pipe \o Front(sending, k) /\ sending' = Rest(sending, k)
  BY DEF Deliver, pspVars
<1>3. /\ usbPacket \in Nat /\ usbPacket > HeaderUnits
      /\ HeaderUnits \in Nat /\ PayloadCap \in Nat
      /\ Len(sending) \in Nat /\ pipe \in Seq(Unit) /\ sending \in Seq(Unit)
  BY <1>1, FramingAssumption, LenProperties DEF Typed
<1>4. k \in 0..Len(sending) /\ k \in {usbPacket, Len(sending)}
  BY <1>3, SmallerIs
<1> HIDE DEF k
<1>5. /\ Front(sending, k) \in Seq(Unit) /\ sending' \in Seq(Unit)
      /\ Len(sending') = Len(sending) - k /\ k \in Nat
      /\ \A i \in 1..Len(sending) - k : sending'[i] = sending[k + i]
  BY <1>2, <1>3, <1>4, Split
<1>6. stream' = stream
  <2>1. (pipe \o Front(sending, k)) \o Rest(sending, k) = pipe \o sending
    BY <1>3, <1>4, MoveFront
  <2>2. QED
    BY <1>2, <2>1 DEF stream
<1>7. Typed'
  <2>1. pipe' \in Seq(Unit)
    BY <1>2, <1>3, <1>5, ConcatProperties
  <2>2. QED
    BY <1>1, <1>2, <1>5, <2>1 DEF Typed
<1>8. SendingInv'
  <2> SUFFICES ASSUME sending' # <<>>
               PROVE  /\ sent' # <<>>
                      /\ \E q \in 0..HeaderUnits + PayloadCap :
                            /\ q = 0 \/ q >= HeaderUnits
                            /\ q + Len(sending') = End(Len(sent'), sent')
                            /\ \A i \in 1..Len(sending') : sending'[i] = <<Len(sent'), q + i>>
    BY DEF SendingInv
  <2>1. PICK q \in 0..HeaderUnits + PayloadCap :
            /\ q + Len(sending) = End(Len(sent), sent)
            /\ \A i \in 1..Len(sending) : sending[i] = <<Len(sent), q + i>>
    BY <1>1, <1>2 DEF StreamInv, SendingInv
  <2>2. sent # <<>> /\ Len(sent) \in 1..Len(sent)
    BY <1>1, <1>2, EmptySeq DEF StreamInv, SendingInv, Typed
  <2>3. End(Len(sent), sent) \in 0..HeaderUnits + PayloadCap
    <3>1. sent[Len(sent)] \in 0..PayloadCap
      BY <1>1, <2>2, Facts
    <3>2. QED
      BY <1>3, <3>1 DEF End
  <2>4. Len(sending') # 0 /\ k = usbPacket
    BY <1>3, <1>4, <1>5, EmptySeq
  <2>5. q + k \in 0..HeaderUnits + PayloadCap /\ q + k >= HeaderUnits
    BY <1>3, <1>4, <1>5, <2>1, <2>3, <2>4
  <2>6. (q + k) + Len(sending') = End(Len(sent), sent)
    BY <1>3, <1>5, <2>1
  <2>7. ASSUME NEW i \in 1..Len(sending') PROVE sending'[i] = <<Len(sent), (q + k) + i>>
    <3>1. k + i \in 1..Len(sending) /\ i \in 1..Len(sending) - k /\ q + (k + i) = (q + k) + i
      BY <1>3, <1>5
    <3>2. QED
      BY <1>5, <2>1, <3>1
  <2>8. QED
    BY <1>2, <2>2, <2>5, <2>6, <2>7
<1>9. StreamInv'
  BY <1>1, <1>2, <1>6, <1>8 DEF StreamInv
<1>10. OrderInv' /\ IntactInv' /\ LossInv'
  BY <1>1, <1>2, <1>6 DEF OrderInv, IntactInv, LossInv
<1>11. QED
  BY <1>7, <1>9, <1>10 DEF FramingInv

LEMMA SendCutKeeps ==
    ASSUME FramingInv, SendCut
    PROVE  FramingInv'
<1>1. Typed /\ StreamInv /\ OrderInv /\ IntactInv /\ LossInv
  BY DEF FramingInv
<1>2. /\ UNCHANGED <<usbPacket, sent, pipe, mode, hdr, body, tries, accepted>>
      /\ sending # <<>> /\ sending' = <<>>
      /\ cutMidway' = (cutMidway \/ sending[1][2] > 1)
      /\ faults' = faults + 1 /\ faults < MaxFaults
  BY DEF SendCut, Fault, pspVars
<1>3. /\ sent \in Seq(Nat) /\ pipe \in Seq(Unit) /\ sending \in Seq(Unit)
      /\ Len(pipe) \in Nat /\ Len(body) \in Nat /\ HeaderUnits \in Nat /\ HeaderUnits >= 1
  BY <1>1, Facts DEF Typed
<1>4. stream' = pipe /\ stream = pipe \o sending
  BY <1>2, <1>3, ConcatEmptySeq DEF stream
<1>5. /\ OfPackets(pipe, sent) /\ Ordered(pipe) /\ Later(pipe, hdr)
      /\ /\ Whole(stream, sent) /\ sending # <<>> /\ sending[1][2] = 1
         => Whole(pipe, sent)
  BY <1>1, <1>3, <1>4, CutEnd DEF StreamInv
<1>6. StreamInv'
  BY <1>1, <1>2, <1>4, <1>5 DEF StreamInv, SendingInv
<1>7. Typed'
  <2>1. sending' \in Seq(Unit) /\ cutMidway' \in BOOLEAN
    BY <1>2, EmptySeq
  <2>2. faults' \in 0..MaxFaults
    BY <1>1, <1>2, FramingAssumption DEF Typed
  <2>3. QED
    BY <1>1, <1>2, <2>1, <2>2 DEF Typed
<1>8. OrderInv'
  BY <1>1, <1>2 DEF OrderInv
<1>9. IntactInv'
  <2> SUFFICES ASSUME ~cutMidway' PROVE IntactInv'
    BY DEF IntactInv
  <2>1. ~cutMidway /\ sending[1][2] = 1
    <3>1. ~cutMidway /\ ~(sending[1][2] > 1)
      BY <1>2
    <3>2. sending[1][2] \in Nat /\ sending[1][2] >= 1
      <4>1. PICK q \in 0..HeaderUnits + PayloadCap :
                \A i \in 1..Len(sending) : sending[i] = <<Len(sent), q + i>>
        BY <1>1, <1>2 DEF StreamInv, SendingInv
      <4>2. 1 \in 1..Len(sending)
        BY <1>2, <1>3, EmptySeq
      <4>3. sending[1][2] = q + 1
        BY <4>1, <4>2
      <4>4. HeaderUnits + PayloadCap \in Nat
        BY FramingAssumption
      <4>5. QED
        BY <4>3, <4>4
    <3>3. QED
      BY <3>1, <3>2
  <2>2. Whole(pipe, sent)
    BY <1>1, <1>2, <1>5, <2>1 DEF IntactInv
  <2>3. ASSUME mode = "payload"
        PROVE  pipe # <<>> /\ pipe[1] = <<hdr, HeaderUnits + Len(body) + 1>>
    <3>1. stream # <<>> /\ stream[1] = <<hdr, HeaderUnits + Len(body) + 1>>
      BY <1>1, <2>1, <2>3 DEF IntactInv
    <3>2. CASE pipe = <<>>
      <4>1. stream = sending
        BY <1>3, <1>4, <3>2, ConcatEmptySeq
      <4>2. HeaderUnits + Len(body) + 1 = 1
        BY <2>1, <3>1, <4>1
      <4>3. QED
        BY <1>3, <4>2
    <3>3. CASE pipe # <<>>
      <4>1. stream[1] = pipe[1]
        BY <1>3, <1>4, <3>3, ConcatFirst
      <4>2. QED
        BY <3>1, <3>3, <4>1
    <3>4. QED
      BY <3>2, <3>3
  <2>4. QED
    BY <1>1, <1>2, <1>4, <2>1, <2>2, <2>3 DEF IntactInv
<1>10. LossInv'
  BY <1>1, <1>2, FramingAssumption DEF LossInv, Typed
<1>11. QED
  BY <1>6, <1>7, <1>8, <1>9, <1>10 DEF FramingInv

-----------------------------------------------------------------------------
(***************************************************************************)
(* The steps of the PSP.                                                   *)
(***************************************************************************)
\* A read takes its units from the front of the stream.
LEMMA Read ==
    ASSUME Typed, StreamInv, NEW k \in 0..Len(pipe),
           pipe' = Rest(pipe, k), UNCHANGED <<sent, sending>>
    PROVE  /\ k \in Nat /\ k \in 0..Len(stream) /\ stream' = Rest(stream, k)
           /\ pipe' \in Seq(Unit) /\ stream' \in Seq(Unit)
           /\ Len(stream') = Len(stream) - k
           /\ \A i \in 1..Len(stream) - k : stream'[i] = stream[k + i]
           /\ Front(pipe, k) \in Seq(Unit) /\ Len(Front(pipe, k)) = k
           /\ \A i \in 1..k : Front(pipe, k)[i] = stream[i]
           /\ OfPackets(stream', sent') /\ Ordered(stream') /\ Later(stream', hdr)
           /\ SendingInv'
           /\ Whole(stream, sent) => Whole(stream', sent')
           /\ Consecutive(stream, sent) => Consecutive(stream', sent')
<1>1. /\ pipe \in Seq(Unit) /\ sending \in Seq(Unit) /\ Len(pipe) \in Nat
      /\ stream \in Seq(Unit) /\ Len(sending) \in Nat
  BY Facts DEF Typed
<1>2. k \in Nat /\ k <= Len(pipe)
  BY <1>1
<1>3. /\ pipe' \in Seq(Unit) /\ Front(pipe, k) \in Seq(Unit) /\ Len(Front(pipe, k)) = k
      /\ \A i \in 1..k : Front(pipe, k)[i] = pipe[i]
  BY <1>1, Split
<1>4. stream' = Rest(stream, k) /\ k \in 0..Len(stream)
  <2>1. Rest(pipe, k) \o sending = Rest(pipe \o sending, k) /\ k \in 0..Len(pipe \o sending)
    BY <1>1, RestOfConcat
  <2>2. QED
    BY <2>1 DEF stream
<1>5. /\ stream' \in Seq(Unit) /\ Len(stream') = Len(stream) - k
      /\ \A i \in 1..Len(stream) - k : stream'[i] = stream[k + i]
  BY <1>1, <1>4, Split
<1>6. \A i \in 1..k : pipe[i] = stream[i]
  <2>1. \A i \in 1..Len(pipe) + Len(sending) :
            stream[i] = IF i <= Len(pipe) THEN pipe[i] ELSE sending[i - Len(pipe)]
    BY <1>1, ConcatProperties DEF stream
  <2>2. QED
    BY SMTT(30), <1>1, <1>2, <2>1
<1>7. /\ OfPackets(stream, sent) => OfPackets(stream', sent)
      /\ Ordered(stream) => Ordered(stream')
      /\ \A n : Later(stream, n) => Later(stream', n)
      /\ Whole(stream, sent) => Whole(stream', sent)
      /\ Consecutive(stream, sent) => Consecutive(stream', sent)
  BY <1>1, <1>4, TakeFront
<1>8. OfPackets(stream, sent) /\ Ordered(stream) /\ Later(stream, hdr) /\ SendingInv
  BY DEF StreamInv
<1>9. SendingInv'
  BY <1>8 DEF SendingInv
<1>10. QED
  BY <1>2, <1>3, <1>4, <1>5, <1>6, <1>7, <1>8, <1>9

\* No header is in two parts: where one begins it can be read.
LEMMA HeaderThere ==
    ASSUME Typed, StreamInv, Whole(stream, sent), pipe # <<>>, stream[1][2] = 1
    PROVE  Len(pipe) >= HeaderUnits
<1>1. /\ pipe \in Seq(Unit) /\ sending \in Seq(Unit) /\ stream \in Seq(Unit)
      /\ Len(pipe) \in Nat /\ Len(sending) \in Nat /\ Len(stream) \in Nat
      /\ HeaderUnits \in Nat /\ PayloadCap \in Nat
  BY Facts DEF Typed
<1>2. Len(pipe) >= 1
  BY <1>1, EmptySeq
<1>3. /\ Len(stream) = Len(pipe) + Len(sending)
      /\ \A i \in 1..Len(pipe) + Len(sending) :
            stream[i] = IF i <= Len(pipe) THEN pipe[i] ELSE sending[i - Len(pipe)]
  BY <1>1, ConcatProperties DEF stream
<1> DEFINE n == stream[1][1]
           e == End(n, sent)
<1>4. 1 \in 1..Len(stream) /\ e \in Nat /\ e >= HeaderUnits
  <2>1. 1 \in 1..Len(stream)
    BY <1>1, <1>2, <1>3
  <2>2. n \in 1..Len(sent)
    BY <2>1 DEF StreamInv, OfPackets
  <2>3. sent[n] \in Nat
    BY <2>2, Facts
  <2>4. QED
    BY <1>1, <2>1, <2>3 DEF End
<1>5. 1 + (Len(stream) - 1) >= e
  BY <1>4 DEF Whole
<1>6. \A j \in 1..Len(stream) : 1 <= j /\ 1 + (j - 1) <= e => stream[j] = <<n, 1 + (j - 1)>>
  BY <1>4 DEF Whole
<1> HIDE DEF e, n
<1>7. SUFFICES ASSUME Len(pipe) < HeaderUnits PROVE FALSE
  BY <1>1
<1>8. PICK p \in Nat : p = Len(pipe) + 1
  BY <1>1
<1>9. p \in 1..Len(stream) /\ p >= 2 /\ p <= HeaderUnits /\ Len(sending) >= 1
  BY <1>1, <1>2, <1>3, <1>4, <1>5, <1>7, <1>8
<1>10. stream[p] = <<n, p>>
  <2>1. 1 <= p /\ 1 + (p - 1) = p /\ p <= e
    BY <1>1, <1>4, <1>9
  <2>2. QED
    BY <1>6, <1>9, <2>1
<1>11. stream[p] = sending[1]
  <2>1. ~(p <= Len(pipe)) /\ p - Len(pipe) = 1 /\ p \in 1..Len(pipe) + Len(sending)
    BY <1>1, <1>3, <1>8, <1>9
  <2>2. QED
    BY <1>3, <2>1
<1>12. sending # <<>>
  <2>1. Len(sending) # 0
    BY <1>9
  <2>2. QED
    BY <2>1, EmptySeq
<1>13. PICK q \in 0..HeaderUnits + PayloadCap :
          /\ q = 0 \/ q >= HeaderUnits
          /\ \A i \in 1..Len(sending) : sending[i] = <<Len(sent), q + i>>
  BY <1>12 DEF StreamInv, SendingInv
<1>14. 1 \in 1..Len(sending) /\ q \in Nat
  BY <1>1, <1>9
<1>15. p = q + 1
  BY <1>10, <1>11, <1>13, <1>14
<1>16. QED
  BY <1>1, <1>9, <1>13, <1>14, <1>15

\* Behind the last unit of a packet the reader is at the next one.
LEMMA PacketEnd ==
    ASSUME NEW s \in Seq(Unit), NEW ss, Consecutive(s, ss), NEW e \in 1..Len(s),
           NEW n \in Nat, s[e] = <<n, End(n, ss)>>
    PROVE  AtPacket(Rest(s, e), ss, n + 1)
<1> DEFINE t == Rest(s, e)
<1>1. /\ Len(s) \in Nat /\ e \in Nat /\ e >= 1 /\ e <= Len(s) /\ t \in Seq(Unit)
      /\ Len(t) = Len(s) - e /\ \A i \in 1..Len(s) - e : t[i] = s[e + i]
  <2>1. Len(s) \in Nat
    BY LenProperties
  <2>2. e \in 0..Len(s) /\ e \in Nat /\ e >= 1 /\ e <= Len(s)
    BY <2>1
  <2>3. QED
    BY <2>1, <2>2, Split
<1>2. s[e][1] = n /\ s[e][2] = End(s[e][1], ss)
  OBVIOUS
<1> HIDE DEF t
<1>3. CASE t = <<>>
  <2>1. e = Len(s) /\ s # <<>>
    <3>1. Len(t) = 0
      BY <1>3
    <3>2. QED
      BY <1>1, <3>1, EmptySeq
  <2>2. n = Len(ss)
    BY <1>2, <2>1 DEF Consecutive
  <2>3. QED
    BY <1>3, <2>2 DEF AtPacket, t
<1>4. CASE t # <<>>
  <2>1. Len(t) >= 1
    BY <1>1, <1>4, EmptySeq
  <2>2. e + 1 \in 1..Len(s) /\ 1 \in 1..Len(s) - e
    BY <1>1, <2>1
  <2>3. s[e + 1] = <<n + 1, 1>>
    BY <1>2, <2>2 DEF Consecutive
  <2>4. t[1] = <<n + 1, 1>>
    BY <1>1, <2>2, <2>3
  <2>5. QED
    BY <1>4, <2>4 DEF AtPacket, t
<1>5. QED
  BY <1>3, <1>4

LEMMA Accepting ==
    ASSUME Typed, NEW n \in Nat, NEW b \in Seq(Unit),
           accepted' = Append(accepted, [hdr |-> n, body |-> b])
    PROVE  /\ accepted' \in Seq([hdr : Nat, body : Seq(Unit)])
           /\ Len(accepted) \in Nat /\ Len(accepted') = Len(accepted) + 1
           /\ \A i \in 1..Len(accepted) : accepted'[i] = accepted[i]
           /\ accepted'[Len(accepted')].hdr = n /\ accepted'[Len(accepted')].body = b
<1> DEFINE a == [hdr |-> n, body |-> b]
           T == [hdr : Nat, body : Seq(Unit)]
<1>1. a \in T /\ a.hdr = n /\ a.body = b
  OBVIOUS
<1>2. accepted \in Seq(T) /\ accepted' = Append(accepted, a)
  BY DEF Typed
<1> HIDE DEF a, T
<1>3. /\ Len(accepted) \in Nat /\ Append(accepted, a) \in Seq(T)
      /\ Len(Append(accepted, a)) = Len(accepted) + 1
      /\ \A i \in 1..Len(accepted) : Append(accepted, a)[i] = accepted[i]
      /\ Append(accepted, a)[Len(accepted) + 1] = a
  BY <1>1, <1>2, AppendProperties, LenProperties
<1>4. QED
  BY <1>1, <1>2, <1>3 DEF T

\* A packet later than those before joins what was accepted.
LEMMA AcceptKeepsOrder ==
    ASSUME Typed, OrderInv, NEW n \in 1..Len(sent), NEW b \in Seq(Unit),
           \A i \in 1..Len(accepted) : accepted[i].hdr < n,
           Accept(n, b), UNCHANGED sent
    PROVE  OrderInv'
<1>1. /\ Len(sent) \in Nat /\ n \in Nat /\ hdr' = n /\ mode' = "header"
      /\ accepted' = Append(accepted, [hdr |-> n, body |-> b])
  BY Facts DEF Accept
<1>2. PICK l \in Nat : l = Len(accepted) /\ Len(accepted') = l + 1
  BY <1>1, Accepting
<1>3. /\ \A i \in 1..l : accepted'[i] = accepted[i]
      /\ accepted'[l + 1].hdr = n
  BY <1>1, <1>2, Accepting
<1>4. /\ \A i \in 1..l : accepted[i].hdr \in 1..Len(sent) /\ accepted[i].hdr < n
      /\ \A i, j \in 1..l : i < j => accepted[i].hdr < accepted[j].hdr
  BY <1>2 DEF OrderInv
<1>5. \A i \in 1..l + 1 : i \in 1..l \/ i = l + 1
  OBVIOUS
<1>6. ASSUME NEW i \in 1..Len(accepted')
      PROVE  accepted'[i].hdr \in 1..Len(sent') /\ accepted'[i].hdr <= hdr'
  BY <1>1, <1>2, <1>3, <1>4, <1>5
<1>7. ASSUME NEW i \in 1..Len(accepted'), NEW j \in 1..Len(accepted'), i < j
      PROVE  accepted'[i].hdr < accepted'[j].hdr
  <2>1. i \in 1..l
    BY <1>2, <1>7
  <2>2. CASE j \in 1..l
    BY <1>3, <1>4, <1>7, <2>1, <2>2
  <2>3. CASE j = l + 1
    BY <1>3, <1>4, <2>1, <2>3
  <2>4. QED
    BY <1>2, <1>5, <2>2, <2>3
<1>8. QED
  BY <1>1, <1>6, <1>7 DEF OrderInv

\* A packet with its own payload does.
LEMMA AcceptKeepsIntact ==
    ASSUME Typed, IntactInv, NEW n \in 1..Len(sent), NEW b \in Seq(Unit),
           ~cutMidway => Begins(b, n) /\ Len(b) = sent[n],
           ~cutMidway => Whole(stream', sent'),
           Accept(n, b), UNCHANGED <<sent, cutMidway>>
    PROVE  IntactInv'
<1>1. /\ Len(sent) \in Nat /\ n \in Nat /\ mode' = "header"
      /\ accepted' = Append(accepted, [hdr |-> n, body |-> b])
  BY Facts DEF Accept
<1>2. PICK l \in Nat : l = Len(accepted) /\ Len(accepted') = l + 1
  BY <1>1, Accepting
<1>3. /\ \A i \in 1..l : accepted'[i] = accepted[i]
      /\ accepted'[l + 1].hdr = n /\ accepted'[l + 1].body = b
  BY <1>1, <1>2, Accepting
<1>4. \A i \in 1..l + 1 : i \in 1..l \/ i = l + 1
  OBVIOUS
<1>5. ASSUME ~cutMidway, NEW i \in 1..Len(accepted')
      PROVE  /\ Begins(accepted'[i].body, accepted'[i].hdr)
             /\ Len(accepted'[i].body) = sent[accepted'[i].hdr]
  <2>1. CASE i \in 1..l
    BY <1>2, <1>3, <1>5, <2>1 DEF IntactInv
  <2>2. CASE i = l + 1
    BY <1>3, <1>5, <2>2
  <2>3. QED
    BY <1>2, <1>4, <2>1, <2>2
<1>6. QED
  BY <1>1, <1>5 DEF IntactInv, Begins

\* And the next one in turn, without losses.
LEMMA AcceptKeepsLoss ==
    ASSUME Typed, LossInv, NEW n \in 1..Len(sent), NEW b \in Seq(Unit),
           faults = 0 => n = Len(accepted) + 1,
           faults = 0 => Consecutive(stream', sent') /\ AtPacket(stream', sent', n + 1),
           Accept(n, b), UNCHANGED <<sent, cutMidway, faults>>
    PROVE  LossInv'
<1>1. /\ Len(sent) \in Nat /\ n \in Nat /\ mode' = "header"
      /\ accepted' = Append(accepted, [hdr |-> n, body |-> b])
  BY Facts DEF Accept
<1>2. PICK l \in Nat : l = Len(accepted) /\ Len(accepted') = l + 1
  BY <1>1, Accepting
<1>3. /\ \A i \in 1..l : accepted'[i] = accepted[i]
      /\ accepted'[l + 1].hdr = n
  BY <1>1, <1>2, Accepting
<1>4. SUFFICES ASSUME faults = 0 PROVE LossInv'
  BY DEF LossInv
<1>5. \A i \in 1..Len(accepted') : accepted'[i].hdr = i
  <2>1. \A i \in 1..l + 1 : i \in 1..l \/ i = l + 1
    OBVIOUS
  <2>2. n = l + 1 /\ \A i \in 1..l : accepted[i].hdr = i
    BY <1>2, <1>4 DEF LossInv
  <2>3. QED
    BY <1>2, <1>3, <2>1, <2>2
<1>6. AtPacket(stream', sent', Len(accepted') + 1)
  <2>1. n = Len(accepted')
    BY <1>2, <1>4
  <2>2. QED
    BY <1>4, <2>1
<1>7. QED
  BY <1>1, <1>4, <1>5, <1>6 DEF LossInv

LEMMA ReadHeaderKeeps ==
    ASSUME FramingInv, ReadHeader
    PROVE  FramingInv'
<1>1. Typed /\ StreamInv /\ OrderInv /\ IntactInv /\ LossInv
  BY DEF FramingInv
<1> DEFINE k == Smaller(HeaderUnits, Len(pipe))
           units == Front(pipe, k)
           n == units[1][1]
<1>2. /\ mode = "header" /\ pipe # <<>> /\ pipe' = Rest(pipe, k)
      /\ \/ (~IsHeader(units) \/ sent[n] > PayloadCap) /\ UNCHANGED pspVars
         \/ IsHeader(units) /\ sent[n] = 0 /\ Accept(n, <<>>) /\ UNCHANGED tries
         \/ IsHeader(units) /\ sent[n] \in 1..PayloadCap /\ StartPayload(n)
      /\ UNCHANGED <<usbPacket, sent, sending, cutMidway, faults>>
  BY DEF ReadHeader, hostVars
<1>3. /\ HeaderUnits \in Nat /\ HeaderUnits >= 1 /\ Len(pipe) \in Nat /\ Len(pipe) >= 1
      /\ Len(stream) \in Nat /\ stream \in Seq(Unit) /\ Len(sent) \in Nat
      /\ \A p \in 1..Len(sent) : sent[p] \in Nat
  <2>1. pipe \in Seq(Unit)
    BY <1>1 DEF Typed
  <2>2. /\ HeaderUnits \in Nat /\ HeaderUnits >= 1 /\ Len(pipe) \in Nat
        /\ Len(stream) \in Nat /\ stream \in Seq(Unit) /\ Len(sent) \in Nat
        /\ \A p \in 1..Len(sent) : sent[p] \in Nat
    BY <1>1, Facts
  <2>3. Len(pipe) # 0
    BY <1>2, <2>1, EmptySeq
  <2>4. Len(pipe) >= 1
    BY <2>2, <2>3
  <2>5. QED
    BY <2>2, <2>4
<1>4. /\ k \in 0..Len(pipe) /\ k \in Nat /\ k >= 1
      /\ k = HeaderUnits \/ (k = Len(pipe) /\ k < HeaderUnits)
  BY <1>3 DEF Smaller
<1> HIDE DEF k
<1>5. /\ k \in 0..Len(stream) /\ stream' = Rest(stream, k)
      /\ pipe' \in Seq(Unit) /\ stream' \in Seq(Unit) /\ Len(stream') = Len(stream) - k
      /\ \A i \in 1..Len(stream) - k : stream'[i] = stream[k + i]
      /\ Len(units) = k /\ \A i \in 1..k : units[i] = stream[i]
      /\ OfPackets(stream', sent') /\ Ordered(stream') /\ Later(stream', hdr)
      /\ SendingInv'
      /\ Whole(stream, sent) => Whole(stream', sent')
      /\ Consecutive(stream, sent) => Consecutive(stream', sent')
  BY <1>1, <1>2, <1>4, Read
<1>6. /\ units[1] = stream[1] /\ 1 \in 1..Len(stream) /\ stream # <<>>
      /\ n \in 1..Len(sent) /\ n \in Nat /\ n = stream[1][1]
      /\ stream[1] = <<n, stream[1][2]>> /\ hdr \in Nat /\ n >= hdr
  <2>1. 1 \in 1..k /\ 1 \in 1..Len(stream)
    BY <1>3, <1>4, <1>5
  <2>2. units[1] = stream[1]
    BY <1>5, <2>1
  <2>3. stream[1][1] \in 1..Len(sent) /\ stream[1][1] >= hdr
    BY <1>1, <2>1 DEF StreamInv, OfPackets, Later
  <2>4. stream # <<>>
    BY <1>3, <2>1, EmptySeq
  <2>5. hdr \in Nat /\ n \in Nat
    BY <1>1, <1>3, <2>2, <2>3 DEF Typed
  <2>6. stream[1] = <<stream[1][1], stream[1][2]>>
    BY <1>3, <2>1, UnitType
  <2>7. QED
    BY <2>1, <2>2, <2>3, <2>4, <2>5, <2>6
<1> HIDE DEF units, n
<1>7. ~cutMidway => /\ Whole(stream, sent)
                    /\ stream[1][2] = 1 => k = HeaderUnits
  <2>1. ~cutMidway => Whole(stream, sent)
    BY <1>1 DEF IntactInv
  <2>2. ASSUME Whole(stream, sent), stream[1][2] = 1 PROVE k = HeaderUnits
    <3>1. Len(pipe) >= HeaderUnits
      BY <1>1, <1>2, <2>2, HeaderThere
    <3>2. QED
      BY <1>3, <1>4, <3>1
  <2>3. QED
    BY <2>1, <2>2
<1>8. faults = 0 => /\ ~cutMidway /\ Consecutive(stream, sent)
                    /\ n = Len(accepted) + 1 /\ stream[1][2] = 1
  <2>1. faults = 0 => stream[1] = <<Len(accepted) + 1, 1>>
    BY <1>1, <1>2, <1>6 DEF LossInv, AtPacket
  <2>2. QED
    BY <1>1, <1>6, <2>1 DEF LossInv
<1>9. CASE (~IsHeader(units) \/ sent[n] > PayloadCap) /\ UNCHANGED pspVars
  <2>1. UNCHANGED <<mode, hdr, body, tries, accepted>>
    BY <1>9 DEF pspVars
  <2>2. faults # 0
    <3>1. stream[1][2] = 1 => k # HeaderUnits
      <4>1. sent[n] \in PayloadSizes /\ PayloadSizes \subseteq 0..PayloadCap
        BY <1>1, <1>6, FramingAssumption DEF Typed
      <4>2. PayloadCap \in Nat /\ sent[n] \in 0..PayloadCap
        BY <4>1, FramingAssumption
      <4>3. ~(sent[n] > PayloadCap)
        BY <4>2
      <4>4. ~IsHeader(units)
        BY <1>9, <4>3
      <4>5. QED
        BY <1>5, <1>6, <4>4 DEF IsHeader
    <3>2. QED
      BY <1>7, <1>8, <3>1
  <2>3. Typed'
    BY <1>1, <1>2, <1>5, <2>1 DEF Typed
  <2>4. StreamInv'
    BY <1>1, <1>2, <1>5, <2>1 DEF StreamInv
  <2>5. OrderInv'
    BY <1>1, <1>2, <2>1 DEF OrderInv
  <2>6. IntactInv'
    BY <1>1, <1>2, <1>5, <2>1 DEF IntactInv
  <2>7. LossInv'
    BY <1>2, <2>2 DEF LossInv
  <2>8. QED
    BY <2>3, <2>4, <2>5, <2>6, <2>7 DEF FramingInv
<1>10. ASSUME IsHeader(units)
       PROVE  /\ k = HeaderUnits /\ stream[1] = <<n, 1>> /\ n > hdr
              /\ Later(stream', n)
              /\ \A i \in 1..Len(accepted) : accepted[i].hdr < n
  <2>1. k = HeaderUnits /\ stream[1][2] = 1
    BY <1>5, <1>6, <1>10 DEF IsHeader
  <2>2. n > hdr
    BY <1>1, <1>6, <2>1 DEF StreamInv, Later
  <2>3. Later(stream', n)
    <3>1. ASSUME NEW i \in 1..Len(stream')
          PROVE  stream'[i][1] >= n /\ (stream'[i][2] = 1 => stream'[i][1] > n)
      <4>1. k + i \in 1..Len(stream) /\ 1 < k + i /\ i \in 1..Len(stream) - k
        BY <1>3, <1>4, <1>5
      <4>2. /\ n <= stream[k + i][1]
            /\ stream[k + i][2] = 1 => n < stream[k + i][1]
        BY <1>1, <1>6, <4>1 DEF StreamInv, Ordered
      <4>3. stream'[i] = stream[k + i]
        BY <1>5, <4>1
      <4>4. stream'[i][1] \in Nat
        BY <1>5, UnitType
      <4>5. QED
        BY <1>6, <4>2, <4>3, <4>4
    <3>2. QED
      BY <3>1 DEF Later
  <2>4. ASSUME NEW i \in 1..Len(accepted) PROVE accepted[i].hdr < n
    <3>1. accepted[i].hdr \in 1..Len(sent) /\ accepted[i].hdr <= hdr
      BY <1>1 DEF OrderInv
    <3>2. QED
      BY <1>3, <1>6, <2>2, <3>1
  <2>5. QED
    BY <1>6, <2>1, <2>2, <2>3, <2>4
<1>11. CASE IsHeader(units) /\ sent[n] = 0 /\ Accept(n, <<>>) /\ UNCHANGED tries
  <2>1. /\ mode' = "header" /\ hdr' = n /\ body' = <<>> /\ tries' = tries
        /\ accepted' = Append(accepted, [hdr |-> n, body |-> <<>>])
    BY <1>11 DEF Accept
  <2>2. <<>> \in Seq(Unit) /\ Len(<<>>) = 0 /\ 0 <= PayloadCap
    BY EmptySeq, FramingAssumption
  <2>3. Typed'
    <3>1. accepted' \in Seq([hdr : Nat, body : Seq(Unit)])
      BY <1>1, <1>6, <2>1, <2>2, Accepting
    <3>2. hdr' \in 0..Len(sent')
      BY <1>2, <1>3, <1>6, <2>1
    <3>3. QED
      BY <1>1, <1>2, <1>5, <2>1, <2>2, <3>1, <3>2 DEF Typed
  <2>4. StreamInv'
    <3>1. OfPackets(body', sent')
      BY <2>1, <2>2 DEF OfPackets
    <3>2. QED
      BY <1>5, <1>10, <1>11, <2>1, <3>1 DEF StreamInv
  <2>5. OrderInv'
    BY <1>1, <1>2, <1>6, <1>10, <1>11, <2>2, AcceptKeepsOrder
  <2>6. IntactInv'
    <3>1. Begins(<<>>, n) /\ Len(<<>>) = sent[n]
      BY <1>11, <2>2 DEF Begins
    <3>2. QED
      BY <1>1, <1>2, <1>5, <1>6, <1>7, <1>11, <2>2, <3>1, AcceptKeepsIntact
  <2>7. LossInv'
    <3>1. ASSUME faults = 0 PROVE AtPacket(stream', sent', n + 1)
      <4>1. Whole(stream, sent) /\ Consecutive(stream, sent)
        BY <1>7, <1>8, <3>1
      <4>2. End(n, sent) = HeaderUnits
        BY <1>3, <1>11 DEF End
      <4>3. k \in 1..Len(stream) /\ 1 <= k /\ 1 + (k - 1) = k
        BY <1>3, <1>4, <1>5
      <4>4. stream[k] = <<n, k>>
        <5>1. stream[1][1] = n /\ stream[1][2] = 1
          BY <1>10, <1>11
        <5>2. k = HeaderUnits
          BY <1>10, <1>11
        <5>3. 1 + (k - 1) <= End(stream[1][1], sent)
          BY <1>3, <4>2, <4>3, <5>1, <5>2
        <5>4. stream[k] = <<stream[1][1], 1 + (k - 1)>>
          BY <1>6, <4>1, <4>3, <5>1, <5>3 DEF Whole
        <5>5. QED
          BY <4>3, <5>1, <5>4
      <4>5. stream[k] = <<n, End(n, sent)>>
        BY <1>10, <1>11, <4>2, <4>4
      <4>6. AtPacket(Rest(stream, k), sent, n + 1)
        BY <1>3, <1>6, <4>1, <4>3, <4>5, PacketEnd
      <4>7. QED
        BY <1>2, <1>5, <4>6
    <3>2. QED
      BY <1>1, <1>2, <1>5, <1>6, <1>8, <1>11, <2>2, <3>1, AcceptKeepsLoss
  <2>8. QED
    BY <2>3, <2>4, <2>5, <2>6, <2>7 DEF FramingInv
<1>12. CASE IsHeader(units) /\ sent[n] \in 1..PayloadCap /\ StartPayload(n)
  <2>1. /\ mode' = "payload" /\ hdr' = n /\ body' = <<>> /\ tries' = 0
        /\ accepted' = accepted
    BY <1>12 DEF StartPayload
  <2>2. <<>> \in Seq(Unit) /\ Len(<<>>) = 0 /\ 0 <= PayloadCap
    BY EmptySeq, FramingAssumption
  <2>3. sent[n] \in Nat /\ sent[n] >= 1
    BY <1>3, <1>6, <1>12
  <2>4. Typed'
    <3>1. hdr' \in 0..Len(sent') /\ hdr' # 0 /\ Len(body') < sent'[hdr']
      BY <1>2, <1>3, <1>6, <2>1, <2>2, <2>3
    <3>2. tries' \in 0..MaxTries /\ tries' < MaxTries
      BY <2>1, FramingAssumption
    <3>3. QED
      BY <1>1, <1>2, <1>5, <2>1, <2>2, <3>1, <3>2 DEF Typed
  <2>5. StreamInv'
    <3>1. OfPackets(body', sent')
      BY <2>1, <2>2 DEF OfPackets
    <3>2. QED
      BY <1>5, <1>10, <1>12, <2>1, <3>1 DEF StreamInv
  <2>6. OrderInv'
    <3>1. ASSUME NEW i \in 1..Len(accepted')
          PROVE  accepted'[i].hdr \in 1..Len(sent') /\ accepted'[i].hdr < hdr'
      BY <1>1, <1>2, <1>10, <1>12, <2>1 DEF OrderInv
    <3>2. \A i \in 1..Len(accepted') : accepted'[i].hdr <= hdr'
      BY <1>2, <1>3, <1>6, <2>1, <3>1
    <3>3. \A i, j \in 1..Len(accepted') : i < j => accepted'[i].hdr < accepted'[j].hdr
      BY <1>1, <2>1 DEF OrderInv
    <3>4. QED
      BY <3>1, <3>2, <3>3 DEF OrderInv
  <2>7. IntactInv'
    <3> SUFFICES ASSUME ~cutMidway PROVE IntactInv'
      BY <1>2 DEF IntactInv
    <3>1. Whole(stream, sent)
      BY <1>7
    <3>2. stream[1][1] = n /\ stream[1][2] = 1 /\ k = HeaderUnits
      BY <1>10, <1>12
    <3>3. End(n, sent) = HeaderUnits + sent[n]
      BY DEF End
    <3>4. 1 + (Len(stream) - 1) >= HeaderUnits + sent[n]
      BY <1>6, <3>1, <3>2, <3>3 DEF Whole
    <3>5. k + 1 \in 1..Len(stream) /\ 1 <= k + 1 /\ 1 \in 1..Len(stream) - k
      BY <1>3, <2>3, <3>2, <3>4
    <3>6. 1 + ((k + 1) - 1) <= HeaderUnits + sent[n]
      BY <1>3, <2>3, <3>2
    <3>7. stream[k + 1] = <<n, 1 + ((k + 1) - 1)>>
      <4>1. \A j \in 1..Len(stream) :
                1 <= j /\ 1 + (j - 1) <= HeaderUnits + sent[n] => stream[j] = <<n, 1 + (j - 1)>>
        BY <1>6, <3>1, <3>2, <3>3 DEF Whole
      <4>2. QED
        BY <3>5, <3>6, <4>1
    <3>8. stream'[1] = <<n, HeaderUnits + 0 + 1>>
      <4>1. 1 + ((k + 1) - 1) = HeaderUnits + 0 + 1
        BY <1>3, <3>2
      <4>2. stream'[1] = stream[k + 1]
        BY <1>5, <3>5
      <4>3. QED
        BY <3>7, <4>1, <4>2
    <3>9. stream' # <<>>
      <4>1. Len(stream') # 0
        BY <1>3, <1>4, <1>5, <3>5
      <4>2. QED
        BY <4>1, EmptySeq
    <3>10. Begins(body', hdr')
      BY <2>1, <2>2 DEF Begins
    <3>11. \A i \in 1..Len(accepted) :
              /\ Begins(accepted[i].body, accepted[i].hdr)
              /\ Len(accepted[i].body) = sent[accepted[i].hdr]
      BY <1>1 DEF IntactInv
    <3>12. QED
      BY <1>2, <1>5, <2>1, <2>2, <3>1, <3>8, <3>9, <3>10, <3>11 DEF IntactInv
  <2>8. LossInv'
    BY <1>1, <1>2, <1>5, <1>8, <2>1 DEF LossInv
  <2>9. QED
    BY <2>4, <2>5, <2>6, <2>7, <2>8 DEF FramingInv
<1>13. QED
  <2>1. \/ (~IsHeader(units) \/ sent[n] > PayloadCap) /\ UNCHANGED pspVars
        \/ IsHeader(units) /\ sent[n] = 0 /\ Accept(n, <<>>) /\ UNCHANGED tries
        \/ IsHeader(units) /\ sent[n] \in 1..PayloadCap /\ StartPayload(n)
    BY <1>2 DEF units, n, k
  <2>2. QED
    BY <1>9, <1>11, <1>12, <2>1

LEMMA ReadPayloadKeeps ==
    ASSUME FramingInv, ReadPayload
    PROVE  FramingInv'
<1>1. Typed /\ StreamInv /\ OrderInv /\ IntactInv /\ LossInv
  BY DEF FramingInv
<1> DEFINE missing == sent[hdr] - Len(body)
           k == Smaller(missing, Len(pipe))
           units == body \o Front(pipe, k)
<1>2. /\ mode = "payload" /\ pipe # <<>> /\ pipe' = Rest(pipe, k)
      /\ IF Len(units) >= sent[hdr]
         THEN Accept(hdr, units)
         ELSE body' = units /\ UNCHANGED <<mode, hdr, accepted>>
      /\ UNCHANGED <<usbPacket, sent, sending, tries, cutMidway, faults>>
  BY DEF ReadPayload, hostVars
<1>3. /\ HeaderUnits \in Nat /\ HeaderUnits >= 1 /\ Len(pipe) \in Nat /\ Len(pipe) >= 1
      /\ Len(stream) \in Nat /\ stream \in Seq(Unit) /\ Len(sent) \in Nat
      /\ body \in Seq(Unit) /\ Len(body) \in Nat
      /\ hdr \in 1..Len(sent) /\ hdr \in Nat /\ sent[hdr] \in Nat /\ Len(body) < sent[hdr]
      /\ PayloadCap \in Nat /\ sent[hdr] <= PayloadCap
  <2>1. hdr \in 0..Len(sent) /\ hdr # 0 /\ Len(body) < sent[hdr] /\ body \in Seq(Unit)
    BY <1>1, <1>2 DEF Typed
  <2>2. /\ HeaderUnits \in Nat /\ HeaderUnits >= 1 /\ Len(pipe) \in Nat /\ Len(sent) \in Nat
        /\ Len(stream) \in Nat /\ stream \in Seq(Unit) /\ Len(body) \in Nat
        /\ \A p \in 1..Len(sent) : sent[p] \in Nat /\ sent[p] \in 0..PayloadCap
        /\ PayloadCap \in Nat
    BY <1>1, Facts
  <2>3. Len(pipe) >= 1
    BY <1>1, <1>2, <2>2, EmptySeq DEF Typed
  <2>4. hdr \in 1..Len(sent) /\ hdr \in Nat
    BY <2>1, <2>2
  <2>5. sent[hdr] <= PayloadCap
    BY <2>2, <2>4
  <2>6. QED
    BY <2>1, <2>2, <2>3, <2>4, <2>5
<1>4. missing \in Nat /\ missing >= 1 /\ missing = sent[hdr] - Len(body)
  BY <1>3
<1> HIDE DEF missing
<1>5. k \in 0..Len(pipe) /\ k \in Nat /\ k >= 1 /\ k <= missing
  BY <1>3, <1>4 DEF Smaller
<1> HIDE DEF k
<1>6. /\ k \in 0..Len(stream) /\ stream' = Rest(stream, k)
      /\ pipe' \in Seq(Unit) /\ stream' \in Seq(Unit) /\ Len(stream') = Len(stream) - k
      /\ \A i \in 1..Len(stream) - k : stream'[i] = stream[k + i]
      /\ Front(pipe, k) \in Seq(Unit) /\ Len(Front(pipe, k)) = k
      /\ \A i \in 1..k : Front(pipe, k)[i] = stream[i]
      /\ OfPackets(stream', sent') /\ Ordered(stream') /\ Later(stream', hdr)
      /\ SendingInv'
      /\ Whole(stream, sent) => Whole(stream', sent')
      /\ Consecutive(stream, sent) => Consecutive(stream', sent')
  BY <1>1, <1>2, <1>5, Read
<1>7. /\ units \in Seq(Unit) /\ Len(units) = Len(body) + k
      /\ \A i \in 1..Len(body) : units[i] = body[i]
      /\ \A i \in 1..k : units[Len(body) + i] = stream[i]
  <2> DEFINE f == Front(pipe, k)
  <2>1. f \in Seq(Unit) /\ Len(f) = k /\ \A i \in 1..k : f[i] = stream[i]
    BY <1>6
  <2> HIDE DEF f
  <2>2. /\ body \o f \in Seq(Unit) /\ Len(body \o f) = Len(body) + Len(f)
        /\ \A i \in 1..Len(body) + Len(f) :
              (body \o f)[i] = IF i <= Len(body) THEN body[i] ELSE f[i - Len(body)]
    BY ZenonT(30), <1>3, <2>1, ConcatProperties
  <2>3. units = body \o f
    BY DEF f
  <2> HIDE DEF units
  <2>4. \A i \in 1..Len(body) : i \in 1..Len(body) + Len(f) /\ i <= Len(body)
    BY <1>3, <1>5, <2>1
  <2>5. \A i \in 1..k : /\ Len(body) + i \in 1..Len(body) + Len(f)
                        /\ ~(Len(body) + i <= Len(body)) /\ Len(body) + i - Len(body) = i
    BY <1>3, <1>5, <2>1
  <2>6. QED
    BY <2>1, <2>2, <2>3, <2>4, <2>5
<1> HIDE DEF units
<1>8. OfPackets(units, sent)
  <2>1. OfPackets(body, sent) /\ OfPackets(stream, sent)
    BY <1>1 DEF StreamInv
  <2>2. ASSUME NEW i \in 1..Len(units)
        PROVE  \/ i \in 1..Len(body)
               \/ \E j \in 1..k : j \in 1..Len(stream) /\ i = Len(body) + j
    <3>1. CASE i <= Len(body)
      BY <1>3, <1>7, <3>1
    <3>2. CASE i > Len(body)
      <4>1. PICK l \in Nat : l = Len(stream) /\ k <= l
        BY <1>3, <1>6
      <4>2. i > Len(body) /\ i <= Len(body) + k /\ i \in Int
        BY <1>7, <3>2
      <4>3. PICK j \in Int : j = i - Len(body)
        BY <1>3
      <4>4. j \in 1..k /\ j \in 1..l /\ i = Len(body) + j
        BY <1>3, <1>5, <4>1, <4>2, <4>3
      <4>5. QED
        BY <4>1, <4>4
    <3>3. i \in Int /\ Len(body) \in Int
      BY <1>3, <1>5, <1>7
    <3>4. QED
      BY <3>1, <3>2, <3>3
  <2>3. ASSUME NEW i \in 1..Len(units)
        PROVE  units[i][1] \in 1..Len(sent) /\ units[i][2] \in 1..End(units[i][1], sent)
    <3>1. CASE i \in 1..Len(body)
      BY <1>7, <2>1, <3>1 DEF OfPackets
    <3>2. CASE \E j \in 1..k : j \in 1..Len(stream) /\ i = Len(body) + j
      <4>1. PICK j \in 1..k : j \in 1..Len(stream) /\ i = Len(body) + j
        BY <3>2
      <4>2. units[i] = stream[j]
        BY <1>7, <4>1
      <4>3. QED
        BY <2>1, <4>1, <4>2 DEF OfPackets
    <3>3. QED
      BY <2>2, <3>1, <3>2
  <2>4. QED
    BY <2>3 DEF OfPackets
\* While no transfer was cut, the payload goes on where it was left.
<1>9. ASSUME ~cutMidway
      PROVE  /\ Whole(stream, sent) /\ Begins(units, hdr) /\ Len(stream) >= missing
             /\ \A j \in 1..missing : stream[j] = <<hdr, HeaderUnits + (Len(body) + j)>>
  <2>1. /\ Whole(stream, sent) /\ Begins(body, hdr) /\ stream # <<>>
        /\ stream[1] = <<hdr, HeaderUnits + Len(body) + 1>>
    BY <1>1, <1>2, <1>9 DEF IntactInv
  <2> DEFINE e == End(hdr, sent)
             a == HeaderUnits + Len(body) + 1
  <2>2. stream[1][1] = hdr /\ stream[1][2] = a /\ 1 \in 1..Len(stream)
    BY <1>3, <2>1, EmptySeq
  <2>3. /\ e \in Nat /\ a \in Nat /\ e = HeaderUnits + sent[hdr]
        /\ \A j \in 1..missing : a + (j - 1) <= e /\ a + (j - 1) = HeaderUnits + (Len(body) + j)
    BY SMTT(30), <1>3, <1>4 DEF End
  <2>4. a + (Len(stream) - 1) >= e
    BY <2>1, <2>2 DEF Whole
  <2>5. \A j \in 1..Len(stream) : 1 <= j /\ a + (j - 1) <= e => stream[j] = <<hdr, a + (j - 1)>>
    BY <2>1, <2>2 DEF Whole
  <2>6. Len(stream) >= missing
    BY SMTT(30), <1>3, <1>4, <2>3, <2>4
  <2> HIDE DEF e, a
  <2>7. ASSUME NEW j \in 1..missing PROVE stream[j] = <<hdr, HeaderUnits + (Len(body) + j)>>
    <3>1. j \in 1..Len(stream) /\ 1 <= j
      BY <1>3, <1>4, <2>6
    <3>2. QED
      BY <2>3, <2>5, <3>1
  <2>8. ASSUME NEW i \in 1..Len(units) PROVE units[i] = <<hdr, HeaderUnits + i>>
    <3>1. CASE i <= Len(body)
      <4>1. i \in 1..Len(body)
        BY <1>3, <3>1
      <4>2. QED
        BY <1>7, <2>1, <4>1 DEF Begins
    <3>2. CASE i > Len(body)
      <4>1. PICK j \in Int : j = i - Len(body)
        BY <1>3
      <4>2. PICK m \in Nat : m = missing /\ k <= m
        BY <1>4, <1>5
      <4>3. i > Len(body) /\ i <= Len(body) + k /\ i \in Int
        BY <1>7, <3>2
      <4>4. j \in 1..k /\ j \in 1..m /\ i = Len(body) + j
        BY <1>3, <1>5, <4>1, <4>2, <4>3
      <4>5. units[i] = stream[j]
        BY <1>7, <4>4
      <4>6. QED
        BY <2>7, <4>2, <4>4, <4>5
    <3>3. QED
      BY <1>3, <1>7, <3>1, <3>2
  <2>9. QED
    BY <2>1, <2>6, <2>7, <2>8 DEF Begins
<1>10. CASE Len(units) >= sent[hdr]
  <2>1. Accept(hdr, units) /\ Len(units) = sent[hdr] /\ k = missing
    <3>1. Accept(hdr, units)
      BY <1>2, <1>10 DEF units, k, missing
    <3>2. PICK b \in Nat, l \in Nat : b = Len(body) /\ l = sent[hdr]
      BY <1>3
    <3>3. b + k >= l /\ k <= l - b
      BY <1>4, <1>5, <1>7, <1>10, <3>2
    <3>4. k = l - b /\ b + k = l
      BY <1>5, <3>2, <3>3
    <3>5. QED
      BY <1>4, <1>7, <3>1, <3>2, <3>4
  <2>2. /\ mode' = "header" /\ hdr' = hdr /\ body' = units
        /\ accepted' = Append(accepted, [hdr |-> hdr, body |-> units])
    BY <2>1 DEF Accept
  <2>3. Typed'
    <3>1. accepted' \in Seq([hdr : Nat, body : Seq(Unit)])
      BY <1>1, <1>3, <1>7, <2>2, Accepting
    <3>2. Len(body') <= PayloadCap
      BY <1>3, <2>1, <2>2
    <3>3. QED
      BY <1>1, <1>2, <1>6, <1>7, <2>2, <3>1, <3>2 DEF Typed
  <2>4. StreamInv'
    BY <1>2, <1>6, <1>8, <2>2 DEF StreamInv
  <2>5. OrderInv'
    <3>1. \A i \in 1..Len(accepted) : accepted[i].hdr < hdr
      BY <1>1, <1>2 DEF OrderInv
    <3>2. QED
      BY <1>1, <1>2, <1>3, <1>7, <2>1, <3>1, AcceptKeepsOrder
  <2>6. IntactInv'
    BY <1>1, <1>2, <1>3, <1>6, <1>7, <1>9, <2>1, AcceptKeepsIntact
  <2>7. LossInv'
    <3>1. faults = 0 => /\ ~cutMidway /\ Consecutive(stream, sent)
                        /\ hdr = Len(accepted) + 1
      BY <1>1, <1>2 DEF LossInv
    <3>2. ASSUME faults = 0 PROVE AtPacket(stream', sent', hdr + 1)
      <4>1. k \in 1..Len(stream) /\ k \in 1..missing
        BY <1>3, <1>4, <1>5, <1>6
      <4>2. HeaderUnits + (Len(body) + k) = End(hdr, sent)
        BY SMTT(30), <1>3, <1>4, <2>1 DEF End
      <4>3. stream[k] = <<hdr, HeaderUnits + (Len(body) + k)>>
        BY <1>9, <3>1, <3>2, <4>1
      <4>4. stream[k] = <<hdr, End(hdr, sent)>>
        BY <4>2, <4>3
      <4>5. AtPacket(Rest(stream, k), sent, hdr + 1)
        BY <1>3, <3>1, <3>2, <4>1, <4>4, PacketEnd
      <4>6. QED
        BY <1>2, <1>6, <4>5
    <3>3. QED
      BY <1>1, <1>2, <1>3, <1>6, <1>7, <2>1, <3>1, <3>2, AcceptKeepsLoss
  <2>8. QED
    BY <2>3, <2>4, <2>5, <2>6, <2>7 DEF FramingInv
<1>11. CASE ~(Len(units) >= sent[hdr])
  <2>1. body' = units /\ mode' = "payload" /\ hdr' = hdr /\ accepted' = accepted
    BY <1>2, <1>11 DEF units, k, missing
  <2>2. Len(units) < sent[hdr] /\ k < missing
    BY SMTT(30), <1>3, <1>4, <1>5, <1>7, <1>11
  <2>3. Typed'
    <3>1. Len(body') <= PayloadCap
      <4>1. PICK l \in Nat : l = Len(units)
        BY <1>3, <1>5, <1>7
      <4>2. QED
        BY <1>3, <2>1, <2>2, <4>1
    <3>2. QED
      BY <1>1, <1>2, <1>6, <1>7, <2>1, <2>2, <3>1 DEF Typed
  <2>4. StreamInv'
    BY <1>2, <1>6, <1>8, <2>1 DEF StreamInv
  <2>5. OrderInv'
    BY <1>1, <1>2, <2>1 DEF OrderInv
  <2>6. IntactInv'
    <3> SUFFICES ASSUME ~cutMidway PROVE IntactInv'
      BY <1>2 DEF IntactInv
    <3>1. /\ Whole(stream, sent) /\ Begins(units, hdr) /\ Len(stream) >= missing
          /\ \A j \in 1..missing : stream[j] = <<hdr, HeaderUnits + (Len(body) + j)>>
      BY <1>9
    <3>2. k + 1 \in 1..missing /\ 1 \in 1..Len(stream) - k /\ Len(stream) - k # 0
      <4>1. PICK l \in Nat : l = Len(stream)
        BY <1>3
      <4>2. k < missing /\ missing <= l
        BY <2>2, <3>1, <4>1
      <4>3. k + 1 \in 1..missing /\ 1 \in 1..l - k /\ l - k # 0
        BY <1>4, <1>5, <4>2
      <4>4. QED
        BY <4>1, <4>3
    <3>3. HeaderUnits + (Len(body) + (k + 1)) = HeaderUnits + Len(units) + 1
      BY <1>3, <1>5, <1>7
    <3>4. stream[k + 1] = <<hdr, HeaderUnits + (Len(body) + (k + 1))>>
      BY <3>1, <3>2
    <3>5. stream'[1] = <<hdr, HeaderUnits + Len(units) + 1>>
      BY <1>6, <3>2, <3>3, <3>4
    <3>6. stream' # <<>>
      BY <1>6, <3>2, EmptySeq
    <3>7. /\ Whole(stream', sent')
          /\ \A i \in 1..Len(accepted) :
                /\ Begins(accepted[i].body, accepted[i].hdr)
                /\ Len(accepted[i].body) = sent[accepted[i].hdr]
      BY <1>1, <1>6, <3>1 DEF IntactInv
    <3>8. Begins(body', hdr') /\ Len(body') = Len(units)
      BY <2>1, <3>1
    <3>9. QED
      BY <1>2, <2>1, <3>5, <3>6, <3>7, <3>8 DEF IntactInv
  <2>7. LossInv'
    BY <1>1, <1>2, <1>6, <2>1 DEF LossInv
  <2>8. QED
    BY <2>3, <2>4, <2>5, <2>6, <2>7 DEF FramingInv
<1>12. QED
  BY <1>10, <1>11

LEMMA WaitPayloadKeeps ==
    ASSUME FramingInv, WaitPayload
    PROVE  FramingInv'
<1>1. Typed /\ StreamInv /\ OrderInv /\ IntactInv /\ LossInv
  BY DEF FramingInv
<1>2. /\ mode = "payload" /\ pipe = <<>>
      /\ UNCHANGED <<usbPacket, sent, sending, pipe, hdr, body, accepted, cutMidway>>
      /\ tries' = tries + 1
      /\ \/ tries + 1 < MaxTries /\ UNCHANGED <<mode, faults>>
         \/ /\ mode' = "header"
            /\ \/ sending = <<>> /\ UNCHANGED faults
               \/ faults < MaxFaults /\ faults' = faults + 1
  BY DEF WaitPayload, PayloadMissing, NoFault, Stall, Fault, hostVars
<1>3. stream' = stream
  BY <1>2 DEF stream
<1>4. /\ tries \in Nat /\ tries < MaxTries /\ MaxTries \in Nat
      /\ faults \in Nat /\ MaxFaults \in Nat /\ mode' \in {mode, "header"}
  BY <1>1, <1>2, FramingAssumption DEF Typed
<1>5. Typed'
  <2>1. tries' \in 0..MaxTries /\ faults' \in 0..MaxFaults
    BY <1>1, <1>2, <1>4 DEF Typed
  <2>2. mode' = "payload" => tries' < MaxTries
    BY <1>2
  <2>3. mode' = "payload" => hdr' # 0 /\ Len(body') < sent'[hdr']
    BY <1>1, <1>2 DEF Typed
  <2>4. mode' \in {"header", "payload"}
    BY <1>2, <1>4
  <2>5. QED
    BY <1>1, <1>2, <2>1, <2>2, <2>3, <2>4 DEF Typed
<1>6. StreamInv'
  BY <1>1, <1>2, <1>3 DEF StreamInv, SendingInv
<1>7. OrderInv'
  BY <1>1, <1>2, <1>4 DEF OrderInv
<1>8. IntactInv'
  BY <1>1, <1>2, <1>3, <1>4 DEF IntactInv
\* Without faults the rest of the payload is in the pipe or on its way.
<1>9. LossInv'
  <2>1. ASSUME faults' = 0 PROVE faults = 0 /\ mode' = "payload"
    <3>1. faults = 0 /\ ~cutMidway
      BY <1>1, <1>2, <1>4, <2>1 DEF LossInv
    <3>2. stream # <<>>
      BY <1>1, <1>2, <3>1 DEF IntactInv
    <3>3. sending # <<>>
      BY <1>2, <3>2, ConcatEqualIffEmpty, EmptySeq DEF stream
    <3>4. ~(faults < MaxFaults /\ faults' = faults + 1)
      BY <1>4, <2>1
    <3>5. QED
      BY <1>2, <3>1, <3>3, <3>4
  <2>2. QED
    BY <1>1, <1>2, <1>3, <2>1 DEF LossInv
<1>10. QED
  BY <1>5, <1>6, <1>7, <1>8, <1>9 DEF FramingInv

LEMMA ReadErrorKeeps ==
    ASSUME FramingInv, ReadError
    PROVE  FramingInv'
<1>1. Typed /\ StreamInv /\ OrderInv /\ IntactInv /\ LossInv
  BY DEF FramingInv
<1>2. /\ UNCHANGED <<usbPacket, sent, sending, pipe, hdr, body, tries, accepted, cutMidway>>
      /\ mode' = "header" /\ faults < MaxFaults /\ faults' = faults + 1
  BY DEF ReadError, Fault, hostVars
<1>3. stream' = stream
  BY <1>2 DEF stream
<1>4. faults' \in 0..MaxFaults /\ faults' # 0
  BY <1>1, <1>2, FramingAssumption DEF Typed
<1>5. Typed' /\ StreamInv'
  BY <1>1, <1>2, <1>3, <1>4 DEF Typed, StreamInv, SendingInv
<1>6. OrderInv' /\ IntactInv' /\ LossInv'
  BY <1>1, <1>2, <1>3, <1>4 DEF OrderInv, IntactInv, LossInv
<1>7. QED
  BY <1>5, <1>6 DEF FramingInv

-----------------------------------------------------------------------------
LEMMA InitEstablishes ==
    ASSUME Init
    PROVE  FramingInv
<1>1. /\ usbPacket \in UsbPackets /\ sent = <<>> /\ sending = <<>> /\ pipe = <<>>
      /\ mode = "header" /\ hdr = 0 /\ body = <<>> /\ tries = 0 /\ accepted = <<>>
      /\ cutMidway = FALSE /\ faults = 0
  BY DEF Init
<1>2. \A S : <<>> \in Seq(S) /\ Len(<<>>) = 0
  BY EmptySeq
<1>3. stream = <<>>
  BY <1>1, <1>2, ConcatEmptySeq DEF stream
<1>4. Typed
  <2>1. 0 <= PayloadCap /\ 0 <= MaxSends /\ 0 \in 0..MaxTries /\ 0 \in 0..MaxFaults
    BY FramingAssumption
  <2>2. 0 \in 0..0
    OBVIOUS
  <2>3. QED
    BY <1>1, <1>2, <2>1, <2>2 DEF Typed
<1>5. StreamInv
  BY <1>1, <1>2, <1>3 DEF StreamInv, OfPackets, Ordered, Later, SendingInv
<1>6. OrderInv /\ IntactInv
  BY <1>1, <1>2, <1>3 DEF OrderInv, IntactInv, Whole
<1>7. LossInv
  BY <1>1, <1>2, <1>3 DEF LossInv, Consecutive, AtPacket
<1>8. QED
  BY <1>4, <1>5, <1>6, <1>7 DEF FramingInv

\* Every reachable state satisfies the inductive invariant.
LEMMA FramingAlways ==
    Spec => []FramingInv
<1>1. Init => FramingInv
  BY InitEstablishes
<1>2. FramingInv /\ [Next]_vars => FramingInv'
  <2> SUFFICES ASSUME FramingInv, [Next]_vars PROVE FramingInv'
    OBVIOUS
  <2>1. CASE BeginSend
    BY <2>1, BeginSendKeeps
  <2>2. CASE Deliver
    BY <2>2, DeliverKeeps
  <2>3. CASE SendCut
    BY <2>3, SendCutKeeps
  <2>4. CASE ReadHeader
    BY <2>4, ReadHeaderKeeps
  <2>5. CASE ReadPayload
    BY <2>5, ReadPayloadKeeps
  <2>6. CASE WaitPayload
    BY <2>6, WaitPayloadKeeps
  <2>7. CASE ReadError
    BY <2>7, ReadErrorKeeps
  <2>8. CASE UNCHANGED vars
    <3>1. UNCHANGED <<usbPacket, sent, sending, pipe, mode, hdr, body, tries, accepted,
                      cutMidway, faults>>
      BY <2>8 DEF vars, hostVars, pspVars
    <3>2. stream' = stream
      BY <3>1 DEF stream
    <3>3. Typed' /\ StreamInv'
      BY <3>1, <3>2 DEF FramingInv, Typed, StreamInv, SendingInv
    <3>4. OrderInv' /\ IntactInv' /\ LossInv'
      BY <3>1, <3>2 DEF FramingInv, OrderInv, IntactInv, LossInv
    <3>5. QED
      BY <3>3, <3>4 DEF FramingInv
  <2>9. QED
    BY <2>1, <2>2, <2>3, <2>4, <2>5, <2>6, <2>7, <2>8 DEF Next, PspRead
<1>3. QED
  BY <1>1, <1>2, PTL DEF Spec

\* The payload loop asks for no more than is missing of the packet it is in
\* (pay_hdr.length - pay_received), so it never writes past payload_buf, whatever
\* was cut or misread before and whatever is in the stream behind.
THEOREM TypeCorrect ==
    Spec => []TypeOK
<1>1. FramingInv => TypeOK
  <2> SUFFICES ASSUME FramingInv PROVE TypeOK
    OBVIOUS
  <2>1. Typed /\ StreamInv
    BY DEF FramingInv
  <2>2. /\ PayloadCap \in Nat /\ HeaderUnits \in Nat /\ Len(sent) \in Nat /\ MaxSends \in Nat
        /\ \A n \in 1..Len(sent) : sent[n] \in 0..PayloadCap
        /\ pipe \in Seq(Unit) /\ sending \in Seq(Unit) /\ body \in Seq(Unit)
        /\ Len(body) \in Nat /\ Len(sent) <= MaxSends
    BY <2>1, Facts, FramingAssumption DEF Typed
  <2> DEFINE U == (1..MaxSends) \X (1..HeaderUnits + PayloadCap)
  <2>3. ASSUME NEW s \in Seq(Unit), OfPackets(s, sent), NEW i \in DOMAIN s PROVE s[i] \in U
    <3>1. i \in 1..Len(s)
      BY <2>3, LenProperties
    <3>2. s[i] = <<s[i][1], s[i][2]>>
      BY <2>3, <3>1, UnitType
    <3>3. s[i][1] \in 1..Len(sent) /\ s[i][2] \in 1..End(s[i][1], sent)
      BY <2>3, <3>1 DEF OfPackets
    <3>4. PICK n, p : n = s[i][1] /\ p = s[i][2]
      OBVIOUS
    <3>5. n \in 1..MaxSends /\ p \in 1..HeaderUnits + PayloadCap
      <4>1. n \in 1..Len(sent) /\ p \in 1..HeaderUnits + sent[n] /\ sent[n] \in 0..PayloadCap
        BY <2>2, <3>3, <3>4 DEF End
      <4>2. PICK z \in 0..PayloadCap : z = sent[n]
        BY <4>1
      <4>3. PICK l \in Nat : l = Len(sent) /\ l <= MaxSends
        BY <2>2
      <4>4. n \in 1..l /\ p \in 1..HeaderUnits + z
        BY <4>1, <4>2, <4>3
      <4>5. PayloadCap \in Nat /\ HeaderUnits \in Nat /\ MaxSends \in Nat
        BY <2>2
      <4>6. QED
        BY <4>3, <4>4, <4>5
    <3>6. QED
      BY <3>2, <3>4, <3>5
  <2>4. OfPackets(pipe, sent) /\ OfPackets(body, sent)
    BY <2>1, <2>2, Facts, CutEnd DEF StreamInv, stream
  <2>5. ASSUME NEW i \in DOMAIN sending PROVE sending[i] \in U
    <3>1. i \in 1..Len(sending) /\ sending # <<>> /\ Len(sending) \in Nat
      BY <2>2, <2>5, LenProperties, EmptySeq
    <3>2. PICK q \in 0..HeaderUnits + PayloadCap :
              /\ q + Len(sending) = End(Len(sent), sent)
              /\ \A j \in 1..Len(sending) : sending[j] = <<Len(sent), q + j>>
      BY <2>1, <3>1 DEF StreamInv, SendingInv
    <3>3. Len(sent) \in 1..Len(sent)
      <4>1. sent # <<>>
        BY <2>1, <3>1 DEF StreamInv, SendingInv
      <4>2. QED
        BY <2>1, <2>2, <4>1, EmptySeq DEF Typed
    <3>4. PICK z \in 0..PayloadCap : z = sent[Len(sent)]
      BY <2>2, <3>3
    <3>5. PICK l \in Nat, m \in Nat : l = Len(sending) /\ m = Len(sent)
      BY <2>2, <3>1
    <3>6. q + l = HeaderUnits + z /\ i \in 1..l /\ m \in 1..m /\ m <= MaxSends
      BY <2>2, <3>1, <3>2, <3>3, <3>4, <3>5 DEF End
    <3>7. q + i \in 1..HeaderUnits + PayloadCap /\ m \in 1..MaxSends
      BY <2>2, <3>6
    <3>8. sending[i] = <<m, q + i>>
      BY <3>1, <3>2, <3>5
    <3>9. QED
      BY <3>7, <3>8
  <2>6. Len(body) <= PayloadCap /\ hdr \in 0..Len(sent)
    <3>1. TRUE
      OBVIOUS
    <3>2. QED
      BY <2>1, <2>2 DEF Typed
  <2>7. QED
    BY <2>1, <2>2, <2>3, <2>4, <2>5, <2>6 DEF TypeOK, Typed
<1>2. QED
  BY <1>1, FramingAlways, PTL

\* The payload of a packet is what begins like it and is as long.
LEMMA BeginsAll ==
    ASSUME NEW n \in Nat, sent[n] \in Nat, NEW b \in Seq(Unit),
           Begins(b, n), Len(b) = sent[n]
    PROVE  b = Payload(n)
<1> DEFINE t == PacketUnits(n, sent[n])
           p == Rest(t, HeaderUnits)
<1>1. /\ t \in Seq(Unit) /\ Len(t) = HeaderUnits + sent[n]
      /\ \A i \in 1..HeaderUnits + sent[n] : t[i] = <<n, i>>
  BY PacketUnitsAre
<1> HIDE DEF t
<1>2. HeaderUnits \in Nat /\ HeaderUnits \in 0..Len(t) /\ Len(t) - HeaderUnits = sent[n]
  BY <1>1, FramingAssumption
<1>3. /\ p \in Seq(Unit) /\ Len(p) = sent[n]
      /\ \A i \in 1..sent[n] : p[i] = t[HeaderUnits + i]
  BY SMTT(30), <1>1, <1>2, Split
<1> HIDE DEF p
<1>4. ASSUME NEW i \in 1..Len(b) PROVE b[i] = p[i]
  <2>1. HeaderUnits + i \in 1..HeaderUnits + sent[n] /\ i \in 1..sent[n]
    BY <1>2
  <2>2. b[i] = <<n, HeaderUnits + i>>
    BY DEF Begins
  <2>3. QED
    BY <1>1, <1>3, <2>1, <2>2
<1>5. b = p
  BY <1>3, <1>4, SeqEqual
<1>6. QED
  BY <1>5 DEF p, t, Payload

\* "Only validated packets are allowed to update the application state": every
\* packet the PSP acts on was sent, in this order and no packet twice, whatever
\* was cut, given up or misread between; and unless a transfer ended midway its
\* payload is the one it was sent with.
THEOREM AcceptedIntactCorrect ==
    Spec => []AcceptedIntact
<1>1. FramingInv => AcceptedIntact
  <2> SUFFICES ASSUME FramingInv PROVE AcceptedIntact
    OBVIOUS
  <2>1. Typed /\ OrderInv /\ IntactInv
    BY DEF FramingInv
  <2>2. DOMAIN accepted = 1..Len(accepted)
    BY <2>1, LenProperties DEF Typed
  <2>3. ASSUME ~cutMidway, NEW i \in 1..Len(accepted)
        PROVE  accepted[i].body = Payload(accepted[i].hdr)
    <3>1. accepted[i] \in [hdr : Nat, body : Seq(Unit)]
      BY <2>1, ElementOfSeq DEF Typed
    <3>2. accepted[i].hdr \in Nat /\ accepted[i].body \in Seq(Unit)
      BY <3>1
    <3>3. /\ Begins(accepted[i].body, accepted[i].hdr)
          /\ Len(accepted[i].body) = sent[accepted[i].hdr]
      BY <2>1, <2>3 DEF IntactInv
    <3>4. sent[accepted[i].hdr] \in Nat
      BY <2>1, Facts DEF OrderInv
    <3>5. QED
      BY <3>2, <3>3, <3>4, BeginsAll
  <2>4. QED
    BY <2>1, <2>2, <2>3 DEF AcceptedIntact, OrderInv
<1>2. QED
  BY <1>1, FramingAlways, PTL

\* Without adverse events no packet is lost, at any speed of the bus and however
\* the controller's deliveries and the frame loop's reads interleave: a header is
\* never read in part, and a payload never given up while it is on its way.
THEOREM NothingLostCorrect ==
    Spec => []NothingLost
<1>1. FramingInv => NothingLost
  <2> SUFFICES ASSUME FramingInv PROVE NothingLost
    OBVIOUS
  <2>1. Typed /\ LossInv
    BY DEF FramingInv
  <2>2. DOMAIN accepted = 1..Len(accepted)
    BY <2>1, LenProperties DEF Typed
  <2>3. QED
    BY <2>1, <2>2 DEF NothingLost, LossInv
<1>2. QED
  BY <1>1, FramingAlways, PTL

=============================================================================
