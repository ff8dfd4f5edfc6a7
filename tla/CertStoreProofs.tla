--------------------------- MODULE CertStoreProofs ---------------------------
(***************************************************************************)
(* Proofs about CertStore, Asn1Der and VerifiedSession, for all stores and *)
(* all certificates in them: the blocks are cut into the certificates, the *)
(* parser stays within the device's certificate and comes to an end, what  *)
(* it finds is behind an identifier X25519, and all that is proved of the  *)
(* secure channel holds when it begins with a verified chip.  When the     *)
(* certificate encodes the objects of DerDocument, the parser finds what   *)
(* they say.                                                               *)
(***************************************************************************)
EXTENDS DerDocument, L3CallsProofs, SequenceTheorems

-----------------------------------------------------------------------------
(* Slices of sequences.                                                    *)

\* The bytes m to n of s, which may be none.
LEMMA SliceProperties ==
    ASSUME NEW S, NEW s \in Seq(S), NEW m \in Nat \ {0}, NEW n \in Nat,
           m <= n + 1, n <= Len(s)
    PROVE  /\ SubSeq(s, m, n) \in Seq(S)
           /\ Len(SubSeq(s, m, n)) = n - m + 1
           /\ \A k \in 1..(n - m + 1) : SubSeq(s, m, n)[k] = s[m + k - 1]
<1>1. \A k \in m..n : s[k] \in S
    BY ElementOfSeq
<1>2. QED
    BY <1>1, SubSeqProperties

\* A slice of a slice is a slice.
LEMMA SliceOfSlice ==
    ASSUME NEW S, NEW s \in Seq(S), NEW m \in Nat \ {0}, NEW n \in Nat,
           m <= n + 1, n <= Len(s),
           NEW p \in Nat \ {0}, NEW q \in Nat, p <= q + 1, q <= n - m + 1
    PROVE  SubSeq(SubSeq(s, m, n), p, q) = SubSeq(s, m + p - 1, m + q - 1)
<1> DEFINE t == SubSeq(s, m, n)
           l == SubSeq(t, p, q)
           r == SubSeq(s, m + p - 1, m + q - 1)
<1>1. /\ t \in Seq(S) /\ Len(t) = n - m + 1
      /\ \A k \in 1..(n - m + 1) : t[k] = s[m + k - 1]
    BY SliceProperties
<1> HIDE DEF t
<1>2. /\ l \in Seq(S) /\ Len(l) = q - p + 1
      /\ \A k \in 1..(q - p + 1) : l[k] = t[p + k - 1]
    BY <1>1, SliceProperties
<1>3. /\ r \in Seq(S) /\ Len(r) = q - p + 1
      /\ \A k \in 1..(q - p + 1) : r[k] = s[m + p + k - 2]
  <2>1. /\ m + p - 1 \in Nat \ {0} /\ m + q - 1 \in Nat
        /\ m + p - 1 <= m + q - 1 + 1 /\ m + q - 1 <= Len(s)
      BY LenProperties
  <2>2. /\ r \in Seq(S) /\ Len(r) = (m + q - 1) - (m + p - 1) + 1
        /\ \A k \in 1..((m + q - 1) - (m + p - 1) + 1) : r[k] = s[(m + p - 1) + k - 1]
      BY <2>1, SliceProperties
  <2> HIDE DEF r
  <2>3. QED
      BY <2>2
<1> HIDE DEF l, r
<1>4. \A k \in 1..(q - p + 1) : l[k] = r[k]
  <2>1. TAKE k \in 1..(q - p + 1)
  <2>2. p + k - 1 \in 1..(n - m + 1) /\ k \in Nat
      OBVIOUS
  <2>3. l[k] = t[p + k - 1] /\ t[p + k - 1] = s[m + (p + k - 1) - 1] /\ r[k] = s[m + p + k - 2]
      BY <1>1, <1>2, <1>3, <2>2
  <2>4. m + (p + k - 1) - 1 = m + p + k - 2
      BY <2>2
  <2>5. QED
      BY <2>3, <2>4
<1>5. l = r
    BY <1>2, <1>3, <1>4, SeqEqual
<1>6. QED
    BY <1>5 DEF l, r, t

\* Two slices side by side are one.
LEMMA AdjacentSlices ==
    ASSUME NEW S, NEW s \in Seq(S), NEW m \in Nat \ {0}, NEW k \in Nat, NEW n \in Nat,
           m <= k + 1, k <= n, n <= Len(s)
    PROVE  SubSeq(s, m, k) \o SubSeq(s, k + 1, n) = SubSeq(s, m, n)
<1>1. m \in 1..(Len(s) + 1) /\ k \in (m - 1)..Len(s) /\ n \in k..Len(s)
    BY LenProperties
<1>2. QED
    BY <1>1, ConcatAdjacentSubSeq

\* What was appended to s is found behind it, and what was in s is still there.
LEMMA AppendedSlices ==
    ASSUME NEW S, NEW s \in Seq(S), NEW t \in Seq(S), Len(t) > 0
    PROVE  /\ s \o t \in Seq(S) /\ Len(s \o t) = Len(s) + Len(t)
           /\ Len(s) \in Nat /\ Len(t) \in Nat
           /\ SubSeq(s \o t, Len(s) + 1, Len(s) + Len(t)) = t
           /\ \A m, n \in 1..Len(s) : SubSeq(s \o t, m, n) = SubSeq(s, m, n)
<1>1. /\ Len(s) \in Nat /\ Len(t) \in Nat
      /\ s \o t \in Seq(S) /\ Len(s \o t) = Len(s) + Len(t)
    BY LenProperties, ConcatProperties
<1>2. /\ Len(s) + 1 \in Len(s) + 1 .. Len(s) + Len(t)
      /\ Len(s) + Len(t) \in Len(s) + 1 .. Len(s) + Len(t)
    BY <1>1
<1>3. SubSeq(s \o t, Len(s) + 1, Len(s) + Len(t))
        = SubSeq(t, Len(s) + 1 - Len(s), Len(s) + Len(t) - Len(s))
    BY <1>2, SubSeqOfConcat2
<1>4. SubSeq(s \o t, Len(s) + 1, Len(s) + Len(t)) = t
    BY <1>1, <1>3, SubSeqFull
<1>5. \A m, n \in 1..Len(s) : SubSeq(s \o t, m, n) = SubSeq(s, m, n)
    BY SubSeqOfConcat1
<1>6. QED
    BY <1>1, <1>4, <1>5

-----------------------------------------------------------------------------
(* The stream of a store.                                                  *)

\* Where certificate j starts in the stream, and where the last one ends.
Start(s, j) ==
    HeaderLen + (IF j > 1 THEN Len(s.certs[1]) ELSE 0) + (IF j > 2 THEN Len(s.certs[2]) ELSE 0)
              + (IF j > 3 THEN Len(s.certs[3]) ELSE 0) + (IF j > 4 THEN Len(s.certs[4]) ELSE 0)

LEMMA StoreFacts ==
    ASSUME NEW s \in Stores
    PROVE  /\ s.version \in Nat /\ s.count \in Nat
           /\ \A j \in 1..4 : /\ s.certs[j] \in Seq(Nat)
                              /\ Len(s.certs[j]) \in Nat /\ Len(s.certs[j]) > 128
BY StoresAssumption, LenProperties DEF TR01_GET_INFO_BLOCK_LEN, LT_NUM_CERTIFICATES

LEMMA StartFacts ==
    ASSUME NEW s \in Stores
    PROVE  /\ Start(s, 1) = 10
           /\ Start(s, 2) = Start(s, 1) + Len(s.certs[1])
           /\ Start(s, 3) = Start(s, 2) + Len(s.certs[2])
           /\ Start(s, 4) = Start(s, 3) + Len(s.certs[3])
           /\ Start(s, 5) = Start(s, 4) + Len(s.certs[4])
           /\ Start(s, 1) \in Nat /\ Start(s, 2) \in Nat /\ Start(s, 3) \in Nat
           /\ Start(s, 4) \in Nat /\ Start(s, 5) \in Nat
<1> DEFINE n1 == Len(s.certs[1])
           n2 == Len(s.certs[2])
           n3 == Len(s.certs[3])
           n4 == Len(s.certs[4])
<1>1. n1 \in Nat /\ n2 \in Nat /\ n3 \in Nat /\ n4 \in Nat
    BY StoreFacts
<1>2. /\ Start(s, 1) = 10 /\ Start(s, 2) = 10 + n1 /\ Start(s, 3) = 10 + n1 + n2
      /\ Start(s, 4) = 10 + n1 + n2 + n3 /\ Start(s, 5) = 10 + n1 + n2 + n3 + n4
    BY <1>1 DEF Start, HeaderLen, LT_NUM_CERTIFICATES
<1> HIDE DEF n1, n2, n3, n4
<1>3. /\ Start(s, 1) \in Nat /\ Start(s, 2) \in Nat /\ Start(s, 3) \in Nat
      /\ Start(s, 4) \in Nat /\ Start(s, 5) \in Nat
    BY <1>1, <1>2
<1>4. QED
    BY <1>1, <1>2, <1>3 DEF n1, n2, n3, n4

LEMMA TwoBytes ==
    ASSUME NEW n \in Nat
    PROVE  /\ HighByte(n) \in Nat /\ LowByte(n) \in Nat
           /\ 256 * HighByte(n) + LowByte(n) = n
BY DEF HighByte, LowByte

\* The header holds the four lengths.
LEMMA HeaderFacts ==
    ASSUME NEW s \in Stores
    PROVE  /\ StoreHeader(s) \in Seq(Nat) /\ Len(StoreHeader(s)) = 10
           /\ StoreHeader(s)[1] = s.version /\ StoreHeader(s)[2] = s.count
           /\ 256 * StoreHeader(s)[3] + StoreHeader(s)[4] = Len(s.certs[1])
           /\ 256 * StoreHeader(s)[5] + StoreHeader(s)[6] = Len(s.certs[2])
           /\ 256 * StoreHeader(s)[7] + StoreHeader(s)[8] = Len(s.certs[3])
           /\ 256 * StoreHeader(s)[9] + StoreHeader(s)[10] = Len(s.certs[4])
<1> DEFINE n1 == Len(s.certs[1])
           n2 == Len(s.certs[2])
           n3 == Len(s.certs[3])
           n4 == Len(s.certs[4])
<1>1. n1 \in Nat /\ n2 \in Nat /\ n3 \in Nat /\ n4 \in Nat
    BY StoreFacts
<1> HIDE DEF n1, n2, n3, n4
<1>2. /\ HighByte(n1) \in Nat /\ LowByte(n1) \in Nat /\ 256 * HighByte(n1) + LowByte(n1) = n1
      /\ HighByte(n2) \in Nat /\ LowByte(n2) \in Nat /\ 256 * HighByte(n2) + LowByte(n2) = n2
      /\ HighByte(n3) \in Nat /\ LowByte(n3) \in Nat /\ 256 * HighByte(n3) + LowByte(n3) = n3
      /\ HighByte(n4) \in Nat /\ LowByte(n4) \in Nat /\ 256 * HighByte(n4) + LowByte(n4) = n4
    BY <1>1, TwoBytes
<1>3. s.version \in Nat /\ s.count \in Nat
    BY StoreFacts
<1> DEFINE h == <<s.version, s.count, HighByte(n1), LowByte(n1), HighByte(n2), LowByte(n2),
                  HighByte(n3), LowByte(n3), HighByte(n4), LowByte(n4)>>
<1>4. StoreHeader(s) = h
    BY DEF StoreHeader, n1, n2, n3, n4
<1>5. h \in Seq(Nat) /\ Len(h) = 10
    BY <1>2, <1>3
<1>6. /\ h[1] = s.version /\ h[2] = s.count
      /\ h[3] = HighByte(n1) /\ h[4] = LowByte(n1) /\ h[5] = HighByte(n2) /\ h[6] = LowByte(n2)
      /\ h[7] = HighByte(n3) /\ h[8] = LowByte(n3) /\ h[9] = HighByte(n4) /\ h[10] = LowByte(n4)
    OBVIOUS
<1> HIDE DEF h
<1>7. QED
    BY <1>2, <1>4, <1>5, <1>6 DEF n1, n2, n3, n4

\* One part appended to a stream that begins with the header and ends at Start(s, j).
LEMMA PartAppended ==
    ASSUME NEW h \in Seq(Nat), NEW t \in Seq(Nat), Len(t) > 0,
           NEW n \in Nat, Len(h) = n, n >= 10
    PROVE  /\ h \o t \in Seq(Nat) /\ Len(h \o t) = n + Len(t) /\ Len(t) \in Nat
           /\ \A k \in 1..10 : (h \o t)[k] = h[k]
           /\ SubSeq(h \o t, n + 1, n + Len(t)) = t
           /\ \A p, q \in 1..n : SubSeq(h \o t, p, q) = SubSeq(h, p, q)
<1> DEFINE u == h \o t
<1>1. /\ u \in Seq(Nat) /\ Len(u) = Len(h) + Len(t)
      /\ \A k \in 1..(Len(h) + Len(t)) : u[k] = IF k <= Len(h) THEN h[k] ELSE t[k - Len(h)]
    BY ConcatProperties
<1>2. /\ Len(t) \in Nat
      /\ SubSeq(u, Len(h) + 1, Len(h) + Len(t)) = t
      /\ \A p, q \in 1..Len(h) : SubSeq(u, p, q) = SubSeq(h, p, q)
    BY AppendedSlices
<1> HIDE DEF u
<1>3. \A k \in 1..10 : u[k] = h[k]
    BY <1>1, <1>2
<1>4. QED
    BY <1>1, <1>2, <1>3 DEF u

\* A part behind which nothing may be.
LEMMA PartPadded ==
    ASSUME NEW h \in Seq(Nat), NEW t \in Seq(Nat), NEW n \in Nat, Len(h) = n, n >= 10
    PROVE  /\ h \o t \in Seq(Nat) /\ Len(h \o t) = n + Len(t) /\ Len(t) \in Nat
           /\ \A k \in 1..10 : (h \o t)[k] = h[k]
           /\ \A p, q \in 1..n : SubSeq(h \o t, p, q) = SubSeq(h, p, q)
<1> DEFINE u == h \o t
<1>1. /\ u \in Seq(Nat) /\ Len(u) = Len(h) + Len(t)
      /\ \A k \in 1..(Len(h) + Len(t)) : u[k] = IF k <= Len(h) THEN h[k] ELSE t[k - Len(h)]
    BY ConcatProperties
<1>2. Len(t) \in Nat /\ \A p, q \in 1..Len(h) : SubSeq(u, p, q) = SubSeq(h, p, q)
    BY LenProperties, SubSeqOfConcat1
<1> HIDE DEF u
<1>3. \A k \in 1..10 : u[k] = h[k]
    BY <1>1, <1>2
<1>4. QED
    BY <1>1, <1>2, <1>3 DEF u

\* The stream holds the header, and the certificates one behind the other.
LEMMA StreamFacts ==
    ASSUME NEW s \in Stores
    PROVE  /\ Stream(s) \in Seq(Nat) /\ Len(Stream(s)) \in Nat
           /\ Len(Stream(s)) >= TR01_L2_GET_INFO_REQ_CERT_SIZE_TOTAL /\ Len(Stream(s)) >= Start(s, 5)
           /\ \A k \in 1..10 : Stream(s)[k] = StoreHeader(s)[k]
           /\ \A j \in 1..4 : SubSeq(Stream(s), Start(s, j) + 1, Start(s, j + 1)) = s.certs[j]
<1> DEFINE c1 == s.certs[1]
           c2 == s.certs[2]
           c3 == s.certs[3]
           c4 == s.certs[4]
           n1 == Start(s, 1)
           n2 == Start(s, 2)
           n3 == Start(s, 3)
           n4 == Start(s, 4)
           n5 == Start(s, 5)
           u0 == StoreHeader(s)
           u1 == u0 \o c1
           u2 == u1 \o c2
           u3 == u2 \o c3
           u4 == u3 \o c4
           pad == [k \in 1..(3840 - Len(u4)) |-> 255]
           u5 == u4 \o pad
<1>1. /\ c1 \in Seq(Nat) /\ Len(c1) \in Nat /\ Len(c1) > 0
      /\ c2 \in Seq(Nat) /\ Len(c2) \in Nat /\ Len(c2) > 0
      /\ c3 \in Seq(Nat) /\ Len(c3) \in Nat /\ Len(c3) > 0
      /\ c4 \in Seq(Nat) /\ Len(c4) \in Nat /\ Len(c4) > 0
  <2>1. 1 \in 1..4 /\ 2 \in 1..4 /\ 3 \in 1..4 /\ 4 \in 1..4
      OBVIOUS
  <2>2. \A j \in 1..4 : s.certs[j] \in Seq(Nat) /\ Len(s.certs[j]) \in Nat /\ Len(s.certs[j]) > 128
      BY StoreFacts
  <2>3. \A n \in Nat : n > 128 => n > 0
      OBVIOUS
  <2>4. QED
      BY <2>1, <2>2, <2>3, Zenon
<1>2. /\ n1 = 10 /\ n2 = n1 + Len(c1) /\ n3 = n2 + Len(c2) /\ n4 = n3 + Len(c3)
      /\ n5 = n4 + Len(c4)
    BY StartFacts
<1>3. /\ n1 \in Nat /\ n1 >= 10 /\ n2 \in Nat /\ n2 >= 10 /\ n3 \in Nat /\ n3 >= 10
      /\ n4 \in Nat /\ n4 >= 10 /\ n5 \in Nat /\ n5 >= 10
  <2> HIDE DEF n1, n2, n3, n4, n5, c1, c2, c3, c4
  <2>1. QED
      BY <1>1, <1>2
<1>4. u0 \in Seq(Nat) /\ Len(u0) = n1
    BY HeaderFacts, <1>2
<1>5. Stream(s) = u5
    BY DEF Stream, TR01_L2_GET_INFO_REQ_CERT_SIZE_TOTAL
<1>6. \A j \in {1, 2, 3, 4} : j + 1 \in {2, 3, 4, 5} /\ (j = 1 => j + 1 = 2)
         /\ (j = 2 => j + 1 = 3) /\ (j = 3 => j + 1 = 4) /\ (j = 4 => j + 1 = 5)
    OBVIOUS
<1> HIDE DEF n1, n2, n3, n4, n5, c1, c2, c3, c4, u0
<1>7. /\ u1 \in Seq(Nat) /\ Len(u1) = n1 + Len(c1)
      /\ \A k \in 1..10 : u1[k] = u0[k]
      /\ SubSeq(u1, n1 + 1, n1 + Len(c1)) = c1
  <2>1. c1 \in Seq(Nat) /\ Len(c1) > 0 /\ n1 \in Nat /\ n1 >= 10
      BY <1>1, <1>3
  <2>2. /\ u0 \o c1 \in Seq(Nat) /\ Len(u0 \o c1) = n1 + Len(c1)
        /\ \A k \in 1..10 : (u0 \o c1)[k] = u0[k]
        /\ SubSeq(u0 \o c1, n1 + 1, n1 + Len(c1)) = c1
      BY <1>4, <2>1, PartAppended, Zenon
  <2>3. QED
      BY <2>2, Zenon
<1> HIDE DEF u1
<1>8. /\ u2 \in Seq(Nat) /\ Len(u2) = n2 + Len(c2)
      /\ \A k \in 1..10 : u2[k] = u1[k]
      /\ SubSeq(u2, n2 + 1, n2 + Len(c2)) = c2
      /\ \A p, q \in 1..n2 : SubSeq(u2, p, q) = SubSeq(u1, p, q)
  <2>1. u1 \in Seq(Nat) /\ Len(u1) = n2
      BY <1>2, <1>7
  <2>2. c2 \in Seq(Nat) /\ Len(c2) > 0 /\ n2 \in Nat /\ n2 >= 10
      BY <1>1, <1>3
  <2>3. /\ u1 \o c2 \in Seq(Nat) /\ Len(u1 \o c2) = n2 + Len(c2) /\ Len(c2) \in Nat
        /\ \A k \in 1..10 : (u1 \o c2)[k] = u1[k]
        /\ SubSeq(u1 \o c2, n2 + 1, n2 + Len(c2)) = c2
        /\ \A p, q \in 1..n2 : SubSeq(u1 \o c2, p, q) = SubSeq(u1, p, q)
      BY <2>1, <2>2, PartAppended, Zenon
  <2>4. QED
      BY <2>3, Zenon
<1> HIDE DEF u2
<1>9. /\ u3 \in Seq(Nat) /\ Len(u3) = n3 + Len(c3)
      /\ \A k \in 1..10 : u3[k] = u2[k]
      /\ SubSeq(u3, n3 + 1, n3 + Len(c3)) = c3
      /\ \A p, q \in 1..n3 : SubSeq(u3, p, q) = SubSeq(u2, p, q)
  <2>1. u2 \in Seq(Nat) /\ Len(u2) = n3
      BY <1>2, <1>8
  <2>2. c3 \in Seq(Nat) /\ Len(c3) > 0 /\ n3 \in Nat /\ n3 >= 10
      BY <1>1, <1>3
  <2>3. /\ u2 \o c3 \in Seq(Nat) /\ Len(u2 \o c3) = n3 + Len(c3) /\ Len(c3) \in Nat
        /\ \A k \in 1..10 : (u2 \o c3)[k] = u2[k]
        /\ SubSeq(u2 \o c3, n3 + 1, n3 + Len(c3)) = c3
        /\ \A p, q \in 1..n3 : SubSeq(u2 \o c3, p, q) = SubSeq(u2, p, q)
      BY <2>1, <2>2, PartAppended, Zenon
  <2>4. QED
      BY <2>3, Zenon
<1> HIDE DEF u3
<1>10. /\ u4 \in Seq(Nat) /\ Len(u4) = n4 + Len(c4)
       /\ \A k \in 1..10 : u4[k] = u3[k]
       /\ SubSeq(u4, n4 + 1, n4 + Len(c4)) = c4
       /\ \A p, q \in 1..n4 : SubSeq(u4, p, q) = SubSeq(u3, p, q)
  <2>1. u3 \in Seq(Nat) /\ Len(u3) = n4
      BY <1>2, <1>9
  <2>2. c4 \in Seq(Nat) /\ Len(c4) > 0 /\ n4 \in Nat /\ n4 >= 10
      BY <1>1, <1>3
  <2>3. /\ u3 \o c4 \in Seq(Nat) /\ Len(u3 \o c4) = n4 + Len(c4) /\ Len(c4) \in Nat
        /\ \A k \in 1..10 : (u3 \o c4)[k] = u3[k]
        /\ SubSeq(u3 \o c4, n4 + 1, n4 + Len(c4)) = c4
        /\ \A p, q \in 1..n4 : SubSeq(u3 \o c4, p, q) = SubSeq(u3, p, q)
      BY <2>1, <2>2, PartAppended, Zenon
  <2>4. QED
      BY <2>3, Zenon
<1> HIDE DEF u4
<1>11. /\ pad \in Seq(Nat) /\ Len(pad) \in Nat
       /\ Len(pad) = IF n5 >= 3840 THEN 0 ELSE 3840 - n5
  <2>1. Len(u4) = n5 /\ n5 \in Nat
      BY <1>2, <1>3, <1>10
  <2> DEFINE m == IF n5 >= 3840 THEN 0 ELSE 3840 - n5
  <2>2. m \in Nat /\ 1..(3840 - n5) = 1..m
      BY <2>1
  <2>3. pad = [k \in 1..m |-> 255]
      BY <2>1, <2>2
  <2> HIDE DEF pad, m
  <2>4. pad \in Seq(Nat) /\ Len(pad) = m
      BY <2>2, <2>3
  <2>5. QED
      BY <2>2, <2>4 DEF m
<1> HIDE DEF pad
<1>12. /\ u5 \in Seq(Nat) /\ Len(u5) = n5 + Len(pad)
       /\ \A k \in 1..10 : u5[k] = u4[k]
       /\ \A p, q \in 1..n5 : SubSeq(u5, p, q) = SubSeq(u4, p, q)
  <2>1. u4 \in Seq(Nat) /\ Len(u4) = n5
      BY <1>2, <1>10
  <2>2. pad \in Seq(Nat) /\ n5 \in Nat /\ n5 >= 10
      BY <1>3, <1>11
  <2>3. /\ u4 \o pad \in Seq(Nat) /\ Len(u4 \o pad) = n5 + Len(pad) /\ Len(pad) \in Nat
        /\ \A k \in 1..10 : (u4 \o pad)[k] = u4[k]
        /\ \A p, q \in 1..n5 : SubSeq(u4 \o pad, p, q) = SubSeq(u4, p, q)
      BY <2>1, <2>2, PartPadded, Zenon
  <2>4. QED
      BY <2>3, Zenon
<1> HIDE DEF u5
<1>13. Len(u5) \in Nat /\ Len(u5) >= 3840 /\ Len(u5) >= n5
    BY <1>3, <1>11, <1>12
<1>14. \A k \in 1..10 : u5[k] = u0[k]
    BY <1>7, <1>8, <1>9, <1>10, <1>12
<1>15. /\ n1 + 1 \in 1..n2 /\ n2 \in 1..n2
       /\ n1 + 1 \in 1..n3 /\ n2 \in 1..n3 /\ n2 + 1 \in 1..n3 /\ n3 \in 1..n3
       /\ n1 + 1 \in 1..n4 /\ n2 \in 1..n4 /\ n2 + 1 \in 1..n4 /\ n3 \in 1..n4
       /\ n3 + 1 \in 1..n4 /\ n4 \in 1..n4
       /\ n1 + 1 \in 1..n5 /\ n2 \in 1..n5 /\ n2 + 1 \in 1..n5 /\ n3 \in 1..n5
       /\ n3 + 1 \in 1..n5 /\ n4 \in 1..n5 /\ n4 + 1 \in 1..n5 /\ n5 \in 1..n5
  <2>1. /\ n1 \in Nat /\ n2 \in Nat /\ n3 \in Nat /\ n4 \in Nat /\ n5 \in Nat
        /\ 0 < n1 /\ n1 < n2 /\ n2 < n3 /\ n3 < n4 /\ n4 < n5
    <3>1. \A a, b, c \in Nat : c > 0 /\ b = a + c => a < b
        OBVIOUS
    <3>2. \A a \in Nat : a >= 10 => 0 < a
        OBVIOUS
    <3>3. QED
        BY <1>1, <1>2, <1>3, <3>1, <3>2, Zenon
  <2>2. QED
      BY <2>1
<1>16. SubSeq(u5, n1 + 1, n2) = c1
  <2>1. SubSeq(u1, n1 + 1, n2) = c1
      BY <1>2, <1>7
  <2>2. SubSeq(u2, n1 + 1, n2) = SubSeq(u1, n1 + 1, n2)
      BY <1>8, <1>15
  <2>3. SubSeq(u3, n1 + 1, n2) = SubSeq(u2, n1 + 1, n2)
      BY <1>9, <1>15
  <2>4. SubSeq(u4, n1 + 1, n2) = SubSeq(u3, n1 + 1, n2)
      BY <1>10, <1>15
  <2>5. QED
      BY <1>12, <1>15, <2>1, <2>2, <2>3, <2>4
<1>17. SubSeq(u5, n2 + 1, n3) = c2
  <2>1. SubSeq(u2, n2 + 1, n3) = c2
      BY <1>2, <1>8
  <2>2. SubSeq(u3, n2 + 1, n3) = SubSeq(u2, n2 + 1, n3)
      BY <1>9, <1>15
  <2>3. SubSeq(u4, n2 + 1, n3) = SubSeq(u3, n2 + 1, n3)
      BY <1>10, <1>15
  <2>4. QED
      BY <1>12, <1>15, <2>1, <2>2, <2>3
<1>18. SubSeq(u5, n3 + 1, n4) = c3
  <2>1. SubSeq(u3, n3 + 1, n4) = c3
      BY <1>2, <1>9
  <2>2. SubSeq(u4, n3 + 1, n4) = SubSeq(u3, n3 + 1, n4)
      BY <1>10, <1>15
  <2>3. QED
      BY <1>12, <1>15, <2>1, <2>2
<1>19. SubSeq(u5, n4 + 1, n5) = c4
  <2>1. SubSeq(u4, n4 + 1, n5) = c4
      BY <1>2, <1>10
  <2>2. QED
      BY <1>12, <1>15, <2>1
<1>20. \A j \in {1, 2, 3, 4} : SubSeq(Stream(s), Start(s, j) + 1, Start(s, j + 1)) = s.certs[j]
    BY <1>5, <1>6, <1>16, <1>17, <1>18, <1>19 DEF n1, n2, n3, n4, n5, c1, c2, c3, c4
<1>21. 1..4 = {1, 2, 3, 4}
    OBVIOUS
<1>22. \A j \in 1..4 : SubSeq(Stream(s), Start(s, j) + 1, Start(s, j + 1)) = s.certs[j]
    BY <1>20, <1>21, Zenon
<1>23. /\ Stream(s) \in Seq(Nat) /\ Len(Stream(s)) \in Nat
       /\ Len(Stream(s)) >= TR01_L2_GET_INFO_REQ_CERT_SIZE_TOTAL
       /\ Len(Stream(s)) >= Start(s, 5)
    BY <1>5, <1>12, <1>13 DEF n5, TR01_L2_GET_INFO_REQ_CERT_SIZE_TOTAL
<1>24. \A k \in 1..10 : Stream(s)[k] = StoreHeader(s)[k]
    BY <1>5, <1>14 DEF u0
<1>25. QED
    BY <1>22, <1>23, <1>24, Zenon

\* The certificates lie in the stream between the places where they start.
LEMMA CertFacts ==
    ASSUME NEW s \in Stores
    PROVE  \A j \in 1..4 :
              /\ Start(s, j) \in Nat /\ Start(s, j + 1) \in Nat
              /\ Start(s, j) >= 10 /\ Start(s, j + 1) <= Start(s, 5)
              /\ Start(s, j + 1) = Start(s, j) + Len(s.certs[j])
              /\ Len(s.certs[j]) \in Nat /\ Len(s.certs[j]) > 128
              /\ s.certs[j] = SubSeq(Stream(s), Start(s, j) + 1, Start(s, j + 1))
<1>1. /\ Start(s, 1) = 10
      /\ Start(s, 2) = Start(s, 1) + Len(s.certs[1])
      /\ Start(s, 3) = Start(s, 2) + Len(s.certs[2])
      /\ Start(s, 4) = Start(s, 3) + Len(s.certs[3])
      /\ Start(s, 5) = Start(s, 4) + Len(s.certs[4])
      /\ Start(s, 1) \in Nat /\ Start(s, 2) \in Nat /\ Start(s, 3) \in Nat
      /\ Start(s, 4) \in Nat /\ Start(s, 5) \in Nat
    BY StartFacts
<1>2. \A j \in 1..4 : Len(s.certs[j]) \in Nat /\ Len(s.certs[j]) > 128
    BY StoreFacts
<1>3. /\ Len(s.certs[1]) \in Nat /\ Len(s.certs[2]) \in Nat
      /\ Len(s.certs[3]) \in Nat /\ Len(s.certs[4]) \in Nat
    BY <1>2
<1>4. /\ Start(s, 1) >= 10 /\ Start(s, 2) >= 10 /\ Start(s, 3) >= 10 /\ Start(s, 4) >= 10
      /\ Start(s, 2) <= Start(s, 5) /\ Start(s, 3) <= Start(s, 5)
      /\ Start(s, 4) <= Start(s, 5) /\ Start(s, 5) <= Start(s, 5)
  <2> DEFINE n1 == Len(s.certs[1])
             n2 == Len(s.certs[2])
             n3 == Len(s.certs[3])
             n4 == Len(s.certs[4])
             a1 == Start(s, 1)
             a2 == Start(s, 2)
             a3 == Start(s, 3)
             a4 == Start(s, 4)
             a5 == Start(s, 5)
  <2>1. /\ n1 \in Nat /\ n2 \in Nat /\ n3 \in Nat /\ n4 \in Nat
        /\ a1 \in Nat /\ a2 \in Nat /\ a3 \in Nat /\ a4 \in Nat /\ a5 \in Nat
        /\ a1 = 10 /\ a2 = a1 + n1 /\ a3 = a2 + n2 /\ a4 = a3 + n3 /\ a5 = a4 + n4
      BY <1>1, <1>3
  <2> HIDE DEF n1, n2, n3, n4, a1, a2, a3, a4, a5
  <2>2. /\ a1 >= 10 /\ a2 >= 10 /\ a3 >= 10 /\ a4 >= 10
        /\ a2 <= a5 /\ a3 <= a5 /\ a4 <= a5 /\ a5 <= a5
      BY <2>1
  <2>3. QED
      BY <2>2 DEF a1, a2, a3, a4, a5
<1>5. \A j \in 1..4 : s.certs[j] = SubSeq(Stream(s), Start(s, j) + 1, Start(s, j + 1))
    BY StreamFacts
<1>6. TAKE j \in 1..4
<1>7. /\ Start(s, j) \in Nat /\ Start(s, j + 1) \in Nat
      /\ Start(s, j) >= 10 /\ Start(s, j + 1) <= Start(s, 5)
      /\ Start(s, j + 1) = Start(s, j) + Len(s.certs[j])
  <2>1. CASE j = 1
      BY <1>1, <1>4, <2>1
  <2>2. CASE j = 2
      BY <1>1, <1>4, <2>2
  <2>3. CASE j = 3
      BY <1>1, <1>4, <2>3
  <2>4. CASE j = 4
      BY <1>1, <1>4, <2>4
  <2>5. QED
      BY <2>1, <2>2, <2>3, <2>4
<1>8. QED
    BY <1>2, <1>5, <1>7

-----------------------------------------------------------------------------
(* One block.                                                              *)

\* How much of the stream has been copied or left out before block i.
Pos(i) == IF i = 0 THEN HeaderLen ELSE i * TR01_GET_INFO_BLOCK_LEN

LEMMA PosFacts ==
    ASSUME NEW i \in Nat
    PROVE  /\ Pos(i) \in Nat /\ Pos(i + 1) = 128 * i + 128 /\ Pos(i) < Pos(i + 1)
           /\ i = 0 => Pos(i) = 10
           /\ i # 0 => Pos(i) = 128 * i
BY DEF Pos, HeaderLen, LT_NUM_CERTIFICATES, TR01_GET_INFO_BLOCK_LEN

\* Block i, without the header, is the slice of the stream behind block i - 1.
Blocks == 0..29

LEMMA BlockFacts ==
    ASSUME NEW s \in Stores, NEW i \in Blocks
    PROVE  /\ (IF i = 0 THEN SubSeq(Object(s, i), HeaderLen + 1, Len(Object(s, i))) ELSE Object(s, i))
              = SubSeq(Stream(s), Pos(i) + 1, Pos(i + 1))
           /\ Pos(i + 1) <= Len(Stream(s))
<1> DEFINE S == Stream(s)
           m == i * 128 + 1
           n == (i + 1) * 128
<1>1. S \in Seq(Nat) /\ Len(S) \in Nat /\ Len(S) >= 3840
    BY StreamFacts DEF TR01_L2_GET_INFO_REQ_CERT_SIZE_TOTAL
<1> HIDE DEF S
<1>2. m \in Nat \ {0} /\ n \in Nat /\ m <= n + 1 /\ n <= Len(S) /\ n - m + 1 = 128
    BY <1>1 DEF Blocks
<1>3. Object(s, i) = SubSeq(S, m, n)
    BY DEF Object, S, TR01_GET_INFO_BLOCK_LEN
<1>4. m = 128 * i + 1 /\ n = 128 * i + 128 /\ (i = 0 => m = 1 /\ n = 128) /\ i \in Nat
    BY DEF Blocks
<1> HIDE DEF m, n
<1>5. Len(SubSeq(S, m, n)) = n - m + 1
  <2>1. S \in Seq(Nat) /\ m \in Nat \ {0} /\ n \in Nat /\ m <= n + 1 /\ n <= Len(S)
      BY <1>1, <1>2
  <2>2. QED
      BY <2>1, SliceProperties, Zenon
<1>6. /\ Pos(i + 1) = 128 * i + 128
      /\ i = 0 => Pos(i) = 10
      /\ i # 0 => Pos(i) = 128 * i
    BY <1>4, PosFacts
<1>7. CASE i = 0
  <2>1. /\ 1 \in Nat \ {0} /\ 128 \in Nat /\ 1 <= 128 + 1 /\ 128 <= Len(S)
        /\ 11 \in Nat \ {0} /\ 11 <= 128 + 1 /\ 128 <= 128 - 1 + 1
      BY <1>1
  <2>2. SubSeq(SubSeq(S, 1, 128), 11, 128) = SubSeq(S, 1 + 11 - 1, 1 + 128 - 1)
      BY <1>1, <2>1, SliceOfSlice
  <2>3. Object(s, i) = SubSeq(S, 1, 128) /\ Len(Object(s, i)) = 128 /\ HeaderLen + 1 = 11
      BY <1>2, <1>3, <1>4, <1>5, <1>7 DEF HeaderLen, LT_NUM_CERTIFICATES
  <2>4. Pos(i) + 1 = 11 /\ Pos(i + 1) = 128 /\ 1 + 11 - 1 = 11 /\ 1 + 128 - 1 = 128
      BY <1>6, <1>7
  <2>5. SubSeq(Object(s, i), HeaderLen + 1, Len(Object(s, i))) = SubSeq(S, Pos(i) + 1, Pos(i + 1))
      BY <2>2, <2>3, <2>4
  <2>6. Pos(i + 1) <= Len(S)
      BY <1>1, <2>4
  <2>7. QED
      BY <1>7, <2>5, <2>6 DEF S
<1>8. CASE i # 0
  <2>1. Object(s, i) = SubSeq(S, Pos(i) + 1, Pos(i + 1))
      BY <1>3, <1>4, <1>6, <1>8
  <2>2. Pos(i + 1) <= Len(S)
      BY <1>2, <1>4, <1>6
  <2>3. QED
      BY <1>8, <2>1, <2>2 DEF S
<1>9. QED
    BY <1>7, <1>8

\* The first block begins with the header.
LEMMA FirstBlock ==
    ASSUME NEW s \in Stores
    PROVE  \A k \in 1..10 : Object(s, 0)[k] = StoreHeader(s)[k]
<1> DEFINE S == Stream(s)
           m == 1
           n == 128
<1>1. S \in Seq(Nat) /\ Len(S) \in Nat /\ Len(S) >= 3840
    BY StreamFacts DEF TR01_L2_GET_INFO_REQ_CERT_SIZE_TOTAL
<1>2. \A k \in 1..10 : S[k] = StoreHeader(s)[k]
    BY StreamFacts
<1> HIDE DEF S
<1>3. Object(s, 0) = SubSeq(S, m, n)
    BY DEF Object, S, TR01_GET_INFO_BLOCK_LEN
<1>4. /\ m \in Nat \ {0} /\ n \in Nat /\ m <= n + 1 /\ n <= Len(S)
      /\ \A k \in 1..10 : k \in 1..(n - m + 1) /\ m + k - 1 = k
    BY <1>1
<1> HIDE DEF m, n
<1>5. \A k \in 1..(n - m + 1) : SubSeq(S, m, n)[k] = S[m + k - 1]
  <2>1. S \in Seq(Nat) /\ m \in Nat \ {0} /\ n \in Nat /\ m <= n + 1 /\ n <= Len(S)
      BY <1>1, <1>4
  <2>2. QED
      BY <2>1, SliceProperties, Zenon
<1>6. \A k \in 1..10 : SubSeq(S, m, n)[k] = S[k]
    BY <1>4, <1>5
<1>7. QED
    BY <1>2, <1>3, <1>6

\* A block that ends at e adds n bytes to certificate c, of which all before b is
\* copied: up to e, or to the end of the certificate.  The rest of the block is the
\* begin of the next one.
Cut(s, c, b, e, n) ==
    /\ e < Start(s, c + 1) =>
          /\ n = e - b
          /\ SubSeq(Stream(s), Start(s, c) + 1, b) \o SubSeq(SubSeq(Stream(s), b + 1, e), 1, n)
              = SubSeq(Stream(s), Start(s, c) + 1, e)
    /\ e >= Start(s, c + 1) =>
          /\ n = Start(s, c + 1) - b
          /\ SubSeq(Stream(s), Start(s, c) + 1, b) \o SubSeq(SubSeq(Stream(s), b + 1, e), 1, n)
              = s.certs[c]
          /\ SubSeq(SubSeq(Stream(s), b + 1, e), n + 1, e - b)
              = SubSeq(Stream(s), Start(s, c + 1) + 1, e)

LEMMA CutFacts ==
    ASSUME NEW s \in Stores, NEW c \in 1..4, NEW b \in Nat, NEW e \in Nat, NEW n \in Nat,
           Start(s, c) <= b, b < Start(s, c + 1), b < e, e <= Len(Stream(s)),
           n = LeastOf(Start(s, c + 1) - b, e - b)
    PROVE  Cut(s, c, b, e, n)
<1> DEFINE S == Stream(s)
           x == Start(s, c)
           y == Start(s, c + 1)
           head == SubSeq(S, b + 1, e)
<1>1. S \in Seq(Nat) /\ Len(S) \in Nat
    BY StreamFacts
<1>2. x \in Nat /\ y \in Nat /\ s.certs[c] = SubSeq(S, x + 1, y)
    BY CertFacts
<1> HIDE DEF S, x, y
<1>3. x <= b /\ b < y /\ b < e /\ e <= Len(S) /\ n = LeastOf(y - b, e - b)
    BY DEF S, x, y
<1>4. /\ n \in Nat /\ b + n <= e /\ b + n \in Nat /\ b <= b + n
      /\ e < y => b + n = e /\ n = e - b
      /\ e >= y => b + n = y /\ n = y - b
    BY <1>2, <1>3 DEF LeastOf
<1>5. SubSeq(head, 1, n) = SubSeq(S, b + 1, b + n)
  <2>1. /\ b + 1 \in Nat \ {0} /\ b + 1 <= e + 1 /\ e <= Len(S)
        /\ 1 \in Nat \ {0} /\ 1 <= n + 1 /\ n <= e - (b + 1) + 1
      BY <1>3, <1>4
  <2>2. SubSeq(SubSeq(S, b + 1, e), 1, n) = SubSeq(S, (b + 1) + 1 - 1, (b + 1) + n - 1)
    <3> DEFINE m == b + 1
               p == 1
               q == n
    <3>1. /\ m \in Nat \ {0} /\ m <= e + 1 /\ p \in Nat \ {0} /\ q \in Nat /\ p <= q + 1
          /\ q <= e - m + 1 /\ e <= Len(S)
        BY <2>1
    <3> HIDE DEF m, p, q
    <3>2. SubSeq(SubSeq(S, m, e), p, q) = SubSeq(S, m + p - 1, m + q - 1)
        BY <1>1, <3>1, SliceOfSlice
    <3>3. QED
        BY <3>2 DEF m, p, q
  <2>3. (b + 1) + 1 - 1 = b + 1 /\ (b + 1) + n - 1 = b + n
      OBVIOUS
  <2>4. QED
      BY <2>2, <2>3
<1>6. SubSeq(S, x + 1, b) \o SubSeq(head, 1, n) = SubSeq(S, x + 1, b + n)
  <2>1. /\ x + 1 \in Nat \ {0} /\ x + 1 <= b + 1 /\ b <= b + n /\ b + n <= Len(S) /\ b + n \in Nat
      BY <1>1, <1>2, <1>3, <1>4
  <2>2. SubSeq(S, x + 1, b) \o SubSeq(S, b + 1, b + n) = SubSeq(S, x + 1, b + n)
      BY <1>1, <2>1, AdjacentSlices
  <2> HIDE DEF head
  <2>3. QED
      BY <1>5, <2>2
<1>7. SubSeq(head, n + 1, e - b) = SubSeq(S, b + n + 1, e)
  <2>1. /\ b + 1 \in Nat \ {0} /\ b + 1 <= e + 1 /\ e <= Len(S)
        /\ n + 1 \in Nat \ {0} /\ e - b \in Nat /\ n + 1 <= (e - b) + 1
        /\ e - b <= e - (b + 1) + 1
      BY <1>3, <1>4
  <2>2. SubSeq(SubSeq(S, b + 1, e), n + 1, e - b)
          = SubSeq(S, (b + 1) + (n + 1) - 1, (b + 1) + (e - b) - 1)
    <3> DEFINE m == b + 1
               p == n + 1
               q == e - b
    <3>1. /\ m \in Nat \ {0} /\ m <= e + 1 /\ p \in Nat \ {0} /\ q \in Nat /\ p <= q + 1
          /\ q <= e - m + 1 /\ e <= Len(S)
        BY <2>1
    <3> HIDE DEF m, p, q
    <3>2. SubSeq(SubSeq(S, m, e), p, q) = SubSeq(S, m + p - 1, m + q - 1)
        BY <1>1, <3>1, SliceOfSlice
    <3>3. QED
        BY <3>2 DEF m, p, q
  <2>3. (b + 1) + (n + 1) - 1 = b + n + 1 /\ (b + 1) + (e - b) - 1 = e
      OBVIOUS
  <2>4. QED
      BY <2>2, <2>3
<1> HIDE DEF head
<1>8. /\ e < y => n = e - b /\ SubSeq(S, x + 1, b) \o SubSeq(head, 1, n) = SubSeq(S, x + 1, e)
      /\ e >= y => /\ n = y - b
                   /\ SubSeq(S, x + 1, b) \o SubSeq(head, 1, n) = SubSeq(S, x + 1, y)
                   /\ SubSeq(head, n + 1, e - b) = SubSeq(S, y + 1, e)
    BY <1>4, <1>6, <1>7
<1>9. QED
    BY <1>2, <1>8 DEF Cut, S, x, y, head

\* The lengths of the header are those of the certificates.
Lengths(s) == [j \in 1..4 |-> Len(s.certs[j])]

LEMMA TwoByteNumber ==
    ASSUME NEW s, NEW past, s[past + 1] \in Nat, s[past + 2] \in Nat, past \in Nat
    PROVE  Number(s, past, 2) = 256 * s[past + 1] + s[past + 2]
<1>1. /\ 3 <= 2 <=> FALSE /\ 2 <= 2 /\ 1 <= 2
      /\ past + 2 - 2 + 1 = past + 1 /\ past + 2 - 1 + 1 = past + 2
    OBVIOUS
<1>2. Number(s, past, 2) = 65536 * 0 + 256 * s[past + 1] + s[past + 2]
    BY <1>1 DEF Number
<1>3. QED
    BY <1>2

LEMMA HeaderLengthsFacts ==
    ASSUME NEW s \in Stores
    PROVE  HeaderLengths(Object(s, 0)) = Lengths(s)
<1> DEFINE o == Object(s, 0)
           h == StoreHeader(s)
<1>1. \A k \in 1..10 : o[k] = h[k]
    BY FirstBlock
<1>2. /\ h \in Seq(Nat) /\ Len(h) = 10
      /\ 256 * h[3] + h[4] = Len(s.certs[1])
      /\ 256 * h[5] + h[6] = Len(s.certs[2])
      /\ 256 * h[7] + h[8] = Len(s.certs[3])
      /\ 256 * h[9] + h[10] = Len(s.certs[4])
    BY HeaderFacts
<1> HIDE DEF o, h
<1>3. /\ o[3] \in Nat /\ o[4] \in Nat /\ o[5] \in Nat /\ o[6] \in Nat
      /\ o[7] \in Nat /\ o[8] \in Nat /\ o[9] \in Nat /\ o[10] \in Nat
  <2>1. \A k \in 1..10 : h[k] \in Nat
      BY <1>2, ElementOfSeq
  <2>2. \A k \in 1..10 : o[k] \in Nat
      BY <1>1, <2>1
  <2>3. QED
      BY <2>2
<1>4. /\ 256 * o[3] + o[4] = Len(s.certs[1])
      /\ 256 * o[5] + o[6] = Len(s.certs[2])
      /\ 256 * o[7] + o[8] = Len(s.certs[3])
      /\ 256 * o[9] + o[10] = Len(s.certs[4])
    BY <1>1, <1>2
<1>5. /\ Number(o, 2, 2) = Len(s.certs[1]) /\ Number(o, 4, 2) = Len(s.certs[2])
      /\ Number(o, 6, 2) = Len(s.certs[3]) /\ Number(o, 8, 2) = Len(s.certs[4])
  <2>1. Number(o, 2, 2) = 256 * o[3] + o[4]
      BY <1>3, TwoByteNumber
  <2>2. Number(o, 4, 2) = 256 * o[5] + o[6]
      BY <1>3, TwoByteNumber
  <2>3. Number(o, 6, 2) = 256 * o[7] + o[8]
      BY <1>3, TwoByteNumber
  <2>4. Number(o, 8, 2) = 256 * o[9] + o[10]
      BY <1>3, TwoByteNumber
  <2>5. QED
      BY <1>4, <2>1, <2>2, <2>3, <2>4
<1>6. \A j \in 1..4 : Number(o, 2 * j, 2) = Len(s.certs[j])
  <2>1. \A j \in 1..4 : \/ j = 1 /\ 2 * j = 2
                        \/ j = 2 /\ 2 * j = 4
                        \/ j = 3 /\ 2 * j = 6
                        \/ j = 4 /\ 2 * j = 8
      OBVIOUS
  <2>2. QED
      BY <1>5, <2>1
<1>7. HeaderLengths(o) = [j \in 1..4 |-> Number(o, 2 * j, 2)]
    BY DEF HeaderLengths, LT_NUM_CERTIFICATES
<1>8. QED
    BY <1>6, <1>7 DEF Lengths, o

\* What is copied of the certificates when c is under way and all before b is copied.
CopiedSoFar(s, c, b) ==
    [j \in 1..4 |-> IF j < c THEN s.certs[j]
                    ELSE IF j = c THEN SubSeq(Stream(s), Start(s, c) + 1, b) ELSE <<>>]

LEMMA HeadFacts ==
    ASSUME NEW s \in Stores, block \in Blocks
    PROVE  /\ AfterHeader(Object(s, block)) = SubSeq(Stream(s), Pos(block) + 1, Pos(block + 1))
           /\ Len(AfterHeader(Object(s, block))) = Pos(block + 1) - Pos(block)
           /\ Pos(block + 1) <= Len(Stream(s))
           /\ block \in Nat
           /\ Pos(block) \in Nat /\ Pos(block + 1) = 128 * block + 128 /\ Pos(block) < Pos(block + 1)
           /\ block = 0 => Pos(block) = 10
           /\ block # 0 => Pos(block) = 128 * block
<1> DEFINE o == Object(s, block)
           S == Stream(s)
           m == Pos(block) + 1
           n == Pos(block + 1)
<1>1. /\ (IF block = 0 THEN SubSeq(o, HeaderLen + 1, Len(o)) ELSE o) = SubSeq(S, m, n)
      /\ n <= Len(S)
    BY BlockFacts, Zenon
<1>2. /\ Pos(block) \in Nat /\ n = 128 * block + 128 /\ Pos(block) < n
      /\ block = 0 => Pos(block) = 10
      /\ block # 0 => Pos(block) = 128 * block
      /\ block \in Nat
  <2>1. block \in Nat
      BY DEF Blocks
  <2>2. QED
      BY <2>1, PosFacts
<1>3. AfterHeader(o) = SubSeq(S, m, n)
    BY <1>1 DEF AfterHeader
<1>4. S \in Seq(Nat)
    BY StreamFacts
<1> HIDE DEF o, S, n
<1>5. m \in Nat \ {0} /\ n \in Nat /\ m <= n + 1 /\ n - m + 1 = n - Pos(block)
    BY <1>2
<1> HIDE DEF m
<1>6. Len(SubSeq(S, m, n)) = n - m + 1
    BY <1>1, <1>4, <1>5, SliceProperties
<1>7. QED
    BY <1>1, <1>2, <1>3, <1>5, <1>6 DEF o, S, m, n

\* One pass of the loop copies up to the end of the block, or to the end of the
\* last certificate.
LEMMA PassFacts ==
    ASSUME NEW s \in Stores, NEW len, block \in Blocks, curr_cert \in 1..4,
           Start(s, curr_cert) <= Pos(block), Pos(block) < Start(s, curr_cert + 1),
           certs = CopiedSoFar(s, curr_cert, Pos(block)),
           len = Lengths(s)
    PROVE  LET copied == Copied(AfterHeader(Object(s, block)), len)
               e == Pos(block + 1) IN
           \/ /\ e < Start(s, curr_cert + 1)
              /\ copied.certs = CopiedSoFar(s, curr_cert, e)
              /\ copied.curr = curr_cert
              /\ ~copied.done
           \/ /\ e >= Start(s, curr_cert + 1) /\ curr_cert < 4 /\ e < Start(s, curr_cert + 2)
              /\ copied.certs = CopiedSoFar(s, curr_cert + 1, e)
              /\ copied.curr = curr_cert + 1
              /\ ~copied.done
           \/ copied.done /\ copied.certs = s.certs
<1> DEFINE c == curr_cert
           b == Pos(block)
           e == Pos(block + 1)
           S == Stream(s)
           x == Start(s, c)
           y == Start(s, c + 1)
           head == AfterHeader(Object(s, block))
           till_end == len[c] - Len(certs[c])
           n == LeastOf(till_end, Len(head))
           trailer == IF Len(head) > n
                      THEN SubSeq(head, n + 1, n + (TR01_GET_INFO_BLOCK_LEN - n)) ELSE <<>>
           full == Len(certs[c]) + n >= len[c]
           done == full /\ c = 4
           next == IF full /\ ~done THEN c + 1 ELSE c
           copied == [certs EXCEPT ![c] = @ \o SubSeq(head, 1, n)]
           result == [certs |-> IF done THEN copied
                                ELSE [copied EXCEPT ![next] = @ \o trailer],
                      curr |-> next, done |-> done]
<1>1. Copied(head, len) = result
    BY DEF Copied, LT_NUM_CERTIFICATES
<1>2. /\ head = SubSeq(S, b + 1, e) /\ Len(head) = e - b /\ e <= Len(S)
      /\ block \in Nat /\ b \in Nat /\ e = 128 * block + 128 /\ b < e
      /\ block = 0 => b = 10
      /\ block # 0 => b = 128 * block
    BY HeadFacts
<1>3. /\ x \in Nat /\ y \in Nat /\ y = x + Len(s.certs[c]) /\ Len(s.certs[c]) \in Nat
      /\ Len(s.certs[c]) > 128 /\ x >= 10
      /\ s.certs[c] = SubSeq(S, x + 1, y)
    BY CertFacts
<1>4. S \in Seq(Nat) /\ Len(S) \in Nat
    BY StreamFacts
<1>5. x <= b /\ b < y /\ c \in 1..4
    OBVIOUS
<1>6. /\ certs = CopiedSoFar(s, c, b) /\ len = Lengths(s)
      /\ certs[c] = SubSeq(S, x + 1, b) /\ len[c] = Len(s.certs[c])
  <2>1. certs = CopiedSoFar(s, c, b) /\ len = Lengths(s)
      OBVIOUS
  <2> DEFINE old == SubSeq(S, x + 1, b)
  <2>2. CopiedSoFar(s, c, b)
          = [j \in 1..4 |-> IF j < c THEN s.certs[j] ELSE IF j = c THEN old ELSE <<>>]
      BY DEF CopiedSoFar
  <2>3. \A d \in 1..4 : Lengths(s)[d] = Len(s.certs[d])
      BY DEF Lengths
  <2> HIDE DEF c, old
  <2>4. CopiedSoFar(s, c, b)[c] = old
      BY <1>5, <2>2
  <2>5. QED
      BY <1>5, <2>1, <2>3, <2>4 DEF old
<1>7. c < 4 => /\ Start(s, c + 2) = y + Len(s.certs[c + 1]) /\ c + 1 \in 1..4
               /\ Len(s.certs[c + 1]) \in Nat /\ Len(s.certs[c + 1]) > 128
  <2>1. c < 4 => c + 1 \in 1..4 /\ (c + 1) + 1 = c + 2
      BY <1>5
  <2>2. QED
      BY <2>1, CertFacts
<1> DEFINE l == Len(s.certs[c])
           ls == Len(S)
           lc == Len(certs[c])
           lh == Len(head)
<1> HIDE DEF c, b, e, S, x, y, head
<1>a. /\ x \in Nat /\ y \in Nat /\ b \in Nat /\ e \in Nat /\ l \in Nat /\ ls \in Nat
      /\ y = x + l /\ l > 128 /\ x >= 10 /\ x <= b /\ b < y /\ b < e /\ e <= ls /\ lh = e - b
      /\ (e - b = 128 \/ (e = 128 /\ b = 10))
  <2>1. x \in Nat /\ y \in Nat /\ y = x + l /\ l \in Nat /\ l > 128 /\ x >= 10
      BY <1>3
  <2>2. lh = e - b /\ e <= ls /\ ls \in Nat
      BY <1>2, <1>4
  <2>3. /\ block \in Nat /\ b \in Nat /\ e = 128 * block + 128 /\ b < e
        /\ block = 0 => b = 10
        /\ block # 0 => b = 128 * block
      BY <1>2
  <2> HIDE DEF l, ls, lh
  <2>4. e \in Nat /\ (e - b = 128 \/ (e = 128 /\ b = 10))
    <3>1. CASE block = 0
        BY <2>3, <3>1
    <3>2. CASE block # 0
        BY <2>3, <3>2
    <3>3. QED
        BY <3>1, <3>2
  <2>5. QED
      BY <1>5, <2>1, <2>2, <2>3, <2>4
<1>b. certs[c] = SubSeq(S, x + 1, b) /\ len[c] = l
    BY <1>6
<1> HIDE DEF l, ls, lc, lh
<1>c. e >= y => e - b = 128 /\ e < y + 128
    BY <1>a
<1>8. lc = b - x
  <2> DEFINE m == x + 1
  <2>1. m \in Nat \ {0} /\ m <= b + 1 /\ b <= ls /\ b - m + 1 = b - x
      BY <1>a
  <2>2. b <= Len(S) /\ b \in Nat
      BY <1>a, <2>1 DEF ls
  <2>3. certs[c] = SubSeq(S, m, b)
      BY <1>b
  <2> HIDE DEF m
  <2>4. Len(SubSeq(S, m, b)) = b - m + 1
      BY <1>4, <2>1, <2>2, SliceProperties
  <2>5. QED
      BY <2>1, <2>3, <2>4 DEF lc
<1>9. till_end = y - b
  <2>1. till_end = l - lc
      BY <1>b DEF lc
  <2> HIDE DEF till_end
  <2>2. QED
      BY <1>8, <1>a, <2>1
<1> HIDE DEF till_end
<1>10. n = LeastOf(y - b, e - b) /\ n = IF e < y THEN e - b ELSE y - b
  <2>1. n = LeastOf(y - b, e - b)
      BY <1>9, <1>a DEF lh
  <2>2. LeastOf(y - b, e - b) = IF e < y THEN e - b ELSE y - b
      BY <1>a DEF LeastOf
  <2>3. QED
      BY <2>1, <2>2
<1>d. n \in Nat
  <2> HIDE DEF n
  <2>1. QED
      BY <1>10, <1>a
<1>11. full <=> e >= y
  <2>1. full <=> lc + n >= l
      BY <1>b DEF lc
  <2> HIDE DEF full, n
  <2>2. QED
      BY <1>8, <1>10, <1>a, <1>d, <2>1
<1> HIDE DEF n, full
<1>12. /\ e < y => /\ n = e - b
                   /\ SubSeq(S, x + 1, b) \o SubSeq(SubSeq(S, b + 1, e), 1, n) = SubSeq(S, x + 1, e)
       /\ e >= y => /\ n = y - b
                    /\ SubSeq(S, x + 1, b) \o SubSeq(SubSeq(S, b + 1, e), 1, n) = s.certs[c]
                    /\ SubSeq(SubSeq(S, b + 1, e), n + 1, e - b) = SubSeq(S, y + 1, e)
  <2>1. /\ Start(s, c) <= b /\ b < Start(s, c + 1) /\ b < e /\ e <= Len(Stream(s))
        /\ n = LeastOf(Start(s, c + 1) - b, e - b)
        /\ b \in Nat /\ e \in Nat /\ n \in Nat /\ c \in 1..4
      BY <1>5, <1>10, <1>a, <1>d DEF x, y, S, ls
  <2>2. Cut(s, c, b, e, n)
      BY <2>1, CutFacts, Zenon
  <2>3. QED
      BY <2>2 DEF Cut, x, y, S
<1>13. CASE e < y
  <2>1. ~full /\ ~done /\ next = c /\ trailer = <<>>
    <3>1. ~(e >= y) /\ ~(lh > n)
        BY <1>10, <1>13, <1>a
    <3>2. QED
        BY <1>11, <3>1 DEF lh
  <2>2. certs[c] \o SubSeq(head, 1, n) = SubSeq(S, x + 1, e)
      BY <1>2, <1>6, <1>12, <1>13
  <2>3. SubSeq(S, x + 1, e) \o <<>> = SubSeq(S, x + 1, e)
    <3> DEFINE m == x + 1
    <3>1. m \in Nat \ {0} /\ m <= e + 1 /\ e <= Len(S) /\ e \in Nat
        BY <1>a DEF ls
    <3> HIDE DEF m
    <3>2. SubSeq(S, m, e) \in Seq(Nat)
        BY <1>4, <3>1, SliceProperties
    <3>3. QED
        BY <3>2, ConcatEmptySeq DEF m
  <2> HIDE DEF done, next, trailer
  <2>4. result.certs = CopiedSoFar(s, c, e)
    <3> DEFINE old == SubSeq(S, x + 1, b)
               new == SubSeq(S, x + 1, e)
               add == SubSeq(head, 1, n)
    <3>1. certs = [j \in 1..4 |-> IF j < c THEN s.certs[j] ELSE IF j = c THEN old ELSE <<>>]
        BY <1>6 DEF CopiedSoFar, x, S
    <3>2. CopiedSoFar(s, c, e)
            = [j \in 1..4 |-> IF j < c THEN s.certs[j] ELSE IF j = c THEN new ELSE <<>>]
        BY DEF CopiedSoFar, x, S
    <3>3. certs[c] \o add = new /\ new \o <<>> = new
        BY <2>2, <2>3
    <3> HIDE DEF old, new, add
    <3>4. result.certs = [[certs EXCEPT ![c] = certs[c] \o add]
                             EXCEPT ![c] = [certs EXCEPT ![c] = certs[c] \o add][c] \o <<>>]
        BY <2>1 DEF add
    <3>5. [certs EXCEPT ![c] = new][c] = new
        BY <1>5, <3>1
    <3>6. result.certs = [[certs EXCEPT ![c] = new] EXCEPT ![c] = new]
        BY <3>3, <3>4, <3>5
    <3>7. [[certs EXCEPT ![c] = new] EXCEPT ![c] = new]
            = [j \in 1..4 |-> IF j < c THEN s.certs[j] ELSE IF j = c THEN new ELSE <<>>]
        BY <1>5, <3>1
    <3>8. QED
        BY <3>2, <3>6, <3>7
  <2>5. QED
      BY <1>1, <1>13, <2>1, <2>4 DEF c, e, y, head
<1>14. CASE e >= y /\ c < 4
  <2>1. full /\ ~done /\ next = c + 1
      BY <1>11, <1>14
  <2>2. certs[c] \o SubSeq(head, 1, n) = s.certs[c]
      BY <1>2, <1>6, <1>12, <1>14
  <2>3. e - b = 128 /\ e < y + 128
      BY <1>14, <1>c
  <2>4. trailer = SubSeq(S, y + 1, e)
    <3>1. CASE e > y
      <4>1. Len(head) > n /\ n + (TR01_GET_INFO_BLOCK_LEN - n) = e - b
        <5>1. lh > n /\ n + (128 - n) = e - b
            BY <1>10, <1>14, <1>a, <1>d, <2>3, <3>1
        <5>2. QED
            BY <5>1 DEF lh, TR01_GET_INFO_BLOCK_LEN
      <4>2. trailer = SubSeq(head, n + 1, e - b)
          BY <4>1
      <4>3. QED
          BY <1>2, <1>12, <1>14, <4>2
    <3>2. CASE e = y
      <4>1. trailer = <<>>
        <5>1. ~(lh > n)
            BY <1>10, <1>14, <1>a, <3>2
        <5>2. QED
            BY <5>1 DEF lh
      <4>2. y + 1 \in Int /\ e \in Int /\ y + 1 > e
          BY <1>a, <3>2
      <4>3. SubSeq(S, y + 1, e) = <<>>
          BY <4>2, SubSeqEmpty
      <4>4. QED
          BY <4>1, <4>3
    <3>3. e > y \/ e = y
        BY <1>14, <1>a
    <3>4. QED
        BY <3>1, <3>2, <3>3
  <2>5. <<>> \o SubSeq(S, y + 1, e) = SubSeq(S, y + 1, e)
    <3> DEFINE m == y + 1
    <3>1. m \in Nat \ {0} /\ m <= e + 1 /\ e <= Len(S) /\ e \in Nat
        BY <1>a, <1>14 DEF ls
    <3> HIDE DEF m
    <3>2. SubSeq(S, m, e) \in Seq(Nat)
        BY <1>4, <3>1, SliceProperties
    <3>3. QED
        BY <3>2, ConcatEmptySeq DEF m
  <2> HIDE DEF done, next, trailer
  <2>6. result.certs = CopiedSoFar(s, c + 1, e)
    <3> DEFINE old == SubSeq(S, x + 1, b)
               new == SubSeq(S, y + 1, e)
               add == SubSeq(head, 1, n)
               d == c + 1
    <3>1. certs = [j \in 1..4 |-> IF j < c THEN s.certs[j] ELSE IF j = c THEN old ELSE <<>>]
        BY <1>6 DEF CopiedSoFar, x, S
    <3>2. CopiedSoFar(s, c + 1, e)
            = [j \in 1..4 |-> IF j < c + 1 THEN s.certs[j] ELSE IF j = c + 1 THEN new ELSE <<>>]
        BY DEF CopiedSoFar, y, S
    <3>3. certs[c] \o add = s.certs[c] /\ <<>> \o new = new
        BY <2>2, <2>5
    <3> HIDE DEF old, new, add
    <3> DEFINE whole == s.certs[c]
               cs == s.certs
    <3>a. [certs EXCEPT ![c] = whole]
            = [j \in 1..4 |-> IF j < c + 1 THEN s.certs[j] ELSE <<>>]
      <4>1. [certs EXCEPT ![c] = whole]
              = [j \in 1..4 |-> IF j = c THEN whole ELSE certs[j]]
          BY <3>1
      <4>2. \A j \in 1..4 : (IF j = c THEN whole ELSE certs[j])
                              = IF j < c + 1 THEN cs[j] ELSE <<>>
        <5>1. \A j \in 1..4 : j # c => certs[j] = IF j < c THEN cs[j] ELSE <<>>
            BY <3>1
        <5>2. \A j \in 1..4 : (j < c + 1) <=> (j < c \/ j = c)
            BY <1>5
        <5>3. whole = cs[c]
            OBVIOUS
        <5> HIDE DEF whole, cs
        <5>4. QED
            BY <1>5, <5>1, <5>2, <5>3
      <4>3. QED
          BY <4>1, <4>2
    <3>4. [certs EXCEPT ![c] = certs[c] \o add]
            = [j \in 1..4 |-> IF j < c + 1 THEN s.certs[j] ELSE <<>>]
        BY <3>3, <3>a
    <3>5. result.certs = [[certs EXCEPT ![c] = certs[c] \o add]
                             EXCEPT ![c + 1] = [certs EXCEPT ![c] = certs[c] \o add][c + 1] \o new]
        BY <2>1, <2>4 DEF add, new
    <3>6. [certs EXCEPT ![c] = certs[c] \o add][c + 1] = <<>>
        BY <1>7, <1>14, <3>4, <1>5
    <3>7. result.certs = [[certs EXCEPT ![c] = certs[c] \o add] EXCEPT ![c + 1] = new]
        BY <3>3, <3>5, <3>6
    <3>8. [[certs EXCEPT ![c] = certs[c] \o add] EXCEPT ![c + 1] = new]
            = [j \in 1..4 |-> IF j < c + 1 THEN s.certs[j] ELSE IF j = c + 1 THEN new ELSE <<>>]
      <4> DEFINE one == [certs EXCEPT ![c] = certs[c] \o add]
      <4>1. one = [j \in 1..4 |-> IF j < c + 1 THEN cs[j] ELSE <<>>]
          BY <3>4
      <4> HIDE DEF one, cs
      <4>2. [one EXCEPT ![c + 1] = new]
              = [j \in 1..4 |-> IF j < c + 1 THEN cs[j] ELSE IF j = c + 1 THEN new ELSE <<>>]
          BY <1>5, <1>7, <1>14, <4>1
      <4>3. QED
          BY <4>2 DEF one, cs
    <3>9. QED
        BY <3>2, <3>7, <3>8
  <2>7. e < Start(s, c + 2)
    <3> DEFINE z == Start(s, c + 2)
               k == Len(s.certs[c + 1])
    <3>1. z = y + k /\ k \in Nat /\ k > 128
        BY <1>7, <1>14
    <3> HIDE DEF z, k
    <3>2. e < z
        BY <1>a, <2>3, <3>1
    <3>3. QED
        BY <3>2 DEF z
  <2>8. QED
      BY <1>1, <1>14, <2>1, <2>6, <2>7 DEF c, e, y, head
<1>15. CASE e >= y /\ c = 4
  <2>1. done
      BY <1>11, <1>15
  <2>2. certs[c] \o SubSeq(head, 1, n) = s.certs[c]
      BY <1>2, <1>6, <1>12, <1>15
  <2>3. s.certs = [j \in 1..4 |-> s.certs[j]]
      BY StoresAssumption DEF LT_NUM_CERTIFICATES
  <2> HIDE DEF done, next, trailer
  <2>4. result.certs = s.certs
    <3> DEFINE old == SubSeq(S, x + 1, b)
               add == SubSeq(head, 1, n)
    <3>1. certs = [j \in 1..4 |-> IF j < c THEN s.certs[j] ELSE IF j = c THEN old ELSE <<>>]
        BY <1>6 DEF CopiedSoFar, x, S
    <3>2. certs[c] \o add = s.certs[c]
        BY <2>2
    <3>3. result.certs = [certs EXCEPT ![c] = certs[c] \o add]
        BY <2>1 DEF add
    <3> HIDE DEF old, add
    <3> DEFINE cs == s.certs
               whole == cs[c]
    <3>4. cs = [j \in 1..4 |-> cs[j]]
        BY <2>3
    <3>5. \A j \in 1..4 : j # c => j < c
        BY <1>15
    <3>6. certs = [j \in 1..4 |-> IF j < c THEN cs[j] ELSE IF j = c THEN old ELSE <<>>]
        BY <3>1
    <3>7. result.certs = [certs EXCEPT ![c] = whole]
        BY <3>2, <3>3
    <3>8. [certs EXCEPT ![c] = whole] = [j \in 1..4 |-> cs[j]]
      <4>1. whole = cs[c]
          OBVIOUS
      <4> HIDE DEF cs, whole
      <4>2. QED
          BY <1>5, <3>5, <3>6, <4>1
    <3>9. QED
        BY <3>4, <3>7, <3>8
  <2>5. QED
      BY <1>1, <2>1, <2>4 DEF c, e, y, head
<1>16. QED
  <2>1. e < y \/ (e >= y /\ (c < 4 \/ c = 4))
      BY <1>5, <1>a
  <2>2. QED
      BY <1>13, <1>14, <1>15, <2>1

-----------------------------------------------------------------------------
(* The invariant of the copying.                                           *)

Reading == {"chip_id", "riscv_fw_ver", "spect_fw_ver", "calloc", "mode"}

BeforeBlocks ==
    cert_pc \in Reading =>
        store \in Stores /\ block = 0 /\ curr_cert = 1 /\ certs = Empty

\* The block begins within the certificate under way, all before which is copied.
BlocksCopied ==
    cert_pc = "blocks" =>
        /\ store \in Stores /\ block \in Nat /\ curr_cert \in 1..4
        /\ Start(store, curr_cert) <= Pos(block)
        /\ Pos(block) < Start(store, curr_cert + 1)
        /\ certs = CopiedSoFar(store, curr_cert, Pos(block))
        /\ block # 0 => /\ cert_len = Lengths(store)
                        /\ \A j \in 1..4 :
                              cert_len[j] <= TR01_L2_GET_INFO_REQ_CERT_SIZE_SINGLE

AllCopied ==
    cert_pc \in {"parse", "parsing", "session"} =>
        /\ store \in Stores /\ certs = store.certs /\ cert_len = Lengths(store)
        /\ \A j \in 1..4 : cert_len[j] <= TR01_L2_GET_INFO_REQ_CERT_SIZE_SINGLE

\* The contents i belong to a header behind q: a tag, and a length of one to three bytes.
HeaderOf(q, i) == q + 2 <= i /\ i <= q + 4

\* p is behind an object identifier whose first three bytes are those of X25519.
Identified(s, p) ==
    \E q, i \in Nat : /\ s[q + 1] = LT_ASN1DER_OBJECT_IDENTIFIER /\ HeaderOf(q, i)
                      /\ i + 3 <= p /\ Number(s, i, 3) = LT_OBJ_ID_CURVEX25519

\* What was sampled is what the parser consumed of an object behind the identifier, of
\* a type that may be sampled: whole, or its end if that is longer than a key.
SampledFrom(s, sbuf) ==
    \E q, m, a, b \in Nat :
        /\ Identified(s, q)
        /\ s[q + 1] \in Sampled /\ HeaderOf(q, m)
        /\ m <= a /\ a <= b /\ b <= Len(s) /\ b - a <= TR01_STPUB_LEN
        /\ a = m \/ b - a = TR01_STPUB_LEN
        /\ sbuf = SubSeq(s, a + 1, b)

ParserRets == {"LT_OK", "LT_CERT_STORE_INVALID", "LT_CERT_UNSUPPORTED", "LT_CERT_ITEM_NOT_FOUND"}
Parsers == [past : Nat, ends : Seq(Nat), sample_next : BOOLEAN, found : BOOLEAN,
            sbuf : Seq(Nat), ret : ParserRets]

\* The parser stays within s, and every loop under way has consumed two bytes.
ParserOK(ctx, s) ==
    /\ ctx \in Parsers /\ ctx.ret = "LT_OK"
    /\ ctx.past <= Len(s)
    /\ Len(ctx.ends) > 0 /\ 2 * (Len(ctx.ends) - 1) <= ctx.past
    /\ ctx.sample_next => Identified(s, ctx.past)
    /\ ctx.found => SampledFrom(s, ctx.sbuf)

ParserWithin == cert_pc = "parsing" => ParserOK(parser, store.certs[1])

\* The key of the session.
KeyIdentified == cert_pc = "session" => SampledFrom(store.certs[1], stpub)

CertInv == BeforeBlocks /\ BlocksCopied /\ AllCopied /\ ParserWithin /\ KeyIdentified

\* The passes of the parser's loops that may be left.
PassesLeft == Len(store.certs[1]) - parser.past + Len(parser.ends)

ParserStep == cert_pc = "parsing" /\ cert_pc' = "parsing" => PassesLeft' < PassesLeft

PassesBounded ==
    cert_pc = "parsing" =>
        PassesLeft \in 0..(TR01_L2_GET_INFO_REQ_CERT_SIZE_SINGLE + 1)

-----------------------------------------------------------------------------
(* The parser, for every stream of bytes.                                  *)

LEMMA IdentifiedBefore ==
    ASSUME NEW s, NEW p \in Nat, NEW q \in Nat, p <= q, Identified(s, p)
    PROVE  Identified(s, q)
<1>1. PICK o \in Nat, i \in Nat :
          /\ s[o + 1] = LT_ASN1DER_OBJECT_IDENTIFIER /\ HeaderOf(o, i)
          /\ i + 3 <= p /\ Number(s, i, 3) = LT_OBJ_ID_CURVEX25519
    BY DEF Identified
<1>2. i + 3 <= q
    BY <1>1
<1>3. QED
    BY <1>1, <1>2 DEF Identified

\* r is ctx some bytes further, or an error.
Further(ctx, r, s) ==
    /\ r \in Parsers
    /\ r.ret = "LT_OK" =>
          /\ r.past >= ctx.past /\ r.past <= Len(s)
          /\ r.ends = ctx.ends /\ r.sample_next = ctx.sample_next
          /\ r.found = ctx.found /\ r.sbuf = ctx.sbuf

LEMMA Consumes ==
    ASSUME NEW s \in Seq(Nat), NEW ctx \in Parsers, ctx.ret = "LT_OK", ctx.past <= Len(s),
           NEW n \in Nat
    PROVE  /\ Further(ctx, Consume(ctx, s, n), s)
           /\ Consume(ctx, s, n).ret = "LT_OK" => Consume(ctx, s, n).past = ctx.past + n
<1>1. ctx.past \in Nat /\ Len(s) \in Nat
    BY LenProperties DEF Parsers
<1>2. CASE ctx.past + n > Len(s)
  <2>1. Consume(ctx, s, n) = [ctx EXCEPT !.ret = "LT_CERT_STORE_INVALID"]
      BY <1>2 DEF Consume, Error
  <2>2. QED
      BY <2>1 DEF Further, Parsers, ParserRets
<1>3. CASE ~(ctx.past + n > Len(s))
  <2>1. Consume(ctx, s, n) = [ctx EXCEPT !.past = ctx.past + n]
      BY <1>3 DEF Consume
  <2> DEFINE q == ctx.past + n
  <2>2. q \in Nat /\ q >= ctx.past /\ q <= Len(s)
      BY <1>1, <1>3
  <2>3. Consume(ctx, s, n) = [ctx EXCEPT !.past = q]
      BY <2>1
  <2> HIDE DEF q
  <2>4. [ctx EXCEPT !.past = q] \in Parsers
      BY <2>2 DEF Parsers
  <2>5. Further(ctx, [ctx EXCEPT !.past = q], s) /\ [ctx EXCEPT !.past = q].past = q
      BY <2>2, <2>4 DEF Further, Parsers
  <2>6. QED
      BY <2>3, <2>5 DEF q
<1>4. QED
    BY <1>2, <1>3

LEMMA NumberIsNat ==
    ASSUME NEW s \in Seq(Nat), NEW past \in Nat, NEW n \in Nat, n <= 2, past + n <= Len(s)
    PROVE  Number(s, past, n) \in Nat
<1>1. Len(s) \in Nat
    BY LenProperties
<1> DEFINE Byte(i) == IF i <= n THEN s[past + n - i + 1] ELSE 0
<1>2. \A i \in 1..3 : Byte(i) \in Nat
  <2>1. TAKE i \in 1..3
  <2>2. CASE i <= n
    <3>1. past + n - i + 1 \in 1..Len(s)
        BY <1>1, <2>2
    <3>2. QED
        BY <2>2, <3>1, ElementOfSeq
  <2>3. CASE ~(i <= n)
      BY <2>3
  <2>4. QED
      BY <2>2, <2>3
<1>3. Number(s, past, n) = 65536 * Byte(3) + 256 * Byte(2) + Byte(1)
    BY DEF Number
<1>4. Byte(1) \in Nat /\ Byte(2) \in Nat /\ Byte(3) \in Nat
    BY <1>2
<1> HIDE DEF Byte
<1>5. QED
    BY <1>3, <1>4

\* The header of an object is its tag, and a length of one to three bytes.
LEMMA HeaderReads ==
    ASSUME NEW s \in Seq(Nat), NEW ctx \in Parsers, ctx.ret = "LT_OK", ctx.past <= Len(s)
    PROVE  /\ Further(ctx, Header(ctx, s).ctx, s)
           /\ Header(ctx, s).ctx.ret = "LT_OK" =>
                 /\ HeaderOf(ctx.past, Header(ctx, s).ctx.past)
                 /\ Header(ctx, s).tag = s[ctx.past + 1]
                 /\ Header(ctx, s).len \in Nat
<1> DEFINE first == Consume(ctx, s, 2)
           b == s[ctx.past + 2]
           long == Consume(first, s, n_bytes(b))
           h == Header(ctx, s)
<1>1. ctx.past \in Nat /\ Len(s) \in Nat
    BY LenProperties DEF Parsers
<1>2. /\ Further(ctx, first, s)
      /\ first.ret = "LT_OK" => first.past = ctx.past + 2
    BY Consumes
<1> HIDE DEF first
<1>3. CASE first.ret # "LT_OK"
  <2>1. h = [ctx |-> first, tag |-> 0, len |-> 0]
      BY <1>3 DEF Header, first
  <2>2. QED
      BY <1>2, <1>3, <2>1
<1>4. CASE first.ret = "LT_OK"
  <2>1. /\ first \in Parsers /\ first.past = ctx.past + 2 /\ first.past <= Len(s)
        /\ first.past \in Nat /\ b \in Nat /\ n_bytes(b) \in Nat
    <3>1. first \in Parsers /\ first.past = ctx.past + 2 /\ first.past <= Len(s)
        BY <1>2, <1>4 DEF Further
    <3>2. ctx.past + 2 \in 1..Len(s)
        BY <1>1, <3>1
    <3>3. b \in Nat
        BY <3>2, ElementOfSeq
    <3> HIDE DEF b
    <3>4. n_bytes(b) \in Nat
        BY <3>3 DEF n_bytes
    <3>5. QED
        BY <1>1, <3>1, <3>3, <3>4
  <2>2. CASE IsShort(b)
    <3>1. h = [ctx |-> first, tag |-> s[ctx.past + 1], len |-> b]
        BY <1>4, <2>2 DEF Header, first
    <3>2. QED
        BY <1>1, <1>2, <1>4, <2>1, <3>1 DEF HeaderOf
  <2>3. CASE ~IsShort(b) /\ n_bytes(b) > 2
    <3>1. h = [ctx |-> Error(first, "LT_CERT_UNSUPPORTED"), tag |-> 0, len |-> 0]
        BY <1>4, <2>3 DEF Header, first
    <3>2. Error(first, "LT_CERT_UNSUPPORTED") \in Parsers
          /\ Error(first, "LT_CERT_UNSUPPORTED").ret # "LT_OK"
        BY <2>1 DEF Error, Parsers, ParserRets
    <3>3. QED
        BY <3>1, <3>2 DEF Further
  <2>4. CASE ~IsShort(b) /\ ~(n_bytes(b) > 2)
    <3>1. /\ Further(first, long, s)
          /\ long.ret = "LT_OK" => long.past = first.past + n_bytes(b)
        BY <1>4, <2>1, Consumes
    <3>2. CASE long.ret # "LT_OK"
      <4>1. h = [ctx |-> long, tag |-> 0, len |-> 0]
          BY <1>4, <2>4, <3>2 DEF Header, first
      <4> HIDE DEF long
      <4>2. QED
          BY <3>1, <3>2, <4>1 DEF Further
    <3>3. CASE long.ret = "LT_OK"
      <4>1. h = [ctx |-> long, tag |-> s[ctx.past + 1],
                 len |-> Number(s, first.past, n_bytes(b))]
          BY <1>4, <2>4, <3>3 DEF Header, first
      <4> HIDE DEF long, b
      <4>2. long.past = first.past + n_bytes(b) /\ long.past <= Len(s)
          BY <3>1, <3>3 DEF Further
      <4>3. Number(s, first.past, n_bytes(b)) \in Nat
          BY <2>1, <2>4, <4>2, NumberIsNat
      <4>4. Further(ctx, long, s)
          BY <1>1, <1>2, <1>4, <2>1, <3>1, <3>3, <4>2 DEF Further
      <4>5. HeaderOf(ctx.past, long.past)
          BY <1>1, <2>1, <2>4, <4>2 DEF HeaderOf
      <4>6. QED
          BY <4>1, <4>3, <4>4, <4>5
    <3>4. QED
        BY <3>2, <3>3
  <2>5. QED
      BY <2>2, <2>3, <2>4
<1>5. QED
    BY <1>3, <1>4

\* An identifier X25519 is remembered.
LEMMA IdentifierKeeps ==
    ASSUME NEW s \in Seq(Nat), NEW ctx, ParserOK(ctx, s), NEW len \in Nat,
           NEW q \in Nat, s[q + 1] = LT_ASN1DER_OBJECT_IDENTIFIER, HeaderOf(q, ctx.past)
    PROVE  LET r == Identifier(ctx, s, len, LT_OBJ_ID_CURVEX25519) IN
           r.ret = "LT_OK" =>
               ParserOK(r, s) /\ r.past >= ctx.past /\ r.ends = ctx.ends
<1> DEFINE after == Consume(ctx, s, len)
           same == Number(s, ctx.past, 3) = LT_OBJ_ID_CURVEX25519
           r == Identifier(ctx, s, len, LT_OBJ_ID_CURVEX25519)
<1>1. /\ ctx \in Parsers /\ ctx.ret = "LT_OK" /\ ctx.past <= Len(s)
      /\ ctx.past \in Nat /\ Len(s) \in Nat
      /\ ctx.ends \in Seq(Nat) /\ Len(ctx.ends) \in Nat
    BY LenProperties DEF ParserOK, Parsers
<1>2. /\ Further(ctx, after, s)
      /\ after.ret = "LT_OK" => after.past = ctx.past + len
    BY <1>1, Consumes
<1> HIDE DEF after, same
<1>3. CASE len < 3
    BY <1>1, <1>3 DEF Identifier
<1>4. CASE ~(len < 3) /\ after.ret # "LT_OK"
    BY <1>4 DEF Identifier, after
<1>5. CASE ~(len < 3) /\ after.ret = "LT_OK"
  <2>1. r = [after EXCEPT !.sample_next = after.sample_next \/ same]
      BY <1>5 DEF Identifier, after, same
  <2>2. /\ after \in Parsers /\ after.past = ctx.past + len /\ after.past <= Len(s)
        /\ after.ends = ctx.ends /\ after.sample_next = ctx.sample_next
        /\ after.found = ctx.found /\ after.sbuf = ctx.sbuf /\ after.past \in Nat
      BY <1>1, <1>2, <1>5 DEF Further
  <2>3. same => Identified(s, after.past)
    <3>1. ctx.past + 3 <= after.past
        BY <1>1, <1>5, <2>2
    <3>2. QED
        BY <1>1, <3>1 DEF Identified, same
  <2>4. ctx.sample_next => Identified(s, after.past)
    <3>1. ctx.sample_next => Identified(s, ctx.past)
        BY DEF ParserOK
    <3>2. ctx.past <= after.past
        BY <1>1, <2>2
    <3>3. QED
        BY <1>1, <2>2, <3>1, <3>2, IdentifiedBefore
  <2>5. /\ r \in Parsers /\ r.ret = after.ret /\ r.past = after.past /\ r.ends = after.ends
        /\ r.found = after.found /\ r.sbuf = after.sbuf
        /\ r.sample_next = (after.sample_next \/ same)
    <3> HIDE DEF r
    <3>1. (after.sample_next \/ same) \in BOOLEAN
        OBVIOUS
    <3>2. QED
        BY <2>1, <2>2, <3>1 DEF Parsers
  <2> HIDE DEF r
  <2>6. 2 * (Len(ctx.ends) - 1) <= r.past /\ Len(ctx.ends) > 0 /\ r.past >= ctx.past
    <3>1. 2 * (Len(ctx.ends) - 1) <= ctx.past /\ Len(ctx.ends) > 0
        BY DEF ParserOK
    <3>2. r.past = ctx.past + len
        BY <2>2, <2>5
    <3>3. QED
        BY <1>1, <3>1, <3>2
  <2>7. r.found => SampledFrom(s, r.sbuf)
      BY <2>2, <2>5 DEF ParserOK
  <2>8. r.sample_next => Identified(s, r.past)
      BY <2>2, <2>3, <2>4, <2>5
  <2>9. ParserOK(r, s)
      BY <1>5, <2>2, <2>5, <2>6, <2>7, <2>8 DEF ParserOK
  <2>10. QED
      BY <2>2, <2>5, <2>6, <2>9 DEF r
<1>6. QED
    BY <1>3, <1>4, <1>5

\* What is sampled is the end of the object behind the identifier.
LEMMA SampleKeeps ==
    ASSUME NEW s \in Seq(Nat), NEW ctx, ParserOK(ctx, s), NEW len \in Nat,
           NEW q \in Nat, Identified(s, q), s[q + 1] \in Sampled, HeaderOf(q, ctx.past)
    PROVE  LET r == Sample(ctx, s, len, TR01_STPUB_LEN) IN
           r.ret = "LT_OK" =>
               ParserOK(r, s) /\ r.past >= ctx.past /\ r.ends = ctx.ends
<1> DEFINE sample_len == len % 256
           n == IF sample_len < TR01_STPUB_LEN THEN sample_len ELSE TR01_STPUB_LEN
           after == Consume(ctx, s, sample_len)
           r == Sample(ctx, s, len, TR01_STPUB_LEN)
<1>1. /\ ctx \in Parsers /\ ctx.ret = "LT_OK" /\ ctx.past <= Len(s)
      /\ ctx.past \in Nat /\ Len(s) \in Nat
      /\ ctx.ends \in Seq(Nat) /\ Len(ctx.ends) \in Nat
    BY LenProperties DEF ParserOK, Parsers
<1>2. sample_len \in Nat
    OBVIOUS
<1> HIDE DEF sample_len
<1>3. n \in Nat /\ n <= sample_len /\ n <= TR01_STPUB_LEN /\ (n = sample_len \/ n = TR01_STPUB_LEN)
    BY <1>2 DEF TR01_STPUB_LEN
<1> HIDE DEF n
<1>4. /\ Further(ctx, after, s)
      /\ after.ret = "LT_OK" => after.past = ctx.past + sample_len
    BY <1>1, <1>2, Consumes
<1> HIDE DEF after
<1>5. CASE after.ret # "LT_OK"
    BY <1>5 DEF Sample, after, sample_len
<1>6. CASE after.ret = "LT_OK"
  <2> DEFINE new == SubSeq(s, after.past - n + 1, after.past)
             a == after.past - n
  <2>1. r = [after EXCEPT !.sample_next = FALSE, !.found = TRUE, !.sbuf = new]
      BY <1>6 DEF Sample, after, sample_len, n
  <2>2. /\ after \in Parsers /\ after.past = ctx.past + sample_len /\ after.past <= Len(s)
        /\ after.ends = ctx.ends /\ after.past \in Nat
      BY <1>1, <1>2, <1>4, <1>6 DEF Further
  <2>3. /\ a \in Nat /\ ctx.past <= a /\ a <= after.past /\ after.past - a = n
        /\ a + 1 <= after.past + 1
        /\ a = ctx.past \/ n = TR01_STPUB_LEN
    <3> DEFINE p == ctx.past
               e == after.past
    <3>1. p \in Nat /\ e = p + sample_len
        BY <1>1, <2>2
    <3> HIDE DEF p, e
    <3>2. /\ e - n \in Nat /\ p <= e - n /\ e - n <= e /\ e - (e - n) = n /\ (e - n) + 1 <= e + 1
          /\ e - n = p \/ n = TR01_STPUB_LEN
        BY <1>2, <1>3, <3>1
    <3>3. QED
        BY <3>2 DEF p, e
  <2>4. new = SubSeq(s, a + 1, after.past)
      OBVIOUS
  <2> HIDE DEF a, new
  <2>5. new \in Seq(Nat)
    <3> DEFINE m == a + 1
    <3>1. m \in Nat \ {0} /\ m <= after.past + 1
        BY <2>3
    <3> HIDE DEF m
    <3>2. SubSeq(s, m, after.past) \in Seq(Nat)
        BY <2>2, <3>1, SliceProperties
    <3>3. QED
        BY <2>4, <3>2 DEF m
  <2>6. a = ctx.past \/ after.past - a = TR01_STPUB_LEN
      BY <2>3
  <2>7. SampledFrom(s, new)
      BY <1>1, <1>3, <2>2, <2>3, <2>4, <2>6 DEF SampledFrom
  <2>8. /\ r \in Parsers /\ r.ret = after.ret /\ r.past = after.past /\ r.ends = after.ends
        /\ r.found = TRUE /\ r.sbuf = new /\ r.sample_next = FALSE
    <3> HIDE DEF r
    <3>1. QED
        BY <2>1, <2>2, <2>5 DEF Parsers
  <2> HIDE DEF r
  <2>9. 2 * (Len(ctx.ends) - 1) <= r.past /\ Len(ctx.ends) > 0 /\ r.past >= ctx.past
    <3>1. 2 * (Len(ctx.ends) - 1) <= ctx.past /\ Len(ctx.ends) > 0
        BY DEF ParserOK
    <3>2. r.past = ctx.past + sample_len
        BY <2>2, <2>8
    <3>3. QED
        BY <1>1, <1>2, <3>1, <3>2
  <2>10. ParserOK(r, s)
      BY <1>6, <2>2, <2>7, <2>8, <2>9 DEF ParserOK
  <2>11. QED
      BY <2>2, <2>8, <2>9, <2>10 DEF r
<1>7. QED
    BY <1>5, <1>6

\* The parser goes on with an object: the invariant is kept, and fewer passes are left.
Descends(ctx, r, s) ==
    ParserOK(r, s) /\ Len(s) - r.past + Len(r.ends) < Len(s) - ctx.past + Len(ctx.ends)

LEMMA FurtherDescends ==
    ASSUME NEW s \in Seq(Nat), NEW ctx, NEW r, ParserOK(ctx, s), ParserOK(r, s),
           r.past >= ctx.past + 2, r.ends = ctx.ends
    PROVE  Descends(ctx, r, s)
<1> DEFINE p == ctx.past
           q == r.past
           l == Len(s)
           e == Len(ctx.ends)
<1>1. p \in Nat /\ q \in Nat /\ l \in Nat /\ e \in Nat /\ q >= p + 2 /\ Len(r.ends) = e
    BY LenProperties DEF ParserOK, Parsers
<1> HIDE DEF p, q, l, e
<1>2. l - q + e < l - p + e
    BY <1>1
<1>3. QED
    BY <1>1, <1>2 DEF Descends, p, q, l, e

LEMMA FurtherKeeps ==
    ASSUME NEW s \in Seq(Nat), NEW ctx, NEW r, ParserOK(ctx, s), Further(ctx, r, s),
           r.ret = "LT_OK"
    PROVE  ParserOK(r, s)
<1>1. /\ r \in Parsers /\ r.past >= ctx.past /\ r.past <= Len(s)
      /\ r.ends = ctx.ends /\ r.sample_next = ctx.sample_next
      /\ r.found = ctx.found /\ r.sbuf = ctx.sbuf
      /\ r.past \in Nat /\ ctx.past \in Nat /\ ctx.ends \in Seq(Nat) /\ Len(ctx.ends) \in Nat
    BY LenProperties DEF ParserOK, Further, Parsers
<1>2. ctx.sample_next => Identified(s, r.past)
  <2>1. ctx.sample_next => Identified(s, ctx.past)
      BY DEF ParserOK
  <2>2. QED
      BY <1>1, <2>1, IdentifiedBefore
<1>3. ctx.found => SampledFrom(s, r.sbuf)
    BY <1>1 DEF ParserOK
<1>4. Len(r.ends) > 0 /\ 2 * (Len(r.ends) - 1) <= r.past
  <2> DEFINE p == ctx.past
             q == r.past
             e == Len(ctx.ends)
  <2>1. p \in Nat /\ q \in Nat /\ e \in Nat /\ q >= p /\ e > 0 /\ 2 * (e - 1) <= p
      BY <1>1 DEF ParserOK
  <2> HIDE DEF p, q, e
  <2>2. 2 * (e - 1) <= q
      BY <2>1
  <2>3. QED
      BY <1>1, <2>1, <2>2 DEF q, e
<1>5. QED
    BY <1>1, <1>2, <1>3, <1>4 DEF ParserOK

LEMMA ObjectKeeps ==
    ASSUME NEW s \in Seq(Nat), NEW ctx, ParserOK(ctx, s)
    PROVE  LET r == ParseObject(ctx, s, LT_OBJ_ID_CURVEX25519, TR01_STPUB_LEN) IN
           r.ret = "LT_OK" => Descends(ctx, r, s)
<1> DEFINE h == Header(ctx, s)
           c == h.ctx
           len == h.len
           r == ParseObject(ctx, s, LT_OBJ_ID_CURVEX25519, TR01_STPUB_LEN)
<1>1. ctx \in Parsers /\ ctx.ret = "LT_OK" /\ ctx.past <= Len(s) /\ ctx.past \in Nat
    BY DEF ParserOK, Parsers
<1>2. /\ Further(ctx, c, s)
      /\ c.ret = "LT_OK" => HeaderOf(ctx.past, c.past) /\ h.tag = s[ctx.past + 1] /\ len \in Nat
    BY <1>1, HeaderReads
<1> HIDE DEF h
<1>3. CASE c.ret # "LT_OK"
    BY <1>3 DEF ParseObject, h
<1>4. CASE c.ret = "LT_OK"
  <2>1. /\ ParserOK(c, s) /\ HeaderOf(ctx.past, c.past) /\ c.past >= ctx.past + 2
        /\ len \in Nat /\ c.ends = ctx.ends /\ c.sample_next = ctx.sample_next
      BY <1>2, <1>4, FurtherKeeps DEF Further, HeaderOf
  <2> HIDE DEF c, len
  <2>2. /\ c \in Parsers /\ c.past \in Nat /\ c.ends \in Seq(Nat) /\ c.past <= Len(s)
        /\ Len(c.ends) \in Nat /\ Len(s) \in Nat
      BY <2>1, LenProperties DEF ParserOK, Parsers
  <2>3. ASSUME NEW q, q = r, q.ret = "LT_OK", ParserOK(q, s), q.past >= c.past, q.ends = c.ends
        PROVE  Descends(ctx, q, s)
    <3>1. q.past >= ctx.past + 2
      <4>1. q.past \in Nat
          BY <2>3 DEF ParserOK, Parsers
      <4>2. QED
          BY <1>1, <2>1, <2>2, <2>3, <4>1
    <3>2. QED
        BY <2>1, <2>3, <3>1, FurtherDescends
  <2>4. CASE h.tag = LT_ASN1DER_SEQUENCE
    <3> DEFINE end == c.past + len
               more == Append(c.ends, end)
    <3>1. r = [c EXCEPT !.ends = more]
        BY <1>4, <2>4 DEF ParseObject, h, c, len
    <3>2. end \in Nat
        BY <2>1, <2>2
    <3> HIDE DEF end
    <3>3. more \in Seq(Nat) /\ Len(more) = Len(c.ends) + 1
        BY <2>2, <3>2
    <3> HIDE DEF more, r
    <3>4. /\ r \in Parsers /\ r.past = c.past /\ r.ends = more /\ r.ret = c.ret
          /\ r.sample_next = c.sample_next /\ r.found = c.found /\ r.sbuf = c.sbuf
        BY <2>2, <3>1, <3>3 DEF Parsers
    <3> DEFINE p == ctx.past
               q == c.past
               e == Len(ctx.ends)
               l == Len(s)
    <3>5. /\ p \in Nat /\ q \in Nat /\ e \in Nat /\ l \in Nat /\ q >= p + 2
          /\ e > 0 /\ 2 * (e - 1) <= p
          /\ Len(more) = e + 1
        BY <1>1, <2>1, <2>2, <3>3 DEF ParserOK
    <3> HIDE DEF p, q, e, l
    <3>6. e + 1 > 0 /\ 2 * (e + 1 - 1) <= q /\ l - q + (e + 1) < l - p + e
        BY <3>5
    <3>7. ParserOK(r, s)
        BY <1>4, <2>1, <3>4, <3>5, <3>6 DEF ParserOK, q
    <3>8. QED
        BY <3>4, <3>5, <3>6, <3>7 DEF Descends, p, q, e, l, r
  <2>5. CASE h.tag = LT_ASN1DER_OBJECT_IDENTIFIER
    <3>1. r = Identifier(c, s, len, LT_OBJ_ID_CURVEX25519)
        BY <1>4, <2>5 DEF ParseObject, h, c, len, LT_ASN1DER_OBJECT_IDENTIFIER, LT_ASN1DER_SEQUENCE
    <3>2. r.ret = "LT_OK" => ParserOK(r, s) /\ r.past >= c.past /\ r.ends = c.ends
      <4>1. s[ctx.past + 1] = LT_ASN1DER_OBJECT_IDENTIFIER
          BY <1>2, <1>4, <2>5
      <4>2. QED
          BY <1>1, <2>1, <3>1, <4>1, IdentifierKeeps
    <3> HIDE DEF r
    <3>3. QED
        BY <2>3, <3>2 DEF r
  <2>6. CASE /\ h.tag \notin {LT_ASN1DER_SEQUENCE, LT_ASN1DER_OBJECT_IDENTIFIER}
             /\ h.tag \in Sampled /\ c.sample_next /\ ~c.found
    <3>1. r = Sample(c, s, len, TR01_STPUB_LEN)
        BY <1>4, <2>6 DEF ParseObject, h, c, len
    <3>2. r.ret = "LT_OK" => ParserOK(r, s) /\ r.past >= c.past /\ r.ends = c.ends
      <4>1. s[ctx.past + 1] \in Sampled
          BY <1>2, <1>4, <2>6
      <4>2. Identified(s, ctx.past)
          BY <2>1, <2>6 DEF ParserOK
      <4>3. QED
          BY <1>1, <2>1, <3>1, <4>1, <4>2, SampleKeeps
    <3> HIDE DEF r
    <3>3. QED
        BY <2>3, <3>2 DEF r
  <2>7. CASE /\ h.tag \notin {LT_ASN1DER_SEQUENCE, LT_ASN1DER_OBJECT_IDENTIFIER}
             /\ ~(h.tag \in Sampled /\ c.sample_next /\ ~c.found)
    <3>1. r = Consume(c, s, len)
        BY <1>4, <2>7 DEF ParseObject, h, c, len
    <3>2. Further(c, r, s)
        BY <1>4, <2>1, <2>2, <3>1, Consumes
    <3> HIDE DEF r
    <3>3. r.ret = "LT_OK" => ParserOK(r, s) /\ r.past >= c.past /\ r.ends = c.ends
        BY <2>1, <3>2, FurtherKeeps DEF Further
    <3>4. QED
        BY <2>3, <3>3 DEF r
  <2>8. QED
      BY <2>4, <2>5, <2>6, <2>7
<1>5. QED
    BY <1>3, <1>4

LEMMA LoopEndKeeps ==
    ASSUME NEW s \in Seq(Nat), NEW ctx, ParserOK(ctx, s)
    PROVE  LET r == LoopEnd(ctx) IN
           r.ret = "LT_OK" => \/ r.ends = <<>> /\ SampledFrom(s, r.sbuf)
                              \/ Descends(ctx, r, s)
<1> DEFINE e == Len(ctx.ends)
           less == SubSeq(ctx.ends, 1, e - 1)
           r == LoopEnd(ctx)
<1>1. /\ ctx \in Parsers /\ ctx.ret = "LT_OK" /\ ctx.past <= Len(s)
      /\ ctx.past \in Nat /\ Len(s) \in Nat
      /\ ctx.ends \in Seq(Nat) /\ e \in Nat /\ e > 0 /\ 2 * (e - 1) <= ctx.past
    BY LenProperties DEF ParserOK, Parsers
<1>2. less \in Seq(Nat) /\ Len(less) = e - 1
  <2> DEFINE d == e - 1
  <2>1. d \in Nat /\ 1 \in Nat \ {0} /\ 1 <= d + 1 /\ d <= Len(ctx.ends) /\ d - 1 + 1 = d
      BY <1>1
  <2> HIDE DEF d
  <2>2. SubSeq(ctx.ends, 1, d) \in Seq(Nat) /\ Len(SubSeq(ctx.ends, 1, d)) = d - 1 + 1
      BY <1>1, <2>1, SliceProperties
  <2>3. QED
      BY <2>1, <2>2 DEF d
<1> HIDE DEF e, less
<1>3. CASE e > 1 /\ ctx.past # End(ctx)
    BY <1>3 DEF LoopEnd, Error, e
<1>4. CASE e = 1 /\ ~ctx.found
    BY <1>1, <1>4 DEF LoopEnd, Error, e, Parsers
<1>5. CASE ~(e > 1 /\ ctx.past # End(ctx)) /\ ~(e = 1 /\ ~ctx.found)
  <2>1. r = [ctx EXCEPT !.ends = less]
      BY <1>5 DEF LoopEnd, e, less
  <2> HIDE DEF r
  <2>2. /\ r \in Parsers /\ r.past = ctx.past /\ r.ends = less /\ r.ret = ctx.ret
        /\ r.sample_next = ctx.sample_next /\ r.found = ctx.found /\ r.sbuf = ctx.sbuf
      BY <1>1, <1>2, <2>1 DEF Parsers
  <2>3. CASE e = 1
    <3>1. Len(less) = 0
        BY <1>2, <2>3
    <3>2. less = <<>>
        BY <1>2, <3>1, EmptySeq
    <3>3. QED
        BY <1>5, <2>2, <2>3, <3>2 DEF ParserOK, r
  <2>4. CASE e > 1
    <3> DEFINE p == ctx.past
               l == Len(s)
               d == Len(less)
    <3>1. p \in Nat /\ l \in Nat /\ d = e - 1 /\ 2 * (e - 1) <= p
        BY <1>1, <1>2
    <3> HIDE DEF p, l, d
    <3>2. d > 0 /\ 2 * (d - 1) <= p /\ l - p + d < l - p + e
        BY <1>1, <2>4, <3>1
    <3>3. ParserOK(r, s)
        BY <1>1, <2>2, <3>2 DEF ParserOK, p, d
    <3>4. QED
        BY <2>2, <3>2, <3>3 DEF Descends, p, l, d, e, r
  <2>5. QED
      BY <1>1, <2>3, <2>4
<1>6. QED
    BY <1>3, <1>4, <1>5

\* A pass of the parser ends in an error, with what was sampled behind the
\* identifier, or within the stream with fewer passes left.
LEMMA ParseKeeps ==
    ASSUME NEW s \in Seq(Nat), NEW ctx, ParserOK(ctx, s)
    PROVE  LET r == Parse(ctx, s, LT_OBJ_ID_CURVEX25519, TR01_STPUB_LEN) IN
           r.ret = "LT_OK" => \/ r.ends = <<>> /\ SampledFrom(s, r.sbuf)
                              \/ r.ends # <<>> /\ Descends(ctx, r, s)
<1> DEFINE r == Parse(ctx, s, LT_OBJ_ID_CURVEX25519, TR01_STPUB_LEN)
<1>1. r.ret = "LT_OK" => \/ r.ends = <<>> /\ SampledFrom(s, r.sbuf)
                         \/ Descends(ctx, r, s)
  <2>1. CASE ctx.past < End(ctx) - 1
    <3>1. r = ParseObject(ctx, s, LT_OBJ_ID_CURVEX25519, TR01_STPUB_LEN)
        BY <2>1 DEF Parse
    <3>2. QED
        BY <3>1, ObjectKeeps
  <2>2. CASE ~(ctx.past < End(ctx) - 1)
    <3>1. r = LoopEnd(ctx)
        BY <2>2 DEF Parse
    <3>2. QED
        BY <3>1, LoopEndKeeps
  <2>3. QED
      BY <2>1, <2>2
<1> HIDE DEF r
<1>2. Descends(ctx, r, s) => r.ends # <<>>
    BY DEF Descends, ParserOK
<1>3. QED
    BY <1>1, <1>2 DEF r

-----------------------------------------------------------------------------
(* The invariant of the copying and the parsing is kept.                   *)

LEMMA LengthsFacts ==
    ASSUME NEW s \in Stores,
           \A j \in 1..4 : Lengths(s)[j] <= TR01_L2_GET_INFO_REQ_CERT_SIZE_SINGLE
    PROVE  Start(s, 5) <= 2810
<1> DEFINE n1 == Len(s.certs[1])
           n2 == Len(s.certs[2])
           n3 == Len(s.certs[3])
           n4 == Len(s.certs[4])
           a == Start(s, 5)
<1>1. /\ n1 \in Nat /\ n2 \in Nat /\ n3 \in Nat /\ n4 \in Nat
      /\ n1 <= 700 /\ n2 <= 700 /\ n3 <= 700 /\ n4 <= 700
    BY StoreFacts DEF Lengths, TR01_L2_GET_INFO_REQ_CERT_SIZE_SINGLE
<1>2. a = 10 + n1 + n2 + n3 + n4
    BY <1>1 DEF Start, HeaderLen, LT_NUM_CERTIFICATES
<1> HIDE DEF n1, n2, n3, n4, a
<1>3. a <= 2810
    BY <1>1, <1>2
<1>4. QED
    BY <1>3 DEF a

\* A block of the store that begins within a certificate is one of the 30.
LEMMA BlockWithin ==
    ASSUME NEW s \in Stores, NEW i \in Nat, NEW c \in 1..4, Pos(i) < Start(s, c + 1),
           i # 0 => \A j \in 1..4 : Lengths(s)[j] <= TR01_L2_GET_INFO_REQ_CERT_SIZE_SINGLE
    PROVE  i \in Blocks /\ i # 30
<1>1. CASE i = 0
    BY <1>1 DEF Blocks
<1>2. CASE i # 0
  <2> DEFINE a == Start(s, c + 1)
             b == Start(s, 5)
  <2>1. a \in Nat /\ a <= b
      BY CertFacts
  <2>2. b <= 2810 /\ b \in Nat
      BY <1>2, LengthsFacts, StartFacts
  <2>3. 128 * i < a
      BY <1>2, PosFacts
  <2> HIDE DEF a, b
  <2>4. i < 30
      BY <2>1, <2>2, <2>3
  <2>5. QED
      BY <2>4 DEF Blocks
<1>3. QED
    BY <1>1, <1>2

LEMMA CertInvInit == VerifiedInit => CertInv
BY DEF VerifiedInit, CertInit, CertInv, BeforeBlocks, BlocksCopied, AllCopied, ParserWithin,
       KeyIdentified, Reading

\* Before the first block nothing is copied.
LEMMA NothingCopied ==
    ASSUME NEW s \in Stores, NEW c \in 1..4, Start(s, c) <= Pos(0)
    PROVE  CopiedSoFar(s, c, Pos(0)) = Empty
<1>1. Pos(0) = 10 /\ Start(s, 1) = 10
  <2>1. 0 \in Nat
      OBVIOUS
  <2>2. QED
      BY <2>1, PosFacts, StartFacts
<1>2. c = 1
  <2>1. CASE c # 1
    <3> DEFINE d == c - 1
               a == Start(s, d)
               n == Len(s.certs[d])
    <3>1. d \in 1..4 /\ d + 1 = c
        BY <2>1
    <3> HIDE DEF d
    <3>2. a \in Nat /\ a >= 10 /\ n \in Nat /\ n > 128 /\ Start(s, d + 1) = a + n
        BY <3>1, CertFacts
    <3>3. Start(s, c) = a + n /\ Start(s, c) <= 10
        BY <1>1, <3>1, <3>2
    <3> HIDE DEF a, n
    <3>4. QED
        BY <3>2, <3>3
  <2>2. QED
      BY <2>1
<1>3. SubSeq(Stream(s), 10 + 1, 10) = <<>>
    BY SubSeqEmpty
<1>4. \A j \in 1..4 : ~(j < 1)
    OBVIOUS
<1>5. CopiedSoFar(s, 1, 10)
        = [j \in 1..4 |-> IF j < 1 THEN s.certs[j] ELSE IF j = 1 THEN <<>> ELSE <<>>]
    BY <1>1, <1>3 DEF CopiedSoFar
<1>6. CopiedSoFar(s, 1, 10) = [j \in 1..4 |-> <<>>]
    BY <1>4, <1>5
<1>7. QED
    BY <1>1, <1>2, <1>6 DEF Empty, LT_NUM_CERTIFICATES

\* The first block: nothing is copied, and the header is before it.
LEMMA BlocksBegin ==
    ASSUME CertInv, cert_pc = "mode", cert_pc' = "blocks",
           UNCHANGED <<store, block, curr_cert, certs>>
    PROVE  BlocksCopied'
<1>1. store \in Stores /\ block = 0 /\ curr_cert = 1 /\ certs = Empty
    BY DEF CertInv, BeforeBlocks, Reading
<1>2. Pos(0) = 10 /\ Start(store, 1) = 10 /\ 1 \in 1..4 /\ 0 \in Nat
  <2>1. 0 \in Nat
      OBVIOUS
  <2>2. QED
      BY <1>1, <2>1, PosFacts, StartFacts
<1>3. 10 < Start(store, 2)
  <2> DEFINE n == Len(store.certs[1])
  <2>1. n \in Nat /\ n > 128
      BY <1>1, StoreFacts
  <2>2. Start(store, 2) = 10 + n
      BY <1>1, <1>2, StartFacts
  <2> HIDE DEF n
  <2>3. QED
      BY <2>1, <2>2
<1>4. CopiedSoFar(store, 1, 10) = Empty
    BY <1>1, <1>2, NothingCopied
<1>5. /\ store' \in Stores /\ block' = 0 /\ curr_cert' = 1 /\ certs' = Empty /\ store' = store
    BY <1>1
<1>6. /\ Start(store, 1) <= Pos(0) /\ Pos(0) < Start(store, 1 + 1)
      /\ certs' = CopiedSoFar(store, 1, Pos(0))
    BY <1>2, <1>3, <1>4, <1>5
<1>7. QED
    BY <1>2, <1>5, <1>6 DEF BlocksCopied

\* One block.
LEMMA GetBlockKeeps ==
    ASSUME CertInv, GetBlock
    PROVE  CertInv'
<1> DEFINE s == store
           object == Object(store, block)
           len == IF block = 0 THEN HeaderLengths(object) ELSE cert_len
           copied == Copied(AfterHeader(object), len)
           e == Pos(block + 1)
<1>1. /\ cert_pc = "blocks"
      /\ \/ cert_pc' = "failed"
         \/ /\ block = 0 => HeaderRet(object) = "LT_OK"
            /\ cert_len' = len /\ certs' = copied.certs /\ curr_cert' = copied.curr
            /\ block' = block + 1 /\ store' = store
            /\ cert_pc' = IF copied.done \/ block' = 30 THEN "parse" ELSE "blocks"
  <2>1. TR01_L2_GET_INFO_REQ_CERT_SIZE_TOTAL \div TR01_GET_INFO_BLOCK_LEN = 30
      BY DEF TR01_L2_GET_INFO_REQ_CERT_SIZE_TOTAL, TR01_GET_INFO_BLOCK_LEN
  <2>2. QED
      BY <2>1 DEF GetBlock, CertFails
<1>2. /\ s \in Stores /\ block \in Nat /\ curr_cert \in 1..4
      /\ Start(s, curr_cert) <= Pos(block) /\ Pos(block) < Start(s, curr_cert + 1)
      /\ certs = CopiedSoFar(s, curr_cert, Pos(block))
      /\ block # 0 => /\ cert_len = Lengths(s)
                      /\ \A j \in 1..4 : cert_len[j] <= TR01_L2_GET_INFO_REQ_CERT_SIZE_SINGLE
    BY <1>1 DEF CertInv, BlocksCopied
<1>3. CASE cert_pc' = "failed"
    BY <1>3 DEF CertInv, BeforeBlocks, BlocksCopied, AllCopied, ParserWithin, KeyIdentified,
                Reading
<1>4. CASE cert_pc' # "failed"
  <2>1. /\ block = 0 => HeaderRet(object) = "LT_OK"
        /\ cert_len' = len /\ certs' = copied.certs /\ curr_cert' = copied.curr
        /\ block' = block + 1 /\ store' = store
        /\ cert_pc' = IF copied.done \/ block' = 30 THEN "parse" ELSE "blocks"
      BY <1>1, <1>4
  <2> HIDE DEF copied
  <2>2. len = Lengths(s) /\ \A j \in 1..4 : len[j] <= TR01_L2_GET_INFO_REQ_CERT_SIZE_SINGLE
    <3>1. CASE block = 0
      <4>1. len = HeaderLengths(Object(s, 0)) /\ object = Object(s, 0)
          BY <3>1
      <4>2. HeaderLengths(Object(s, 0)) = Lengths(s)
          BY <1>2, HeaderLengthsFacts
      <4>3. \A j \in 1..4 : HeaderLengths(object)[j] \in Nat
          BY <1>2, <4>1, <4>2, StoreFacts DEF Lengths
      <4>4. \A j \in 1..4 : ~(HeaderLengths(object)[j] > TR01_L2_GET_INFO_REQ_CERT_SIZE_SINGLE)
          BY <2>1, <3>1 DEF HeaderRet, LT_NUM_CERTIFICATES
      <4>5. \A j \in 1..4 : HeaderLengths(object)[j] <= TR01_L2_GET_INFO_REQ_CERT_SIZE_SINGLE
          BY <4>3, <4>4 DEF TR01_L2_GET_INFO_REQ_CERT_SIZE_SINGLE
      <4>6. QED
          BY <3>1, <4>1, <4>2, <4>5
    <3>2. CASE block # 0
        BY <1>2, <3>2
    <3>3. QED
        BY <3>1, <3>2
  <2> HIDE DEF len
  <2>3. block \in Blocks
    <3>1. block # 0 => \A j \in 1..4 : Lengths(s)[j] <= TR01_L2_GET_INFO_REQ_CERT_SIZE_SINGLE
        BY <2>2
    <3>2. QED
        BY <1>2, <3>1, BlockWithin
  <2>4. \/ /\ e < Start(s, curr_cert + 1)
           /\ copied.certs = CopiedSoFar(s, curr_cert, e)
           /\ copied.curr = curr_cert
           /\ ~copied.done
        \/ /\ e >= Start(s, curr_cert + 1) /\ curr_cert < 4 /\ e < Start(s, curr_cert + 2)
           /\ copied.certs = CopiedSoFar(s, curr_cert + 1, e)
           /\ copied.curr = curr_cert + 1
           /\ ~copied.done
        \/ copied.done /\ copied.certs = s.certs
      BY <1>2, <2>2, <2>3, PassFacts DEF copied
  <2>5. block + 1 \in Nat /\ block + 1 # 0 /\ e \in Nat /\ Pos(block) < e /\ Pos(block) \in Nat
      BY <1>2, PosFacts
  <2>6. \A j \in 1..4 : Lengths(s)[j] <= TR01_L2_GET_INFO_REQ_CERT_SIZE_SINGLE
      BY <2>2
  <2>7. ASSUME NEW c \in 1..4, c = curr_cert', Start(s, c) <= e, e < Start(s, c + 1),
               certs' = CopiedSoFar(s, c, e), ~copied.done
        PROVE  CertInv'
    <3>1. block + 1 # 30
        BY <1>2, <2>5, <2>6, <2>7, BlockWithin
    <3>2. cert_pc' = "blocks"
        BY <2>1, <2>7, <3>1
    <3>3. /\ store' \in Stores /\ block' \in Nat /\ block' # 0 /\ curr_cert' \in 1..4
          /\ Start(store', curr_cert') <= Pos(block')
          /\ Pos(block') < Start(store', curr_cert' + 1)
          /\ certs' = CopiedSoFar(store', curr_cert', Pos(block'))
          /\ cert_len' = Lengths(store')
          /\ \A j \in 1..4 : cert_len'[j] <= TR01_L2_GET_INFO_REQ_CERT_SIZE_SINGLE
        BY <1>2, <2>1, <2>2, <2>5, <2>7
    <3>4. BlocksCopied'
        BY <3>3 DEF BlocksCopied
    <3>5. QED
        BY <3>2, <3>4 DEF CertInv, BeforeBlocks, AllCopied, ParserWithin, KeyIdentified, Reading
  <2>8. CASE /\ e < Start(s, curr_cert + 1)
             /\ copied.certs = CopiedSoFar(s, curr_cert, e)
             /\ copied.curr = curr_cert
             /\ ~copied.done
    <3>1. Start(s, curr_cert) \in Nat
        BY <1>2, CertFacts
    <3>2. Start(s, curr_cert) <= e
        BY <1>2, <2>5, <3>1
    <3>3. QED
        BY <1>2, <2>1, <2>7, <2>8, <3>2
  <2>9. CASE /\ e >= Start(s, curr_cert + 1) /\ curr_cert < 4 /\ e < Start(s, curr_cert + 2)
             /\ copied.certs = CopiedSoFar(s, curr_cert + 1, e)
             /\ copied.curr = curr_cert + 1
             /\ ~copied.done
    <3> DEFINE c == curr_cert + 1
    <3>1. c \in 1..4 /\ c + 1 = curr_cert + 2
        BY <1>2, <2>9
    <3>2. Start(s, c) \in Nat
        BY <1>2, <3>1, CertFacts
    <3>3. Start(s, c) <= e /\ e < Start(s, c + 1) /\ certs' = CopiedSoFar(s, c, e) /\ c = curr_cert'
        BY <2>1, <2>5, <2>9, <3>1, <3>2
    <3> HIDE DEF c
    <3>4. QED
        BY <2>7, <2>9, <3>1, <3>3
  <2>10. CASE copied.done /\ copied.certs = s.certs
    <3>1. cert_pc' = "parse" /\ store' \in Stores /\ certs' = store'.certs /\ cert_len' = Lengths(store')
        BY <1>2, <2>1, <2>2, <2>10
    <3>2. \A j \in 1..4 : cert_len'[j] <= TR01_L2_GET_INFO_REQ_CERT_SIZE_SINGLE
        BY <2>1, <2>2
    <3>3. QED
        BY <3>1, <3>2 DEF CertInv, BeforeBlocks, BlocksCopied, AllCopied, ParserWithin,
                          KeyIdentified, Reading
  <2>11. QED
      BY <2>4, <2>8, <2>9, <2>10
<1>5. QED
    BY <1>3, <1>4

LEMMA GetStPubKeeps ==
    ASSUME CertInv, GetStPub
    PROVE  CertInv' /\ PassesBounded'
<1>1. /\ cert_pc = "parse" /\ cert_pc' = "parsing" /\ parser' = Ctx(cert_len[1])
      /\ UNCHANGED <<store, certs, cert_len>>
    BY DEF GetStPub
<1>2. /\ store \in Stores /\ certs = store.certs /\ cert_len = Lengths(store)
      /\ \A j \in 1..4 : cert_len[j] <= TR01_L2_GET_INFO_REQ_CERT_SIZE_SINGLE
    BY <1>1 DEF CertInv, AllCopied
<1> DEFINE n == Len(store.certs[1])
<1>3. n \in Nat /\ cert_len[1] = n /\ n <= 700
  <2>1. n \in Nat
      BY <1>2, StoreFacts
  <2>2. cert_len[1] = n
      BY <1>2 DEF Lengths
  <2>3. cert_len[1] <= 700
      BY <1>2 DEF TR01_L2_GET_INFO_REQ_CERT_SIZE_SINGLE
  <2>4. QED
      BY <2>1, <2>2, <2>3
<1>4. parser' = [past |-> 0, ends |-> <<n>>, sample_next |-> FALSE, found |-> FALSE,
                 sbuf |-> <<>>, ret |-> "LT_OK"]
    BY <1>1, <1>3 DEF Ctx
<1> HIDE DEF n
<1>5. parser' \in Parsers /\ Len(parser'.ends) = 1 /\ parser'.past = 0
    BY <1>3, <1>4 DEF Parsers, ParserRets
<1>6. ParserOK(parser', store.certs[1])
  <2>1. 0 <= Len(store.certs[1]) /\ 1 > 0 /\ 2 * (1 - 1) <= 0
      BY <1>3 DEF n
  <2>2. QED
      BY <1>4, <1>5, <2>1 DEF ParserOK
<1>7. PassesLeft' \in 0..701
  <2>1. PassesLeft' = n - 0 + 1
      BY <1>1, <1>5 DEF PassesLeft, n
  <2>2. QED
      BY <1>3, <2>1
<1>8. PassesBounded'
    BY <1>7 DEF PassesBounded, TR01_L2_GET_INFO_REQ_CERT_SIZE_SINGLE
<1>9. CertInv'
    BY <1>1, <1>2, <1>6 DEF CertInv, BeforeBlocks, BlocksCopied, AllCopied, ParserWithin,
                            KeyIdentified, Reading
<1>10. QED
    BY <1>8, <1>9

\* The pass of the parser that the call makes, on the certificate that is in the chip.
LEMMA FindStPubParses ==
    ASSUME CertInv, FindStPub
    PROVE  LET s == store.certs[1] IN
           /\ s \in Seq(Nat) /\ Len(s) > 0 /\ ParserOK(parser, s) /\ certs[1] = s
           /\ parser' = Parse(parser, s, LT_OBJ_ID_CURVEX25519, TR01_STPUB_LEN)
<1> DEFINE s == store.certs[1]
<1>1. /\ cert_pc = "parsing"
      /\ parser' = Parse(parser, SubSeq(certs[1], 1, cert_len[1]), LT_OBJ_ID_CURVEX25519,
                         TR01_STPUB_LEN)
    BY DEF FindStPub
<1>2. /\ store \in Stores /\ certs = store.certs /\ cert_len = Lengths(store)
      /\ ParserOK(parser, s)
    BY <1>1 DEF CertInv, AllCopied, ParserWithin
<1>3. s \in Seq(Nat) /\ Len(s) \in Nat /\ Len(s) > 128
    BY <1>2, StoreFacts
<1>4. SubSeq(certs[1], 1, cert_len[1]) = s
  <2>1. cert_len[1] = Len(s)
      BY <1>2 DEF Lengths
  <2>2. SubSeq(s, 1, Len(s)) = s
      BY <1>3, SubSeqFull
  <2>3. QED
      BY <1>2, <2>1, <2>2
<1> HIDE DEF s
<1>5. Len(s) > 0
    BY <1>3
<1>6. QED
    BY <1>1, <1>2, <1>3, <1>4, <1>5 DEF s

LEMMA FindStPubKeeps ==
    ASSUME CertInv, FindStPub
    PROVE  CertInv' /\ ParserStep /\ (PassesBounded => PassesBounded')
<1> DEFINE s == store.certs[1]
<1>1. /\ cert_pc = "parsing" /\ UNCHANGED <<store, certs, cert_len>>
      /\ \/ parser'.ret # "LT_OK" /\ cert_pc' = "failed"
         \/ parser'.ret = "LT_OK" /\ parser'.ends = <<>> /\ cert_pc' = "session"
                                  /\ stpub' = parser'.sbuf
         \/ parser'.ret = "LT_OK" /\ parser'.ends # <<>> /\ cert_pc' = cert_pc
    BY DEF FindStPub
<1>2. /\ store \in Stores /\ certs = store.certs /\ cert_len = Lengths(store)
      /\ \A j \in 1..4 : cert_len[j] <= TR01_L2_GET_INFO_REQ_CERT_SIZE_SINGLE
    BY <1>1 DEF CertInv, AllCopied
<1>3. /\ s \in Seq(Nat) /\ Len(s) \in Nat /\ ParserOK(parser, s)
      /\ parser' = Parse(parser, s, LT_OBJ_ID_CURVEX25519, TR01_STPUB_LEN)
    BY FindStPubParses, LenProperties
<1>5. parser'.ret = "LT_OK" =>
          \/ parser'.ends = <<>> /\ SampledFrom(s, parser'.sbuf)
          \/ parser'.ends # <<>> /\ Descends(parser, parser', s)
    BY <1>3, ParseKeeps
<1>6. s' = s /\ store' = store
    BY <1>1
<1> HIDE DEF s
<1>7. CASE parser'.ret # "LT_OK"
    BY <1>1, <1>7 DEF CertInv, BeforeBlocks, BlocksCopied, AllCopied, ParserWithin,
                      KeyIdentified, Reading, ParserStep, PassesBounded
<1>8. CASE parser'.ret = "LT_OK" /\ parser'.ends = <<>>
  <2>1. cert_pc' = "session" /\ SampledFrom(s, stpub')
      BY <1>1, <1>5, <1>8
  <2>2. KeyIdentified'
      BY <1>6, <2>1 DEF KeyIdentified, s
  <2>3. AllCopied'
      BY <1>1, <1>2 DEF AllCopied
  <2>4. QED
      BY <2>1, <2>2, <2>3 DEF CertInv, BeforeBlocks, BlocksCopied, ParserWithin, Reading,
                              ParserStep, PassesBounded
<1>9. CASE parser'.ret = "LT_OK" /\ parser'.ends # <<>>
  <2>1. cert_pc' = "parsing" /\ Descends(parser, parser', s)
      BY <1>1, <1>5, <1>9
  <2>2. ParserWithin'
      BY <1>6, <2>1 DEF ParserWithin, Descends, s
  <2>3. AllCopied'
      BY <1>1, <1>2 DEF AllCopied
  <2>4. PassesLeft' < PassesLeft
      BY <1>6, <2>1 DEF Descends, PassesLeft, s
  <2>5. ASSUME PassesBounded
        PROVE  PassesBounded'
    <3>1. PassesLeft' \in Nat
      <4> DEFINE l == Len(s)
                 p == parser'.past
                 e == Len(parser'.ends)
      <4>1. l \in Nat /\ p \in Nat /\ e \in Nat /\ p <= l
          BY <1>3, <2>1, LenProperties DEF Descends, ParserOK, Parsers
      <4>2. PassesLeft' = l - p + e
          BY <1>6 DEF PassesLeft, s
      <4> HIDE DEF l, p, e
      <4>3. QED
          BY <4>1, <4>2
    <3>2. PassesLeft \in 0..701
        BY <1>1, <2>5 DEF PassesBounded, TR01_L2_GET_INFO_REQ_CERT_SIZE_SINGLE
    <3>3. PassesLeft' \in 0..701
        BY <2>4, <3>1, <3>2
    <3>4. QED
        BY <3>3 DEF PassesBounded, TR01_L2_GET_INFO_REQ_CERT_SIZE_SINGLE
  <2>6. QED
      BY <2>1, <2>2, <2>3, <2>4, <2>5 DEF CertInv, BeforeBlocks, BlocksCopied, KeyIdentified,
                                          Reading, ParserStep
<1>10. QED
    BY <1>7, <1>8, <1>9

\* The other steps of the call.
LEMMA OtherCertStep ==
    ASSUME CertInv,
           \/ GetInfoChipId \/ GetInfoRiscvFwVer \/ GetInfoSpectFwVer
           \/ Calloc \/ GetTr01Mode \/ CertTransferFails
    PROVE  CertInv' /\ cert_pc' # "parsing"
<1>1. CASE cert_pc' = "failed"
    BY <1>1 DEF CertInv, BeforeBlocks, BlocksCopied, AllCopied, ParserWithin, KeyIdentified,
                Reading
<1>2. CASE cert_pc = "mode" /\ cert_pc' = "blocks" /\ UNCHANGED <<store, block, curr_cert, certs>>
  <2>1. BlocksCopied'
      BY <1>2, BlocksBegin
  <2>2. QED
      BY <1>2, <2>1 DEF CertInv, BeforeBlocks, AllCopied, ParserWithin, KeyIdentified, Reading
<1>3. CASE cert_pc \in Reading /\ cert_pc' \in Reading
           /\ UNCHANGED <<store, block, curr_cert, certs>>
    BY <1>3 DEF CertInv, BeforeBlocks, BlocksCopied, AllCopied, ParserWithin, KeyIdentified,
                Reading
<1>4. QED
    BY <1>1, <1>2, <1>3 DEF GetInfoChipId, GetInfoRiscvFwVer, GetInfoSpectFwVer, Calloc,
                            GetTr01Mode, CertTransferFails, CertGoes, CertFails, Reading

LEMMA CertInvStep ==
    ASSUME CertInv, [VerifiedNext]_verifiedVars
    PROVE  CertInv' /\ [ParserStep]_certVars /\ (PassesBounded => PassesBounded')
<1>1. CASE UNCHANGED certVars
  <2>1. /\ cert_pc' = cert_pc /\ store' = store /\ block' = block /\ curr_cert' = curr_cert
        /\ cert_len' = cert_len /\ certs' = certs /\ parser' = parser /\ stpub' = stpub
      BY <1>1 DEF certVars
  <2>2. CertInv'
      BY <2>1 DEF CertInv, BeforeBlocks, BlocksCopied, AllCopied, ParserWithin, KeyIdentified
  <2>3. PassesBounded => PassesBounded'
      BY <2>1 DEF PassesBounded, PassesLeft
  <2>4. QED
      BY <1>1, <2>2, <2>3
<1>2. CASE CertReturned
    BY <1>2 DEF CertReturned, CertInv, BeforeBlocks, BlocksCopied, AllCopied, ParserWithin,
                KeyIdentified, Reading, ParserStep, PassesBounded
<1>3. CASE \/ GetInfoChipId \/ GetInfoRiscvFwVer \/ GetInfoSpectFwVer
           \/ Calloc \/ GetTr01Mode \/ CertTransferFails
  <2>1. CertInv' /\ cert_pc' # "parsing"
      BY <1>3, OtherCertStep
  <2>2. QED
      BY <2>1 DEF ParserStep, PassesBounded
<1>4. CASE GetBlock
  <2>1. CertInv'
      BY <1>4, GetBlockKeeps
  <2>2. cert_pc' # "parsing"
      BY <1>4 DEF GetBlock, CertFails
  <2>3. QED
      BY <2>1, <2>2 DEF ParserStep, PassesBounded
<1>5. CASE GetStPub
  <2>1. CertInv' /\ PassesBounded'
      BY <1>5, GetStPubKeeps
  <2>2. cert_pc = "parse"
      BY <1>5 DEF GetStPub
  <2>3. QED
      BY <2>1, <2>2 DEF ParserStep
<1>6. CASE FindStPub
    BY <1>6, FindStPubKeeps
<1>7. QED
    BY <1>1, <1>2, <1>3, <1>4, <1>5, <1>6
    DEF VerifiedNext, CertNext, StartSession, GiveUp, verifiedVars, certVars

LEMMA CertInvHolds == VerifiedSpec => []CertInv
<1>1. VerifiedInit => CertInv
    BY CertInvInit
<1>2. CertInv /\ [VerifiedNext]_verifiedVars => CertInv'
    BY CertInvStep
<1>3. QED
    BY <1>1, <1>2, PTL DEF VerifiedSpec

\* The blocks of the store are cut into the four certificates exactly, whatever the
\* lengths of the certificates are: each may end anywhere in a block, and a block
\* holds the end of at most one.
THEOREM CertsExactHolds == VerifiedSpec => []CertsExact
<1>1. CertInv => CertsExact
  <2>1. SUFFICES ASSUME CertInv, cert_pc = "parse"
                 PROVE  /\ certs = store.certs
                        /\ \A j \in 1..LT_NUM_CERTIFICATES : cert_len[j] = Len(certs[j])
      BY DEF CertsExact
  <2>2. certs = store.certs /\ cert_len = Lengths(store)
      BY <2>1 DEF CertInv, AllCopied
  <2>3. QED
      BY <2>2 DEF Lengths, LT_NUM_CERTIFICATES
<1>2. QED
    BY <1>1, CertInvHolds, PTL

\* The parser of the device's certificate never reads behind its end, and every
\* SEQUENCE it is in has taken two bytes of it: parse_object calls itself at most
\* half as often as the certificate has bytes, whatever the bytes are.
THEOREM ParserWithinHolds == VerifiedSpec => []ParserWithin
<1>1. CertInv => ParserWithin
    BY DEF CertInv
<1>2. QED
    BY <1>1, CertInvHolds, PTL

\* The key that lt_session_start is called with is what the parser consumed of an object
\* in the device's certificate, or the last 32 bytes of it.  The object's type is one
\* that may hold a key, and before it is an OBJECT IDENTIFIER that begins with the three
\* bytes of X25519.
THEOREM KeyIdentifiedHolds == VerifiedSpec => []KeyIdentified
<1>1. CertInv => KeyIdentified
    BY DEF CertInv
<1>2. QED
    BY <1>1, CertInvHolds, PTL

\* The parser comes to an end on every certificate: each pass of its loops leaves
\* fewer, and there are never more than a certificate's 700 bytes and one.
THEOREM ParserEnds == VerifiedSpec => []PassesBounded /\ [][ParserStep]_certVars
<1>1. VerifiedInit => PassesBounded
    BY DEF VerifiedInit, CertInit, PassesBounded
<1>2. CertInv /\ PassesBounded /\ [VerifiedNext]_verifiedVars => PassesBounded'
    BY CertInvStep
<1>3. CertInv /\ [VerifiedNext]_verifiedVars => [ParserStep]_certVars
    BY CertInvStep
<1>4. QED
    BY <1>1, <1>2, <1>3, CertInvHolds, PTL DEF VerifiedSpec

-----------------------------------------------------------------------------
(* The parser on a certificate whose objects are known.                    *)

\* The byte before the i-th object of doc, or the end of s behind the last one.
Place(s, doc, i) == IF i <= Len(doc) THEN doc[i].at ELSE Len(s)

\* A loop that may be under way before the i-th object: that of the stream, or of
\* a SEQUENCE whose tag has been passed.
LoopOf(s, doc, i, e) == e = Len(s) \/ \E k \in 1..(i - 1) : doc[k].end = e

\* Within the loops that end at ends, the innermost last.
LoopsAround(s, doc, i, ends, past) ==
    /\ ends[1] = Len(s)
    /\ \A e \in 1..Len(ends) : past <= ends[e] /\ LoopOf(s, doc, i, ends[e])
    /\ \A e, f \in 1..Len(ends) : e <= f => ends[f] <= ends[e]

\* Of the objects before the i-th the key is sampled, if it is one of them.
SampledSoFar(ctx, s, doc, i) ==
    /\ ctx.found => \E k \in 1..(i - 1) : IsKey(s, doc, k) /\ ctx.sbuf = KeyBytes(s, doc[k])
    /\ ~ctx.found =>
          /\ \A k \in KeyPlaces(s, doc) : i <= k
          /\ ctx.sample_next <=> \E k \in 1..(i - 1) : IsIdentifier(s, doc[k])

\* The parser is before the i-th object of doc.
Before(ctx, s, doc, i) ==
    /\ ctx.past = Place(s, doc, i)
    /\ \A k \in 1..(i - 1) : ObjectLen(doc[k]) # 127
    /\ LoopsAround(s, doc, i, ctx.ends, ctx.past)
    /\ SampledSoFar(ctx, s, doc, i)

OnTrack(ctx, s, doc) == \E i \in 1..(Len(doc) + 1) : Before(ctx, s, doc, i)

\* The bytes of a header, for each form of the length.
LEMMA EncodedFacts ==
    ASSUME NEW s, Len(s) \in Nat, NEW o, o.at \in Nat, o.body \in Nat, o.end \in Nat,
           Encoded(s, o)
    PROVE  /\ o.body <= o.end /\ o.end <= Len(s) /\ s[o.at + 1] = o.tag
           /\ ObjectLen(o) \in Nat /\ o.end = o.body + ObjectLen(o)
           /\ ObjectLen(o) < 128 => o.body = o.at + 2 /\ s[o.at + 2] = ObjectLen(o)
           /\ ObjectLen(o) \in 128..255 =>
                 o.body = o.at + 3 /\ s[o.at + 2] = 129 /\ s[o.at + 3] = ObjectLen(o)
           /\ ObjectLen(o) >= 256 =>
                 /\ o.body = o.at + 4 /\ s[o.at + 2] = 130
                 /\ s[o.at + 3] = HighByte(ObjectLen(o)) /\ s[o.at + 4] = LowByte(ObjectLen(o))
<1> DEFINE n == ObjectLen(o)
           head == DerLength(n)
           p == o.at
<1>1. /\ o.body = p + 1 + Len(head) /\ o.body <= o.end /\ o.end <= Len(s)
      /\ s[p + 1] = o.tag
      /\ \A k \in 1..Len(head) : s[p + 1 + k] = head[k]
    BY Zenon DEF Encoded
<1>2. n \in Nat /\ o.end = o.body + n /\ p \in Nat
    BY <1>1 DEF ObjectLen
<1>3. /\ p + 1 + 1 = p + 2 /\ p + 1 + 2 = p + 3 /\ p + 1 + 3 = p + 4
      /\ 1 \in 1..1 /\ 1 \in 1..2 /\ 2 \in 1..2 /\ 1 \in 1..3 /\ 2 \in 1..3 /\ 3 \in 1..3
    BY <1>2
<1> HIDE DEF n, head, p
<1>4. n < 128 => o.body = p + 2 /\ s[p + 2] = n
  <2>1. SUFFICES ASSUME n < 128 PROVE o.body = p + 2 /\ s[p + 2] = n
      OBVIOUS
  <2>2. head = <<n>>
      BY <2>1 DEF DerLength, head
  <2>3. Len(head) = 1 /\ head[1] = n
      BY <2>2
  <2>4. QED
      BY <1>1, <1>3, <2>3
<1>5. n \in 128..255 => o.body = p + 3 /\ s[p + 2] = 129 /\ s[p + 3] = n
  <2>1. SUFFICES ASSUME n \in 128..255
                 PROVE  o.body = p + 3 /\ s[p + 2] = 129 /\ s[p + 3] = n
      OBVIOUS
  <2>2. head = <<129, n>>
      BY <2>1 DEF DerLength, head
  <2>3. Len(head) = 2 /\ head[1] = 129 /\ head[2] = n
      BY <2>2
  <2>4. QED
      BY <1>1, <1>3, <2>3
<1>6. n >= 256 =>
          o.body = p + 4 /\ s[p + 2] = 130 /\ s[p + 3] = HighByte(n) /\ s[p + 4] = LowByte(n)
  <2>1. SUFFICES ASSUME n >= 256
                 PROVE  /\ o.body = p + 4 /\ s[p + 2] = 130
                        /\ s[p + 3] = HighByte(n) /\ s[p + 4] = LowByte(n)
      OBVIOUS
  <2>2. head = <<130, HighByte(n), LowByte(n)>>
      BY <1>2, <2>1 DEF DerLength, head
  <2>3. Len(head) = 3 /\ head[1] = 130 /\ head[2] = HighByte(n) /\ head[3] = LowByte(n)
      BY <2>2
  <2>4. QED
      BY <1>1, <1>3, <2>3
<1>7. QED
    BY <1>1, <1>2, <1>4, <1>5, <1>6 DEF n, p

LEMMA ObjectFacts ==
    ASSUME NEW s \in Seq(Nat), NEW doc, IsDer(s, doc), NEW i \in 1..Len(doc)
    PROVE  /\ Len(s) \in Nat /\ Len(doc) \in Nat
           /\ doc[i].tag \in Nat /\ doc[i].at \in Nat /\ doc[i].body \in Nat /\ doc[i].end \in Nat
           /\ doc[i].at + 2 <= doc[i].body /\ doc[i].body <= doc[i].end /\ doc[i].end <= Len(s)
           /\ Place(s, doc, i) = doc[i].at
           /\ Place(s, doc, i + 1) = Behind(doc[i])
<1>1. /\ doc \in Seq([tag : Nat, at : Nat, body : Nat, end : Nat])
      /\ Len(doc) \in Nat /\ Len(s) \in Nat
    BY LenProperties DEF IsDer
<1>2. doc[i] \in [tag : Nat, at : Nat, body : Nat, end : Nat]
    BY <1>1, ElementOfSeq
<1>3. Encoded(s, doc[i])
    BY DEF IsDer
<1> DEFINE o == doc[i]
<1>4. o.tag \in Nat /\ o.at \in Nat /\ o.body \in Nat /\ o.end \in Nat
    BY <1>2
<1>5. o.at + 2 <= o.body /\ o.body <= o.end /\ o.end <= Len(s)
  <2> HIDE DEF o
  <2>1. Encoded(s, o)
      BY <1>3 DEF o
  <2> DEFINE n == ObjectLen(o)
             p == o.at
             q == o.body
  <2>2. /\ q <= o.end /\ o.end <= Len(s) /\ n \in Nat
        /\ n < 128 => q = p + 2
        /\ n \in 128..255 => q = p + 3
        /\ n >= 256 => q = p + 4
    <3>1. Len(s) \in Nat /\ o.at \in Nat /\ o.body \in Nat /\ o.end \in Nat
        BY <1>1, <1>4
    <3>2. QED
        BY <2>1, <3>1, EncodedFacts
  <2>3. p \in Nat
      BY <1>4
  <2> HIDE DEF n, p, q
  <2>4. p + 2 <= q
      BY <2>2, <2>3
  <2>5. QED
      BY <2>2, <2>4 DEF p, q
<1>6. Place(s, doc, i) = doc[i].at
    BY <1>1 DEF Place
<1>7. Place(s, doc, i + 1) = Behind(doc[i])
  <2>1. CASE i = Len(doc)
      BY <1>1, <2>1 DEF Place, IsDer
  <2>2. CASE i # Len(doc)
    <3>1. i \in 1..(Len(doc) - 1) /\ i + 1 <= Len(doc)
        BY <1>1, <2>2
    <3>2. QED
        BY <3>1 DEF Place, IsDer
  <2>3. QED
      BY <2>1, <2>2
<1>8. QED
    BY <1>1, <1>4, <1>5, <1>6, <1>7

\* ctx after the parser has passed p bytes.
Moved(ctx, p) == [ctx EXCEPT !.past = p]

LEMMA MovedFacts ==
    ASSUME NEW ctx \in Parsers, NEW p \in Nat
    PROVE  LET r == Moved(ctx, p) IN
           /\ r \in Parsers /\ r.past = p /\ r.ends = ctx.ends /\ r.sample_next = ctx.sample_next
           /\ r.found = ctx.found /\ r.sbuf = ctx.sbuf /\ r.ret = ctx.ret
BY DEF Moved, Parsers

LEMMA MovedAgain ==
    ASSUME NEW ctx \in Parsers, NEW p \in Nat, NEW q \in Nat
    PROVE  Moved(Moved(ctx, p), q) = Moved(ctx, q)
BY DEF Moved, Parsers

LEMMA ConsumeMoves ==
    ASSUME NEW s, NEW ctx \in Parsers, NEW n \in Nat, NEW p \in Nat,
           p = ctx.past + n, p <= Len(s), Len(s) \in Nat
    PROVE  Consume(ctx, s, n) = Moved(ctx, p)
<1>1. ~(ctx.past + n > Len(s))
    OBVIOUS
<1>2. QED
    BY <1>1 DEF Consume, Moved

\* The parser reads the header that DER writes, but for the length 127.
LEMMA HeaderDecodes ==
    ASSUME NEW s \in Seq(Nat), NEW doc, IsDer(s, doc), NEW i \in 1..Len(doc),
           NEW ctx \in Parsers, ctx.ret = "LT_OK", ctx.past = doc[i].at
    PROVE  /\ ObjectLen(doc[i]) = 127 => Header(ctx, s).ctx.ret = "LT_CERT_UNSUPPORTED"
           /\ ObjectLen(doc[i]) # 127 =>
                 Header(ctx, s) = [ctx |-> Moved(ctx, doc[i].body),
                                   tag |-> doc[i].tag, len |-> ObjectLen(doc[i])]
<1> DEFINE o == doc[i]
           n == ObjectLen(o)
           p == o.at
           b == s[ctx.past + 2]
           first == Consume(ctx, s, 2)
           long == Consume(first, s, n_bytes(b))
<1>1. /\ Len(s) \in Nat /\ p \in Nat /\ o.body \in Nat /\ o.end \in Nat
      /\ p + 2 <= o.body /\ o.body <= o.end /\ o.end <= Len(s)
    BY ObjectFacts
<1>2. ctx.past = p /\ Encoded(s, o)
    BY DEF IsDer
<1> HIDE DEF n, o, p
<1>3. /\ s[p + 1] = o.tag /\ n \in Nat
      /\ n < 128 => o.body = p + 2 /\ s[p + 2] = n
      /\ n \in 128..255 => o.body = p + 3 /\ s[p + 2] = 129 /\ s[p + 3] = n
      /\ n >= 256 => /\ o.body = p + 4 /\ s[p + 2] = 130
                     /\ s[p + 3] = HighByte(n) /\ s[p + 4] = LowByte(n)
    BY <1>1, <1>2, EncodedFacts DEF n, p
<1>4. /\ first = Moved(ctx, p + 2) /\ first \in Parsers
      /\ first.past = p + 2 /\ first.ret = "LT_OK" /\ b = s[p + 2]
  <2> DEFINE q == p + 2
  <2>1. q \in Nat /\ q = ctx.past + 2 /\ q <= Len(s)
      BY <1>1, <1>2
  <2> HIDE DEF q
  <2>2. first = Moved(ctx, q)
      BY <1>1, <2>1, ConsumeMoves
  <2> HIDE DEF first
  <2>3. first \in Parsers /\ first.past = q /\ first.ret = ctx.ret
      BY <2>1, <2>2, MovedFacts
  <2>4. QED
      BY <1>2, <2>2, <2>3 DEF q
<1> HIDE DEF first
<1>5. CASE n < 128
  <2>1. b = n /\ o.body = p + 2
      BY <1>3, <1>4, <1>5
  <2> HIDE DEF b
  <2>2. CASE n = 127
    <3>1. ~IsShort(b) /\ n_bytes(b) > 2
        BY <2>1, <2>2 DEF IsShort, n_bytes
    <3>2. Header(ctx, s).ctx = Error(first, "LT_CERT_UNSUPPORTED")
        BY <1>4, <3>1 DEF Header, b, first
    <3>3. QED
        BY <1>4, <2>2, <3>2 DEF Error, n, o, Parsers
  <2>3. CASE n # 127
    <3>1. IsShort(b)
        BY <1>3, <1>5, <2>1, <2>3 DEF IsShort
    <3>2. Header(ctx, s) = [ctx |-> first, tag |-> s[ctx.past + 1], len |-> b]
        BY <1>4, <3>1 DEF Header, b, first
    <3>3. QED
        BY <1>2, <1>3, <1>4, <2>1, <2>3, <3>2 DEF n, o
  <2>4. QED
      BY <2>2, <2>3
<1>6. ASSUME NEW k \in {1, 2}, b = 128 + k, o.body = p + 2 + k,
             Number(s, p + 2, k) = n, n # 127
      PROVE  Header(ctx, s) = [ctx |-> Moved(ctx, o.body), tag |-> o.tag, len |-> n]
  <2> HIDE DEF b
  <2>1. ~IsShort(b) /\ ~(n_bytes(b) > 2) /\ n_bytes(b) = k
      BY <1>6 DEF IsShort, n_bytes
  <2>2. o.body \in Nat /\ o.body = first.past + k /\ o.body <= Len(s) /\ k \in Nat
      BY <1>1, <1>4, <1>6
  <2>3. long = Moved(ctx, o.body) /\ long.ret = "LT_OK"
    <3>1. Consume(first, s, k) = Moved(first, o.body)
        BY <1>1, <1>4, <2>2, ConsumeMoves
    <3>2. p + 2 \in Nat
        BY <1>1
    <3>3. Moved(first, o.body) = Moved(ctx, o.body)
        BY <1>4, <2>2, <3>2, MovedAgain
    <3>4. Moved(ctx, o.body).ret = "LT_OK"
        BY <2>2, MovedFacts
    <3>5. QED
        BY <2>1, <3>1, <3>3, <3>4
  <2>4. Header(ctx, s) = [ctx |-> long, tag |-> s[ctx.past + 1],
                          len |-> Number(s, first.past, n_bytes(b))]
      BY <1>4, <2>1, <2>3 DEF Header, b, first
  <2>5. QED
      BY <1>2, <1>3, <1>4, <1>6, <2>1, <2>3, <2>4
<1>7. CASE n \in 128..255
  <2>1. b = 129 /\ o.body = p + 3 /\ s[p + 3] = n
      BY <1>3, <1>4, <1>7
  <2>2. Number(s, p + 2, 1) = n
    <3>1. p + 2 + 1 - 1 + 1 = p + 3
        BY <1>1
    <3>2. Number(s, p + 2, 1) = 65536 * 0 + 256 * 0 + s[p + 2 + 1 - 1 + 1]
        BY DEF Number
    <3>3. QED
        BY <1>3, <2>1, <3>1, <3>2
  <2>3. 129 = 128 + 1 /\ p + 3 = p + 2 + 1 /\ 1 \in {1, 2} /\ n # 127
      BY <1>1, <1>7
  <2>4. Header(ctx, s) = [ctx |-> Moved(ctx, o.body), tag |-> o.tag, len |-> n]
      BY <1>6, <2>1, <2>2, <2>3
  <2>5. QED
      BY <2>3, <2>4 DEF n, o
<1>8. CASE n >= 256
  <2>1. b = 130 /\ o.body = p + 4 /\ s[p + 3] = HighByte(n) /\ s[p + 4] = LowByte(n)
      BY <1>3, <1>4, <1>8
  <2>2. Number(s, p + 2, 2) = n
    <3>1. HighByte(n) \in Nat /\ LowByte(n) \in Nat /\ 256 * (HighByte(n)) + LowByte(n) = n
        BY <1>3, TwoBytes
    <3> DEFINE q == p + 2
    <3>2. q \in Nat /\ q + 1 = p + 3 /\ q + 2 = p + 4
        BY <1>1
    <3> HIDE DEF q
    <3>3. s[q + 1] \in Nat /\ s[q + 2] \in Nat
        BY <2>1, <3>1, <3>2
    <3>4. Number(s, q, 2) = 256 * s[q + 1] + s[q + 2]
        BY <3>2, <3>3, TwoByteNumber
    <3>5. Number(s, q, 2) = n
        BY <2>1, <3>1, <3>2, <3>4
    <3>6. QED
        BY <3>5 DEF q
  <2>3. 130 = 128 + 2 /\ p + 4 = p + 2 + 2 /\ 2 \in {1, 2} /\ n # 127
      BY <1>1, <1>8
  <2>4. Header(ctx, s) = [ctx |-> Moved(ctx, o.body), tag |-> o.tag, len |-> n]
      BY <1>6, <2>1, <2>2, <2>3
  <2>5. QED
      BY <2>3, <2>4 DEF n, o
<1>9. QED
    BY <1>3, <1>5, <1>7, <1>8

\* Behind the i-th object the parser is before the next one.
LEMMA ObjectPassed ==
    ASSUME NEW s \in Seq(Nat), NEW doc, IsDer(s, doc), NEW i \in 1..Len(doc),
           NEW ctx, ParserOK(ctx, s), Before(ctx, s, doc, i), ctx.past < End(ctx),
           ObjectLen(doc[i]) # 127,
           NEW r, r.past = Behind(doc[i]),
           r.ends = IF doc[i].tag = LT_ASN1DER_SEQUENCE THEN Append(ctx.ends, doc[i].end)
                    ELSE ctx.ends,
           SampledSoFar(r, s, doc, i + 1)
    PROVE  Before(r, s, doc, i + 1) /\ r.ends # <<>>
<1> DEFINE o == doc[i]
           end == o.end
           m == Len(ctx.ends)
           next == Behind(o)
<1>1. /\ Len(s) \in Nat /\ Len(doc) \in Nat /\ i \in Nat
      /\ o.at \in Nat /\ o.body \in Nat /\ end \in Nat
      /\ o.at + 2 <= o.body /\ o.body <= end /\ end <= Len(s)
      /\ Place(s, doc, i) = o.at /\ Place(s, doc, i + 1) = next
    BY ObjectFacts
<1>2. /\ ctx.ends \in Seq(Nat) /\ m \in Nat /\ m > 0 /\ ctx.past = o.at
      /\ \A e \in 1..m : ctx.ends[e] \in Nat
    BY <1>1, LenProperties, ElementOfSeq DEF ParserOK, Parsers, Before
<1>3. /\ ctx.ends[1] = Len(s)
      /\ \A e \in 1..m : LoopOf(s, doc, i, ctx.ends[e])
      /\ \A e, f \in 1..m : e <= f => ctx.ends[f] <= ctx.ends[e]
    BY DEF Before, LoopsAround
<1>4. next \in Nat /\ next <= end
    BY <1>1 DEF Behind
<1>5. i + 1 - 1 = i /\ \A k \in 1..i : k \in 1..(i - 1) \/ k = i
    BY <1>1
<1>6. \A e \in 1..m : end <= ctx.ends[e]
  <2>1. TAKE e \in 1..m
  <2>2. o.at < ctx.ends[e]
    <3>1. m \in 1..m /\ e <= m /\ e \in 1..m
        BY <1>2
    <3>2. ctx.ends[m] <= ctx.ends[e]
        BY <1>3, <3>1
    <3>3. o.at < ctx.ends[m]
        BY <1>2 DEF End
    <3> DEFINE outer == ctx.ends[e]
               inner == ctx.ends[m]
               p == o.at
    <3>4. inner \in Nat /\ outer \in Nat /\ p \in Nat /\ inner <= outer /\ p < inner
        BY <1>1, <1>2, <3>1, <3>2, <3>3
    <3> HIDE DEF outer, inner, p
    <3>5. p < outer
        BY <3>4
    <3>6. QED
        BY <3>5 DEF outer, p
  <2>3. CASE ctx.ends[e] = Len(s)
      BY <1>1, <2>3
  <2>4. CASE \E k \in 1..(i - 1) : doc[k].end = ctx.ends[e]
    <3>1. PICK k \in 1..(i - 1) : doc[k].end = ctx.ends[e]
        BY <2>4
    <3>2. k \in 1..Len(doc) /\ k < i
        BY <1>1, <3>1
    <3>3. doc[i].at < doc[k].end
        BY <2>2, <3>1
    <3>4. doc[i].end <= doc[k].end
        BY <3>2, <3>3 DEF IsDer
    <3>5. QED
        BY <3>1, <3>4
  <2>5. QED
      BY <1>3, <2>3, <2>4 DEF LoopOf
<1>7. \A e : LoopOf(s, doc, i, e) => LoopOf(s, doc, i + 1, e)
  <2>1. \A k : k \in 1..(i - 1) => k \in 1..(i + 1 - 1)
      BY <1>1
  <2>2. QED
      BY <2>1 DEF LoopOf
<1>8. LoopOf(s, doc, i + 1, end)
  <2>1. i \in 1..(i + 1 - 1)
      BY <1>1
  <2>2. QED
      BY <2>1 DEF LoopOf
<1>9. /\ LoopsAround(s, doc, i + 1, r.ends, r.past)
      /\ r.ends # <<>>
  <2>1. CASE o.tag # LT_ASN1DER_SEQUENCE
    <3>1. r.ends = ctx.ends /\ r.past = next
        BY <2>1
    <3> HIDE DEF next, end, o
    <3>2. \A e \in 1..m : next <= ctx.ends[e]
      <4>1. TAKE e \in 1..m
      <4>2. ctx.ends[e] \in Nat /\ end <= ctx.ends[e]
          BY <1>2, <1>6
      <4>3. QED
          BY <1>1, <1>4, <4>2
    <3>3. ctx.ends # <<>>
        BY <1>2
    <3>4. QED
        BY <1>3, <1>7, <3>1, <3>2, <3>3 DEF LoopsAround
  <2>2. CASE o.tag = LT_ASN1DER_SEQUENCE
    <3> DEFINE more == Append(ctx.ends, end)
    <3>1. r.ends = more /\ r.past = next
        BY <2>2
    <3> HIDE DEF next, end, o
    <3>2. /\ more \in Seq(Nat) /\ Len(more) = m + 1 /\ more[m + 1] = end
          /\ \A e \in 1..m : more[e] = ctx.ends[e]
      <4>1. ctx.ends \in Seq(Nat) /\ end \in Nat
          BY <1>1, <1>2
      <4>2. QED
          BY <4>1, AppendProperties
    <3> HIDE DEF more, m
    <3>3. more # <<>> /\ 1 \in 1..m
        BY <1>2, <3>2
    <3>4. \A e \in 1..(m + 1) : e \in 1..m \/ e = m + 1
        BY <1>2
    <3>5. \A e \in 1..(m + 1) : /\ more[e] \in Nat /\ end <= more[e]
                                /\ LoopOf(s, doc, i + 1, more[e])
      <4>1. TAKE e \in 1..(m + 1)
      <4>2. CASE e \in 1..m
          BY <1>2, <1>3, <1>6, <1>7, <3>2, <4>2 DEF m
      <4>3. CASE e = m + 1
          BY <1>1, <1>8, <3>2, <4>3
      <4>4. QED
          BY <3>4, <4>2, <4>3
    <3>6. \A e \in 1..(m + 1) : next <= more[e]
      <4>1. TAKE e \in 1..(m + 1)
      <4>2. more[e] \in Nat /\ end <= more[e]
          BY <3>5
      <4>3. QED
          BY <1>1, <1>4, <4>2
    <3>7. \A e, f \in 1..(m + 1) : e <= f => more[f] <= more[e]
      <4>1. TAKE e, f \in 1..(m + 1)
      <4>2. CASE f = m + 1
          BY <3>2, <3>5, <4>2
      <4>3. CASE f # m + 1
        <5>1. f \in 1..m /\ (e <= f => e \in 1..m)
            BY <1>2, <4>3
        <5>2. QED
            BY <1>3, <3>2, <5>1 DEF m
      <4>4. QED
          BY <4>2, <4>3
    <3>8. more[1] = Len(s)
        BY <1>3, <3>2, <3>3
    <3>9. QED
        BY <3>1, <3>2, <3>3, <3>5, <3>6, <3>7, <3>8 DEF LoopsAround
  <2>3. QED
      BY <2>1, <2>2
<1>10. \A k \in 1..(i + 1 - 1) : ObjectLen(doc[k]) # 127
    BY <1>5 DEF Before
<1>11. QED
    BY <1>1, <1>9, <1>10 DEF Before

\* An object other than the key adds nothing to what is sampled.
LEMMA NothingSampled ==
    ASSUME NEW s \in Seq(Nat), NEW doc, IsDer(s, doc), NEW i \in 1..Len(doc),
           NEW ctx, SampledSoFar(ctx, s, doc, i), ctx.found \in BOOLEAN,
           ctx.sample_next \in BOOLEAN,
           ~(doc[i].tag \in Sampled /\ ctx.sample_next /\ ~ctx.found),
           NEW r, r.found = ctx.found, r.sbuf = ctx.sbuf, r.sample_next \in BOOLEAN,
           r.sample_next <=> ctx.sample_next \/ IsIdentifier(s, doc[i])
    PROVE  SampledSoFar(r, s, doc, i + 1)
<1>1. i \in Nat /\ Len(doc) \in Nat
    BY ObjectFacts
<1>2. i + 1 - 1 = i /\ \A k : k \in 1..i <=> k \in 1..(i - 1) \/ k = i
    BY <1>1
<1>3. r.found => \E k \in 1..(i + 1 - 1) : IsKey(s, doc, k) /\ r.sbuf = KeyBytes(s, doc[k])
    BY <1>2 DEF SampledSoFar
<1>4. ASSUME ~r.found
      PROVE  /\ \A k \in KeyPlaces(s, doc) : i + 1 <= k
             /\ r.sample_next <=> \E k \in 1..(i + 1 - 1) : IsIdentifier(s, doc[k])
  <2>1. /\ \A k \in KeyPlaces(s, doc) : i <= k
        /\ ctx.sample_next <=> \E k \in 1..(i - 1) : IsIdentifier(s, doc[k])
      BY <1>4 DEF SampledSoFar
  <2>2. i \notin KeyPlaces(s, doc)
      BY <1>4, <2>1 DEF KeyPlaces
  <2>3. \A k \in KeyPlaces(s, doc) : k \in Nat
      BY <1>1 DEF KeyPlaces
  <2>4. \A k \in KeyPlaces(s, doc) : i + 1 <= k
    <3>1. TAKE k \in KeyPlaces(s, doc)
    <3>2. k # i /\ i <= k /\ k \in Nat
        BY <2>1, <2>2, <2>3
    <3>3. QED
        BY <1>1, <3>2
  <2>5. r.sample_next <=> \E k \in 1..i : IsIdentifier(s, doc[k])
      BY <1>2, <2>1
  <2>6. QED
      BY <1>2, <2>4, <2>5
<1>5. QED
    BY <1>3, <1>4 DEF SampledSoFar

\* Of bytes, the first three are those of X25519 when their number is.
LEMMA IdentifierRead ==
    ASSUME NEW s \in Seq(Nat), NEW q \in Nat, q + 3 <= Len(s),
           \A b \in (q + 1)..(q + 3) : s[b] < 256
    PROVE  Number(s, q, 3) = LT_OBJ_ID_CURVEX25519 <=> \A k \in 1..3 : s[q + k] = X25519[k]
<1> DEFINE x == s[q + 1]
           y == s[q + 2]
           z == s[q + 3]
<1>1. /\ q + 1 \in (q + 1)..(q + 3) /\ q + 2 \in (q + 1)..(q + 3) /\ q + 3 \in (q + 1)..(q + 3)
      /\ q + 1 \in 1..Len(s) /\ q + 2 \in 1..Len(s) /\ q + 3 \in 1..Len(s)
    BY LenProperties
<1>2. x \in Nat /\ y \in Nat /\ z \in Nat
    BY <1>1, ElementOfSeq
<1>3. x < 256 /\ y < 256 /\ z < 256
    BY <1>1
<1>4. Number(s, q, 3) = 65536 * x + 256 * y + z
  <2>1. /\ 3 <= 3 /\ 2 <= 3 /\ 1 <= 3
        /\ q + 3 - 3 + 1 = q + 1 /\ q + 3 - 2 + 1 = q + 2 /\ q + 3 - 1 + 1 = q + 3
      OBVIOUS
  <2>2. QED
      BY <2>1 DEF Number
<1>5. (\A k \in 1..3 : s[q + k] = X25519[k]) <=> x = 43 /\ y = 101 /\ z = 110
  <2>1. \A k : k \in 1..3 <=> k = 1 \/ k = 2 \/ k = 3
      OBVIOUS
  <2>2. X25519[1] = 43 /\ X25519[2] = 101 /\ X25519[3] = 110
      BY DEF X25519
  <2> DEFINE Same(k) == s[q + k] = X25519[k]
  <2>3. /\ Same(1) <=> x = 43
        /\ Same(2) <=> y = 101
        /\ Same(3) <=> z = 110
      BY <2>2
  <2> HIDE DEF Same
  <2>4. (\A k \in 1..3 : Same(k)) <=> Same(1) /\ Same(2) /\ Same(3)
      BY <2>1
  <2>5. QED
      BY <2>3, <2>4 DEF Same
<1> HIDE DEF x, y, z
<1>6. 65536 * x + 256 * y + z = 2844014 <=> x = 43 /\ y = 101 /\ z = 110
    BY <1>2, <1>3
<1>7. QED
    BY <1>4, <1>5, <1>6 DEF LT_OBJ_ID_CURVEX25519

\* What the parser samples behind an identifier is the key.
LEMMA KeyReached ==
    ASSUME NEW s, NEW doc, NEW i \in 1..Len(doc), NEW ctx, SampledSoFar(ctx, s, doc, i),
           doc[i].tag \in Sampled, ctx.sample_next, ~ctx.found
    PROVE  IsKey(s, doc, i)
BY DEF SampledSoFar, IsKey, KeyPlaces

LEMMA KeySampled ==
    ASSUME NEW s \in Seq(Nat), NEW doc, IsDer(s, doc), NEW i \in 1..Len(doc),
           NEW c \in Parsers, c.ret = "LT_OK", c.past = doc[i].body, ObjectLen(doc[i]) < 256
    PROVE  LET r == Sample(c, s, ObjectLen(doc[i]), TR01_STPUB_LEN) IN
           /\ r.ret = "LT_OK" /\ r.past = doc[i].end /\ r.ends = c.ends
           /\ r.found = TRUE /\ r.sbuf = KeyBytes(s, doc[i])
<1> DEFINE o == doc[i]
           len == ObjectLen(o)
           sample_len == len % 256
           end == o.end
           n == IF sample_len < TR01_STPUB_LEN THEN sample_len ELSE TR01_STPUB_LEN
           after == Consume(c, s, sample_len)
           r == Sample(c, s, len, TR01_STPUB_LEN)
<1>1. /\ Len(s) \in Nat /\ o.body \in Nat /\ end \in Nat /\ o.body <= end /\ end <= Len(s)
    BY ObjectFacts
<1>2. len \in Nat /\ len < 256 /\ end = o.body + len
    BY <1>1 DEF ObjectLen
<1>3. sample_len = len
  <2> HIDE DEF len
  <2>1. QED
      BY <1>2
<1> HIDE DEF sample_len, o, len, end
<1>4. after = Moved(c, end)
  <2>1. sample_len \in Nat /\ end \in Nat /\ end = c.past + sample_len /\ end <= Len(s)
      BY <1>1, <1>2, <1>3 DEF o
  <2>2. QED
      BY <1>1, <2>1, ConsumeMoves
<1>5. /\ after \in Parsers /\ after.past = end /\ after.ends = c.ends /\ after.ret = "LT_OK"
  <2> HIDE DEF after
  <2>1. QED
      BY <1>1, <1>4, MovedFacts
<1> HIDE DEF after
<1>6. SubSeq(s, end - n + 1, end) = KeyBytes(s, o)
  <2>1. CASE len < 32
    <3>1. end - n + 1 = o.body + 1
        BY <1>1, <1>2, <1>3, <2>1 DEF TR01_STPUB_LEN
    <3>2. KeyBytes(s, o) = SubSeq(s, o.body + 1, end)
      <4>1. len <= 32
          BY <1>2, <2>1
      <4>2. QED
          BY <4>1 DEF KeyBytes, TR01_STPUB_LEN, len, end
    <3>3. QED
        BY <3>1, <3>2
  <2>2. CASE len = 32
    <3>1. end - n + 1 = o.body + 1
        BY <1>1, <1>2, <1>3, <2>2 DEF TR01_STPUB_LEN
    <3>2. KeyBytes(s, o) = SubSeq(s, o.body + 1, end)
        BY <1>2, <2>2 DEF KeyBytes, TR01_STPUB_LEN, len, end
    <3>3. QED
        BY <3>1, <3>2
  <2>3. CASE len > 32
    <3>1. end - n + 1 = end - 32 + 1
        BY <1>1, <1>2, <1>3, <2>3 DEF TR01_STPUB_LEN
    <3>2. KeyBytes(s, o) = SubSeq(s, end - 32 + 1, end)
      <4>1. ~(len <= 32)
          BY <1>2, <2>3
      <4>2. QED
          BY <4>1 DEF KeyBytes, TR01_STPUB_LEN, len, end
    <3>3. QED
        BY <3>1, <3>2
  <2>4. QED
      BY <1>2, <2>1, <2>2, <2>3
<1>7. r = [after EXCEPT !.sample_next = FALSE, !.found = TRUE,
                        !.sbuf = SubSeq(s, after.past - n + 1, after.past)]
    BY <1>5 DEF Sample, after, sample_len, n
<1> DEFINE bytes == KeyBytes(s, o)
<1>8. r = [after EXCEPT !.sample_next = FALSE, !.found = TRUE, !.sbuf = bytes]
    BY <1>5, <1>6, <1>7
<1> HIDE DEF r, bytes
<1>9. /\ r.ret = "LT_OK" /\ r.past = end /\ r.ends = c.ends /\ r.found = TRUE /\ r.sbuf = bytes
    BY <1>5, <1>8 DEF Parsers
<1>10. QED
    BY <1>9 DEF r, bytes, end, o, len

LEMMA SampledKeeps ==
    ASSUME NEW s, NEW doc, NEW i \in Nat, IsKey(s, doc, i),
           NEW r, r.found = TRUE, r.sbuf = KeyBytes(s, doc[i])
    PROVE  SampledSoFar(r, s, doc, i + 1)
<1>1. i \in 1..(i + 1 - 1)
  <2>1. i \in 1..Len(doc)
      BY DEF IsKey, KeyPlaces
  <2>2. QED
      BY <2>1
<1>2. QED
    BY <1>1 DEF SampledSoFar

\* An object identifier is passed, and compared.
LEMMA IdentifierPassed ==
    ASSUME NEW s \in Seq(Nat), NEW doc, IsDer(s, doc), Supported(s, doc), NEW i \in 1..Len(doc),
           NEW c \in Parsers, c.ret = "LT_OK", c.past = doc[i].body,
           doc[i].tag = LT_ASN1DER_OBJECT_IDENTIFIER
    PROVE  LET r == Identifier(c, s, ObjectLen(doc[i]), LT_OBJ_ID_CURVEX25519) IN
           /\ r.ret = "LT_OK" /\ r.past = doc[i].end /\ r.ends = c.ends
           /\ r.found = c.found /\ r.sbuf = c.sbuf /\ r.sample_next \in BOOLEAN
           /\ r.sample_next <=> c.sample_next \/ IsIdentifier(s, doc[i])
<1> DEFINE o == doc[i]
           len == ObjectLen(o)
           end == o.end
           body == o.body
           after == Consume(c, s, len)
           same == Number(s, body, 3) = LT_OBJ_ID_CURVEX25519
           r == Identifier(c, s, len, LT_OBJ_ID_CURVEX25519)
<1>1. /\ Len(s) \in Nat /\ body \in Nat /\ end \in Nat /\ body <= end /\ end <= Len(s)
    BY ObjectFacts
<1>2. len \in Nat /\ end = body + len
    BY <1>1 DEF ObjectLen
<1>3. len \notin {1, 2} /\ \A b \in (body + 1)..end : s[b] < 256
    BY DEF Supported
<1>4. /\ IsIdentifier(s, o) <=> len >= 3 /\ \A k \in 1..3 : s[body + k] = X25519[k]
      /\ c.past = body
    BY DEF IsIdentifier
<1> HIDE DEF o, len, end, body, same
<1>5. CASE len < 3
  <2>1. r = c
      BY <1>5 DEF Identifier
  <2>2. len = 0 /\ end = body /\ ~(len >= 3)
      BY <1>1, <1>2, <1>3, <1>5
  <2>3. c.sample_next \in BOOLEAN
      BY DEF Parsers
  <2> HIDE DEF r
  <2>4. QED
      BY <1>4, <2>1, <2>2, <2>3 DEF r, o, len, end
<1>6. CASE ~(len < 3)
  <2>1. after = Moved(c, end)
    <3>1. end = c.past + len
        BY <1>2, <1>4
    <3>2. QED
        BY <1>1, <1>2, <3>1, ConsumeMoves
  <2> HIDE DEF after
  <2>2. /\ after \in Parsers /\ after.past = end /\ after.ends = c.ends /\ after.ret = "LT_OK"
        /\ after.found = c.found /\ after.sbuf = c.sbuf /\ after.sample_next = c.sample_next
      BY <1>1, <2>1, MovedFacts
  <2>3. same <=> \A k \in 1..3 : s[body + k] = X25519[k]
    <3>1. body + 3 <= Len(s)
        BY <1>1, <1>2, <1>6
    <3>2. \A b \in (body + 1)..(body + 3) : s[b] < 256
      <4>1. \A b \in (body + 1)..(body + 3) : b \in (body + 1)..end
          BY <1>1, <1>2, <1>6
      <4>2. QED
          BY <1>3, <4>1
    <3>3. QED
        BY <1>1, <3>1, <3>2, IdentifierRead DEF same
  <2>4. r = [after EXCEPT !.sample_next = after.sample_next \/ same]
      BY <1>4, <1>6, <2>2 DEF Identifier, after, same
  <2>5. (after.sample_next \/ same) \in BOOLEAN
      OBVIOUS
  <2> DEFINE sn == after.sample_next \/ same
  <2>6. sn <=> c.sample_next \/ IsIdentifier(s, o)
    <3>1. len >= 3
        BY <1>2, <1>6
    <3>2. QED
        BY <1>4, <2>2, <2>3, <3>1
  <2>7. r = [after EXCEPT !.sample_next = sn] /\ sn \in BOOLEAN
      BY <2>4, <2>5
  <2> HIDE DEF r, sn
  <2>8. /\ r.ret = "LT_OK" /\ r.past = end /\ r.ends = c.ends
        /\ r.found = c.found /\ r.sbuf = c.sbuf /\ r.sample_next = sn
      BY <2>2, <2>7 DEF Parsers
  <2>9. QED
      BY <2>6, <2>7, <2>8 DEF r, o, len, end
<1>7. QED
    BY <1>5, <1>6

\* A pass over an object: the parser is before the next one, or the object has the
\* one length that it takes amiss.
LEMMA ObjectOnTrack ==
    ASSUME NEW s \in Seq(Nat), NEW doc, IsDer(s, doc), Supported(s, doc), NEW i \in 1..Len(doc),
           NEW ctx, ParserOK(ctx, s), Before(ctx, s, doc, i), ctx.past < End(ctx)
    PROVE  LET r == ParseObject(ctx, s, LT_OBJ_ID_CURVEX25519, TR01_STPUB_LEN) IN
           \/ r.ret = "LT_CERT_UNSUPPORTED" /\ ObjectLen(doc[i]) = 127
           \/ r.ret = "LT_OK" /\ r.ends # <<>> /\ Before(r, s, doc, i + 1)
<1> DEFINE o == doc[i]
           len == ObjectLen(o)
           h == Header(ctx, s)
           c == Moved(ctx, o.body)
           r == ParseObject(ctx, s, LT_OBJ_ID_CURVEX25519, TR01_STPUB_LEN)
<1>1. /\ ctx \in Parsers /\ ctx.ret = "LT_OK" /\ ctx.ends \in Seq(Nat)
      /\ ctx.found \in BOOLEAN /\ ctx.sample_next \in BOOLEAN
    BY DEF ParserOK, Parsers
<1>2. /\ Len(s) \in Nat /\ i \in Nat
      /\ o.tag \in Nat /\ o.at \in Nat /\ o.body \in Nat /\ o.end \in Nat
      /\ o.body <= o.end /\ o.end <= Len(s)
    BY ObjectFacts
<1>3. ctx.past = o.at /\ SampledSoFar(ctx, s, doc, i)
    BY ObjectFacts DEF Before
<1>4. /\ len = 127 => h.ctx.ret = "LT_CERT_UNSUPPORTED"
      /\ len # 127 => h = [ctx |-> c, tag |-> o.tag, len |-> len]
    BY <1>1, <1>3, HeaderDecodes
<1>5. CASE len = 127
  <2> HIDE DEF h
  <2>1. h.ctx.ret = "LT_CERT_UNSUPPORTED" /\ h.ctx.ret # "LT_OK"
      BY <1>4, <1>5
  <2>2. r = h.ctx
      BY <2>1 DEF ParseObject, h
  <2> HIDE DEF r
  <2>3. QED
      BY <1>5, <2>1, <2>2 DEF r
<1>6. CASE len # 127
  <2>1. /\ c \in Parsers /\ c.past = o.body /\ c.ends = ctx.ends
        /\ c.sample_next = ctx.sample_next /\ c.found = ctx.found /\ c.sbuf = ctx.sbuf
        /\ c.ret = "LT_OK"
      BY <1>1, <1>2, MovedFacts
  <2>2. h.ctx = c /\ h.tag = o.tag /\ h.len = len
    <3> HIDE DEF h, c, o, len
    <3>1. QED
        BY <1>4, <1>6
  <2>3. len \in Nat /\ o.end = o.body + len
      BY <1>2 DEF ObjectLen
  <2> HIDE DEF h, c, r
  <2>4. ASSUME r.ret = "LT_OK", r.past = Behind(o),
               r.ends = IF o.tag = LT_ASN1DER_SEQUENCE THEN Append(ctx.ends, o.end)
                        ELSE ctx.ends,
               SampledSoFar(r, s, doc, i + 1)
        PROVE  r.ret = "LT_OK" /\ r.ends # <<>> /\ Before(r, s, doc, i + 1)
      BY <1>6, <2>4, ObjectPassed
  <2>5. ASSUME r.found = ctx.found, r.sbuf = ctx.sbuf, r.sample_next \in BOOLEAN,
               r.sample_next <=> ctx.sample_next \/ IsIdentifier(s, o),
               ~(o.tag \in Sampled /\ ctx.sample_next /\ ~ctx.found)
        PROVE  SampledSoFar(r, s, doc, i + 1)
      BY <1>1, <1>3, <2>5, NothingSampled
  <2>6. LT_ASN1DER_SEQUENCE \notin Sampled /\ LT_ASN1DER_OBJECT_IDENTIFIER \notin Sampled
        /\ LT_ASN1DER_OBJECT_IDENTIFIER # LT_ASN1DER_SEQUENCE
      BY DEF Sampled, LT_ASN1DER_SEQUENCE, LT_ASN1DER_OBJECT_IDENTIFIER, LT_ASN1DER_BOOLEAN,
             LT_ASN1DER_INTEGER, LT_ASN1DER_STRING_BIT, LT_ASN1DER_UTC_TIME
  <2>7. CASE o.tag = LT_ASN1DER_SEQUENCE
    <3> DEFINE more == Append(ctx.ends, o.end)
    <3>1. r = [c EXCEPT !.ends = more]
      <4>1. r = [c EXCEPT !.ends = Append(c.ends, c.past + len)]
          BY <2>1, <2>2, <2>7 DEF ParseObject, h, r
      <4>2. QED
          BY <2>1, <2>3, <4>1
    <3>2. more \in Seq(Nat)
        BY <1>1, <1>2, AppendProperties
    <3> HIDE DEF more
    <3>3. /\ r.ret = "LT_OK" /\ r.past = o.body /\ r.ends = more /\ r.found = ctx.found
          /\ r.sbuf = ctx.sbuf /\ r.sample_next = ctx.sample_next
        BY <2>1, <3>1 DEF Parsers
    <3>4. ~IsIdentifier(s, o)
        BY <2>6, <2>7 DEF IsIdentifier
    <3>5. SampledSoFar(r, s, doc, i + 1)
        BY <1>1, <2>5, <2>6, <2>7, <3>3, <3>4
    <3>6. r.past = Behind(o)
        BY <2>7, <3>3 DEF Behind
    <3>7. QED
        BY <2>4, <2>7, <3>3, <3>5, <3>6 DEF more, r
  <2>8. CASE o.tag = LT_ASN1DER_OBJECT_IDENTIFIER
    <3>1. r = Identifier(c, s, len, LT_OBJ_ID_CURVEX25519)
        BY <2>1, <2>2, <2>6, <2>8 DEF ParseObject, h, r
    <3>2. /\ r.ret = "LT_OK" /\ r.past = o.end /\ r.ends = c.ends
          /\ r.found = c.found /\ r.sbuf = c.sbuf /\ r.sample_next \in BOOLEAN
          /\ r.sample_next <=> c.sample_next \/ IsIdentifier(s, o)
        BY <2>1, <2>8, <3>1, IdentifierPassed
    <3>3. SampledSoFar(r, s, doc, i + 1)
        BY <2>1, <2>5, <2>6, <2>8, <3>2
    <3>4. r.past = Behind(o)
        BY <2>6, <2>8, <3>2 DEF Behind
    <3>5. QED
        BY <2>1, <2>4, <2>6, <2>8, <3>2, <3>3, <3>4 DEF r
  <2>9. CASE /\ o.tag \notin {LT_ASN1DER_SEQUENCE, LT_ASN1DER_OBJECT_IDENTIFIER}
             /\ o.tag \in Sampled /\ ctx.sample_next /\ ~ctx.found
    <3>1. r = Sample(c, s, len, TR01_STPUB_LEN)
        BY <2>1, <2>2, <2>9 DEF ParseObject, h, r
    <3>2. IsKey(s, doc, i)
        BY <1>3, <2>9, KeyReached
    <3>3. len < 256
        BY <3>2 DEF Supported
    <3>4. /\ r.ret = "LT_OK" /\ r.past = o.end /\ r.ends = c.ends
          /\ r.found = TRUE /\ r.sbuf = KeyBytes(s, o)
      <4>1. c \in Parsers /\ c.ret = "LT_OK" /\ c.past = doc[i].body /\ ObjectLen(doc[i]) < 256
          BY <2>1, <3>3
      <4>2. LET q == Sample(c, s, ObjectLen(doc[i]), TR01_STPUB_LEN) IN
            /\ q.ret = "LT_OK" /\ q.past = doc[i].end /\ q.ends = c.ends
            /\ q.found = TRUE /\ q.sbuf = KeyBytes(s, doc[i])
          BY <4>1, KeySampled
      <4>3. QED
          BY <3>1, <4>2
    <3>5. SampledSoFar(r, s, doc, i + 1)
        BY <1>2, <3>2, <3>4, SampledKeeps
    <3>6. r.past = Behind(o)
        BY <2>9, <3>4 DEF Behind
    <3>7. QED
        BY <2>1, <2>4, <2>9, <3>4, <3>5, <3>6 DEF r
  <2>10. CASE /\ o.tag \notin {LT_ASN1DER_SEQUENCE, LT_ASN1DER_OBJECT_IDENTIFIER}
              /\ ~(o.tag \in Sampled /\ ctx.sample_next /\ ~ctx.found)
    <3>1. r = Consume(c, s, len)
        BY <2>1, <2>2, <2>10 DEF ParseObject, h, r
    <3>2. r = Moved(c, o.end)
      <4>1. o.end = c.past + len
          BY <2>1, <2>3
      <4>2. QED
          BY <1>2, <2>1, <2>3, <3>1, <4>1, ConsumeMoves
    <3>3. /\ r.ret = "LT_OK" /\ r.past = o.end /\ r.ends = c.ends /\ r.found = c.found
          /\ r.sbuf = c.sbuf /\ r.sample_next = c.sample_next
        BY <1>2, <2>1, <3>2, MovedFacts
    <3>4. ~IsIdentifier(s, o)
        BY <2>10 DEF IsIdentifier
    <3>5. SampledSoFar(r, s, doc, i + 1)
        BY <1>1, <2>1, <2>5, <2>10, <3>3, <3>4
    <3>6. r.past = Behind(o)
        BY <2>10, <3>3 DEF Behind
    <3>7. QED
        BY <2>1, <2>4, <2>10, <3>3, <3>5, <3>6 DEF r
  <2>11. QED
      BY <2>7, <2>8, <2>9, <2>10 DEF r
<1>7. QED
    BY <1>5, <1>6

\* Within a loop that is not at its end there is an object, of two bytes at least.
LEMMA ObjectAhead ==
    ASSUME NEW s \in Seq(Nat), NEW doc, IsDer(s, doc), NEW i \in 1..(Len(doc) + 1),
           NEW ctx, ParserOK(ctx, s), Before(ctx, s, doc, i)
    PROVE  /\ ctx.past <= End(ctx) /\ End(ctx) \in Nat /\ End(ctx) <= Len(s)
           /\ ctx.past < End(ctx) => i \in 1..Len(doc) /\ ctx.past + 2 <= End(ctx)
<1> DEFINE m == Len(ctx.ends)
           end == ctx.ends[m]
           p == ctx.past
<1>1. /\ ctx.ends \in Seq(Nat) /\ m \in Nat /\ m > 0 /\ Len(s) \in Nat /\ p \in Nat
      /\ Len(doc) \in Nat
    BY LenProperties DEF ParserOK, Parsers, IsDer
<1>2. 1 \in 1..m /\ m \in 1..m /\ 1 <= m
    BY <1>1
<1>3. end \in Nat /\ End(ctx) = end
    BY <1>1, <1>2, ElementOfSeq DEF End
<1>4. /\ ctx.ends[1] = Len(s) /\ p <= end /\ LoopOf(s, doc, i, end)
      /\ ctx.ends[m] <= ctx.ends[1]
    BY <1>2 DEF Before, LoopsAround
<1>5. end <= Len(s) /\ p = Place(s, doc, i)
    BY <1>4 DEF Before
<1> HIDE DEF end, m, p
<1>6. ASSUME p < end
      PROVE  i \in 1..Len(doc) /\ p + 2 <= end
  <2>1. p < Len(s)
      BY <1>1, <1>3, <1>5, <1>6
  <2>2. i \in 1..Len(doc)
    <3>1. CASE i <= Len(doc)
        BY <1>1, <3>1
    <3>2. CASE ~(i <= Len(doc))
      <4>1. p = Len(s)
          BY <1>5, <3>2 DEF Place
      <4>2. QED
          BY <1>1, <2>1, <4>1
    <3>3. QED
        BY <3>1, <3>2
  <2> DEFINE last == doc[i].end
             body == doc[i].body
             at == doc[i].at
  <2>3. /\ at \in Nat /\ body \in Nat /\ last \in Nat
        /\ at + 2 <= body /\ body <= last /\ last <= Len(s)
        /\ Place(s, doc, i) = at
      BY <2>2, ObjectFacts
  <2>4. last <= end
    <3>1. CASE end = Len(s)
        BY <2>3, <3>1
    <3>2. CASE \E k \in 1..(i - 1) : doc[k].end = end
      <4>1. PICK k \in 1..(i - 1) : doc[k].end = end
          BY <3>2
      <4>2. k \in 1..Len(doc) /\ k < i
          BY <1>1, <2>2, <4>1
      <4>3. doc[i].at < doc[k].end
          BY <1>5, <1>6, <2>3, <4>1
      <4>4. doc[i].end <= doc[k].end
          BY <2>2, <4>2, <4>3 DEF IsDer
      <4>5. QED
          BY <4>1, <4>4
    <3>3. QED
        BY <1>4, <3>1, <3>2 DEF LoopOf
  <2>5. p = at
      BY <1>5, <2>3
  <2> HIDE DEF last, body, at
  <2>6. p + 2 <= end
      BY <1>3, <2>3, <2>4, <2>5
  <2>7. QED
      BY <2>2, <2>6
<1>7. QED
    BY <1>3, <1>4, <1>5, <1>6 DEF p

\* At the end of the stream all that there is to be found has been found.
LEMMA AllRead ==
    ASSUME NEW s \in Seq(Nat), NEW doc, IsDer(s, doc), NEW ctx,
           \A k \in 1..Len(doc) : ObjectLen(doc[k]) # 127,
           SampledSoFar(ctx, s, doc, Len(doc) + 1)
    PROVE  /\ ctx.found => Find(s, doc) = [ret |-> "LT_OK", key |-> ctx.sbuf]
           /\ ~ctx.found => Find(s, doc) = [ret |-> "LT_CERT_ITEM_NOT_FOUND", key |-> <<>>]
<1>1. Len(doc) \in Nat
    BY LenProperties DEF IsDer
<1>2. ~HasLength(doc, 127)
    BY DEF HasLength
<1>3. \A k \in KeyPlaces(s, doc) : k \in 1..Len(doc) /\ k \in Nat
    BY DEF KeyPlaces
<1>4. ASSUME ctx.found
      PROVE  Find(s, doc) = [ret |-> "LT_OK", key |-> ctx.sbuf]
  <2>1. PICK k : IsKey(s, doc, k) /\ ctx.sbuf = KeyBytes(s, doc[k])
      BY <1>4 DEF SampledSoFar
  <2>2. ASSUME NEW j \in KeyPlaces(s, doc), IsKey(s, doc, j)
        PROVE  j = k
    <3>1. k \in Nat /\ j \in Nat /\ j <= k /\ k <= j
        BY <1>3, <2>1, <2>2 DEF IsKey
    <3>2. QED
        BY <3>1
  <2>3. k \in KeyPlaces(s, doc)
      BY <2>1 DEF IsKey
  <2>4. (CHOOSE j \in KeyPlaces(s, doc) : IsKey(s, doc, j)) = k
      BY <2>1, <2>2, <2>3
  <2>5. Find(s, doc) = [ret |-> "LT_OK",
                        key |-> KeyBytes(s, doc[CHOOSE j \in KeyPlaces(s, doc) : IsKey(s, doc, j)])]
      BY <1>2, <2>3 DEF Find
  <2>6. QED
      BY <2>1, <2>4, <2>5
<1>5. ASSUME ~ctx.found
      PROVE  Find(s, doc) = [ret |-> "LT_CERT_ITEM_NOT_FOUND", key |-> <<>>]
  <2>1. \A k \in KeyPlaces(s, doc) : Len(doc) + 1 <= k
      BY <1>5 DEF SampledSoFar
  <2>2. KeyPlaces(s, doc) = {}
    <3>1. ASSUME NEW k \in KeyPlaces(s, doc)
          PROVE  FALSE
      <4>1. k \in 1..Len(doc) /\ Len(doc) + 1 <= k
          BY <1>3, <2>1
      <4>2. QED
          BY <1>1, <4>1
    <3>2. QED
        BY <3>1
  <2>3. QED
      BY <1>2, <2>2 DEF Find
<1>6. QED
    BY <1>4, <1>5

\* A loop ends where its SEQUENCE does, that of the stream with what was to be found.
LEMMA LoopEndOnTrack ==
    ASSUME NEW s \in Seq(Nat), NEW doc, IsDer(s, doc), NEW i \in 1..(Len(doc) + 1),
           NEW ctx, ParserOK(ctx, s), Before(ctx, s, doc, i), ~(ctx.past < End(ctx) - 1)
    PROVE  LET r == LoopEnd(ctx) IN
           \/ r.ret = "LT_OK" /\ r.ends # <<>> /\ Before(r, s, doc, i)
           \/ r.ret = "LT_OK" /\ r.ends = <<>> /\ Find(s, doc) = [ret |-> "LT_OK", key |-> r.sbuf]
           \/ /\ r.ret = "LT_CERT_ITEM_NOT_FOUND"
              /\ Find(s, doc) = [ret |-> "LT_CERT_ITEM_NOT_FOUND", key |-> <<>>]
<1> DEFINE m == Len(ctx.ends)
           less == SubSeq(ctx.ends, 1, m - 1)
           p == ctx.past
           end == End(ctx)
           r == LoopEnd(ctx)
<1>1. /\ ctx \in Parsers /\ ctx.ret = "LT_OK"
      /\ ctx.ends \in Seq(Nat) /\ m \in Nat /\ m > 0 /\ Len(s) \in Nat /\ p \in Nat
      /\ Len(doc) \in Nat
    BY LenProperties DEF ParserOK, Parsers, IsDer
<1>2. /\ p <= end /\ end \in Nat /\ end <= Len(s)
      /\ p < end => i \in 1..Len(doc) /\ p + 2 <= end
    BY ObjectAhead
<1>3. p = end
  <2>1. ~(p < end - 1)
      OBVIOUS
  <2> HIDE DEF p, end
  <2>2. QED
      BY <1>1, <1>2, <2>1
<1>4. less \in Seq(Nat) /\ Len(less) = m - 1 /\ \A e \in 1..(m - 1) : less[e] = ctx.ends[e]
  <2> DEFINE d == m - 1
  <2>1. d \in Nat /\ 1 \in Nat \ {0} /\ 1 <= d + 1 /\ d <= Len(ctx.ends) /\ d - 1 + 1 = d
      BY <1>1
  <2> HIDE DEF d
  <2>2. /\ SubSeq(ctx.ends, 1, d) \in Seq(Nat) /\ Len(SubSeq(ctx.ends, 1, d)) = d - 1 + 1
        /\ \A e \in 1..(d - 1 + 1) : SubSeq(ctx.ends, 1, d)[e] = ctx.ends[1 + e - 1]
      BY <1>1, <2>1, SliceProperties
  <2>3. \A e \in 1..d : 1 + e - 1 = e
      BY <2>1
  <2>4. QED
      BY <2>1, <2>2, <2>3 DEF d
<1> HIDE DEF less
<1>5. ctx.ends[1] = Len(s) /\ \A k \in 1..(i - 1) : ObjectLen(doc[k]) # 127
    BY DEF Before, LoopsAround
<1>6. ASSUME ~(m = 1 /\ ~ctx.found)
      PROVE  /\ r.ret = "LT_OK" /\ r.ends = less /\ r.past = p /\ r.found = ctx.found
             /\ r.sbuf = ctx.sbuf /\ r.sample_next = ctx.sample_next
  <2>1. r = [ctx EXCEPT !.ends = less]
      BY <1>3, <1>6 DEF LoopEnd, less
  <2> HIDE DEF r, m
  <2>2. QED
      BY <1>1, <1>4, <2>1 DEF Parsers
<1>7. CASE m = 1
  <2>1. end = Len(s)
      BY <1>5, <1>7 DEF End
  <2>2. i = Len(doc) + 1
    <3>1. CASE i \in 1..Len(doc)
      <4> DEFINE at == doc[i].at
                 body == doc[i].body
                 last == doc[i].end
      <4>1. /\ at \in Nat /\ body \in Nat /\ last \in Nat
            /\ at + 2 <= body /\ body <= last /\ last <= Len(s)
            /\ Place(s, doc, i) = at
          BY <3>1, ObjectFacts
      <4>2. p = at
          BY <4>1 DEF Before
      <4>3. at = Len(s)
          BY <1>3, <2>1, <4>2
      <4> HIDE DEF at, body, last
      <4>4. QED
          BY <1>1, <4>1, <4>3
    <3>2. QED
        BY <1>1, <3>1
  <2>3. \A k \in 1..Len(doc) : ObjectLen(doc[k]) # 127
    <3>1. i - 1 = Len(doc)
        BY <1>1, <2>2
    <3>2. QED
        BY <1>5, <3>1
  <2>4. SampledSoFar(ctx, s, doc, Len(doc) + 1)
      BY <2>2 DEF Before
  <2>5. /\ ctx.found => Find(s, doc) = [ret |-> "LT_OK", key |-> ctx.sbuf]
        /\ ~ctx.found => Find(s, doc) = [ret |-> "LT_CERT_ITEM_NOT_FOUND", key |-> <<>>]
      BY <2>3, <2>4, AllRead
  <2>6. CASE ctx.found
    <3>1. less = <<>>
      <4>1. Len(less) = 0
          BY <1>4, <1>7
      <4>2. QED
          BY <1>4, <4>1, EmptySeq
    <3>2. r.ret = "LT_OK" /\ r.ends = <<>> /\ r.sbuf = ctx.sbuf
        BY <1>6, <2>6, <3>1
    <3>3. QED
        BY <2>5, <2>6, <3>2
  <2>7. CASE ~ctx.found
    <3>1. r = [ctx EXCEPT !.ret = "LT_CERT_ITEM_NOT_FOUND"]
        BY <1>7, <2>7 DEF LoopEnd, Error
    <3> HIDE DEF r
    <3>2. r.ret = "LT_CERT_ITEM_NOT_FOUND"
        BY <1>1, <3>1 DEF Parsers
    <3>3. QED
        BY <2>5, <2>7, <3>2 DEF r
  <2>8. QED
      BY <2>6, <2>7
<1>8. CASE m # 1
  <2>1. /\ r.ret = "LT_OK" /\ r.ends = less /\ r.past = p /\ r.found = ctx.found
        /\ r.sbuf = ctx.sbuf /\ r.sample_next = ctx.sample_next
      BY <1>6, <1>8
  <2> HIDE DEF r, m
  <2>2. 1 \in 1..(m - 1) /\ \A e \in 1..(m - 1) : e \in 1..m
      BY <1>1, <1>8
  <2>3. less # <<>>
      BY <1>1, <1>4, <1>8
  <2>4. /\ \A e \in 1..m : p <= ctx.ends[e] /\ LoopOf(s, doc, i, ctx.ends[e])
        /\ \A e, f \in 1..m : e <= f => ctx.ends[f] <= ctx.ends[e]
      BY DEF Before, LoopsAround, m
  <2>5. LoopsAround(s, doc, i, less, p)
    <3>1. less[1] = Len(s)
        BY <1>4, <1>5, <2>2
    <3>2. \A e \in 1..(m - 1) : p <= less[e] /\ LoopOf(s, doc, i, less[e])
        BY <1>4, <2>2, <2>4
    <3>3. \A e, f \in 1..(m - 1) : e <= f => less[f] <= less[e]
        BY <1>4, <2>2, <2>4
    <3>4. QED
        BY <1>4, <3>1, <3>2, <3>3 DEF LoopsAround
  <2>6. SampledSoFar(r, s, doc, i)
    <3>1. SampledSoFar(ctx, s, doc, i)
        BY DEF Before
    <3>2. QED
        BY <2>1, <3>1 DEF SampledSoFar
  <2>7. Before(r, s, doc, i)
    <3>1. p = Place(s, doc, i)
        BY DEF Before
    <3>2. QED
        BY <1>5, <2>1, <2>5, <2>6, <3>1 DEF Before
  <2>8. QED
      BY <2>1, <2>3, <2>7 DEF r
<1>9. QED
    BY <1>7, <1>8

\* A pass of the parser.
LEMMA ParseOnTrack ==
    ASSUME NEW s \in Seq(Nat), NEW doc, IsDer(s, doc), Supported(s, doc),
           NEW ctx, ParserOK(ctx, s), OnTrack(ctx, s, doc)
    PROVE  LET r == Parse(ctx, s, LT_OBJ_ID_CURVEX25519, TR01_STPUB_LEN) IN
           \/ r.ret = "LT_OK" /\ r.ends # <<>> /\ OnTrack(r, s, doc)
           \/ r.ret = "LT_OK" /\ r.ends = <<>> /\ Find(s, doc) = [ret |-> "LT_OK", key |-> r.sbuf]
           \/ r.ret # "LT_OK" /\ r.ret = Find(s, doc).ret
<1> DEFINE r == Parse(ctx, s, LT_OBJ_ID_CURVEX25519, TR01_STPUB_LEN)
<1>1. PICK i \in 1..(Len(doc) + 1) : Before(ctx, s, doc, i)
    BY DEF OnTrack
<1>2. /\ ctx.past \in Nat /\ End(ctx) \in Nat /\ Len(doc) \in Nat
      /\ ctx.past < End(ctx) => i \in 1..Len(doc)
  <2>1. Len(doc) \in Nat
      BY LenProperties DEF IsDer
  <2>2. QED
      BY <1>1, <2>1, ObjectAhead DEF ParserOK, Parsers
<1>3. CASE ctx.past < End(ctx) - 1
  <2>1. r = ParseObject(ctx, s, LT_OBJ_ID_CURVEX25519, TR01_STPUB_LEN)
      BY <1>3 DEF Parse
  <2>2. ctx.past < End(ctx)
    <3> DEFINE p == ctx.past
               e == End(ctx)
    <3>1. p \in Nat /\ e \in Nat /\ p < e - 1
        BY <1>2, <1>3
    <3> HIDE DEF p, e
    <3>2. p < e
        BY <3>1
    <3>3. QED
        BY <3>2 DEF p, e
  <2>3. i \in 1..Len(doc)
      BY <1>2, <2>2
  <2> HIDE DEF r
  <2>4. \/ r.ret = "LT_CERT_UNSUPPORTED" /\ ObjectLen(doc[i]) = 127
        \/ r.ret = "LT_OK" /\ r.ends # <<>> /\ Before(r, s, doc, i + 1)
      BY <1>1, <2>1, <2>2, <2>3, ObjectOnTrack
  <2>5. ObjectLen(doc[i]) = 127 => Find(s, doc).ret = "LT_CERT_UNSUPPORTED"
      BY <2>3 DEF Find, HasLength
  <2>6. i + 1 \in 1..(Len(doc) + 1)
      BY <1>2, <2>3
  <2>7. Before(r, s, doc, i + 1) => OnTrack(r, s, doc)
      BY <2>6 DEF OnTrack
  <2>8. QED
      BY <2>4, <2>5, <2>7 DEF r
<1>4. CASE ~(ctx.past < End(ctx) - 1)
  <2>1. r = LoopEnd(ctx)
      BY <1>4 DEF Parse
  <2> HIDE DEF r
  <2>2. \/ r.ret = "LT_OK" /\ r.ends # <<>> /\ Before(r, s, doc, i)
        \/ r.ret = "LT_OK" /\ r.ends = <<>> /\ Find(s, doc) = [ret |-> "LT_OK", key |-> r.sbuf]
        \/ /\ r.ret = "LT_CERT_ITEM_NOT_FOUND"
           /\ Find(s, doc) = [ret |-> "LT_CERT_ITEM_NOT_FOUND", key |-> <<>>]
      BY <1>1, <1>4, <2>1, LoopEndOnTrack
  <2>3. Before(r, s, doc, i) => OnTrack(r, s, doc)
      BY <1>1 DEF OnTrack
  <2>4. QED
      BY <2>2, <2>3 DEF r
<1>5. QED
    BY <1>3, <1>4

-----------------------------------------------------------------------------
(* What the call makes of the device's certificate, for every document.    *)

\* The parser goes through the objects of doc, and the call ends as they let expect.
Follows(doc) ==
    /\ cert_pc = "parsing" => OnTrack(parser, store.certs[1], doc)
    /\ cert_pc \in {"session", "failed"} => EndsAs(doc)

\* The certificate in the chip is the encoding of doc.
CertificateOf(doc) == IsDer(store.certs[1], doc) /\ Supported(store.certs[1], doc)

DocumentInv ==
    /\ cert_pc # "returned" => store \in Stores
    /\ \A doc : CertificateOf(doc) => Follows(doc)

LEMMA DocumentInvInit == VerifiedInit => DocumentInv
BY DEF VerifiedInit, CertInit, DocumentInv, Follows

\* When the call fails before the first block, nothing of the certificate is there.
LEMMA FailsUnread ==
    ASSUME NEW doc, cert_pc' = "failed", certs'[1] = <<>>
    PROVE  Follows(doc)'
<1>1. Len(certs'[1]) = 0
    OBVIOUS
<1>2. QED
    BY <1>1 DEF Follows, EndsAs

LEMMA FailsBelow ==
    ASSUME NEW doc, cert_pc' = "failed", cert_ret' = "LT_L1_L2_ERROR"
    PROVE  Follows(doc)'
BY DEF Follows, EndsAs

\* The first object begins the certificate.
LEMMA ParserBegins ==
    ASSUME NEW s \in Seq(Nat), NEW doc, IsDer(s, doc)
    PROVE  OnTrack(Ctx(Len(s)), s, doc)
<1> DEFINE ctx == Ctx(Len(s))
           n == Len(s)
<1>1. n \in Nat /\ Len(doc) \in Nat /\ doc # <<>>
      /\ doc \in Seq([tag : Nat, at : Nat, body : Nat, end : Nat]) /\ doc[1].at = 0
    BY LenProperties DEF IsDer
<1>2. Len(doc) >= 1 /\ 1 \in 1..(Len(doc) + 1)
  <2>1. Len(doc) # 0
      BY <1>1, EmptySeq
  <2>2. QED
      BY <1>1, <2>1
<1>3. /\ ctx.past = 0 /\ ctx.ends = <<n>> /\ ctx.sample_next = FALSE /\ ctx.found = FALSE
    BY DEF Ctx
<1> HIDE DEF ctx, n
<1>4. \A k : k \notin 1..(1 - 1)
    OBVIOUS
<1>5. Place(s, doc, 1) = 0
    BY <1>1, <1>2 DEF Place
<1>6. LoopsAround(s, doc, 1, ctx.ends, 0)
  <2>1. Len(ctx.ends) = 1 /\ ctx.ends[1] = n /\ \A e \in 1..1 : e = 1
      BY <1>3
  <2>2. 0 <= n /\ n <= n /\ LoopOf(s, doc, 1, n)
      BY <1>1 DEF LoopOf, n
  <2>3. QED
      BY <2>1, <2>2 DEF LoopsAround, n
<1>7. SampledSoFar(ctx, s, doc, 1)
  <2>1. \A k \in KeyPlaces(s, doc) : 1 <= k
      BY <1>1 DEF KeyPlaces
  <2>2. QED
      BY <1>3, <1>4, <2>1 DEF SampledSoFar
<1>8. Before(ctx, s, doc, 1)
    BY <1>3, <1>4, <1>5, <1>6, <1>7 DEF Before
<1>9. QED
    BY <1>2, <1>8 DEF OnTrack, ctx, n

\* A step of the call.
LEMMA CertStepFollows ==
    ASSUME CertInv, DocumentInv, CertNext, NEW doc, CertificateOf(doc)
    PROVE  Follows(doc)'
<1>1. store' = store
    BY DEF CertNext, GetInfoChipId, GetInfoRiscvFwVer, GetInfoSpectFwVer, Calloc, GetTr01Mode,
           CertTransferFails, CertGoes, CertFails, GetBlock, GetStPub, FindStPub
<1>2. CASE GetInfoChipId \/ GetInfoRiscvFwVer \/ GetInfoSpectFwVer \/ Calloc \/ GetTr01Mode
  <2>1. /\ cert_pc \in Reading /\ certs' = certs
        /\ cert_pc' \in {"riscv_fw_ver", "spect_fw_ver", "calloc", "mode", "blocks", "failed"}
      BY <1>2 DEF GetInfoChipId, GetInfoRiscvFwVer, GetInfoSpectFwVer, Calloc, GetTr01Mode,
                  CertGoes, CertFails, Reading
  <2>2. certs'[1] = <<>>
      BY <2>1 DEF CertInv, BeforeBlocks, Empty, LT_NUM_CERTIFICATES
  <2>3. CASE cert_pc' = "failed"
      BY <2>2, <2>3, FailsUnread
  <2>4. CASE cert_pc' # "failed"
      BY <2>1, <2>4 DEF Follows
  <2>5. QED
      BY <2>3, <2>4
<1>3. CASE CertTransferFails
    BY <1>3, FailsBelow DEF CertTransferFails, CertFails
<1>4. CASE GetBlock
  <2>1. \/ block = 0 /\ cert_pc = "blocks" /\ cert_pc' = "failed" /\ certs' = certs
        \/ cert_pc' \in {"parse", "blocks"}
      BY <1>4 DEF GetBlock, CertFails
  <2>2. CASE block = 0 /\ cert_pc = "blocks" /\ cert_pc' = "failed" /\ certs' = certs
    <3>1. /\ store \in Stores /\ curr_cert \in 1..4 /\ Start(store, curr_cert) <= Pos(0)
          /\ certs = CopiedSoFar(store, curr_cert, Pos(0))
        BY <2>2 DEF CertInv, BlocksCopied
    <3>2. certs = Empty
        BY <3>1, NothingCopied
    <3>3. certs'[1] = <<>>
        BY <2>2, <3>2 DEF Empty, LT_NUM_CERTIFICATES
    <3>4. QED
        BY <2>2, <3>3, FailsUnread
  <2>3. CASE cert_pc' \in {"parse", "blocks"}
      BY <2>3 DEF Follows
  <2>4. QED
      BY <2>1, <2>2, <2>3
<1>5. CASE GetStPub
  <2>1. /\ cert_pc = "parse" /\ cert_pc' = "parsing" /\ parser' = Ctx(cert_len[1])
      BY <1>5 DEF GetStPub
  <2>2. store \in Stores /\ cert_len[1] = Len(store.certs[1])
      BY <2>1 DEF CertInv, AllCopied, Lengths
  <2>3. store.certs[1] \in Seq(Nat)
      BY <2>2, StoreFacts
  <2>4. OnTrack(parser', store.certs[1], doc)
      BY <2>1, <2>2, <2>3, ParserBegins DEF CertificateOf
  <2>5. QED
      BY <1>1, <2>1, <2>4 DEF Follows
<1>6. CASE FindStPub
  <2> DEFINE s == store.certs[1]
  <2>1. /\ cert_pc = "parsing" /\ certs' = certs /\ cert_ret' = parser'.ret
        /\ \/ parser'.ret # "LT_OK" /\ cert_pc' = "failed"
           \/ parser'.ret = "LT_OK" /\ parser'.ends = <<>> /\ cert_pc' = "session"
                                    /\ stpub' = parser'.sbuf
           \/ parser'.ret = "LT_OK" /\ parser'.ends # <<>> /\ cert_pc' = cert_pc
      BY <1>6 DEF FindStPub
  <2>2. /\ s \in Seq(Nat) /\ Len(s) > 0 /\ ParserOK(parser, s) /\ certs[1] = s
        /\ parser' = Parse(parser, s, LT_OBJ_ID_CURVEX25519, TR01_STPUB_LEN)
      BY <1>6, FindStPubParses
  <2>3. /\ IsDer(s, doc) /\ Supported(s, doc) /\ OnTrack(parser, s, doc)
      BY <2>1 DEF CertificateOf, DocumentInv, Follows
  <2>4. s' = s /\ store' = store
      BY <1>1
  <2> HIDE DEF s
  <2>5. \/ parser'.ret = "LT_OK" /\ parser'.ends # <<>> /\ OnTrack(parser', s, doc)
        \/ parser'.ret = "LT_OK" /\ parser'.ends = <<>>
              /\ Find(s, doc) = [ret |-> "LT_OK", key |-> parser'.sbuf]
        \/ parser'.ret # "LT_OK" /\ parser'.ret = Find(s, doc).ret
      BY <2>2, <2>3, ParseOnTrack
  <2>6. CASE parser'.ret = "LT_OK" /\ parser'.ends # <<>> /\ OnTrack(parser', s, doc)
      BY <2>1, <2>4, <2>6 DEF Follows, s
  <2>7. CASE parser'.ret = "LT_OK" /\ parser'.ends = <<>>
              /\ Find(s, doc) = [ret |-> "LT_OK", key |-> parser'.sbuf]
    <3>1. cert_pc' = "session" /\ stpub' = parser'.sbuf
        BY <2>1, <2>7
    <3>2. Find(s, doc).ret = "LT_OK" /\ Find(s, doc).key = stpub'
        BY <2>7, <3>1
    <3>3. EndsAs(doc)'
        BY <2>4, <3>1, <3>2 DEF EndsAs, s
    <3>4. QED
        BY <3>1, <3>3 DEF Follows
  <2>8. CASE parser'.ret # "LT_OK" /\ parser'.ret = Find(s, doc).ret
    <3>1. cert_pc' = "failed" /\ cert_ret' = Find(s, doc).ret
        BY <2>1, <2>8
    <3>2. EndsAs(doc)'
        BY <2>4, <3>1 DEF EndsAs, s
    <3>3. QED
        BY <3>1, <3>2 DEF Follows
  <2>9. QED
      BY <2>5, <2>6, <2>7, <2>8
<1>7. QED
    BY <1>2, <1>3, <1>4, <1>5, <1>6 DEF CertNext

LEMMA DocumentInvStep ==
    ASSUME CertInv, DocumentInv, [VerifiedNext]_verifiedVars
    PROVE  DocumentInv'
<1>1. CASE UNCHANGED certVars
    BY <1>1 DEF certVars, DocumentInv, CertificateOf, Follows, EndsAs
<1>2. CASE CertReturned
    BY <1>2 DEF CertReturned, DocumentInv, Follows
<1>3. CASE CertNext
  <2>1. store' = store /\ cert_pc # "returned"
      BY <1>3 DEF CertNext, GetInfoChipId, GetInfoRiscvFwVer, GetInfoSpectFwVer, Calloc,
                  GetTr01Mode, CertTransferFails, CertGoes, CertFails, GetBlock, GetStPub,
                  FindStPub
  <2>2. store' \in Stores
      BY <2>1 DEF DocumentInv
  <2>3. ASSUME NEW doc, CertificateOf(doc)'
        PROVE  Follows(doc)'
    <3>1. CertificateOf(doc)
        BY <2>1, <2>3 DEF CertificateOf
    <3>2. QED
        BY <1>3, <3>1, CertStepFollows
  <2>4. QED
      BY <2>2, <2>3 DEF DocumentInv
<1>4. QED
    BY <1>1, <1>2, <1>3 DEF VerifiedNext, StartSession, GiveUp, verifiedVars

LEMMA DocumentInvHolds == VerifiedSpec => []DocumentInv
<1>1. VerifiedInit => DocumentInv
    BY DocumentInvInit
<1>2. CertInv /\ DocumentInv /\ [VerifiedNext]_verifiedVars => DocumentInv'
    BY DocumentInvStep
<1>3. QED
    BY <1>1, <1>2, CertInvHolds, PTL DEF VerifiedSpec

\* The session starts with the key of every document that the device's certificate is
\* the encoding of, and when it does not start the error is the document's.
FoundAsEncoded ==
    cert_pc \in {"session", "failed"} =>
        \A doc : CertificateOf(doc) => EndsAs(doc)

\* For every certificate, whatever its objects are, how they are nested, and how long
\* they are: the one pass of asn1der_find_object, with its lengths and its marks, finds
\* what the objects say, their first key behind an identifier X25519, and fails where
\* there is none or where an object is 127 bytes long.
THEOREM FoundAsEncodedHolds == VerifiedSpec => []FoundAsEncoded
<1>1. DocumentInv => FoundAsEncoded
    BY DEF DocumentInv, FoundAsEncoded, Follows
<1>2. QED
    BY <1>1, DocumentInvHolds, PTL

\* The session starts with the key of the device's certificate, of every store whose
\* certificate is the encoding of a document.
THEOREM KeyIsDevicesHolds == VerifiedSpec => []KeyIsDevices
<1>1. DocumentInv => KeyIsDevices
  <2>1. SUFFICES ASSUME DocumentInv, cert_pc \in {"session", "failed"}
                 PROVE  EndsAs(store.device)
      BY DEF KeyIsDevices
  <2>2. store \in Stores
      BY <2>1 DEF DocumentInv
  <2>3. CertificateOf(store.device)
      BY <2>2, DeviceAssumption DEF CertificateOf
  <2>4. QED
      BY <2>1, <2>3 DEF DocumentInv, Follows
<1>2. QED
    BY <1>1, DocumentInvHolds, PTL

-----------------------------------------------------------------------------
(* The sessions behind the verified chip.                                  *)

\* Until the call returns nothing has been sent in the secure channel, and the only
\* handshake it can begin is with the key it has found.
ChannelUntouched == cert_pc # "returned" => L3Init

FirstHandshakeVerified ==
    cert_pc # "returned" /\ handshakes' # handshakes =>
        cert_pc = "session" /\ SampledFrom(store.certs[1], stpub)

LEMMA VerifiedStepRefines == [VerifiedNext]_verifiedVars => [L3Next]_l3vars
BY DEF VerifiedNext, verifiedVars, StartSession, GiveUp, L3Next

\* lt_verify_chip_and_start_secure_session adds nothing to the channel but a
\* SessionStart: what is proved of L3Calls holds from the first contact on.
THEOREM VerifiedImplementation == VerifiedSpec => L3Spec
<1>1. VerifiedInit => L3Init
    BY DEF VerifiedInit
<1>2. QED
    BY <1>1, VerifiedStepRefines, PTL DEF VerifiedSpec, L3Spec

\* No session before the chip is verified, and the first one with the key found.
THEOREM FirstSessionVerified ==
    VerifiedSpec => []ChannelUntouched /\ [][FirstHandshakeVerified]_verifiedVars
<1>1. VerifiedInit => ChannelUntouched
    BY DEF VerifiedInit, ChannelUntouched
<1>2. ASSUME ChannelUntouched, [VerifiedNext]_verifiedVars
      PROVE  ChannelUntouched'
  <2>1. CASE UNCHANGED l3vars /\ (cert_pc = "returned" => cert_pc' = "returned")
    <3>1. L3Init => L3Init'
        BY <2>1 DEF l3vars, vars, callVars, hostVars, sessionVars, chipVars, L3Init, Init
    <3>2. QED
        BY <1>2, <2>1, <3>1 DEF ChannelUntouched
  <2>2. CASE cert_pc' = "returned"
      BY <2>2 DEF ChannelUntouched
  <2>3. CASE CertNext /\ UNCHANGED l3vars
    <3>1. cert_pc # "returned"
        BY <2>3 DEF CertNext, GetInfoChipId, GetInfoRiscvFwVer, GetInfoSpectFwVer, Calloc,
                    GetTr01Mode, CertTransferFails, GetBlock, GetStPub, FindStPub, CertGoes
    <3>2. QED
        BY <2>1, <2>3, <3>1
  <2>4. QED
      BY <1>2, <2>1, <2>2, <2>3 DEF VerifiedNext, StartSession, GiveUp, CertReturned,
                                    verifiedVars, certVars
<1>3. CertInv /\ [VerifiedNext]_verifiedVars => [FirstHandshakeVerified]_verifiedVars
  <2>1. SUFFICES ASSUME CertInv, VerifiedNext, cert_pc # "returned", handshakes' # handshakes
                 PROVE  cert_pc = "session" /\ SampledFrom(store.certs[1], stpub)
      BY DEF FirstHandshakeVerified
  <2>2. ~UNCHANGED l3vars
      BY <2>1 DEF l3vars, vars, sessionVars, hostVars
  <2>3. cert_pc = "session"
      BY <2>1, <2>2 DEF VerifiedNext, StartSession, GiveUp
  <2>4. QED
      BY <2>1, <2>3 DEF CertInv, KeyIdentified
<1>4. QED
    BY <1>1, <1>2, <1>3, CertInvHolds, PTL DEF VerifiedSpec

\* The channel's safety from the first contact with the chip on: no key and nonce
\* are used twice, no Command is left out or executed late, LT_NONCE_OVERFLOW means
\* never sent, and LT_OK hands out the Result and nothing else.
THEOREM VerifiedSafety ==
    VerifiedSpec => [](/\ TypeOK /\ IInv /\ NonceUnique /\ InStep /\ ExecutedInOrder
                       /\ OverflowNotSent /\ OutputIsResult /\ ChecksAgree)
BY VerifiedImplementation, L3Implementation, InductiveInvariant, TypeCorrect,
   NonceUniqueHolds, InStepHolds, ExecutedInOrderHolds, OverflowNotSentHolds,
   OutputIsResultHolds, ChecksAgreeHolds, PTL

\* Every command after the first contact is an at-most-once call.
THEOREM VerifiedAtMostOnce == VerifiedSpec => ImplementsRpc
BY VerifiedImplementation, L3Implementation, Implementation, PTL

\* And that a session out of step is of no more use.
THEOREM VerifiedNoRecovery == VerifiedSpec => NoRecovery
BY VerifiedImplementation, L3Implementation, NoRecoveryHolds, PTL
=============================================================================
