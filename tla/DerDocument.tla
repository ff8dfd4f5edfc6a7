----------------------------- MODULE DerDocument -----------------------------
(***************************************************************************)
(* What the parser of Asn1Der should find: the key in a certificate whose  *)
(* ASN.1 objects are known with their places in it.                        *)
(*                                                                         *)
(* A document is the objects in the order of their tags, those a SEQUENCE  *)
(* holds behind it.  An object's tag is the byte behind at, its contents   *)
(* are the bytes behind body up to end, and its length is what lies        *)
(* between the tag and the contents.                                       *)
(***************************************************************************)
EXTENDS VerifiedSession

X25519 == <<43, 101, 110>>

\* The definite lengths of DER: one byte up to 127, else their number first.
DerLength(n) ==
    IF n < 128 THEN <<n>>
    ELSE IF n < 256 THEN <<129, n>>
    ELSE <<130, HighByte(n), LowByte(n)>>

ObjectLen(o) == o.end - o.body

\* Where the next object begins.
Behind(o) == IF o.tag = LT_ASN1DER_SEQUENCE THEN o.body ELSE o.end

\* o stands in s, with the header that DER gives it.
Encoded(s, o) ==
    LET len == DerLength(ObjectLen(o)) IN
    /\ o.body = o.at + 1 + Len(len) /\ o.body <= o.end /\ o.end <= Len(s)
    /\ s[o.at + 1] = o.tag
    /\ \A k \in 1..Len(len) : s[o.at + 1 + k] = len[k]

\* s is the encoding of doc: object follows object, and none that begins within
\* another ends behind it.
IsDer(s, doc) ==
    /\ doc \in Seq([tag : Nat, at : Nat, body : Nat, end : Nat])
    /\ doc # <<>>
    /\ \A k \in 1..Len(doc) : Encoded(s, doc[k])
    /\ doc[1].at = 0
    /\ \A k \in 1..(Len(doc) - 1) : doc[k + 1].at = Behind(doc[k])
    /\ Behind(doc[Len(doc)]) = Len(s)
    /\ \A j, k \in 1..Len(doc) :
          j < k /\ doc[k].at < doc[j].end => doc[k].end <= doc[j].end

IsIdentifier(s, o) ==
    /\ o.tag = LT_ASN1DER_OBJECT_IDENTIFIER /\ ObjectLen(o) >= 3
    /\ \A k \in 1..3 : s[o.body + k] = X25519[k]

\* The objects that could be the key: those of a type to be sampled, behind an identifier.
KeyPlaces(s, doc) ==
    {k \in 1..Len(doc) : doc[k].tag \in Sampled
                           /\ \E j \in 1..(k - 1) : IsIdentifier(s, doc[j])}

IsKey(s, doc, k) == k \in KeyPlaces(s, doc) /\ \A j \in KeyPlaces(s, doc) : k <= j

\* What the parser is not made for: it does not skip an identifier of one or two
\* bytes, and it takes the length of the key in 8 bits.
Supported(s, doc) ==
    \A k \in 1..Len(doc) :
        /\ doc[k].tag = LT_ASN1DER_OBJECT_IDENTIFIER =>
              /\ ObjectLen(doc[k]) \notin {1, 2}
              /\ \A b \in (doc[k].body + 1)..doc[k].end : s[b] < 256
        /\ IsKey(s, doc, k) => ObjectLen(doc[k]) < 256

\* The contents of o, or the end of them if they are longer than a key.
KeyBytes(s, o) ==
    SubSeq(s, IF ObjectLen(o) <= TR01_STPUB_LEN THEN o.body + 1
              ELSE o.end - TR01_STPUB_LEN + 1, o.end)

\* Some object is as long as the one length the parser takes amiss.
HasLength(doc, n) == \E k \in 1..Len(doc) : ObjectLen(doc[k]) = n

Find(s, doc) ==
    IF HasLength(doc, 127) THEN [ret |-> "LT_CERT_UNSUPPORTED", key |-> <<>>]
    ELSE IF KeyPlaces(s, doc) = {} THEN [ret |-> "LT_CERT_ITEM_NOT_FOUND", key |-> <<>>]
    ELSE [ret |-> "LT_OK",
          key |-> KeyBytes(s, doc[CHOOSE k \in KeyPlaces(s, doc) : IsKey(s, doc, k)])]

\* The device's certificate in a store is the encoding of this document.
ASSUME DeviceAssumption ==
    \A s \in Stores : IsDer(s.certs[1], s.device) /\ Supported(s.certs[1], s.device)

\* The call ends as the document doc of the device's certificate lets expect.
EndsAs(doc) ==
    LET expected == Find(store.certs[1], doc) IN
    /\ cert_pc = "session" => expected.ret = "LT_OK" /\ stpub = expected.key
    /\ cert_pc = "failed" /\ Len(certs[1]) > 0 => cert_ret \in {"LT_L1_L2_ERROR", expected.ret}

\* The session starts with the key of the device's certificate, and when it does
\* not start the error is the certificate's: the one-pass parser and its 8-bit
\* lengths agree with the objects that the encoding stands for.
KeyIsDevices == cert_pc \in {"session", "failed"} => EndsAs(store.device)
=============================================================================
