--------------------------- MODULE MCSecureChannel ---------------------------
(***************************************************************************)
(* VerifiedSession with a nonce that overflows after a few commands, a     *)
(* request at each bound of every command's arguments and just past it,    *)
(* and Results of the sizes around those that the layouts allow.           *)
(*                                                                         *)
(* The certificate stores: device's certificates that end before, at and   *)
(* after the end of a block, or with objects around the lengths where DER  *)
(* changes form; the keys one may hold; the other certificates from the    *)
(* shortest to the longest; headers that are refused.                      *)
(***************************************************************************)
EXTENDS DerDocument, SequencesExt

\* A request with these values of the arguments that matter to its command.
Ask(cmd, slot, n) == [cmd |-> cmd, slot |-> slot, n |-> n, curve |-> P256, max |-> 64]

MCRequests ==
    {Ask(cmd, 3, 0) : cmd \in Commands \ {"r_config_write", "r_config_read"}}
    \cup {Ask("ping", 0, n) : n \in {4096, 4097}}
    \cup {Ask("pairing_key_write", 4, 0), Ask("ecc_key_erase", 32, 0),
          Ask("mcounter_update", 16, 0), Ask("mac_and_destroy", 128, 0)}
    \cup {Ask("r_config_write", 352, 0), Ask("r_config_read", 353, 0),
          Ask("i_config_write", 0, 31), Ask("i_config_write", 0, 32)}
    \cup {Ask("r_mem_data_write", 511, n) : n \in {475, 476}}
    \cup {Ask("r_mem_data_read", 512, 0), Ask("random_value_get", 0, 255)}
    \cup {Ask("ecc_ecdsa_sign", 31, 32)}
    \cup {Ask("ecc_eddsa_sign", 31, n) : n \in {4096, 4097}}
    \cup {Ask("mcounter_init", 15, TR01_MCOUNTER_VALUE_MAX + i) : i \in {0, 1}}
    \cup {[Ask("ecc_key_read", 31, 0) EXCEPT !.max = 32],
          [Ask("ecc_key_generate", 31, 0) EXCEPT !.curve = 3]}

MCResults ==
    {[result |-> "OK", size |-> n, curve |-> c] :
        n \in {1, 3, 4, 36, 48, 68, 69, 80, 259, 479, 480, 4097}, c \in {P256, ED25519, 3}}
    \cup {[result |-> "FAIL", size |-> 1, curve |-> P256]}

-----------------------------------------------------------------------------
(* Certificates as trees of objects, with their encoding and its document.  *)
(* Contents other than object identifiers have a number above 255 for each *)
(* byte, so that it shows where a copy comes from.                         *)

\* The k-th byte of content number id.
Content(id, n) == [k \in 1..n |-> 256 + 1000 * id + k]

Primitive(tag, n, id) == [tag |-> tag, bytes |-> Content(id, n), kids |-> <<>>]
Oid(bytes) == [tag |-> LT_ASN1DER_OBJECT_IDENTIFIER, bytes |-> bytes, kids |-> <<>>]
Sequence(kids) == [tag |-> LT_ASN1DER_SEQUENCE, bytes |-> <<>>, kids |-> kids]

RECURSIVE Der(_)
DerContent(object) ==
    object.bytes \o FlattenSeq([k \in DOMAIN object.kids |-> Der(object.kids[k])])
Der(object) ==
    LET content == DerContent(object) IN
    <<object.tag>> \o DerLength(Len(content)) \o content

\* The document of an object that stands behind at.
RECURSIVE Document(_, _)
Document(object, at) ==
    LET len == Len(DerContent(object))
        body == at + 1 + Len(DerLength(len))
        Before(k) == FlattenSeq([j \in 1..(k - 1) |-> Der(object.kids[j])]) IN
    <<[tag |-> object.tag, at |-> at, body |-> body, end |-> body + len]>>
      \o FlattenSeq([k \in DOMAIN object.kids |->
                        Document(object.kids[k], body + Len(Before(k)))])

ECDSA_SHA384 == Sequence(<<Oid(<<42, 134, 72, 206, 61, 4, 3, 3>>)>>)
Ed25519 == <<43, 101, 112>>

\* subjectPublicKeyInfo: a bit string of 33 bytes, number id.
KeyInfo(algorithm, id) ==
    Sequence(<<Sequence(<<Oid(algorithm)>>), Primitive(LT_ASN1DER_STRING_BIT, 33, id)>>)

\* A certificate; a SET (49) is the name and [0] (160), [3] (163) are the version
\* and the extensions.
Certificate(name, keys, extensions) ==
    Sequence(<<
        Sequence(<<
            Primitive(160, 3, 0),
            Primitive(LT_ASN1DER_INTEGER, 16, 0),
            ECDSA_SHA384,
            Sequence(<<Primitive(49, name, 0)>>),
            Sequence(<<Primitive(LT_ASN1DER_UTC_TIME, 13, 0),
                       Primitive(LT_ASN1DER_UTC_TIME, 13, 0)>>)>>
            \o keys \o <<Primitive(163, extensions, 0)>>),
        ECDSA_SHA384,
        Primitive(LT_ASN1DER_STRING_BIT, 104, 0)>>)

X25519Key == <<KeyInfo(X25519, 1)>>
Others(a, b, c) == <<Content(2, a), Content(3, b), Content(4, c)>>
Store(device, others) ==
    [version |-> 1, count |-> 4, certs |-> <<Der(device)>> \o others,
     device |-> Document(device, 0)]
Device == Certificate(60, X25519Key, 90)

MCStores ==
    {Store(Certificate(60, X25519Key, n), Others(374, 375, 400)) : n \in (71..73) \cup (125..129)}
    \cup {Store(Certificate(n, X25519Key, 90), Others(374, 375, 400)) :
              n \in {125, 127, 128, 252, 253, 255, 256}}
    \cup {Store(Certificate(60, keys, 90), Others(374, 375, 400)) :
              keys \in {<<>>, <<KeyInfo(Ed25519, 1)>>,
                        <<KeyInfo(Ed25519, 1), KeyInfo(X25519, 2)>>,
                        <<KeyInfo(X25519, 1), KeyInfo(X25519, 2)>>}}
    \cup {Store(Device, Others(a, b, c)) :
              a \in {129, 255, 256, 257, 700}, b \in {129, 256, 700}, c \in {129, 700}}
    \cup {Store(Device, Others(701, 374, 374)), Store(Device, Others(374, 374, 701)),
          [Store(Device, Others(374, 374, 374)) EXCEPT !.version = 2],
          [Store(Device, Others(374, 374, 374)) EXCEPT !.count = 3]}
=============================================================================
