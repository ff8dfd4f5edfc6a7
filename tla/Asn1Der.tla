------------------------------- MODULE Asn1Der -------------------------------
(***************************************************************************)
(* asn1der_find_object of lt_asn1_der.c, object by object.                 *)
(*                                                                         *)
(* A stream is a sequence of bytes: those of tags, lengths and object      *)
(* identifiers are 0 to 255; the other contents are only copied or         *)
(* skipped, and may be any numbers.                                        *)
(***************************************************************************)
EXTENDS Integers, Sequences

LT_ASN1DER_BOOLEAN == 1
LT_ASN1DER_INTEGER == 2
LT_ASN1DER_STRING_BIT == 3
LT_ASN1DER_OBJECT_IDENTIFIER == 6
LT_ASN1DER_UTC_TIME == 23
LT_ASN1DER_SEQUENCE == 48

\* The types parse_object can sample: those named above, and the octet, NULL,
\* UTF8 and PRINTABLE strings.
Sampled == {LT_ASN1DER_BOOLEAN, LT_ASN1DER_INTEGER, LT_ASN1DER_STRING_BIT, 4, 5,
            12, 19, LT_ASN1DER_UTC_TIME}

-----------------------------------------------------------------------------
\* struct parse_ctx_t of a stream of n bytes, with the result of the parser in ret.
\* head is the byte after past, sbuf is what has been copied to the caller, and
\* ends holds where the loops under way end: first that of asn1der_find_object,
\* then one for each call of parse_object that is in a SEQUENCE.
Ctx(n) == [past |-> 0, ends |-> <<n>>, sample_next |-> FALSE, found |-> FALSE,
           sbuf |-> <<>>, ret |-> "LT_OK"]

Error(ctx, ret) == [ctx EXCEPT !.ret = ret]

\* LT_ASN1_DER_DROP_BYTES and LT_ASN1_DER_GET_BYTES, whose copy the caller adds.
Consume(ctx, s, n) ==
    IF ctx.past + n > Len(s)
    THEN Error(ctx, "LT_CERT_STORE_INVALID")
    ELSE [ctx EXCEPT !.past = @ + n]

\* The value of the n bytes of s from past on, most significant first, for n <= 3.
Number(s, past, n) ==
    LET Byte(i) == IF i <= n THEN s[past + n - i + 1] ELSE 0 IN
    65536 * Byte(3) + 256 * Byte(2) + Byte(1)

\* parse_length: lengths below 127 are one byte.  (DER has 127 in one byte too.)
IsShort(b) == b < 127
n_bytes(b) == IF b < 128 THEN b + 128 ELSE b - 128

\* The tag and the length that parse_object begins with.
Header(ctx, s) ==
    LET first == Consume(ctx, s, 2)
        b == s[ctx.past + 2]
        long == Consume(first, s, n_bytes(b)) IN
    IF first.ret # "LT_OK" THEN [ctx |-> first, tag |-> 0, len |-> 0]
    ELSE IF IsShort(b) THEN [ctx |-> first, tag |-> s[ctx.past + 1], len |-> b]
    ELSE IF n_bytes(b) > 2
         THEN [ctx |-> Error(first, "LT_CERT_UNSUPPORTED"), tag |-> 0, len |-> 0]
    ELSE IF long.ret # "LT_OK" THEN [ctx |-> long, tag |-> 0, len |-> 0]
    ELSE [ctx |-> long, tag |-> s[ctx.past + 1], len |-> Number(s, first.past, n_bytes(b))]

\* A mutant of Sample: the suffix is cropped.
SampleCroppingSuffix(ctx, s, len, sbuf_len) ==
    LET n == IF len < sbuf_len THEN len ELSE sbuf_len
        after == Consume(ctx, s, len) IN
    IF after.ret # "LT_OK" THEN after
    ELSE [after EXCEPT !.sample_next = FALSE, !.found = TRUE,
                       !.sbuf = SubSeq(s, ctx.past + 1, ctx.past + n)]

\* The object's length in 8 bits; of one larger than the buffer the end is kept.
Sample(ctx, s, len, sbuf_len) ==
    LET sample_len == len % 256
        n == IF sample_len < sbuf_len THEN sample_len ELSE sbuf_len
        after == Consume(ctx, s, sample_len) IN
    IF after.ret # "LT_OK" THEN after
    ELSE [after EXCEPT !.sample_next = FALSE, !.found = TRUE,
                       !.sbuf = SubSeq(s, after.past - n + 1, after.past)]

\* An object identifier is compared by its first three bytes.  One shorter than
\* that is not even skipped.
Identifier(ctx, s, len, obj_id) ==
    LET after == Consume(ctx, s, len) IN
    IF len < 3 THEN ctx
    ELSE IF after.ret # "LT_OK" THEN after
    ELSE [after EXCEPT !.sample_next = @ \/ Number(s, ctx.past, 3) = obj_id]

\* parse_object up to the loop of a SEQUENCE, whole if it is none.
ParseObject(ctx0, s, obj_id, sbuf_len) ==
    LET h == Header(ctx0, s)
        ctx == h.ctx IN
    IF ctx.ret # "LT_OK" THEN ctx
    ELSE IF h.tag = LT_ASN1DER_SEQUENCE THEN [ctx EXCEPT !.ends = Append(@, ctx.past + h.len)]
    ELSE IF h.tag = LT_ASN1DER_OBJECT_IDENTIFIER THEN Identifier(ctx, s, h.len, obj_id)
    ELSE IF h.tag \in Sampled /\ ctx.sample_next /\ ~ctx.found
         THEN Sample(ctx, s, h.len, sbuf_len)
    ELSE Consume(ctx, s, h.len)

End(ctx) == ctx.ends[Len(ctx.ends)]

\* The innermost loop is over: a SEQUENCE must end there, the stream need not.
LoopEnd(ctx) ==
    IF Len(ctx.ends) > 1 /\ ctx.past # End(ctx) THEN Error(ctx, "LT_CERT_STORE_INVALID")
    ELSE IF Len(ctx.ends) = 1 /\ ~ctx.found THEN Error(ctx, "LT_CERT_ITEM_NOT_FOUND")
    ELSE [ctx EXCEPT !.ends = SubSeq(@, 1, Len(@) - 1)]

\* One pass of the innermost loop, or its end.  asn1der_find_object returns when
\* ret is an error, or no end is left.
Parse(ctx, s, obj_id, sbuf_len) ==
    IF ctx.past < End(ctx) - 1 THEN ParseObject(ctx, s, obj_id, sbuf_len) ELSE LoopEnd(ctx)
=============================================================================
