------------------------------ MODULE FrameParser ------------------------------
(***************************************************************************)
(* The websocket frame format: FrameBuilder, and FrameParser fed with a    *)
(* stream of frames that arrives in reads of any size.  Bytes are numbers  *)
(* below 256 and have their real layout and widths.                        *)
(***************************************************************************)
EXTENDS Naturals, Sequences

CONSTANTS
    FrameStreams,   \* the sequences of frames that are sent
    Throws,         \* opcodes on which the callback throws
    LengthCap,      \* bound, above all payloads: lengths are cut off here (see decode)
    XOR(_, _)       \* of two bytes

\* Frames.  Peers use a longer form than they must only if there is a payload.
Byte == 0..255
FrameType == [opcode : 0..15, fin : BOOLEAN, mask : BOOLEAN, form : {7, 16, 64}, built : BOOLEAN,
              payload : Seq(Byte)]

CanBeSent(f) ==
    /\ Len(f.payload) < LengthCap
    /\ \/ f.built
       \/ f.form = 7 /\ Len(f.payload) <= 125
       \/ f.form # 7 /\ f.payload # <<>>

ASSUME FrameStreamsAssumption ==
    \A s \in FrameStreams : s \in Seq(FrameType) /\ \A i \in DOMAIN s : CanBeSent(s[i])

\* Frames of 64 KB and more are left out.
ASSUME LengthCapAssumption == LengthCap \in 1..65536

\* Masking is undone by masking.
MaskingKey == <<17, 34, 68, 136>>

ASSUME XorAssumption ==
    \A x \in Byte, i \in 1..4 : /\ XOR(x, MaskingKey[i]) \in Byte
                               /\ XOR(XOR(x, MaskingKey[i]), MaskingKey[i]) = x

VARIABLES
    frames,     \* the frames of the stream
    pos,        \* bytes of it that have been read ...
    parsed,     \* ... and those of them that have been parsed
    p,          \* the parser
    out,        \* calls of _msb_cb: payload, opcode, fin
    refused,    \* Parse has returned false; nothing is read after that
    spoilt      \* history: the stream was cut where the parser cannot cope

frameVars == <<frames, pos, parsed, p, out, refused, spoilt>>

-------------------------------------------------------------------------------
(* FrameBuilder, and the frames of a peer *)

Masked(payload) == [i \in DOMAIN payload |-> XOR(payload[i], MaskingKey[((i - 1) % 4) + 1])]

\* The length byte and the extended length; 2^16 and more is left to peers.
LengthBytes(mask, form, len) ==
    CASE form = 7  -> <<mask + len>>
      [] form = 16 -> <<mask + 126, len \div 256, len % 256>>
      [] form = 64 -> <<mask + 127, 0, 0, 0, 0, 0, 0, len \div 256, len % 256>>

\* FrameBuilder::Build: a frame without payload is not masked.
Build(f) ==
    LET len  == Len(f.payload)
        mask == IF len > 0 /\ f.mask THEN 128 ELSE 0
        form == IF len <= 125 THEN 7 ELSE 16
    IN  <<(IF f.fin THEN 128 ELSE 0) + f.opcode>>
        \o LengthBytes(mask, form, len)
        \o (IF mask > 0 THEN MaskingKey \o Masked(f.payload) ELSE f.payload)

\* A peer masks empty frames as well and may use a longer form than it must.
PeerFrame(f) ==
    <<(IF f.fin THEN 128 ELSE 0) + f.opcode>>
    \o LengthBytes(IF f.mask THEN 128 ELSE 0, f.form, Len(f.payload))
    \o (IF f.mask THEN MaskingKey \o Masked(f.payload) ELSE f.payload)

Encoded(f) == IF f.built THEN Build(f) ELSE PeerFrame(f)

\* The bytes of the first frames.
Bytes == LET upto[i \in 0..Len(frames)] ==
                 IF i = 0 THEN <<>> ELSE upto[i - 1] \o Encoded(frames[i])
         IN  upto

Stream == Bytes[Len(frames)]

-------------------------------------------------------------------------------
(* FrameParser.  An operator takes the parser and the bytes at hand and gives *)
(* the parser afterwards, the bytes used and the calls of _msb_cb.            *)

reset_parser == [step |-> "fixed_header", len_offset |-> 0, key_pos |-> 0, payload |-> <<>>,
          fin |-> FALSE, opcode |-> 0, mask |-> FALSE, code |-> 0,
          ext |-> <<0, 0, 0, 0, 0, 0, 0, 0>>, key |-> <<0, 0, 0, 0>>, len |-> 0]

\* memcpy to the beginning of a field.
memcpy(field, bytes) ==
    [i \in DOMAIN field |-> IF i \in DOMAIN bytes THEN bytes[i] ELSE field[i]]

Min2(a, b) == IF a < b THEN a ELSE b

parse_fixed_header(q, data) ==
    [p |-> [reset_parser EXCEPT !.step = "payload_len", !.key_pos = q.key_pos, !.payload = q.payload,
                         !.fin = (data[1] \div 16 # 0), !.opcode = data[1] % 16],
     used |-> 1, calls |-> <<>>]

AfterLength(q) == IF q.mask THEN "masking_key" ELSE "payload_data"

\* An empty frame is reported at once, even when a masking key is to follow.
parse_payload_len(q, data) ==
    LET n == data[1] % 128
        r == [q EXCEPT !.mask = data[1] >= 128, !.code = n, !.len = IF n <= 125 THEN n ELSE 0]
    IN  IF n = 0
        THEN [p |-> reset_parser, used |-> 1,
              calls |-> <<[payload |-> <<>>, opcode |-> q.opcode, fin |-> q.fin]>>]
        ELSE [p |-> [r EXCEPT !.step = IF n <= 125 THEN AfterLength(r) ELSE "extened_payload_len"],
              used |-> 1, calls |-> <<>>]

\* decode_extened_payload_len: big endian.
decode(bytes) ==
    LET n == Len(bytes)
    IN  IF \E i \in 1..(n - 2) : bytes[i] # 0 THEN LengthCap
        ELSE Min2(bytes[n - 1] * 256 + bytes[n], LengthCap)

\* The bytes at hand are copied to the beginning of the field, wherever the last
\* read ended.
parse_extened_payload_len(q, data) ==
    LET size == IF q.code = 126 THEN 2 ELSE 8
        n    == Min2(size - q.len_offset, Len(data))
        r    == [q EXCEPT !.ext = memcpy(@, SubSeq(data, 1, n)), !.len_offset = @ + n]
    IN  [p |-> IF r.len_offset = size
               THEN [r EXCEPT !.len = decode(SubSeq(r.ext, 1, size)), !.step = AfterLength(r)]
               ELSE r,
         used |-> n, calls |-> <<>>]

parse_masking_key(q, data) ==
    LET n == Min2(4 - q.key_pos, Len(data))
        r == [q EXCEPT !.key = memcpy(@, SubSeq(data, 1, n)), !.key_pos = @ + n]
    IN  [p |-> IF r.key_pos = 4 THEN [r EXCEPT !.step = "payload_data"] ELSE r,
         used |-> n, calls |-> <<>>]

\* Mutant: the payload is taken to end with the read.
parse_payload_whole(q, data) ==
    LET n    == Len(data)
        part == [i \in 1..n |-> IF q.mask THEN XOR(data[i], q.key[((i - 1) % 4) + 1]) ELSE data[i]]
        r    == [q EXCEPT !.payload = @ \o part]
    IN  IF Len(r.payload) >= r.len
        THEN [p |-> reset_parser, used |-> n,
              calls |-> <<[payload |-> r.payload, opcode |-> r.opcode, fin |-> r.fin]>>]
        ELSE [p |-> r, used |-> n, calls |-> <<>>]

\* The key starts anew with every read.
parse_payload(q, data) ==
    LET n    == Min2(q.len - Len(q.payload), Len(data))
        part == [i \in 1..n |-> IF q.mask THEN XOR(data[i], q.key[((i - 1) % 4) + 1]) ELSE data[i]]
        r    == [q EXCEPT !.payload = @ \o part]
    IN  IF Len(r.payload) = r.len
        THEN [p |-> reset_parser, used |-> n,
              calls |-> <<[payload |-> r.payload, opcode |-> r.opcode, fin |-> r.fin]>>]
        ELSE [p |-> r, used |-> n, calls |-> <<>>]

Step(q, data) ==
    CASE q.step = "fixed_header"        -> parse_fixed_header(q, data)
      [] q.step = "payload_len"         -> parse_payload_len(q, data)
      [] q.step = "extened_payload_len" -> parse_extened_payload_len(q, data)
      [] q.step = "masking_key"         -> parse_masking_key(q, data)
      [] q.step = "payload_data"        -> parse_payload(q, data)

-------------------------------------------------------------------------------
(* Where the stream may be cut *)

HeaderLen(f) == Len(Encoded(f)) - Len(f.payload)
IsMasked(f) == f.mask /\ ~(f.built /\ f.payload = <<>>)
KeyStart(f) == IF IsMasked(f) THEN HeaderLen(f) - 4 ELSE HeaderLen(f)

\* The parser cannot cope with a cut behind the first o bytes of f that falls
\* into the extended length or the masking key, or into a masked payload at an
\* offset that is not a multiple of 4; and never with an empty masked frame.
BadCut(f, o) == \/ o > 2 /\ o < KeyStart(f)
                \/ o > KeyStart(f) /\ o < HeaderLen(f)
                \/ o > HeaderLen(f) /\ IsMasked(f) /\ (o - HeaderLen(f)) % 4 # 0

End(i) == Len(Bytes[i])

SpoiledBy(n) == \E i \in DOMAIN frames :
    LET o == n - End(i - 1)
    IN  \/ o > 0 /\ n < End(i) /\ BadCut(frames[i], o)
        \/ o >= 2 /\ IsMasked(frames[i]) /\ frames[i].payload = <<>>

-------------------------------------------------------------------------------
FrameInit ==
    /\ frames \in FrameStreams
    /\ pos = 0 /\ parsed = 0
    /\ p = reset_parser
    /\ out = <<>>
    /\ refused = FALSE
    /\ spoilt = FALSE

\* A read of k bytes.  A stream is not followed behind a cut that spoils it.
Read(k) ==
    /\ ~refused /\ ~spoilt /\ parsed = pos
    /\ pos' = pos + k
    /\ spoilt' = SpoiledBy(pos + k)
    /\ UNCHANGED <<frames, parsed, p, out, refused>>

\* A turn of the loop of FrameParser::Parse, which ends with the read or with an
\* exception of the callback; the rest of the read is then lost, and the parser
\* is not used again.
Parse ==
    LET r == Step(p, SubSeq(Stream, parsed + 1, pos))
    IN  /\ ~refused /\ parsed < pos
        /\ p' = r.p
        /\ parsed' = parsed + r.used
        /\ out' = out \o r.calls
        /\ refused' = \E i \in DOMAIN r.calls : r.calls[i].opcode \in Throws
        /\ UNCHANGED <<frames, pos, spoilt>>

FrameNext == \/ \E k \in 1..(Len(Stream) - pos) : Read(k)
             \/ Parse

FrameSpec == FrameInit /\ [][FrameNext]_frameVars

-------------------------------------------------------------------------------
(* Properties *)

\* The frames that are to be reported: all that have arrived, up to the first one
\* whose callback throws.
Expected ==
    [i \in {j \in DOMAIN frames : /\ End(j) <= pos
                                 /\ \A k \in 1..(j - 1) : frames[k].opcode \notin Throws}
        |-> [payload |-> frames[i].payload, opcode |-> frames[i].opcode, fin |-> frames[i].fin]]

\* However the stream is cut into reads, the callback is called once for every
\* frame that has arrived, in order, with the payload, opcode and fin that were
\* sent; except after a cut that the parser cannot cope with.  When a callback
\* throws, that is the last one.
FramesAsSent == ~spoilt /\ (parsed = pos \/ refused) => out = Expected
================================================================================
