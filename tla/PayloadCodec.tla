---------------------------- MODULE PayloadCodec ----------------------------
(***************************************************************************)
(* EncodedPayload (crates/eigenda/src/eigenda_data.rs): the decoder of     *)
(* payload encoding version 0, against the encoder that its tests define.  *)
(*                                                                         *)
(* Byte strings are sequences of 0..255.  The size of a field element is a *)
(* parameter, 32 in the code: the header takes six bytes of the first one. *)
(* A result is [err |-> "none", payload |-> bytes] or [err |-> the error]. *)
(***************************************************************************)
EXTENDS Integers, Sequences, PowersOfTwo

CONSTANTS
    BytesPerElement,   \* BYTES_PER_FIELD_ELEMENT
    Inputs,            \* byte strings to decode
    RollupData,        \* byte strings to encode
    MaxExponent        \* bound: blobs have at most 2^MaxExponent elements

Byte == 0..255

\* n is less than 2^32: the header holds the length of the data as u32.
FitsU32(n) == n \div 65536 < 65536

ASSUME CodecAssumption ==
    /\ BytesPerElement \in Nat /\ BytesPerElement > 6
    /\ MaxExponent \in Nat
    /\ \A p \in Inputs :
         p \in Seq(Byte) /\ Len(p) <= TwoTo(MaxExponent)[MaxExponent] * BytesPerElement
    /\ \A data \in RollupData : data \in Seq(Byte) /\ FitsU32(Len(data))

PAYLOAD_ENCODING_VERSION_0 == 0
HeaderLen == BytesPerElement

Ok(payload) == [err |-> "none", payload |-> payload]
Err(error) == [err |-> error]

Zeros(n) == [i \in 1..n |-> 0]
AllZero(bytes) == \A i \in DOMAIN bytes : bytes[i] = 0

\* The bytes of element i, counted from 0.
Chunk(bytes, i) == SubSeq(bytes, i * BytesPerElement + 1, (i + 1) * BytesPerElement)

NumElements(bytes) == Len(bytes) \div BytesPerElement

-----------------------------------------------------------------------------
(***************************************************************************)
(* The decoder.                                                            *)
(***************************************************************************)

\* n shifted to the right by k, for every k up to width
ShiftRight(n, width) ==
    LET shifted[k \in 0..width] == IF k = 0 THEN n ELSE shifted[k - 1] \div 2
    IN  shifted

\* a & b is not zero, for numbers of at most so many bits.
CommonBit(a, b, width) ==
    \E k \in 0..width : /\ ShiftRight(a, width)[k] % 2 = 1
                        /\ ShiftRight(b, width)[k] % 2 = 1

\* is_power_of_two, by n & (n - 1); n has fewer than n + 1 bits.
IsPowerOfTwo(n) == n # 0 /\ ~CommonBit(n, n - 1, n)

\* check_len_invariant
LenError(p) ==
    IF Len(p) < HeaderLen THEN "PayloadTooShortForHeader"
    ELSE IF Len(p) % BytesPerElement # 0 THEN "InvalidLength"
    ELSE IF ~IsPowerOfTwo(NumElements(p)) THEN "InvalidPowerOfTwoLength"
    ELSE "none"

FromBeBytes(b) == ((b[1] * 256 + b[2]) * 256 + b[3]) * 256 + b[4]

\* Mutant of HeaderError: the end of the header is not looked at.
HeaderErrorUnpadded(p) ==
    IF p[1] # 0 THEN "InvalidHeaderFirstByte"
    ELSE IF p[2] # PAYLOAD_ENCODING_VERSION_0 THEN "UnknownEncodingVersion"
    ELSE "none"

\* decode_header
HeaderError(p) ==
    IF p[1] # 0 THEN "InvalidHeaderFirstByte"
    ELSE IF p[2] # PAYLOAD_ENCODING_VERSION_0 THEN "UnknownEncodingVersion"
    ELSE IF ~AllZero(SubSeq(p, 7, HeaderLen)) THEN "InvalidHeaderPadding"
    ELSE "none"

ClaimedLen(p) == FromBeBytes(SubSeq(p, 3, 6))

\* check_and_remove_zero_padding_for_field_elements, on the body of p.
ElementsPadded(body) == \A i \in 0..(NumElements(body) - 1) : Chunk(body, i)[1] = 0

\* The elements without their first bytes, one after the other.
RemovePadding(body) ==
    LET run == BytesPerElement - 1
    IN  [i \in 1..(NumElements(body) * run) |->
           Chunk(body, (i - 1) \div run)[((i - 1) % run) + 2]]

\* Mutant of DecodePayload: a body that is used to its last byte is refused.
DecodePayloadNotFull(p, payload_len) ==
    LET body == SubSeq(p, HeaderLen + 1, Len(p))
        decoded == RemovePadding(body)
    IN  IF ~ElementsPadded(body) THEN Err("InvalidFirstByteFieldElementPadding")
        ELSE IF Len(decoded) <= payload_len THEN Err("DecodedPayloadBodyTooShort")
        ELSE IF ~AllZero(SubSeq(decoded, payload_len + 1, Len(decoded)))
             THEN Err("InvalidEncodedPayloadBodyPadding")
        ELSE Ok(SubSeq(decoded, 1, payload_len))

\* decode_payload
DecodePayload(p, payload_len) ==
    LET body == SubSeq(p, HeaderLen + 1, Len(p))
        decoded == RemovePadding(body)
    IN  IF ~ElementsPadded(body) THEN Err("InvalidFirstByteFieldElementPadding")
        ELSE IF Len(decoded) < payload_len THEN Err("DecodedPayloadBodyTooShort")
        ELSE IF ~AllZero(SubSeq(decoded, payload_len + 1, Len(decoded)))
             THEN Err("InvalidEncodedPayloadBodyPadding")
        ELSE Ok(SubSeq(decoded, 1, payload_len))

\* decode
DecodeBytes(p) ==
    IF LenError(p) # "none" THEN Err(LenError(p))
    ELSE IF HeaderError(p) # "none" THEN Err(HeaderError(p))
    ELSE DecodePayload(p, ClaimedLen(p))

-----------------------------------------------------------------------------
(***************************************************************************)
(* The encoder of the tests, and the blob it becomes: zero elements bring  *)
(* it to 2^k elements.                                                     *)
(***************************************************************************)

\* u32::to_be_bytes
ToBeBytes(n) ==
    <<(n \div 16777216) % 256, (n \div 65536) % 256, (n \div 256) % 256, n % 256>>

Ceil(n, d) == (n + d - 1) \div d

\* pad_payload: a zero byte before every run of data bytes, the last run
\* filled up with zeros.
PadPayload(data) ==
    LET run == BytesPerElement - 1
        at(i) == IF i <= Len(data) THEN data[i] ELSE 0
    IN  [j \in 1..(Ceil(Len(data), run) * BytesPerElement) |->
           IF (j - 1) % BytesPerElement = 0 THEN 0
           ELSE at(((j - 1) \div BytesPerElement) * run + ((j - 1) % BytesPerElement))]

Header(length) ==
    [i \in 1..HeaderLen |-> IF i = 2 THEN PAYLOAD_ENCODING_VERSION_0
                            ELSE IF i \in 3..6 THEN ToBeBytes(length)[i - 2]
                            ELSE 0]

Encode(data) == Header(Len(data)) \o PadPayload(data)

\* The encoding of data as a blob of n bytes, if it fits.
Blob(data, n) == Encode(data) \o Zeros(n - Len(Encode(data)))

BlobSizes == {TwoTo(MaxExponent)[k] * BytesPerElement : k \in 0..MaxExponent}

-----------------------------------------------------------------------------
(***************************************************************************)
(* One call of decode, on any input (source is empty) or on an encoding of *)
(* the one member of source.                                               *)
(***************************************************************************)
VARIABLES encoded_payload, source, result

codec_vars == <<encoded_payload, source, result>>

Pending == Err("pending")

CodecInit ==
    /\ \/ encoded_payload \in Inputs /\ source = {}
       \/ \E d \in RollupData, n \in BlobSizes :
            /\ n >= Len(Encode(d))
            /\ encoded_payload = Blob(d, n)
            /\ source = {d}
    /\ result = Pending

DecodeCall ==
    /\ result = Pending
    /\ result' = DecodeBytes(encoded_payload)
    /\ UNCHANGED <<encoded_payload, source>>

CodecDone == result # Pending /\ UNCHANGED codec_vars

CodecNext == DecodeCall \/ CodecDone

CodecSpec == CodecInit /\ [][CodecNext]_codec_vars

-----------------------------------------------------------------------------
\* Every blob of every encoding decodes to what was encoded, down to the
\* empty payload and up to the last byte of the last element
\* (eigenda_data.rs, decode).
EncodingsDecode ==
    \A data \in source : result # Pending => result = Ok(data)

\* Only encodings decode: an accepted input is, byte by byte, the blob that
\* the encoder gives for the result.  No two blobs of one size decode to the
\* same payload, and no byte is ignored (eigenda_data.rs, decode).
OnlyEncodingsDecode ==
    result.err = "none" =>
        /\ Len(encoded_payload) \in BlobSizes
        /\ Len(encoded_payload) >= Len(Encode(result.payload))
        /\ encoded_payload = Blob(result.payload, Len(encoded_payload))

=============================================================================
