---------------------------- MODULE RecordFormat ----------------------------
(****************************************************************************)
(* Record batches: the varints of src/util.rs, and the records, batches and   *)
(* compressed payloads of src/protocol/record.rs.                            *)
(*                                                                          *)
(* A buffer is a sequence of bytes.  A varint has groups of G bits and holds  *)
(* an integer of W bits (7 and 32 in the code, 7 and 64 of a varlong): with   *)
(* smaller ones every buffer can be tried.  The fixed-width fields of a batch *)
(* header are a record with their widths beside it; a checksum is the fields  *)
(* it covers.  Null bytes (length -1) are not empty bytes.                   *)
(****************************************************************************)
EXTENDS Integers, Sequences, FiniteSets, SequencesExt

Null == <<-1>>

Flat(s) == FoldLeft(LAMBDA a, b : a \o b, <<>>, s)

------------------------------------------------------------------------------
(* Varints. *)

Groups(G, W) == (W + G - 1) \div G

unsigned_varint_size(v, G, W) ==
    1 + Cardinality({k \in 1..Groups(G, W) - 1 : v >= 2^(G * k)})

encode_unsigned_varint(v, G, W) ==
    LET n == unsigned_varint_size(v, G, W)
    IN  [k \in 1..n |-> ((v \div 2^(G * (k - 1))) % 2^G) + (IF k < n THEN 2^G ELSE 0)]

ZigZag(v) == IF v >= 0 THEN 2 * v ELSE -2 * v - 1
UnZigZag(u) == IF u % 2 = 0 THEN u \div 2 ELSE -(u \div 2) - 1

signed_varint_size(v, G, W) == unsigned_varint_size(ZigZag(v), G, W)

encode_signed_varint(v, G, W) == encode_unsigned_varint(ZigZag(v), G, W)

\* A reading of buf from pos on: the value and where it ends, or why it failed.
Good(value, pos) == [error |-> "none", value |-> value, pos |-> pos]
Bad(error, r) == [error |-> error, value |-> 0, pos |-> r]

decode_unsigned_varint(buf, pos, G, W) ==
    LET last == Groups(G, W)
        ends == {k \in 1..last : /\ pos + k <= Len(buf) /\ buf[pos + k] < 2^G
                                 /\ \A j \in 1..k - 1 : buf[pos + j] >= 2^G}
        n == CHOOSE k \in ends : TRUE
        group(k) == buf[pos + k] % 2^G
        overflows == pos + last <= Len(buf) /\ group(last) >= 2^(W - G * (last - 1))
    IN  CASE ends = {} ->
                 Bad(IF pos + last <= Len(buf) THEN "InvalidLength" ELSE "TruncatedFrame", pos)
          [] ends # {} ->
                 IF n = last /\ overflows THEN Bad("InvalidLength", pos)
                 ELSE Good(FoldLeft(LAMBDA s, k : s + group(k) * 2^(G * (k - 1)),
                                    0, [k \in 1..n |-> k]), pos + n)

decode_signed_varint(buf, pos, G, W) ==
    LET r == decode_unsigned_varint(buf, pos, G, W)
    IN  IF r.error = "none" THEN Good(UnZigZag(r.value), r.pos) ELSE r

\* Every integer of W bits has an encoding of the size announced for it and is
\* read back from it, whatever follows; a prefix of it is refused; and no
\* buffer is read as an integer of more bits.
VarintExact(G, W) ==
    LET size == Groups(G, W)
        Buffers == UNION {[1..n -> 0..2^(G + 1) - 1] : n \in 0..size}
    IN  /\ \A v \in -(2^(W - 1))..2^(W - 1) - 1 :
               LET e == encode_signed_varint(v, G, W)
               IN  /\ Len(e) = signed_varint_size(v, G, W) /\ Len(e) <= size
                   /\ decode_signed_varint(<<0>> \o e \o <<0>>, 1, G, W) = Good(v, 1 + Len(e))
                   /\ \A n \in 0..Len(e) - 1 :
                          decode_signed_varint(SubSeq(e, 1, n), 0, G, W).error = "TruncatedFrame"
        /\ \A buf \in Buffers :
               LET r == decode_unsigned_varint(buf, 0, G, W)
               IN  r.error = "none" => r.value < 2^W /\ r.pos <= Len(buf)

------------------------------------------------------------------------------
(* Records.  Integers are of 28 bits here, so that TLC can hold them. *)

size32(v) == signed_varint_size(v, 7, 28)
put32(v) == encode_signed_varint(v, 7, 28)
get32(buf, pos) == decode_signed_varint(buf, pos, 7, 28)

\* Record::record_body_size.
record_body_size(r) ==
    LET bytes(b) == IF b = Null THEN size32(-1) ELSE size32(Len(b)) + Len(b)
    IN  1 + size32(r.timestamp_delta) + size32(r.offset_delta)
          + bytes(r.key) + bytes(r.value) + size32(Len(r.headers))
          + FoldLeft(LAMBDA n, h : n + size32(Len(h.key)) + Len(h.key) + bytes(h.value),
                     0, r.headers)

put_bytes(b) == IF b = Null THEN put32(-1) ELSE put32(Len(b)) \o b

\* RecordHeader::encode.
encode_header(h) == put32(Len(h.key)) \o h.key \o put_bytes(h.value)

\* Record::encode_body.
encode_body(r) ==
    <<r.attributes>> \o put32(r.timestamp_delta) \o put32(r.offset_delta)
        \o put_bytes(r.key) \o put_bytes(r.value) \o put32(Len(r.headers))
        \o Flat([k \in DOMAIN r.headers |-> encode_header(r.headers[k])])

\* Record::encode: the length first.
encode_record(r) == put32(record_body_size(r)) \o encode_body(r)

\* A read that goes on from an earlier one, unless that one failed.
Then(r, next) == IF r.error = "none" THEN next ELSE r

get_bytes(buf, pos, nullable) ==
    LET n == get32(buf, pos)
    IN  CASE n.error # "none" -> n
          [] n.error = "none" /\ n.value < 0 ->
                 IF nullable THEN Good(Null, n.pos) ELSE Bad("InvalidValue", n.pos)
          [] OTHER ->
                 IF Len(buf) - n.pos < n.value THEN Bad("InvalidValue", n.pos)
                 ELSE Good(SubSeq(buf, n.pos + 1, n.pos + n.value), n.pos + n.value)

\* RecordHeader::decode.
decode_header(buf, pos) ==
    LET k == get_bytes(buf, pos, FALSE)
        v == Then(k, get_bytes(buf, k.pos, TRUE))
    IN  IF v.error = "none" THEN Good([key |-> k.value, value |-> v.value], v.pos) ELSE v

decode_headers(buf, pos, count) ==
    FoldLeft(LAMBDA s, k :
                 LET h == Then(s, decode_header(buf, s.pos))
                 IN  IF h.error = "none" THEN Good(Append(s.value, h.value), h.pos) ELSE h,
             Good(<<>>, pos), [k \in 1..count |-> k])

\* One more field of a record, behind the ones in s.
decode_field(rbuf, s, kind) ==
    LET x == IF kind = "int" THEN get32(rbuf, s.pos) ELSE get_bytes(rbuf, s.pos, TRUE)
    IN  IF s.error # "none" THEN s
        ELSE IF x.error # "none" THEN x
        ELSE Good(Append(s.value, x.value), x.pos)

\* The fields of one record, from exactly its bytes: timestamp and offset deltas,
\* key, value, and the number of headers.
decode_body(rbuf) ==
    LET f == FoldLeft(LAMBDA s, kind : decode_field(rbuf, s, kind), Good(<<>>, 1),
                      <<"int", "int", "bytes", "bytes", "int">>)
        h == decode_headers(rbuf, f.pos, f.value[5])
    IN  IF rbuf = <<>> THEN Bad("Malformed", 0)
        ELSE IF f.error # "none" THEN f
        ELSE IF f.value[5] < 0 THEN Bad("InvalidValue", f.pos)
        ELSE IF h.error # "none" THEN h
        ELSE Good([attributes |-> rbuf[1], timestamp_delta |-> f.value[1],
                   offset_delta |-> f.value[2], key |-> f.value[3], value |-> f.value[4],
                   headers |-> h.value], h.pos)

\* Record::decode: length, slice, fields.
decode_record(buf, pos) ==
    LET n == get32(buf, pos)
        body == decode_body(SubSeq(buf, n.pos + 1, n.pos + n.value))
    IN  CASE n.error # "none" -> n
          [] n.error = "none" /\ n.value < 0 -> Bad("InvalidValue", n.pos)
          [] OTHER ->
                 IF Len(buf) - n.pos < n.value THEN Bad("TruncatedFrame", n.pos)
                 ELSE IF body.error = "none" THEN Good(body.value, n.pos + n.value) ELSE body

MIN_RECORD_SIZE == 7

Bytes(n) == [k \in 1..n |-> k % 256]

\* Null, empty and short, and either side of where the length takes two bytes.
Payloads == {Null, <<>>, Bytes(1), Bytes(63), Bytes(64)}

Headers ==
    {<<>>} \cup {<<[key |-> k, value |-> v]>> : k \in {<<>>, Bytes(64)}, v \in {Null, <<>>, Bytes(1)}}
    \cup {<<[key |-> Bytes(1), value |-> Null], [key |-> <<>>, value |-> Bytes(2)]>>}

Records ==
    [attributes : {0}, timestamp_delta : {0, -1, 64}, offset_delta : {0, 63, 64},
     key : Payloads, value : Payloads, headers : Headers]

\* A record occupies what its length prefix says, which is computed apart from
\* the writing, never less than the count check of a batch takes it for, and is
\* read back with the position behind it; a part of it is never a record.
RecordExact ==
    \A r \in Records :
        LET e == encode_record(r)
        IN  /\ Len(encode_body(r)) = record_body_size(r)
            /\ Len(e) >= MIN_RECORD_SIZE
            /\ decode_record(<<7>> \o e \o <<7, 7>>, 1) = Good(r, 1 + Len(e))
            /\ \A n \in {0, 1, Len(e) \div 2, Len(e) - 1} :
                   decode_record(SubSeq(e, 1, n), 0).error # "none"

------------------------------------------------------------------------------
(* Compression.  The codecs are lossless; what is the client's own is the      *)
(* xerial framing of snappy and the limit on what a payload may grow to.       *)

Compression == {"None", "Gzip", "Snappy", "Lz4", "Zstd"}

XERIAL_MAGIC == <<130, 83, 78, 65, 80, 80, 89, 0>>
XERIAL_HEADER_LEN == 16

u32(n) == <<n \div 16777216, (n \div 65536) % 256, (n \div 256) % 256, n % 256>>

\* A raw snappy block announces its decompressed length.
SnappyBlock(chunk) == <<Len(chunk)>> \o chunk

compress_snappy_xerial(payload, block) ==
    LET n == IF payload = <<>> THEN 1 ELSE (Len(payload) + block - 1) \div block
        chunk(k) == SnappyBlock(SubSeq(payload, block * (k - 1) + 1,
                                       IF block * k < Len(payload) THEN block * k
                                                                   ELSE Len(payload)))
    IN  XERIAL_MAGIC \o u32(1) \o u32(1)
            \o Flat([k \in 1..n |-> u32(Len(chunk(k))) \o chunk(k)])

compress_with_level(codec, payload, block) ==
    CASE codec = "None"   -> payload
      [] codec = "Snappy" -> compress_snappy_xerial(payload, block)
      [] OTHER            -> Append(payload, 0)

append_snappy_block(out, block, max) ==
    IF block[1] > max - Len(out.value) THEN Bad("Compression", 0)
    ELSE Good(out.value \o Tail(block), 0)

decompress_snappy(data, max) ==
    LET u32At(p) == data[p + 3] * 256 + data[p + 4]
        Chunk(out, k) ==
            IF out.error # "none" \/ out.pos >= Len(data) THEN out
            ELSE IF Len(data) - out.pos < 4 THEN Bad("Malformed", 0)
            ELSE LET n == u32At(out.pos)
                     next == append_snappy_block(
                                 out, SubSeq(data, out.pos + 5, out.pos + 4 + n), max)
                 IN  IF n = 0 \/ n > Len(data) - out.pos - 4 THEN Bad("Malformed", 0)
                     ELSE IF next.error = "none" THEN Good(next.value, out.pos + 4 + n)
                     ELSE next
    IN  IF Len(data) > XERIAL_HEADER_LEN /\ SubSeq(data, 1, 8) = XERIAL_MAGIC
        THEN FoldLeft(Chunk, Good(<<>>, XERIAL_HEADER_LEN), [k \in 1..Len(data) \div 5 |-> k])
        ELSE append_snappy_block(Good(<<>>, 0), data, max)

\* read_limited stops one byte past the limit, which is then refused.
decompress_records(codec, data, max) ==
    LET read == SubSeq(data, 1, IF Len(data) - 1 < max + 1 THEN Len(data) - 1 ELSE max + 1)
    IN  CASE codec = "None"   -> Good(data, 0)
          [] codec = "Snappy" -> decompress_snappy(data, max)
          [] OTHER            -> IF Len(read) > max THEN Bad("Compression", 0)
                                                    ELSE Good(read, 0)

\* A payload is read back by every codec, over any number of snappy blocks, up
\* to the limit and not beyond it; raw snappy is read as well.
CompressionExact ==
    \A codec \in Compression, n \in 0..9, block \in {1, 3, 4}, max \in 0..10 :
        LET out == decompress_records(codec, compress_with_level(codec, Bytes(n), block), max)
        IN  /\ n <= max \/ codec = "None" => out.error = "none" /\ out.value = Bytes(n)
            /\ n > max /\ codec # "None" => out.error = "Compression"
            /\ n <= max => decompress_snappy(SnappyBlock(Bytes(n)), max).value = Bytes(n)

------------------------------------------------------------------------------
(* Batches. *)

CodecBits == [None |-> 0, Gzip |-> 1, Snappy |-> 2, Lz4 |-> 3, Zstd |-> 4]

Attributes ==
    [compression : Compression, append_time : BOOLEAN, transactional : BOOLEAN,
     control : BOOLEAN]

\* RecordBatchAttributes::to_i16 and from_i16.
attributes_to_i16(a) ==
    CodecBits[a.compression] + (IF a.append_time THEN 8 ELSE 0)
        + (IF a.transactional THEN 16 ELSE 0) + (IF a.control THEN 32 ELSE 0)

attributes_from_i16(v) ==
    LET codec == {c \in Compression : CodecBits[c] = v % 8}
    IN  IF codec = {} THEN Bad("InvalidValue", 0)
        ELSE Good([compression |-> CHOOSE c \in codec : TRUE,
                   append_time |-> (v \div 8) % 2 = 1,
                   transactional |-> (v \div 16) % 2 = 1,
                   control |-> (v \div 32) % 2 = 1], 0)

\* The header's fields with their widths, as encode writes them.
Written ==
    <<<<"base_offset", 8>>, <<"batch_length", 4>>, <<"partition_leader_epoch", 4>>,
      <<"magic", 1>>, <<"crc", 4>>, <<"attributes", 2>>, <<"last_offset_delta", 4>>,
      <<"base_timestamp", 8>>, <<"max_timestamp", 8>>, <<"producer_id", 8>>,
      <<"producer_epoch", 2>>, <<"base_sequence", 4>>, <<"records_count", 4>>>>

WidthBefore(field) ==
    LET place == CHOOSE k \in DOMAIN Written : Written[k][1] = field
    IN  FoldLeft(LAMBDA n, f : n + f[2], 0, SubSeq(Written, 1, place - 1))

BATCH_LENGTH_POS == 8
CRC_POS == 17
CRC_REGION_START == 21
FIXED_OVERHEAD == 49
SIZE == 61

\* The constants of encode and peek are the places of the fields.
HeaderPlaced ==
    /\ BATCH_LENGTH_POS = WidthBefore("batch_length")
    /\ CRC_POS = WidthBefore("crc") /\ CRC_REGION_START = WidthBefore("attributes")
    /\ SIZE = WidthBefore("records_count") + 4
    /\ FIXED_OVERHEAD = SIZE - WidthBefore("partition_leader_epoch")

Covered(f) ==
    <<f.attributes, f.last_offset_delta, f.producer, f.records_count, f.payload>>

\* RecordBatchBuilder::add_record and build: deltas are places.
build(attributes, producer, bodies) ==
    [attributes |-> attributes, base_offset |-> 0, producer |-> producer,
     last_offset_delta |-> IF bodies = <<>> THEN 0 ELSE Len(bodies) - 1,
     records |-> [k \in DOMAIN bodies |-> [bodies[k] EXCEPT !.offset_delta = k - 1]]]

\* RecordBatch::encode: the length is patched in, or known once compressed.
encode_batch(b, block) ==
    LET records == Flat([k \in DOMAIN b.records |-> encode_record(b.records[k])])
        codec == b.attributes.compression
        payload == compress_with_level(codec, records, block)
        f == [base_offset |-> b.base_offset, magic |-> 2, producer |-> b.producer,
              batch_length |-> IF codec = "None" THEN SIZE + Len(payload) - 12
                                                 ELSE FIXED_OVERHEAD + Len(payload),
              attributes |-> attributes_to_i16(b.attributes),
              last_offset_delta |-> b.last_offset_delta,
              records_count |-> Len(b.records), payload |-> payload]
    IN  [crc |-> Covered(f)] @@ f

\* RecordBatchHeader::peek, of a buffer that holds the first len bytes of f.
peek(f, len) ==
    CASE len < 12 -> Bad("TruncatedFrame", 0)
      [] len >= 12 /\ f.batch_length < SIZE - 12 -> Bad("InvalidValue", 0)
      [] len >= 12 /\ f.batch_length >= SIZE - 12 ->
             IF len < SIZE THEN Bad("TruncatedFrame", 0)
             ELSE IF f.magic # 2 THEN Bad("UnsupportedMagic", 0)
             ELSE IF attributes_from_i16(f.attributes).error # "none"
             THEN attributes_from_i16(f.attributes)
             ELSE IF f.records_count < 0 THEN Bad("InvalidValue", 0)
             ELSE Good(f, 0)

total_size(f) == 12 + f.batch_length

\* RecordBatch::decode_with_limit; pos is how far the buffer is advanced.
decode_with_limit(f, len, max) ==
    LET header == peek(f, len)
        a == attributes_from_i16(f.attributes).value
        raw == decompress_records(a.compression, f.payload, max)
        read == FoldLeft(LAMBDA s, k :
                             LET r == Then(s, decode_record(raw.value, s.pos))
                             IN  IF r.error = "none"
                                 THEN Good(Append(s.value, r.value), r.pos) ELSE r,
                         Good(<<>>, 0), [k \in 1..f.records_count |-> k])
    IN  IF header.error # "none" THEN header
        ELSE IF len < total_size(f) THEN Bad("TruncatedFrame", 0)
        ELSE IF f.crc # Covered(f) THEN Bad("CrcMismatch", 0)
        ELSE IF raw.error # "none" THEN Bad(raw.error, 0)
        ELSE IF f.records_count > Len(raw.value) \div MIN_RECORD_SIZE
        THEN Bad("InvalidLength", 0)
        ELSE IF read.error # "none" THEN Bad(read.error, 0)
        ELSE Good([attributes |-> a, base_offset |-> f.base_offset, producer |-> f.producer,
                   last_offset_delta |-> f.last_offset_delta, records |-> read.value],
                  total_size(f))

Smallest == [attributes |-> 0, timestamp_delta |-> 0, offset_delta |-> 0, key |-> Null,
             value |-> Null, headers |-> <<>>]

Batches ==
    {build(a, p, s) :
        a \in Attributes, p \in {-1, 5},
        s \in {<<>>, <<Smallest>>, <<Smallest, Smallest>>,
               <<Smallest, [Smallest EXCEPT !.value = Bytes(64)], Smallest>>}}

Big == 1000

\* A batch is read back as it was built; the records are numbered without a gap
\* up to the last offset; a batch that is cut, whose bytes changed or that grows
\* beyond the limit is refused, and the buffer then stays where it is.
BatchExact ==
    /\ HeaderPlaced
    /\ \A v \in 0..63 : LET a == attributes_from_i16(v)
                        IN  IF v % 8 > 4 THEN a.error # "none"
                            ELSE attributes_to_i16(a.value) = v
    /\ \A b \in Batches, block \in {32, 100} :
           LET f == encode_batch(b, block)
               n == SIZE + Len(f.payload)
               refused(g, len, max) ==
                   LET r == decode_with_limit(g, len, max) IN r.error # "none" /\ r.pos = 0
           IN  /\ total_size(f) = n
               /\ \A len \in {n, n + 5} : decode_with_limit(f, len, Big) = Good(b, n)
               /\ \A k \in DOMAIN b.records : b.records[k].offset_delta = k - 1
               /\ b.records # <<>> =>
                      b.records[Len(b.records)].offset_delta = b.last_offset_delta
               /\ \A len \in {0, 11, 12, 60, 61, n - 1} \ {n} : refused(f, len, Big)
               /\ refused([f EXCEPT !.records_count = @ + 1], n, Big)
               /\ refused([f EXCEPT !.payload = Append(@, 1)], n, Big)
               /\ refused([f EXCEPT !.magic = 1], n, Big)
               /\ b.records # <<>> /\ b.attributes.compression # "None" => refused(f, n, 6)

\* Everything the client writes as a record batch, it reads.
FormatExact ==
    VarintExact(2, 5) /\ VarintExact(3, 8) /\ RecordExact /\ CompressionExact /\ BatchExact
==============================================================================
