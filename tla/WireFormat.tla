----------------------------- MODULE WireFormat -----------------------------
(****************************************************************************)
(* The field kinds of the Kafka wire format, as src/protocol/primitives.rs   *)
(* reads and writes them, and the choice of a codec by API version.          *)
(*                                                                          *)
(* A layout is the sequence of kinds a codec writes or reads: what two sides *)
(* have to agree on for a frame to be understood.  Values are left out.  An  *)
(* array is its length followed by one element's layout up to "end"; a       *)
(* nullable struct (opt) is its presence byte and the struct up to "end".    *)
(****************************************************************************)
EXTENDS Integers, Sequences, FiniteSetsExt

i8 == "i8"
bool == "i8"
i16 == "i16"
u16 == "i16"
i32 == "i32"
i64 == "i64"
f64 == "f64"
uuid == "uuid"

\* The i32 named throttle_time_ms: connections peek at it before decoding.
throttle == "throttle"

\* Classic encodings: a length of fixed width, -1 for null.
str == "str"
bytes == "bytes"
arr == "arr"

\* Compact encodings of flexible versions: an unsigned varint of length + 1.
cstr == "cstr"
cbytes == "cbytes"
carr == "carr"
tags == "tags"

opt == "opt"
end == "end"

\* A field the codec writes or reads only if a flag of the version is set.
When(flag, fields) == IF flag THEN fields ELSE <<>>

\* encode_versioned and decode_versioned answer an error for other versions.
Unsupported == <<"unsupported">>

\* The match on the version: the first arm that covers v names the codec.
Codec(v, layouts, arms) ==
    LET hit == {a \in DOMAIN arms : v \in arms[a][1]}
    IN  IF hit = {} THEN Unsupported ELSE layouts[arms[Min(hit)][2]]
==============================================================================
