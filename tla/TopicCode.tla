------------------------------ MODULE TopicCode ------------------------------
(***************************************************************************)
(* TopicCode and its codec (src/src/protocol/topic.rs lines 48-85).  A     *)
(* TopicCode wraps Bytes that are expected to be UTF-8.  TopicCode::new    *)
(* and const_new take the bytes of a Rust string; encode writes them as a  *)
(* length-prefixed Bytes field; decode reads that field and rejects a      *)
(* payload that std::str::from_utf8 rejects.  Bytes' own codec is not      *)
(* under src/ and follows spec.md 6: a big-endian u32 length, then the     *)
(* bytes.                                                                  *)
(*                                                                         *)
(* One node encodes a code it built from a string (with whatever follows   *)
(* it in the buffer), or a peer's bytes arrive on the wire; the receiver   *)
(* decodes them.  Bytes are integers 0..255.                               *)
(***************************************************************************)
EXTENDS Integers, Sequences, SequencesExt

CONSTANTS
    Chars,      \* Unicode scalar values a string may be built from
    MaxChars,   \* bound on the characters of a string
    Alphabet,   \* byte values a peer's payload may contain
    MaxPayload, \* bound on the length of a peer's payload
    Tails       \* byte strings that may follow the field in a buffer

Byte == 0..255
\* 256 is no byte, so neither record is a value the codec produces.
NoCode == [code |-> <<256>>, rest |-> << >>]
Failed == [ok |-> FALSE, code |-> << >>, rest |-> << >>]
NoResult == [ok |-> FALSE, code |-> <<256>>, rest |-> << >>]

ASSUME Alphabet \subseteq Byte /\ Chars \subseteq 0..1114111

-----------------------------------------------------------------------------
\* The UTF-8 bytes of one scalar value, as a Rust String stores it.
CharBytes(c) ==
    LET Cont(k) == 128 + ((c \div 64^k) % 64)   \* continuation byte k from the end
    IN  CASE c < 128   -> <<c>>
          [] c < 2048  -> <<192 + (c \div 64), Cont(0)>>
          [] c < 65536 -> <<224 + (c \div 4096), Cont(1), Cont(0)>>
          [] OTHER     -> <<240 + (c \div 262144), Cont(2), Cont(1), Cont(0)>>

\* TopicCode::new / const_new: the bytes of the string.
New(str) == FlattenSeq([i \in DOMAIN str |-> CharBytes(str[i])])

\* Bytes::encode: big-endian u32 length, then the bytes.
U32BE(n) == <<(n \div 16777216) % 256, (n \div 65536) % 256, (n \div 256) % 256, n % 256>>

BytesEncode(b) == U32BE(Len(b)) \o b

\* An encode that writes the length least significant byte first.
EncodeLE(code) == LET n == Len(code)
                  IN  <<n % 256, (n \div 256) % 256, (n \div 65536) % 256, n \div 16777216>> \o code

\* TopicCode::encode: self.0.encode(buf).
Encode(code) == BytesEncode(code)

\* Bytes::decode: the length, then that many bytes; too short is an error.
BytesDecode(w) ==
    IF Len(w) < 4 THEN Failed
    ELSE LET n == ((w[1] * 256 + w[2]) * 256 + w[3]) * 256 + w[4]
         IN  IF Len(w) - 4 < n THEN Failed
             ELSE [ok |-> TRUE, code |-> SubSeq(w, 5, 4 + n), rest |-> SubSeq(w, 5 + n, Len(w))]

\* Width of a sequence from its first byte, and the range its second byte
\* must lie in (std's from_utf8: no overlong form, no surrogate, nothing
\* above U+10FFFF).
Width(b) == CASE b < 128 -> 1 [] b \in 194..223 -> 2 [] b \in 224..239 -> 3
              [] b \in 240..244 -> 4 [] OTHER -> 0

SecondRange(b) ==
    CASE b = 224 -> 160..191 [] b = 237 -> 128..159 [] b = 240 -> 144..191
      [] b = 244 -> 128..143 [] OTHER -> 128..191

\* std::str::from_utf8, one sequence at a time.
RECURSIVE Utf8Valid(_)
Utf8Valid(s) ==
    \/ s = << >>
    \/ LET w == Width(s[1])
       IN  /\ w > 0 /\ Len(s) >= w
           /\ w > 1 => s[2] \in SecondRange(s[1])
           /\ \A i \in 3..w : s[i] \in 128..191
           /\ Utf8Valid(SubSeq(s, w + 1, Len(s)))

\* A decode that wraps the payload without the from_utf8 check.
DecodeUnchecked(w) == BytesDecode(w)

\* TopicCode::decode: Bytes::decode, then from_utf8 of the payload.
Decode(w) ==
    LET f == BytesDecode(w)
    IN  IF f.ok /\ Utf8Valid(f.code) THEN f ELSE Failed

-----------------------------------------------------------------------------
(***************************************************************************)
(* Reference (RFC 3629): a byte string is UTF-8 iff it splits into         *)
(* encodings of single scalar values, each the shortest for its value.     *)
(***************************************************************************)
Lead(k) == CASE k = 1 -> 0 [] k = 2 -> 192 [] k = 3 -> 224 [] OTHER -> 240

ScalarOf(c) ==
    LET k == Len(c)
    IN  FoldLeft(LAMBDA acc, b : acc * 64 + (b - 128), c[1] - Lead(k), Tail(c))

ScalarRange(k) == CASE k = 1 -> 0..127 [] k = 2 -> 128..2047
                    [] k = 3 -> (2048..65535) \ (55296..57343) [] OTHER -> 65536..1114111

IsScalarEncoding(c) ==
    LET k == Len(c)
    IN  /\ k \in 1..4
        /\ c[1] - Lead(k) \in 0..(IF k = 1 THEN 127 ELSE 2^(7 - k) - 1)
        /\ \A i \in 2..k : c[i] \in 128..191
        /\ ScalarOf(c) \in ScalarRange(k)

RECURSIVE IsUtf8(_)
IsUtf8(s) ==
    \/ s = << >>
    \/ \E k \in 1..4 : k <= Len(s) /\ IsScalarEncoding(SubSeq(s, 1, k))
                       /\ IsUtf8(SubSeq(s, k + 1, Len(s)))

-----------------------------------------------------------------------------
VARIABLES
    wire,       \* the buffer the receiver decodes
    sent,       \* the code and tail a node encoded into it, or NoCode
    result      \* what TopicCode::decode returned, or NoResult

vars == <<wire, sent, result>>

Init == wire = << >> /\ sent = NoCode /\ result = NoResult

\* A node builds a TopicCode from a string and encodes it, followed by tail.
Send(str, tail) ==
    /\ wire = << >>
    /\ wire' = Encode(New(str)) \o tail
    /\ sent' = [code |-> New(str), rest |-> tail]
    /\ UNCHANGED result

\* Bytes from a peer: a length field, then a payload of at most that length.
Arrive(n, payload) ==
    /\ wire = << >>
    /\ Len(payload) <= n
    /\ wire' = U32BE(n) \o payload
    /\ UNCHANGED <<sent, result>>

\* The receiver runs TopicCode::decode on the buffer.
Receive ==
    /\ wire # << >> /\ result = NoResult
    /\ result' = Decode(wire)
    /\ UNCHANGED <<wire, sent>>

\* Only an empty buffer takes input, so the inputs are enumerated only there.
Next ==
    \/ wire = << >> /\ \E str \in BoundedSeq(Chars, MaxChars), tail \in Tails : Send(str, tail)
    \/ wire = << >> /\ \E n \in 0..MaxPayload, payload \in BoundedSeq(Alphabet, MaxPayload) : Arrive(n, payload)
    \/ Receive

Spec == Init /\ [][Next]_vars

-----------------------------------------------------------------------------
(***************************************************************************)
(* A code built with TopicCode::new and encoded decodes to the same code,  *)
(* and the bytes after the field are left for the next decoder: encode's   *)
(* length prefix and Bytes::decode's read of it agree, and from_utf8       *)
(* accepts the bytes of every string.                                       *)
(***************************************************************************)
RoundTrip ==
    result # NoResult /\ sent # NoCode =>
        result = [ok |-> TRUE, code |-> sent.code, rest |-> sent.rest]

(***************************************************************************)
(* TopicCode::decode accepts a well-framed field exactly when its payload  *)
(* is UTF-8 by the reference definition: the from_utf8 call and its `?`   *)
(* are what make Display's from_utf8_unchecked sound for a code that came  *)
(* off the wire; no overlong form, surrogate, value above U+10FFFF or cut  *)
(* sequence passes.                                                        *)
(***************************************************************************)
DecodeValidates ==
    result # NoResult =>
        (result.ok <=> /\ BytesDecode(wire).ok
                       /\ IsUtf8(BytesDecode(wire).code))

=============================================================================
