------------------------------ MODULE SSZDecode -----------------------------
(***************************************************************************)
(* The decoder of decode.go, and a caller that feeds it.                   *)
(*                                                                         *)
(* Every decoder of decode.go is an operator Dec(t, b, w, old): it decodes *)
(* the input slice w of the buffer b into a target of type t that holds    *)
(* old, and yields an Outcome: the status ("ok", "err" or "panic" for a    *)
(* Go run-time panic), the value the target holds afterwards, the count    *)
(* the decoder returns, and hi, the highest buffer position it read.       *)
(*                                                                         *)
(* A Go slice is a view [off, len, cap] into the caller's buffer b:        *)
(* s[i:j] is legal iff 0 <= i <= j <= cap(s), so a decoder that slices     *)
(* past len(s) reads bytes of b that are not part of the input.            *)
(*                                                                         *)
(* The caller encodes a value into its buffer (which may have spare        *)
(* capacity holding older bytes), the bytes may be cut, extended or        *)
(* corrupted on the way (at most one such change per message), and the     *)
(* caller decodes them into the same target object, call after call.       *)
(***************************************************************************)
EXTENDS SSZEncode

CONSTANTS
  Types,        \* the Go types a behaviour may decode into
  TargetKinds,  \* what the caller passes as val: see Decode
  Tampers,      \* the changes the bytes may undergo before decoding
  MaxSlack      \* most spare capacity bytes behind an encoding

ASSUME \A t \in Types :
         \* struct fields are sliced by basicElementSize, defined for basic kinds
         t.k = "struct" => \A i \in DOMAIN t.fields : IsBasic(t.fields[i])
ASSUME TargetKinds \subseteq {"nil", "value", "nilptr", "ptr"}
ASSUME Tampers \subseteq {"truncate", "extend", "corrupt"}

VARIABLES
  typ,       \* the type of *val
  tkind,     \* the kind of the val argument
  target,    \* the value *val holds
  buf,       \* the caller's buffer: input is buf[1..inLen], the rest is capacity
  inLen,     \* len(input)
  sent,      \* the value whose encoding the caller last produced
  tampered,  \* the change the input underwent since it was encoded
  result,    \* what the last Decode call returned
  phase      \* "idle", "sent" (bytes ready to decode) or "crashed" (panic)

vars == <<typ, tkind, target, buf, inLen, sent, tampered, result, phase>>

NoResult == [st |-> "none", n |-> 0, hi |-> 0]

-----------------------------------------------------------------------------
(* Go slices and byte conversions.                                         *)

InCap(w, i, j) == 0 <= i /\ i <= j /\ j <= w.cap

Sub(w, i, j) == [off |-> w.off + i, len |-> j - i, cap |-> w.cap - i]

Bytes(b, w, m) == SubSeq(b, w.off + 1, w.off + m)

(* The buffer position of the last of the m first bytes of w (0 if none).  *)
Reach(w, m) == IF m = 0 THEN 0 ELSE w.off + m

MinOf(x, y) == IF x <= y THEN x ELSE y
MaxOf(x, y) == IF x >= y THEN x ELSE y

(* binary.LittleEndian.UintN of a zero-initialised buffer.                 *)
RECURSIVE LittleEndian(_)
LittleEndian(s) == IF s = <<>> THEN 0 ELSE Head(s) + ByteBase * LittleEndian(Tail(s))

Outcome(st, v, n, hi) == [st |-> st, v |-> v, n |-> n, hi |-> hi]

-----------------------------------------------------------------------------
(* The decoders.                                                           *)

(* Mutant: any non-zero byte decodes to true.                             *)
DecodeBoolNonZero(b, w, old) ==
  IF w.len = 0 THEN Outcome("panic", old, 0, 0)
  ELSE Outcome("ok", b[w.off + 1] # 0, 1, w.off + 1)

(* decodeBool: input[0] panics on an empty input.                          *)
DecodeBool(b, w, old) ==
  IF w.len = 0 THEN Outcome("panic", old, 0, 0)
  ELSE LET x == b[w.off + 1]
       IN  IF x \in {0, 1} THEN Outcome("ok", x = 1, 1, w.off + 1)
                           ELSE Outcome("err", old, 0, w.off + 1)

(* decodeUint8: input[0] panics on an empty input.                         *)
DecodeUint8(b, w, old) ==
  IF w.len = 0 THEN Outcome("panic", old, 0, 0)
  ELSE Outcome("ok", b[w.off + 1], 1, w.off + 1)

(* decodeUint16/32/64: copy(buf, input) copies at most width bytes into a  *)
(* zeroed buffer, so a short input is zero-extended and a long one cut;    *)
(* the width is returned whatever len(input) is.  An int32 target is       *)
(* decoded by decodeUint32, whose val.SetUint panics on kind Int32.        *)
DecodeUint(t, b, w, old) ==
  LET m == MinOf(w.len, BasicElementSize(t))
  IN  IF t.k = "int32" THEN Outcome("panic", old, 0, Reach(w, m))
      ELSE Outcome("ok", LittleEndian(Bytes(b, w, m)), BasicElementSize(t), Reach(w, m))

(* Mutant: the array takes the input slice as it is.                      *)
DecodeByteArrayAsSlice(t, b, w, old) ==
  Outcome("ok", Bytes(b, w, w.len), w.len, Reach(w, w.len))

(* decodeByteArray: copy into the array; positions past len(input) keep    *)
(* their old bytes, and len(input) is returned.                            *)
DecodeByteArray(t, b, w, old) ==
  LET m == MinOf(t.n, w.len)
  IN  Outcome("ok", [i \in 1 .. t.n |-> IF i <= m THEN b[w.off + i] ELSE old[i]],
              w.len, Reach(w, m))

(* decodeByteSlice: val.SetBytes(input).                                   *)
DecodeByteSlice(b, w) == Outcome("ok", Bytes(b, w, w.len), w.len, Reach(w, w.len))

RECURSIVE Dec(_, _, _, _), SliceLoop(_, _, _, _, _, _, _, _),
          ArrayLoop(_, _, _, _, _, _, _, _, _), StructLoop(_, _, _, _, _, _, _)

(* The loop of makeBasicSliceDecoder's decoder, at byte i of the input:    *)
(* input[i:i+elemSize] and val.Index(i/elemSize) panic when out of range.  *)
SliceLoop(e, b, w, es, size, i, acc, hi) ==
  IF i >= w.len THEN Outcome("ok", acc, size, hi)
  ELSE IF ~InCap(w, i, i + es) \/ i \div es >= size THEN Outcome("panic", acc, 0, hi)
  ELSE LET r == Dec(e, b, Sub(w, i, i + es), acc[i \div es + 1])
       IN  IF r.st # "ok" THEN Outcome(r.st, acc, 0, MaxOf(hi, r.hi))
           ELSE SliceLoop(e, b, w, es, size, i + es,
                          [acc EXCEPT ![i \div es + 1] = r.v], MaxOf(hi, r.hi))

(* Mutant: the old slice is kept when it is long enough.                  *)
BasicSliceDecodeReuse(t, b, w, old) ==
  LET es   == BasicElementSize(t.elem)
      size == w.len \div es
  IN  SliceLoop(t.elem, b, w, es, size, 0,
                IF Len(old) >= size THEN old
                ELSE [i \in 1 .. size |-> IF i <= Len(old) THEN old[i] ELSE Zero(t.elem)], 0)

(* Mutant: one element too few is allocated.                              *)
BasicSliceDecodeShort(t, b, w, old) ==
  LET es   == BasicElementSize(t.elem)
      size == (w.len - 1) \div es
  IN  SliceLoop(t.elem, b, w, es, size, 0,
                [i \in 1 .. size |-> IF i <= Len(old) THEN old[i] ELSE Zero(t.elem)], 0)

(* makeBasicSliceDecoder's decoder: a new slice of len(input)/elemSize     *)
(* elements, the old ones copied in, then decoded element by element.      *)
(* It returns the element count; its "input is too long" check compares   *)
(* a byte count with an element count and never fires.                     *)
BasicSliceDecode(t, b, w, old) ==
  LET es   == BasicElementSize(t.elem)
      size == w.len \div es
  IN  SliceLoop(t.elem, b, w, es, size, 0,
                [i \in 1 .. size |-> IF i <= Len(old) THEN old[i] ELSE Zero(t.elem)], 0)

(* BytesPerLengthOffset: the width of an SSZ offset (spec 4.2).             *)
BytesPerLengthOffset == 4

(***************************************************************************)
(* makeCompositeSliceDecoder's decoder: a new slice of                     *)
(* len(input)/BytesPerLengthOffset elements with the old ones copied in,   *)
(* stored into val; then the element decoder runs on input[:4] with        *)
(* firstOffset, a uint64 passed by value, as its target, so firstOffset    *)
(* stays 0, the offset loop "for currentIndex < firstOffset" never runs,   *)
(* and no element is decoded.  (As written the call does not type-check;   *)
(* this is the only reading under which the function runs.)                *)
(***************************************************************************)
CompositeSliceDecode(t, b, w, old) ==
  LET size == w.len \div BytesPerLengthOffset
      acc  == [i \in 1 .. size |-> IF i <= Len(old) THEN old[i] ELSE Zero(t.elem)]
  IN  IF ~InCap(w, 0, BytesPerLengthOffset) THEN Outcome("panic", acc, 0, 0)
      ELSE LET r == Dec(t.elem, b, Sub(w, 0, BytesPerLengthOffset), Zero(t.elem))
           IN  IF r.st # "ok" THEN Outcome(r.st, acc, 0, r.hi)
               ELSE Outcome("ok", acc, size, r.hi)

(* The loop of makeArrayDecoder's decoder, at element i.                   *)
ArrayLoop(e, b, w, es, n, i, acc, dsize, hi) ==
  IF i >= n THEN Outcome("ok", acc, dsize, hi)
  ELSE IF ~InCap(w, i * es, i * es + es) THEN Outcome("panic", acc, 0, hi)
  ELSE LET r == Dec(e, b, Sub(w, i * es, i * es + es), acc[i + 1])
       IN  IF r.st # "ok" THEN Outcome(r.st, acc, 0, MaxOf(hi, r.hi))
           ELSE ArrayLoop(e, b, w, es, n, i + 1, [acc EXCEPT ![i + 1] = r.v],
                          dsize + r.n, MaxOf(hi, r.hi))

(* makeArrayDecoder's decoder: val.Len() elements of basicElementSize      *)
(* bytes each, whatever len(input) is; returns the bytes decoded.         *)
ArrayDecode(t, b, w, old) ==
  ArrayLoop(t.elem, b, w, BasicElementSize(t.elem), t.n, 0, old, 0, 0)

(* The loop of makeStructDecoder's decoder, at field i and offsetIndex.    *)
StructLoop(fs, b, w, i, off, acc, hi) ==
  IF i > Len(fs) THEN Outcome("ok", acc, off, hi)
  ELSE LET es == BasicElementSize(fs[i])
       IN  IF ~InCap(w, off, off + es) THEN Outcome("panic", acc, 0, hi)
           ELSE LET r == Dec(fs[i], b, Sub(w, off, off + es), acc[i])
                IN  IF r.st # "ok" THEN Outcome(r.st, acc, 0, MaxOf(hi, r.hi))
                    ELSE StructLoop(fs, b, w, i + 1, off + r.n,
                                    [acc EXCEPT ![i] = r.v], MaxOf(hi, r.hi))

(* makeStructDecoder's decoder: an empty input succeeds and leaves val as  *)
(* it was; otherwise fields are decoded in order from offsetIndex, which  *)
(* advances by what each field decoder returns.  Nothing compares the     *)
(* final offsetIndex with len(input).                                      *)
StructDecode(t, b, w, old) ==
  IF w.len = 0 THEN Outcome("ok", old, 0, 0)
  ELSE StructLoop(t.fields, b, w, 1, 0, old, 0)

(* makePtrDecoder's decoder: decodes into a fresh reflect.New(elemType)    *)
(* and never stores that pointer into val.                                 *)
PtrDecode(t, b, w, old) ==
  LET r == Dec(t.elem, b, w, Zero(t.elem))
  IN  IF r.st # "ok" THEN Outcome(r.st, old, 0, r.hi) ELSE Outcome("ok", old, r.n, r.hi)

(* makeDecoder: the decoder for a kind, in the order of its switch.        *)
Dec(t, b, w, old) ==
  CASE t.k = "bool"                        -> DecodeBool(b, w, old)
    [] t.k = "uint8"                       -> DecodeUint8(b, w, old)
    [] IsBasic(t)                          -> DecodeUint(t, b, w, old)
    [] t.k = "slice" /\ t.elem.k = "uint8" -> DecodeByteSlice(b, w)
    [] t.k = "array" /\ t.elem.k = "uint8" -> DecodeByteArray(t, b, w, old)
    [] t.k = "slice" /\ IsBasic(t.elem)    -> BasicSliceDecode(t, b, w, old)
    [] t.k = "slice"                       -> CompositeSliceDecode(t, b, w, old)
    [] t.k = "array"                       -> ArrayDecode(t, b, w, old)
    [] t.k = "struct"                      -> StructDecode(t, b, w, old)
    [] t.k = "ptr"                         -> PtrDecode(t, b, w, old)

(***************************************************************************)
(* Decode(input, val): val is nil ("nil"), not a pointer ("value"), a nil  *)
(* pointer ("nilptr") or a pointer to target ("ptr").  The count the       *)
(* decoder returns is dropped.                                             *)
(***************************************************************************)
DecodeCall(t, tk, b, len, old) ==
  IF tk # "ptr" \/ ~Supported(t) THEN Outcome("err", old, 0, 0)
  ELSE Dec(t, b, [off |-> 0, len |-> len, cap |-> Len(b)], old)

-----------------------------------------------------------------------------
(* The caller.                                                             *)

Init ==
  /\ typ \in Types
  /\ tkind \in TargetKinds
  /\ target = Zero(typ)
  /\ buf = <<>>
  /\ inLen = 0
  /\ sent = Zero(typ)
  /\ tampered = "none"
  /\ result = NoResult
  /\ phase = "idle"

(* The caller encodes v into a buffer with spare capacity holding slack.   *)
Encode ==
  /\ phase = "idle"
  /\ \E v \in Values(typ), slack \in BoundedSeq(Byte, MaxSlack) :
       /\ buf' = Enc(typ, v) \o slack
       /\ inLen' = Len(Enc(typ, v))
       /\ sent' = v
  /\ tampered' = "none"
  /\ result' = NoResult
  /\ phase' = "sent"
  /\ UNCHANGED <<typ, tkind, target>>

(* The input is cut to input[:len(input)-1]; the buffer is unchanged.      *)
Truncate ==
  /\ phase = "sent" /\ tampered = "none" /\ "truncate" \in Tampers
  /\ inLen > 0
  /\ inLen' = inLen - 1
  /\ tampered' = "truncate"
  /\ UNCHANGED <<typ, tkind, target, buf, sent, result, phase>>

(* append(input, x): written in place when the buffer has capacity left.   *)
Extend ==
  /\ phase = "sent" /\ tampered = "none" /\ "extend" \in Tampers
  /\ \E x \in Byte :
       buf' = IF inLen < Len(buf) THEN [buf EXCEPT ![inLen + 1] = x] ELSE Append(buf, x)
  /\ inLen' = inLen + 1
  /\ tampered' = "extend"
  /\ UNCHANGED <<typ, tkind, target, sent, result, phase>>

(* One byte of the input is overwritten.                                   *)
Corrupt ==
  /\ phase = "sent" /\ tampered = "none" /\ "corrupt" \in Tampers
  /\ \E i \in 1 .. inLen, x \in Byte :
       /\ x # buf[i]
       /\ buf' = [buf EXCEPT ![i] = x]
  /\ tampered' = "corrupt"
  /\ UNCHANGED <<typ, tkind, target, inLen, sent, result, phase>>

(* The caller decodes the input into its target; a panic ends the program. *)
Decode ==
  /\ phase = "sent"
  /\ LET r == DecodeCall(typ, tkind, buf, inLen, target)
     IN  /\ target' = r.v
         /\ result' = [st |-> r.st, n |-> r.n, hi |-> r.hi]
         /\ phase' = IF r.st = "panic" THEN "crashed" ELSE "idle"
  /\ UNCHANGED <<typ, tkind, buf, inLen, sent, tampered>>

Next == Encode \/ Truncate \/ Extend \/ Corrupt \/ Decode

Spec == Init /\ [][Next]_vars

-----------------------------------------------------------------------------
(* Properties.                                                             *)

Decoded == result # NoResult

TypeOK ==
  /\ typ \in Types /\ tkind \in TargetKinds
  /\ IsValue(typ, target) /\ IsValue(typ, sent)
  /\ buf \in Seq(Byte) /\ inLen \in 0 .. Len(buf)
  /\ tampered \in {"none", "truncate", "extend", "corrupt"}
  /\ result.st \in {"none", "ok", "err", "panic"} /\ result.n \in Nat /\ result.hi \in Nat
  /\ phase \in {"idle", "sent", "crashed"}

(* Round trip (spec 8.1): the untouched encoding of a value, decoded into  *)
(* a pointer target, succeeds and leaves the target equal to the value,   *)
(* whatever the target held from earlier calls; any other val is refused. *)
RoundTrip ==
  Decoded /\ tampered = "none" =>
    IF tkind = "ptr" THEN result.st = "ok" /\ target = sent ELSE result.st = "err"

(* A successful decode accepts only encodings: the target it leaves       *)
(* re-encodes to exactly the input bytes (so nothing of the input is       *)
(* ignored, invented or left over from the target's earlier contents).    *)
AcceptsOnlyEncodings ==
  Decoded /\ result.st = "ok" /\ tkind = "ptr" =>
    /\ ~(typ.k = "ptr" /\ target = Nil)
    /\ Enc(typ, target) = SubSeq(buf, 1, inLen)

(* Decoding reports malformed input as an error and never panics.          *)
NeverPanics == Decoded => result.st # "panic"

(* Truncation detection (spec 8.5): a proper prefix of an encoding is not  *)
(* decoded successfully.                                                   *)
TruncationDetected == Decoded /\ tampered = "truncate" => result.st # "ok"

(* Trailing bytes (spec 8.6): an encoding of a fixed-size type followed by *)
(* an extra byte is not decoded successfully.                              *)
TrailingBytesDetected ==
  Decoded /\ tampered = "extend" /\ IsFixedSize(typ) => result.st # "ok"

ReadsWithinInput == Decoded /\ result.st # "panic" => result.hi <= inLen

=============================================================================
