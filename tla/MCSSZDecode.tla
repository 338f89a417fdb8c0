----------------------------- MODULE MCSSZDecode ----------------------------
(***************************************************************************)
(* Instances of the decoder model for TLC: the type sets each run decodes *)
(* into.                                                                   *)
(***************************************************************************)
EXTENDS SSZDecode

U8  == Basic("uint8")
U16 == Basic("uint16")
U32 == Basic("uint32")
Bool == Basic("bool")

(* Types the decoder handles: every decoder of decode.go but the pointer  *)
(* and composite-slice ones, with both widths of byte collection.          *)
SupportedTypes ==
  { Bool, U16, U32,
    SliceOf(U8), ArrayOf(U8, 2),
    SliceOf(U16), ArrayOf(Bool, 2),
    StructOf(<<U8, U16>>), StructOf(<<Bool, Bool>>) }

(* A one-field struct and a byte array cut short: an empty struct input   *)
(* and a byte array shorter than its length.                               *)
EmptyStructTypes == {StructOf(<<U8>>)}
ByteArrayTypes   == {ArrayOf(U8, 2)}
TruncationTypes == {U16, StructOf(<<U8, U16>>)} \cup EmptyStructTypes \cup ByteArrayTypes
TrailingTypes   == {U8, ArrayOf(U16, 1)}
LengthTypes     == TruncationTypes \cup TrailingTypes
PtrTypes        == {PtrTo(U16)}
Int32Types      == {Basic("int32")}
SliceTypes      == {SliceOf(U16)}
EmptyInputTypes == {U8, Bool}
PanicTypes      == Int32Types \cup SliceTypes \cup EmptyInputTypes
StructTypes     == {StructOf(<<U8, U16>>)}
CompositeTypes  == {SliceOf(StructOf(<<U16, U16>>))}
LostTypes       == PtrTypes \cup CompositeTypes

AllTargetKinds == {"nil", "value", "nilptr", "ptr"}
PtrTarget      == {"ptr"}
=============================================================================
