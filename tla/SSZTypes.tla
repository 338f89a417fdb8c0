------------------------------ MODULE SSZTypes ------------------------------
(***************************************************************************)
(* The Go types the codec is asked to handle, as the reflect package sees *)
(* them, and the values a caller can hold in them.                         *)
(*                                                                         *)
(* A type is a record whose field k is its reflect.Kind.  Composite types *)
(* carry their element type (slice, array, pointer), their length (array) *)
(* or their ordered field types (struct).  A byte is a number in           *)
(* 0..ByteBase-1: ByteBase stands for 256, and a little-endian integer of  *)
(* w bytes ranges over 0..ByteBase^w-1, so that the byte <-> integer       *)
(* conversions stay bijections as they are in the code.                    *)
(***************************************************************************)
EXTENDS Naturals, Sequences, SequencesExt

CONSTANTS
  ByteBase,   \* number of distinct byte values (256 in the program)
  MaxElems,   \* longest slice value a caller holds
  Nil         \* the nil pointer

ASSUME ByteBase \in Nat /\ ByteBase >= 3   \* 0, 1 and a non-boolean byte
ASSUME MaxElems \in Nat

Byte == 0 .. ByteBase - 1

BasicKinds == {"bool", "uint8", "uint16", "uint32", "int32", "uint64"}

Basic(kind)      == [k |-> kind]
SliceOf(t)       == [k |-> "slice", elem |-> t]
ArrayOf(t, n)    == [k |-> "array", elem |-> t, n |-> n]
StructOf(fs)     == [k |-> "struct", fields |-> fs]
PtrTo(t)         == [k |-> "ptr", elem |-> t]

(* isBasicType: the kinds the codec treats as basic.                       *)
IsBasic(t) == t.k \in BasicKinds

(* basicElementSize(typ, kind): the width in bytes of a basic kind.        *)
BasicElementSize(t) ==
  CASE t.k \in {"bool", "uint8"}    -> 1
    [] t.k = "uint16"               -> 2
    [] t.k \in {"uint32", "int32"}  -> 4
    [] t.k = "uint64"               -> 8

(* A byte collection: []byte or [n]byte, decoded by copying bytes.        *)
IsByteSeq(t) == t.k \in {"slice", "array"} /\ t.elem.k = "uint8"

(***************************************************************************)
(* cachedSSZUtils(typ) succeeds iff makeDecoder succeeds for typ and,     *)
(* recursively, for every element and field type it looks up.            *)
(***************************************************************************)
RECURSIVE Supported(_)
Supported(t) ==
  CASE IsBasic(t)      -> TRUE
    [] IsByteSeq(t)    -> TRUE
    [] t.k = "slice"   -> Supported(t.elem)
    [] t.k = "array"   -> Supported(t.elem)
    [] t.k = "struct"  -> \A i \in DOMAIN t.fields : Supported(t.fields[i])
    [] t.k = "ptr"     -> Supported(t.elem)
    [] OTHER           -> FALSE

(* The classifier's fixed-size test (spec 3): basic kinds, arrays of a    *)
(* fixed-size element, structs of fixed-size fields, and what a pointer   *)
(* points to.                                                              *)
RECURSIVE IsFixedSize(_)
IsFixedSize(t) ==
  CASE IsBasic(t)      -> TRUE
    [] t.k = "array"   -> IsFixedSize(t.elem)
    [] t.k = "struct"  -> \A i \in DOMAIN t.fields : IsFixedSize(t.fields[i])
    [] t.k = "ptr"     -> IsFixedSize(t.elem)
    [] OTHER           -> FALSE

(* The zero value reflect.New / reflect.MakeSlice gives an element.        *)
RECURSIVE Zero(_)
Zero(t) ==
  CASE t.k = "bool"    -> FALSE
    [] IsBasic(t)      -> 0
    [] t.k = "slice"   -> <<>>
    [] t.k = "array"   -> [i \in 1 .. t.n |-> Zero(t.elem)]
    [] t.k = "struct"  -> [i \in DOMAIN t.fields |-> Zero(t.fields[i])]
    [] t.k = "ptr"     -> Nil
    [] OTHER           -> Nil

(* Every value a variable of type t can hold (the type invariant).         *)
RECURSIVE IsValue(_, _)
IsValue(t, v) ==
  CASE t.k = "bool"    -> v \in BOOLEAN
    [] IsBasic(t)      -> v \in 0 .. ByteBase ^ BasicElementSize(t) - 1
    [] t.k = "slice"   -> DOMAIN v = 1 .. Len(v) /\ \A i \in DOMAIN v : IsValue(t.elem, v[i])
    [] t.k = "array"   -> DOMAIN v = 1 .. t.n /\ \A i \in 1 .. t.n : IsValue(t.elem, v[i])
    [] t.k = "struct"  -> DOMAIN v = DOMAIN t.fields
                            /\ \A i \in DOMAIN v : IsValue(t.fields[i], v[i])
    [] t.k = "ptr"     -> v = Nil \/ (DOMAIN v = {1} /\ IsValue(t.elem, v[1]))
    [] OTHER           -> TRUE

(* The values a caller hands to the encoder: a small sample per type,     *)
(* with integers whose low and high bytes differ.                          *)
UintSample(t) ==
  {x \in {0, 1, ByteBase, ByteBase ^ BasicElementSize(t) - 1} :
      x < ByteBase ^ BasicElementSize(t)}

RECURSIVE Values(_)
Values(t) ==
  CASE t.k = "bool"    -> BOOLEAN
    [] t.k = "uint8"   -> Byte
    [] IsBasic(t)      -> UintSample(t)
    [] t.k = "slice"   -> BoundedSeq(Values(t.elem), MaxElems)
    [] t.k = "array"   -> [1 .. t.n -> Values(t.elem)]
    [] t.k = "struct"  -> LET vs == [i \in DOMAIN t.fields |-> Values(t.fields[i])]
                          IN  {f \in [DOMAIN t.fields -> UNION {vs[i] : i \in DOMAIN vs}] :
                                  \A i \in DOMAIN f : f[i] \in vs[i]}
    [] t.k = "ptr"     -> {<<x>> : x \in Values(t.elem)}
    [] OTHER           -> {}

=============================================================================
