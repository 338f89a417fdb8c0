-------------------------- MODULE MCBeaconStateRoot --------------------------
(***************************************************************************)
(* The beacon states StateRoot is checked on: the all-zero state, and      *)
(* every state that differs from it in one place, recursively: one       *)
(* integer, one byte of a root or key, one element of a vector, a list    *)
(* with one element, a full list and a list one over its limit, and       *)
(* bitlists empty, of one bit, full of ones, full with trailing zero     *)
(* bytes, and one over capacity.                                           *)
(***************************************************************************)
EXTENDS BeaconStateRoot

RECURSIVE Default(_)
Default(t) ==
  CASE t.k = "uint64"    -> 0
    [] t.k = "bool"      -> FALSE
    [] t.k = "bytevec"   -> Zeros(t.n)
    [] t.k = "vector"    -> [i \in 1 .. t.n |-> Default(t.elem)]
    [] t.k = "list"      -> <<>>
    [] t.k = "bitlist"   -> <<>>
    [] t.k = "container" -> [f \in Range(t.names) |-> Default(t.types[CHOOSE i \in DOMAIN t.names : t.names[i] = f])]

(* 8 is the integer whose low and high bytes differ from 0's.              *)
RECURSIVE Variants(_)
Variants(t) ==
  CASE t.k = "uint64"    -> {0, ByteBase}
    [] t.k = "bool"      -> BOOLEAN
    [] t.k = "bytevec"   -> {Zeros(t.n), [Zeros(t.n) EXCEPT ![1] = 1], [Zeros(t.n) EXCEPT ![t.n] = 1]}
    [] t.k = "vector"    -> {[Default(t) EXCEPT ![j] = x] : j \in {1, t.n}, x \in Variants(t.elem)}
    [] t.k = "list"      -> {<<>>} \cup {<<x>> : x \in Variants(t.elem)}
                              \cup {[i \in 1 .. n |-> Default(t.elem)] : n \in {t.max, t.max + 1}}
    [] t.k = "bitlist"   -> {<<>>, <<1>>, [i \in 1 .. t.max |-> 1], [i \in 1 .. t.max + 1 |-> 1],
                             [i \in 1 .. t.max |-> IF i = 1 THEN 1 ELSE 0],
                             [i \in 1 .. t.max + 1 |-> IF i = 1 THEN 1 ELSE 0]}
    [] t.k = "container" ->
         {Default(t)} \cup
         UNION {{[Default(t) EXCEPT ![t.names[i]] = x] : x \in Variants(t.types[i])} : i \in DOMAIN t.names}

MCStates == Variants(BeaconStateT)

(* States a protobuf message can hold that are not values of the schema:  *)
(* one slashing more than the vector's length, one block root fewer, and  *)
(* a finalized checkpoint whose root is one byte short.                    *)
MalformedStates ==
  LET d == Default(BeaconStateT)
  IN  { [d EXCEPT !.slashings = Append(@, ByteBase)],
        [d EXCEPT !.blockRoots = Front(@)],
        [d EXCEPT !.finalizedCheckpoint.root = Front(@)] }
=============================================================================
