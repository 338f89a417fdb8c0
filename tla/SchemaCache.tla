----------------------------- MODULE SchemaCache -----------------------------
(***************************************************************************)
(* The process-wide decoder cache that Decode consults (decode.go:38) and  *)
(* that makeDecoder's element decoders consult for their element and      *)
(* field types, with several goroutines decoding at once.                  *)
(*                                                                         *)
(* What each build looks up, in which order, and how its errors propagate *)
(* is translated from makeDecoder and the make*Decoder functions of        *)
(* decode.go.  The cache functions themselves (cachedSSZUtils,             *)
(* cachedSSZUtilsNoAcquireLock) are not among the sources; their locking   *)
(* is the discipline of spec 4.1 and 5: a lookup reads the map under the   *)
(* shared lock and releases it; on a miss the descriptor is built with no  *)
(* lock held, its sub-types looked up the same way; the exclusive lock is *)
(* taken only to publish, and a goroutine that finds the type already     *)
(* published discards its own build.  A type found on the goroutine's own *)
(* build stack is recursive and fails (spec 9); errors are not cached     *)
(* (spec 7).                                                               *)
(*                                                                         *)
(* A type is a name; Schema gives its reflect kind and the element or     *)
(* field types makeDecoder looks up for it, so recursive types exist.     *)
(***************************************************************************)
EXTENDS Naturals, Sequences, SequencesExt, FiniteSets

CONSTANTS
  Threads,   \* the goroutines calling Decode
  Types,     \* type names
  Schema,    \* Schema[t]: [k |-> kind] with elem (slice, array, ptr) or fields (struct)
  Targets    \* the types a goroutine decodes into

ASSUME Targets \subseteq Types

VARIABLES
  cache,     \* the published descriptors: a function from types to descriptor ids
  readers,   \* goroutines holding the shared lock
  writer,    \* the goroutine holding the exclusive lock ({} or one goroutine)
  target,    \* target[th]: the type th's Decode call asks for
  want,      \* want[th]: the type th is looking up
  stack,     \* stack[th]: the builds th has in progress, innermost last
  result,    \* result[th]: what th's last lookup returned
  pc         \* pc[th]: "rlock", "read", "build", "wlock", "publish", "return", "done"

vars == <<cache, readers, writer, target, want, stack, result, pc>>

(* A descriptor is identified by the goroutine that built it and its type.*)
Ok(d)    == [ok |-> TRUE, d |-> d]
Err(e)   == [ok |-> FALSE, err |-> e]
NoResult == Err("none")

(* The types makeDecoder(t) looks up, in order: none for the basic kinds  *)
(* and the byte collections; the element type of a slice                   *)
(* (makeBasicSliceDecoder, makeCompositeSliceDecoder), an array            *)
(* (makeArrayDecoder) or a pointer (makePtrDecoder); the field types of a  *)
(* struct (structFields in makeStructDecoder).                             *)
Deps(t) ==
  CASE Schema[t].k \in {"basic", "bytes", "other"}  -> <<>>
    [] Schema[t].k \in {"slice", "array", "ptr"}    -> <<Schema[t].elem>>
    [] Schema[t].k = "struct"                       -> Schema[t].fields

OnStack(th, t) == \E k \in DOMAIN stack[th] : stack[th][k].t = t

Top(th) == stack[th][Len(stack[th])]

Init ==
  /\ cache = <<>>
  /\ readers = {} /\ writer = {}
  /\ target \in [Threads -> Targets]
  /\ want = target
  /\ stack = [th \in Threads |-> <<>>]
  /\ result = [th \in Threads |-> NoResult]
  /\ pc = [th \in Threads |-> "rlock"]

(* The shared lock is granted while no goroutine holds the exclusive one. *)
RLock(th) ==
  /\ pc[th] = "rlock" /\ writer = {}
  /\ readers' = readers \cup {th}
  /\ pc' = [pc EXCEPT ![th] = "read"]
  /\ UNCHANGED <<cache, writer, target, want, stack, result>>

(* Mutant: the shared lock held across the build of a missing type, to be *)
(* released after publishing.                                              *)
ReadHoldingLock(th) ==
  /\ pc[th] = "read"
  /\ CASE want[th] \in DOMAIN cache ->
            readers' = readers \ {th} /\ result' = [result EXCEPT ![th] = Ok(cache[want[th]])]
            /\ pc' = [pc EXCEPT ![th] = "return"] /\ UNCHANGED stack
       [] OnStack(th, want[th]) ->
            readers' = readers \ {th} /\ result' = [result EXCEPT ![th] = Err("recursive")]
            /\ pc' = [pc EXCEPT ![th] = "return"] /\ UNCHANGED stack
       [] OTHER ->
            stack' = [stack EXCEPT ![th] = Append(@, [t |-> want[th], next |-> 1])]
            /\ pc' = [pc EXCEPT ![th] = "build"] /\ UNCHANGED <<readers, result>>
  /\ UNCHANGED <<cache, writer, target, want>>

(* Mutant: no check for a type already being built by this goroutine.    *)
ReadNoCycleCheck(th) ==
  /\ pc[th] = "read"
  /\ readers' = readers \ {th}
  /\ IF want[th] \in DOMAIN cache
       THEN result' = [result EXCEPT ![th] = Ok(cache[want[th]])]
            /\ pc' = [pc EXCEPT ![th] = "return"] /\ UNCHANGED stack
       ELSE stack' = [stack EXCEPT ![th] = Append(@, [t |-> want[th], next |-> 1])]
            /\ pc' = [pc EXCEPT ![th] = "build"] /\ UNCHANGED result
  /\ UNCHANGED <<cache, writer, target, want>>

(* The map read under the shared lock, then RUnlock.  A hit returns the   *)
(* published descriptor; a type already on this goroutine's build stack   *)
(* is recursive; otherwise the build of the type starts.                  *)
Read(th) ==
  /\ pc[th] = "read"
  /\ readers' = readers \ {th}
  /\ CASE want[th] \in DOMAIN cache ->
            result' = [result EXCEPT ![th] = Ok(cache[want[th]])]
            /\ pc' = [pc EXCEPT ![th] = "return"] /\ UNCHANGED stack
       [] OnStack(th, want[th]) ->
            result' = [result EXCEPT ![th] = Err("recursive")]
            /\ pc' = [pc EXCEPT ![th] = "return"] /\ UNCHANGED stack
       [] OTHER ->
            stack' = [stack EXCEPT ![th] = Append(@, [t |-> want[th], next |-> 1])]
            /\ pc' = [pc EXCEPT ![th] = "build"] /\ UNCHANGED result
  /\ UNCHANGED <<cache, writer, target, want>>

(* makeDecoder(t): the default case fails (the type is not deserializable);*)
(* otherwise the next element or field type is looked up, and when all    *)
(* have been the descriptor is ready to publish.                           *)
Build(th) ==
  /\ pc[th] = "build"
  /\ LET f == Top(th) IN
     CASE Schema[f.t].k = "other" ->
            stack' = [stack EXCEPT ![th] = Front(@)]
            /\ result' = [result EXCEPT ![th] = Err("unsupported")]
            /\ pc' = [pc EXCEPT ![th] = "return"] /\ UNCHANGED want
       [] f.next <= Len(Deps(f.t)) ->
            want' = [want EXCEPT ![th] = Deps(f.t)[f.next]]
            /\ pc' = [pc EXCEPT ![th] = "rlock"] /\ UNCHANGED <<stack, result>>
       [] OTHER ->
            pc' = [pc EXCEPT ![th] = "wlock"] /\ UNCHANGED <<stack, result, want>>
  /\ UNCHANGED <<cache, readers, writer, target>>

(* The exclusive lock is granted while no goroutine holds either lock.    *)
WLock(th) ==
  /\ pc[th] = "wlock" /\ writer = {} /\ readers = {}
  /\ writer' = {th}
  /\ pc' = [pc EXCEPT ![th] = "publish"]
  /\ UNCHANGED <<cache, readers, target, want, stack, result>>

(* Mutant: the descriptor stored without checking for a concurrent        *)
(* publish of the same type.                                               *)
PublishOverwrite(th) ==
  /\ pc[th] = "publish"
  /\ LET t == Top(th).t  d == <<th, t>>
     IN  /\ cache' = [u \in DOMAIN cache \cup {t} |-> IF u = t THEN d ELSE cache[u]]
         /\ result' = [result EXCEPT ![th] = Ok(d)]
  /\ writer' = {}
  /\ stack' = [stack EXCEPT ![th] = Front(@)]
  /\ pc' = [pc EXCEPT ![th] = "return"]
  /\ UNCHANGED <<readers, target, want>>

(* Under the exclusive lock: if another goroutine published the type      *)
(* meanwhile, its descriptor is returned and this build discarded;        *)
(* otherwise this build is published.  Then Unlock.                       *)
Publish(th) ==
  /\ pc[th] = "publish"
  /\ LET t == Top(th).t  d == <<th, t>>
     IN  IF t \in DOMAIN cache
           THEN result' = [result EXCEPT ![th] = Ok(cache[t])] /\ UNCHANGED cache
           ELSE cache' = cache @@ (t :> d) /\ result' = [result EXCEPT ![th] = Ok(d)]
  /\ writer' = {}
  /\ stack' = [stack EXCEPT ![th] = Front(@)]
  /\ pc' = [pc EXCEPT ![th] = "return"]
  /\ UNCHANGED <<readers, target, want>>

(* Mutant: a make*Decoder that ignores the error of its element lookup.   *)
ReturnIgnoringError(th) ==
  /\ pc[th] = "return"
  /\ IF stack[th] = <<>>
       THEN pc' = [pc EXCEPT ![th] = "done"] /\ UNCHANGED stack
       ELSE stack' = [stack EXCEPT ![th][Len(stack[th])].next = @ + 1]
            /\ pc' = [pc EXCEPT ![th] = "build"]
  /\ UNCHANGED <<cache, readers, writer, target, want, result>>

(* A lookup returns to the build that made it.  With no build left it is  *)
(* Decode's own lookup, whose error Decode returns (decode.go:39-41).     *)
(* An error ends the enclosing build, which returns it in turn            *)
(* (`if err != nil { return nil, err }` after each element lookup); a     *)
(* descriptor lets the build go on to its next element or field type.     *)
Return(th) ==
  /\ pc[th] = "return"
  /\ CASE stack[th] = <<>> ->
            pc' = [pc EXCEPT ![th] = "done"] /\ UNCHANGED stack
       [] result[th].ok ->
            stack' = [stack EXCEPT ![th][Len(stack[th])].next = @ + 1]
            /\ pc' = [pc EXCEPT ![th] = "build"]
       [] OTHER ->
            stack' = [stack EXCEPT ![th] = Front(@)] /\ UNCHANGED pc
  /\ UNCHANGED <<cache, readers, writer, target, want, result>>

Step(th) == RLock(th) \/ Read(th) \/ Build(th) \/ WLock(th) \/ Publish(th) \/ Return(th)

Next == \E th \in Threads : Step(th)

(* A goroutine inside a Decode call is runnable until it blocks on a lock; *)
(* Go's RWMutex does not bypass a blocked locker forever (a pending Lock   *)
(* holds back new readers; a starving waiter is handed the lock), so each *)
(* goroutine is strongly fair.                                             *)
Fairness == \A th \in Threads : SF_vars(Step(th))

Spec == Init /\ [][Next]_vars /\ Fairness

-----------------------------------------------------------------------------
(* The reference classification: t can be decoded iff makeDecoder accepts *)
(* it and every type it looks up, without reaching t again (spec 9).      *)
RECURSIVE DecodableFrom(_, _)
DecodableFrom(t, seen) ==
  /\ t \notin seen
  /\ Schema[t].k # "other"
  /\ \A k \in DOMAIN Deps(t) : DecodableFrom(Deps(t)[k], seen \cup {t})

Decodable(t) == DecodableFrom(t, {})

(* The build stack never holds more builds than there are types: the      *)
(* recursion of makeDecoder through the cache ends.                        *)
TypeOK ==
  /\ \A t \in DOMAIN cache : t \in Types /\ cache[t] \in Threads \X Types
  /\ readers \subseteq Threads /\ writer \subseteq Threads /\ Cardinality(writer) <= 1
  /\ \A th \in Threads : Len(stack[th]) <= Cardinality(Types)
  /\ pc \in [Threads -> {"rlock", "read", "build", "wlock", "publish", "return", "done"}]

(* Concurrent first builds of one type yield one descriptor: a goroutine  *)
(* whose Decode got a descriptor holds the one in the cache, whoever built *)
(* it and whichever goroutine lost the race to publish.                    *)
SharedDescriptor ==
  \A th \in Threads : pc[th] = "done" /\ result[th].ok => result[th].d = cache[target[th]]

(* Every Decode call's lookup succeeds exactly for the types that can be  *)
(* decoded: an element or field type that fails, or a type that reaches   *)
(* itself, fails the lookup, whatever other goroutines have cached.        *)
ResultIsClassification ==
  \A th \in Threads : pc[th] = "done" => (result[th].ok <=> Decodable(target[th]))

(* Every goroutine's Decode call gets past its lookup: no goroutine waits *)
(* forever on the cache's locks, and no build recurses forever.            *)
AllLookupsReturn == <>(\A th \in Threads : pc[th] = "done")

=============================================================================
