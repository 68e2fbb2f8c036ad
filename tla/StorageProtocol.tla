-------------------------- MODULE StorageProtocol --------------------------
(***************************************************************************)
(* Storage envelopes for user values: what encodeValue accepts and what    *)
(* decodeValue makes of it (src/StorageProtocol.ts).  A value is an        *)
(* object graph, because the code walks references: two cells, the first   *)
(* one the root, either of which may refer to itself or to the other.      *)
(* Text, base64 and the layout of MessagePack are left out: an envelope is *)
(* the tuple that is packed, its value the tree that the packer writes.    *)
(***************************************************************************)
EXTENDS Naturals, Sequences, FiniteSets

CONSTANTS
    Plain,          \* null, strings, booleans and safe numbers, by what tells them apart
    BuiltIn,        \* those that are errors with one of EffectMQ's own tags
    MaxValueBytes,  \* limits.maxValueBytes, a cell being one byte
    MaxKids         \* bound: entries of an array or an object

ASSUME StorageAssumption ==
    /\ BuiltIn \subseteq Plain
    /\ MaxValueBytes \in Nat /\ MaxKids \in Nat
    /\ Plain \cap {"bytes", "undefined", "foreign", "buffer", "array", "object", "map"} = {}

-----------------------------------------------------------------------------
\* Values: "foreign" stands for whatever validate refuses where it meets it
\* (unsafe numbers, -0, bigint, functions, class instances, symbol keys,
\* accessors, sparse arrays).

Nodes == {1, 2}
Leaves == Plain \cup {"bytes", "undefined", "foreign"}
Composites == {"array", "object"}
Lists == UNION {[1..n -> Nodes] : n \in 0..MaxKids}
Cells == [kind : Leaves, kids : {<<>>}] \cup [kind : Composites, kids : Lists]

Leaf(k) == [n \in Nodes |-> [kind |-> k, kids |-> <<>>]]

Kids(v, n) == {v[n].kids[i] : i \in DOMAIN v[n].kids}

\* A cell that the root does not reach is the root's copy, whatever it is.
Values ==
    {Leaf(k) : k \in Leaves}
      \cup {v \in [Nodes -> Cells] :
              v[1].kind \in Composites /\ (2 \in Kids(v, 1) \/ v[2] = v[1])}

Kinds == {"payload", "success", "failure"}

-----------------------------------------------------------------------------
(***************************************************************************)
(* validate: seen holds the objects on the path to this one, so that a     *)
(* shared object is accepted and a cyclic one is not.                      *)
(***************************************************************************)
RECURSIVE Valid(_, _, _, _)
Valid(v, n, seen, voidRoot) ==
    CASE v[n].kind = "undefined" -> voidRoot /\ seen = {}
      [] v[n].kind \in Plain \cup {"bytes"} -> TRUE
      [] v[n].kind = "foreign" -> FALSE
      [] OTHER -> n \notin seen /\ \A m \in Kids(v, n) : Valid(v, m, seen \cup {n}, FALSE)

\* What the packer writes for a value without cycles: shared objects are
\* written once for each reference to them, bytes as a binary, objects as maps.
RECURSIVE Packed(_, _)
Packed(v, n) ==
    [kind |-> CASE v[n].kind = "object" -> "map" [] v[n].kind = "bytes" -> "buffer"
                [] OTHER -> v[n].kind,
     kids |-> [i \in DOMAIN v[n].kids |-> Packed(v, v[n].kids[i])]]

RECURSIVE Size(_)
Size(t) ==
    LET up[i \in 0..Len(t.kids)] == IF i = 0 THEN 1 ELSE up[i - 1] + Size(t.kids[i])
    IN up[Len(t.kids)]

\* normalizeDecoded: binaries become Uint8Array again and maps plain objects.
Normal(k) == CASE k = "map" -> "object" [] k = "buffer" -> "bytes" [] OTHER -> k

RECURSIVE Normalized(_)
Normalized(t) == [kind |-> Normal(t.kind), kids |-> [i \in DOMAIN t.kids |-> Normalized(t.kids[i])]]

\* validate again, on what was read: a tree has no cycles.
RECURSIVE ValidTree(_, _)
ValidTree(t, voidRoot) ==
    /\ t.kind = "undefined" => voidRoot
    /\ t.kind \in (Leaves \cup Composites) \ {"foreign"}
    /\ \A i \in DOMAIN t.kids : ValidTree(t.kids[i], FALSE)

Unsupported == [error |-> "UnsupportedStorageValue"]
LimitExceeded == [error |-> "StorageLimitExceeded"]
Mismatch == [error |-> "SchemaIdentityMismatch"]
Corrupt == [error |-> "CorruptStorageValue"]

Failed(x) == "error" \in DOMAIN x

Encode(schemaId, kind, v) ==
    IF ~Valid(v, 1, {}, kind = "success") THEN Unsupported
    ELSE IF Size(Packed(v, 1)) > MaxValueBytes THEN LimitExceeded
    ELSE [schemaId |-> schemaId, kind |-> kind, value |-> Packed(v, 1)]

\* The version is always one that can be read: no other has been written yet.
Decode(envelope, schemaId, kind) ==
    IF envelope.schemaId # schemaId THEN Mismatch
    ELSE IF envelope.kind # kind THEN Corrupt
    ELSE IF ~ValidTree(Normalized(envelope.value), kind = "success") THEN Corrupt
    ELSE Normalized(envelope.value)

-----------------------------------------------------------------------------
(***************************************************************************)
(* The documentation's domain, stated without the code's walk: the cells   *)
(* that a value reaches are storable, and none of them reaches itself.     *)
(***************************************************************************)
Reached(v, n) == Kids(v, n) \cup UNION {Kids(v, m) : m \in Kids(v, n)}

Storable(v, kind) ==
    \/ v = Leaf("undefined") /\ kind = "success"
    \/ \A n \in {1} \cup Reached(v, 1) :
         v[n].kind \in Plain \cup {"bytes"} \cup Composites /\ n \notin Reached(v, n)

\* The value itself, read along its references.
RECURSIVE Meaning(_, _)
Meaning(v, n) == [kind |-> v[n].kind, kids |-> [i \in DOMAIN v[n].kids |-> Meaning(v, v[n].kids[i])]]

=============================================================================
