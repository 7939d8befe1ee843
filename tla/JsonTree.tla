------------------------------ MODULE JsonTree ------------------------------
(***************************************************************************)
(* JSON values as data, for what is computed from a value and does not     *)
(* change it.  A value is a record: its type and, by type, num, bool, str  *)
(* or members; members are records of a key and a value, those of an       *)
(* object newest first, as lz_kvmap lists them, and with the key <<>> in   *)
(* an array.  NullPtr is the NULL pointer, which may be a member as well.  *)
(***************************************************************************)
EXTENDS Integers, Sequences

NullPtr == [type |-> "none"]
Num(n) == [type |-> "number", num |-> n]
Str(s) == [type |-> "string", str |-> s]
Bool(b) == [type |-> "bool", bool |-> b]
Nil == [type |-> "null"]
Arr(vs) == [type |-> "array",
            members |-> [i \in DOMAIN vs |-> [key |-> <<>>, val |-> vs[i]]]]
Obj(ms) == [type |-> "object", members |-> ms]
Pairing(k, v) == [key |-> k, val |-> v]

Containers == {"array", "object"}
=============================================================================
