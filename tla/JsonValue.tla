------------------------------ MODULE JsonValue -----------------------------
(***************************************************************************)
(* Decoded JSON.  A number is given in halves: Num(3) is 1.5.  Strings(q)   *)
(* is a Go []string, which the code tells from a decoded list.              *)
(***************************************************************************)

Null == [kind |-> "null"]
Bool(b) == [kind |-> "bool", b |-> b]
Num(n) == [kind |-> "num", n |-> n]
Str(s) == [kind |-> "str", s |-> s]
List(q) == [kind |-> "list", q |-> q]
Strings(q) == [kind |-> "strings", q |-> q]
Map(m) == [kind |-> "map", m |-> m]
=============================================================================
