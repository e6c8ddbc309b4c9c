------------------------------- MODULE Calls -------------------------------
(***************************************************************************)
(* A call of an installer as data: what has to be there for it to succeed  *)
(* (needs), what must not be there (without), what it takes away (drops)   *)
(* and what it leaves behind (makes). A machine or a cluster is the set of *)
(* the facts that hold of it.                                              *)
(***************************************************************************)
EXTENDS Sequences, Naturals

Call(name, needs, makes) ==
    [name |-> name, needs |-> needs, without |-> {}, drops |-> {}, makes |-> makes]

Replacing(call, drops) == [call EXCEPT !.drops = drops]
Once(call, without) == [call EXCEPT !.without = without]

After(f, call) == (f \ call.drops) \cup call.makes
Possible(f, call) == call.needs \subseteq f /\ call.without \cap f = {}
=============================================================================
