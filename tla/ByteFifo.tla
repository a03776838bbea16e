------------------------------ MODULE ByteFifo ------------------------------
(***************************************************************************)
(* What a connection's receive buffer promises: a bounded queue of bytes.  *)
(* put keeps the bytes that fit and drops the rest, get takes bytes off    *)
(* the front, pop drops one byte or, when the free-running counters of the *)
(* implementation have wrapped, none.                                      *)
(***************************************************************************)
EXTENDS Integers, Sequences

CONSTANTS
  Byte,     (* the values stored                *)
  Size,     (* capacity                         *)
  MaxPut    (* bound: bytes offered in one put  *)

VARIABLES
  content,  (* the bytes held, oldest first     *)
  taken     (* what the last get returned       *)

vars == <<content, taken>>

Smaller(a, b) == IF a < b THEN a ELSE b

Init == content = <<>> /\ taken = <<>>

Put(bytes) ==
  /\ content' = content \o SubSeq(bytes, 1, Smaller(Len(bytes), Size - Len(content)))
  /\ UNCHANGED taken

Get(n) ==
  /\ taken' = SubSeq(content, 1, Smaller(n, Len(content)))
  /\ content' = SubSeq(content, Smaller(n, Len(content)) + 1, Len(content))

Pop == content # <<>> /\ content' = Tail(content) /\ UNCHANGED taken

Offers == UNION {[1..n -> Byte] : n \in 1..MaxPut}

Next == (\E bytes \in Offers : Put(bytes)) \/ (\E n \in 1..Size : Get(n)) \/ Pop

Spec == Init /\ [][Next]_vars
=============================================================================
