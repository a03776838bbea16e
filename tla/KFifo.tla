------------------------------- MODULE KFifo -------------------------------
(***************************************************************************)
(* The receive buffer of a connection (kfifo.c): a ring of Size bytes and  *)
(* two free-running counters of fixed width, in and out, that are reduced  *)
(* to positions in the ring with a mask.  Modulus is 2 to the width of     *)
(* unsigned int and Size a power of two, so that Size divides Modulus.     *)
(*                                                                         *)
(* The operators on a fifo are used by module Framing too.                 *)
(***************************************************************************)
EXTENDS Integers, Sequences

CONSTANTS
  Byte,     (* the values stored                *)
  Size,     (* fifo->size: 1024                 *)
  Modulus,  (* 2^32                             *)
  MaxPut    (* bound: bytes offered in one put  *)

ASSUME FifoAssumption ==
  /\ Size \in Nat \ {0} /\ Modulus \in Nat \ {0}
  /\ Modulus % Size = 0 /\ Size < Modulus
  /\ MaxPut \in Nat
  /\ 0 \in Byte

VARIABLES
  fifo,     (* [buffer, in, out]                *)
  taken     (* what the last kfifo_get copied   *)

vars == <<fifo, taken>>

Smaller(a, b) == IF a < b THEN a ELSE b

(* kfifo_init; the bytes of a fresh buffer are never looked at.            *)
Empty == [buffer |-> [k \in 0..Size-1 |-> 0], in |-> 0, out |-> 0]

Used(f) == (f.in - f.out) % Modulus
Free(f) == (Size - f.in + f.out) % Modulus

(* kfifo_getahead: the first n bytes, or all there are.                    *)
Ahead(f, n) ==
  [j \in 1..Smaller(n, Used(f)) |-> f.buffer[(f.out + j - 1) % Size]]

(* kfifo_put: copies in one or two pieces.                                 *)
AfterPut(f, bytes) ==
  LET len == Smaller(Len(bytes), Free(f))
  IN  [f EXCEPT !.in = (f.in + len) % Modulus,
                !.buffer = [k \in 0..Size-1 |->
                              IF (k - f.in) % Size < len
                                THEN bytes[((k - f.in) % Size) + 1]
                                ELSE f.buffer[k]]]

(* kfifo_get, apart from the copy it hands out.                            *)
AfterGet(f, n) == [f EXCEPT !.out = (f.out + Smaller(n, Used(f))) % Modulus]

(* n calls of kfifo_pop, each of which compares in with out as numbers.    *)
AfterPops(f, n) ==
  IF f.in > f.out THEN [f EXCEPT !.out = Smaller(f.out + n, f.in)] ELSE f

-----------------------------------------------------------------------------
(* Faults that would break the buffer; no specification uses them.         *)

(* The free space is not looked at.                                        *)
PutOverwrites(bytes) ==
  /\ fifo' = [fifo EXCEPT !.in = (fifo.in + Len(bytes)) % Modulus,
                          !.buffer = [k \in 0..Size-1 |->
                            IF (k - fifo.in) % Size < Len(bytes)
                              THEN bytes[((k - fifo.in) % Size) + 1]
                              ELSE fifo.buffer[k]]]
  /\ UNCHANGED taken

(* out is advanced by what was asked for instead of what was there.        *)
GetOverruns(n) ==
  /\ taken' = Ahead(fifo, n)
  /\ fifo' = [fifo EXCEPT !.out = (fifo.out + n) % Modulus]

-----------------------------------------------------------------------------
Init == fifo = Empty /\ taken = <<>>

Put(bytes) == fifo' = AfterPut(fifo, bytes) /\ UNCHANGED taken

Get(n) == taken' = Ahead(fifo, n) /\ fifo' = AfterGet(fifo, n)

Pop == fifo' = AfterPops(fifo, 1) /\ UNCHANGED taken

Offers == UNION {[1..n -> Byte] : n \in 1..MaxPut}

Next == (\E bytes \in Offers : Put(bytes)) \/ (\E n \in 1..Size : Get(n)) \/ Pop

Spec == Init /\ [][Next]_vars

-----------------------------------------------------------------------------
(* The counters stay within their width and never further apart than the   *)
(* ring is long, so no byte is overwritten before it was read and a reader *)
(* is never shown bytes from before the ones it has taken.                 *)
CountersOK ==
  /\ fifo.in \in 0..Modulus-1 /\ fifo.out \in 0..Modulus-1
  /\ Used(fifo) <= Size
  /\ Free(fifo) = Size - Used(fifo)

(* The ring with its wrapping counters behaves as a bounded queue of bytes *)
(* also while in has wrapped round and out has not.                        *)
BF == INSTANCE ByteFifo WITH content <- Ahead(fifo, Size)
ImplementsByteFifo == BF!Spec
=============================================================================
