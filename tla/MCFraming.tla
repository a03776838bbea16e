----------------------------- MODULE MCFraming -----------------------------
(***************************************************************************)
(* Small instances of Framing: a fifo of 16 bytes, and two short messages, *)
(* the second with 0xCE in its body.                                       *)
(***************************************************************************)
EXTENDS Framing

Packet(id, body) ==
  LET n == Len(body) + 7
      head == <<CE, 0, n>> \o id \o body
  IN  head \o <<protocol_checksum(head, 1, n - 2), CE>>

Plain    == Packet(<<128, 2>>, <<1>>)
Tricky   == Packet(<<128, 3>>, <<CE, 0>>)
Reserved == Packet(<<0, 255>>, <<1>>)

MCPackets      == {Plain, Tricky, Reserved}
MCPlainPackets == {Plain, Tricky}

(* A stray byte, and the first bytes of a message of ten.                  *)
MCNoise == {<<7>>, <<CE, 0, 10>>}
=============================================================================
