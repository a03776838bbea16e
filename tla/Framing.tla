------------------------------ MODULE Framing ------------------------------
(***************************************************************************)
(* How the commands of a phone or of the server are cut out of the byte    *)
(* stream of a connection: event_recvmsg puts what read() returned in the  *)
(* connection's fifo and calls protocol_check until it finds no further    *)
(* message.                                                                *)
(*                                                                         *)
(* A message is 0xCE, its length in two bytes, its id in two bytes, a      *)
(* body, the xor of all bytes before it, and 0xCE.  protocol_check looks   *)
(* at a copy of the fifo and pops the bytes that cannot start a message.   *)
(*                                                                         *)
(* The peer and the network are the environment: whatever is on its way    *)
(* may arrive in pieces of any size, and there may be bytes that belong to *)
(* no message, for instance the beginning of one that was never completed. *)
(***************************************************************************)
EXTENDS Integers, Sequences, SequencesExt, FiniteSetsExt

CONSTANTS
  Packets,   (* the messages the peer sends                               *)
  Noise,     (* other byte sequences it sends                             *)
  Size,      (* capacity of the fifo, BUFLEN, and the most a read returns *)
  Modulus,   (* 2^32                                                      *)
  MinLen,    (* 8: the shortest length protocol_check accepts             *)
  MaxLen,    (* 2048: the longest                                         *)
  MaxBurst,  (* bound: bytes sent and not yet dealt with                  *)
  MaxSends   (* bound: sends of the peer                                  *)

ASSUME FramingAssumption ==
  /\ Size \in Nat \ {0} /\ Modulus \in Nat \ {0}
  /\ Modulus % Size = 0 /\ Size < Modulus
  /\ MinLen \in Nat /\ MinLen >= 8 /\ MaxLen \in Nat
  /\ MaxBurst \in Nat /\ MaxSends \in Nat

VARIABLES
  inbox,     (* bytes that read() has not returned yet                    *)
  fifo,      (* c->rawfifo                                                *)
  pc,        (* "read": in epoll_wait or read; "check": in the for(;;)    *)
  delivered, (* messages handed to the switch, in order                   *)
  stream,    (* history: all bytes sent                                   *)
  sent,      (* history: [at, bytes] of the packets in stream             *)
  sends      (* how much of MaxSends is used                              *)

vars == <<inbox, fifo, pc, delivered, stream, sent, sends>>

Byte == 0..255
CE == 206
ILLEGAL == 0
HALFPACK == 255

K == INSTANCE KFifo WITH MaxPut <- Size, taken <- delivered

Word(b, i) == 256 * b[i] + b[i + 1]

(* The ^ of two bytes, bit by bit, and of all bytes of a sequence.         *)
Xor(x, y) ==
  LET bit(k) == ((x \div k + y \div k) % 2) * k
  IN  bit(1) + bit(2) + bit(4) + bit(8) + bit(16) + bit(32) + bit(64) + bit(128)
XorAll(bytes) == FoldLeft(Xor, 0, bytes)

protocol_checksum(b, i, n) == XorAll(SubSeq(b, i, i + n - 1))

(* What protocol_check concludes with pbuf at byte i of the copy b.        *)
Verdict(b, i) ==
  LET rest == Len(b) - i + 1
      messagelen == Word(b, i + 1)
  IN  IF b[i] # CE THEN "skip"
      ELSE IF rest <= 2 THEN "half"
      ELSE IF messagelen < MinLen \/ messagelen > MaxLen THEN "skip"
      ELSE IF messagelen > rest THEN "half"
      ELSE IF /\ protocol_checksum(b, i, messagelen - 2) = b[i + messagelen - 2]
              /\ b[i + messagelen - 1] = CE
             THEN "message" ELSE "skip"

(* What the peer sends as a packet is a message, and nothing but it.       *)
ASSUME PeerAssumption ==
  /\ \A p \in Packets :
       p \in Seq(Byte) /\ Word(p, 2) = Len(p) /\ Verdict(p, 1) = "message"
  /\ \A bytes \in Noise : bytes \in Seq(Byte)

(* The position where its loop ends; behind the copy if every byte is      *)
(* skipped.                                                                *)
StopAt(b) == Min({i \in 1..Len(b) : Verdict(b, i) # "skip"} \cup {Len(b) + 1})

Content == K!Ahead(fifo, Size)

(* protocol_check found a message whose id is neither of its two codes for *)
(* "no message".                                                           *)
Found(b) ==
  LET i == StopAt(b)
  IN  /\ i <= Len(b)
      /\ Verdict(b, i) = "message"
      /\ Word(b, i + 3) \notin {ILLEGAL, HALFPACK}

Init ==
  /\ inbox = <<>> /\ fifo = K!Empty /\ pc = "read"
  /\ delivered = <<>> /\ stream = <<>> /\ sent = <<>> /\ sends = 0

-----------------------------------------------------------------------------
(* Faults that would break the framing; no specification uses them.        *)

(* Only one message is looked for in what a read returned.                 *)
DeliverOnce ==
  /\ pc = "check" /\ Found(Content)
  /\ LET i == StopAt(Content)
         n == Word(Content, i + 1)
         popped == K!AfterPops(fifo, i - 1)
     IN  /\ delivered' = Append(delivered, K!Ahead(popped, n))
         /\ fifo' = K!AfterGet(popped, n)
  /\ pc' = "read"
  /\ UNCHANGED <<inbox, stream, sent, sends>>

(* The bytes in front of the message are not popped.                       *)
DeliverUnpopped ==
  /\ pc = "check" /\ Found(Content)
  /\ LET n == Word(Content, StopAt(Content) + 1)
     IN  /\ delivered' = Append(delivered, K!Ahead(fifo, n))
         /\ fifo' = K!AfterGet(fifo, n)
  /\ UNCHANGED <<inbox, pc, stream, sent, sends>>

(* out is advanced past in.                                                *)
DeliverOverrun ==
  /\ pc = "check" /\ Found(Content)
  /\ LET i == StopAt(Content)
         n == Word(Content, i + 1)
     IN  /\ delivered' = Append(delivered, SubSeq(Content, i, i + n - 1))
         /\ fifo' = [fifo EXCEPT !.out = (fifo.out + i + n) % Modulus]
  /\ UNCHANGED <<inbox, pc, stream, sent, sends>>

-----------------------------------------------------------------------------
(* The peer *)

Send(bytes) ==
  /\ sends < MaxSends
  /\ Len(inbox) + Len(Content) + Len(bytes) <= MaxBurst
  /\ sends' = sends + 1
  /\ inbox' = inbox \o bytes
  /\ stream' = stream \o bytes
  /\ sent' = IF bytes \in Packets
               THEN Append(sent, [at |-> Len(stream), bytes |-> bytes])
               ELSE sent
  /\ UNCHANGED <<fifo, pc, delivered>>

-----------------------------------------------------------------------------
(* The main thread *)

(* read() and connection_put, which keeps only what fits.                  *)
Receive(n) ==
  /\ pc = "read"
  /\ n <= Len(inbox)
  /\ fifo' = K!AfterPut(fifo, SubSeq(inbox, 1, n))
  /\ inbox' = SubSeq(inbox, n + 1, Len(inbox))
  /\ pc' = "check"
  /\ UNCHANGED <<delivered, stream, sent, sends>>

(* protocol_check, connection_get and the switch, once round the loop.     *)
Deliver ==
  /\ pc = "check" /\ Found(Content)
  /\ LET i == StopAt(Content)
         n == Word(Content, i + 1)
         popped == K!AfterPops(fifo, i - 1)
     IN  /\ delivered' = Append(delivered, K!Ahead(popped, n))
         /\ fifo' = K!AfterGet(popped, n)
  /\ UNCHANGED <<inbox, pc, stream, sent, sends>>

(* protocol_check finds no message: the loop ends.                         *)
Break ==
  /\ pc = "check" /\ ~Found(Content)
  /\ fifo' = K!AfterPops(fifo, StopAt(Content) - 1)
  /\ pc' = "read"
  /\ UNCHANGED <<inbox, delivered, stream, sent, sends>>

Next ==
  \/ \E bytes \in Packets \cup Noise : Send(bytes)
  \/ \E n \in 1..Size : Receive(n)
  \/ Deliver
  \/ Break

Spec == Init /\ [][Next]_vars

-----------------------------------------------------------------------------
TypeOK ==
  /\ inbox \in Seq(Byte)
  /\ fifo.in \in 0..Modulus-1 /\ fifo.out \in 0..Modulus-1
  /\ K!Used(fifo) <= Size
  /\ pc \in {"read", "check"}
  /\ delivered \in Seq(Seq(Byte))
  /\ sends \in 0..MaxSends

(* However the stream is cut into reads, the messages handed on are those  *)
(* the peer sent, byte for byte and in order, and those not yet handed on  *)
(* are still complete in what is held: looking for the start of a message  *)
(* among bytes that belong to none never eats into one.                    *)
MessagesSurvive ==
  LET held == Content \o inbox
      gone == Len(stream) - Len(held)
  IN  /\ held = SubSeq(stream, gone + 1, Len(stream))
      /\ Len(delivered) <= Len(sent)
      /\ \A k \in 1..Len(sent) :
           IF k <= Len(delivered) THEN delivered[k] = sent[k].bytes
                                  ELSE sent[k].at >= gone

(* When everything that was sent has been read, a message is left only     *)
(* behind bytes that may be the beginning of a longer one, or because its  *)
(* id, or that of the one before it, is taken for "no message".            *)
Stalled ==
  /\ Content # <<>>
  /\ \/ Verdict(Content, 1) = "half"
     \/ Verdict(Content, 1) = "message" /\ Word(Content, 4) \in {ILLEGAL, HALFPACK}
AllDelivered ==
  pc = "read" /\ inbox = <<>> => Len(delivered) = Len(sent) \/ Stalled

(* What the comment at event.c:104 says the loop is there for: packets     *)
(* that arrive together are all received.                                  *)
TogetherDelivered ==
  pc = "read" /\ inbox = <<>> => Len(delivered) = Len(sent)
=============================================================================
