---------------------------- MODULE FramingProofs ----------------------------
(***************************************************************************)
(* Proofs about Framing, for any packets, any other bytes between them,    *)
(* any size of the fifo and any cut of the stream into reads.              *)
(***************************************************************************)
EXTENDS Framing, SequenceTheorems, WellFoundedInduction, TLAPS

(* What is proved about the ring.                                          *)
KP == INSTANCE KFifoProofs WITH MaxPut <- Size, taken <- delivered

-----------------------------------------------------------------------------
(* The fifo *)

Ring == [buffer : [0..Size-1 -> Byte], in : 0..Modulus-1, out : 0..Modulus-1]
Held(f) == K!Ahead(f, Size)
Used(f) == K!Used(f)

LEMMA RingConstants ==
  /\ KP!FifoAssumption /\ Ring = KP!Fifo
  /\ Size \in Nat \ {0} /\ Modulus \in Nat \ {0} /\ Size < Modulus
  /\ Size \in Int /\ Modulus \in Int
BY FramingAssumption DEF KP!FifoAssumption, Ring, KP!Fifo, Byte

LEMMA RingOperators ==
  /\ \A f : K!Used(f) = KP!Used(f) /\ K!Free(f) = KP!Free(f)
  /\ \A a, b : K!Smaller(a, b) = KP!Smaller(a, b)
  /\ \A f, n : K!Ahead(f, n) = KP!Ahead(f, n)
  /\ \A f : Held(f) = KP!Held(f)
  /\ \A f, bytes : K!AfterPut(f, bytes) = KP!AfterPut(f, bytes)
  /\ \A f, n : K!AfterGet(f, n) = KP!AfterGet(f, n)
  /\ \A f, n : K!AfterPops(f, n) = KP!AfterPops(f, n)
<1>1. \A f : K!Used(f) = KP!Used(f) /\ K!Free(f) = KP!Free(f)
  BY DEF K!Used, KP!Used, K!Free, KP!Free
<1>2. \A a, b : K!Smaller(a, b) = KP!Smaller(a, b)
  BY DEF K!Smaller, KP!Smaller
<1>3. \A f, n : K!Ahead(f, n) = KP!Ahead(f, n)
  BY <1>1, <1>2 DEF K!Ahead, KP!Ahead
<1>4. \A f : Held(f) = KP!Held(f)
  BY <1>3 DEF Held, KP!Held
<1>5. \A f, bytes : K!AfterPut(f, bytes) = KP!AfterPut(f, bytes)
  BY <1>1, <1>2 DEF K!AfterPut, KP!AfterPut
<1>6. \A f, n : K!AfterGet(f, n) = KP!AfterGet(f, n)
  BY <1>1, <1>2 DEF K!AfterGet, KP!AfterGet
<1>7. \A f, n : K!AfterPops(f, n) = KP!AfterPops(f, n)
  BY <1>2 DEF K!AfterPops, KP!AfterPops
<1> QED
  BY <1>1, <1>2, <1>3, <1>4, <1>5, <1>6, <1>7

LEMMA RingUsed ==
  ASSUME NEW f \in Ring
  PROVE  Used(f) \in Nat /\ f.in \in Nat /\ f.out \in Nat
<1>1. KP!Used(f) \in 0..Modulus-1
  BY RingConstants, KP!UsedRange
<1> QED
  BY <1>1, RingConstants, RingOperators DEF Used, Ring

LEMMA RingHeld ==
  ASSUME NEW f \in Ring, Used(f) <= Size
  PROVE  Held(f) \in Seq(Byte) /\ Len(Held(f)) = Used(f)
BY RingConstants, RingOperators, KP!HeldIs DEF Used

(* What is left of a sequence without its beginning.                       *)
LEMMA SubSeqDrops ==
  ASSUME NEW S, NEW s \in Seq(S), NEW n \in Nat, NEW k \in Nat, Len(s) = n + k
  PROVE  /\ SubSeq(s, n + 1, Len(s)) \in Seq(S) /\ Len(SubSeq(s, n + 1, Len(s))) = k
         /\ \A j \in 1..k : SubSeq(s, n + 1, Len(s))[j] = s[n + j]
<1>1. \A j \in n+1..Len(s) : s[j] \in S
  BY ElementOfSeq
<1>2. /\ SubSeq(s, n + 1, Len(s)) \in Seq(S)
      /\ Len(SubSeq(s, n + 1, Len(s))) = IF n + 1 <= Len(s) THEN Len(s) - (n + 1) + 1 ELSE 0
      /\ \A j \in 1..Len(s) - (n + 1) + 1 : SubSeq(s, n + 1, Len(s))[j] = s[(n + 1) + j - 1]
  BY <1>1, SubSeqProperties
<1> QED
  BY <1>2

LEMMA ConcatIs ==
  ASSUME NEW S, NEW a \in Seq(S), NEW b \in Seq(S), NEW x \in Nat, NEW y \in Nat,
         x = Len(a), y = Len(b)
  PROVE  /\ a \o b \in Seq(S) /\ Len(a \o b) = x + y
         /\ \A j \in 1..x : (a \o b)[j] = a[j]
         /\ \A j \in 1..y : (a \o b)[x + j] = b[j]
<1>1. /\ a \o b \in Seq(S) /\ Len(a \o b) = x + y
      /\ \A j \in 1..x + y : (a \o b)[j] = IF j <= x THEN a[j] ELSE b[j - x]
  BY ConcatProperties
<1>2. \A j \in 1..x : j \in 1..x + y /\ j <= x
  OBVIOUS
<1>3. \A j \in 1..y : x + j \in 1..x + y /\ ~(x + j <= x) /\ x + j - x = j
  OBVIOUS
<1>4. ASSUME NEW j \in 1..y PROVE (a \o b)[x + j] = b[j]
  <2>1. (a \o b)[x + j] = IF x + j <= x THEN a[x + j] ELSE b[x + j - x]
    BY <1>1, <1>3
  <2> QED
    BY <1>3, <2>1
<1> QED
  BY <1>1, <1>2, <1>4

LEMMA RingPut ==
  ASSUME NEW f \in Ring, Used(f) <= Size, NEW bytes \in Seq(Byte)
  PROVE  /\ K!AfterPut(f, bytes) \in Ring /\ Used(K!AfterPut(f, bytes)) <= Size
         /\ Used(f) + Len(bytes) <= Size =>
              /\ Used(K!AfterPut(f, bytes)) = Used(f) + Len(bytes)
              /\ Held(K!AfterPut(f, bytes)) = Held(f) \o bytes
              /\ K!AfterPut(f, bytes).in = (f.in + Len(bytes)) % Modulus
              /\ K!AfterPut(f, bytes).out = f.out
<1>1. PICK n \in Nat : n = Len(bytes) /\ bytes \in [1..n -> Byte]
  BY LenProperties
<1>2. KP!Used(f) <= Size /\ f \in KP!Fifo /\ KP!Used(f) = Used(f) /\ Used(f) \in Nat
  BY RingConstants, RingOperators, RingUsed DEF Used
<1>3. PICK r \in Nat : KP!Free(f) = r /\ r = Size - Used(f)
  <2>1. KP!Free(f) = Size - KP!Used(f)
    BY <1>2, RingConstants, KP!FreeIs
  <2> QED
    BY <1>2, <2>1, RingConstants
<1>4. PICK m \in Nat : m = KP!Smaller(n, r) /\ (n <= r => m = n)
  BY DEF KP!Smaller
<1>5. m = KP!Smaller(Len(bytes), KP!Free(f))
  BY <1>1, <1>3, <1>4
<1>6. /\ m <= n /\ m <= Size - KP!Used(f)
      /\ KP!AfterPut(f, bytes) \in KP!Fifo
      /\ KP!Used(KP!AfterPut(f, bytes)) = KP!Used(f) + m
  BY <1>1, <1>2, <1>5, RingConstants, KP!PutCounts
<1>7. KP!Held(KP!AfterPut(f, bytes)) = KP!Held(f) \o SubSeq(bytes, 1, m)
  <2>1. KP!Appends(f, bytes, m)
    BY <1>1, <1>2, <1>5, RingConstants, KP!PutAppends
  <2> QED
    BY <2>1 DEF KP!Appends
<1>8. PICK g : g = K!AfterPut(f, bytes) /\ g = KP!AfterPut(f, bytes)
  BY RingOperators
<1>9. g \in Ring /\ Used(g) = Used(f) + m /\ Held(g) = Held(f) \o SubSeq(bytes, 1, m)
  BY <1>2, <1>6, <1>7, <1>8, RingConstants, RingOperators DEF Used
<1>10. Used(g) <= Size
  BY <1>2, <1>6, <1>9, RingConstants
<1>11. ASSUME Used(f) + Len(bytes) <= Size PROVE m = Len(bytes) /\ SubSeq(bytes, 1, m) = bytes
  <2>1. m = n
    BY <1>1, <1>2, <1>3, <1>4, <1>11, RingConstants
  <2> QED
    BY <1>1, <2>1, SubSeqFull
<1>12. g.in = (f.in + m) % Modulus /\ g.out = f.out
  BY <1>5, <1>8 DEF KP!AfterPut, Ring
<1> QED
  BY <1>8, <1>9, <1>10, <1>11, <1>12

LEMMA RingGet ==
  ASSUME NEW f \in Ring, Used(f) <= Size, NEW n \in Nat, n <= Used(f)
  PROVE  /\ K!AfterGet(f, n) = [f EXCEPT !.out = (f.out + n) % Modulus]
         /\ K!AfterGet(f, n) \in Ring
         /\ Used(K!AfterGet(f, n)) = Used(f) - n
         /\ Held(K!AfterGet(f, n)) = SubSeq(Held(f), n + 1, Used(f))
         /\ K!Ahead(f, n) = SubSeq(Held(f), 1, n)
<1>1. KP!Used(f) <= Size /\ f \in KP!Fifo /\ KP!Used(f) = Used(f) /\ Used(f) \in Nat
  BY RingConstants, RingOperators, RingUsed DEF Used
<1>2. n = KP!Smaller(n, KP!Used(f))
  BY <1>1 DEF KP!Smaller
<1>3. /\ KP!AfterGet(f, n) = [f EXCEPT !.out = (f.out + n) % Modulus]
      /\ KP!AfterGet(f, n) \in KP!Fifo
      /\ KP!Used(KP!AfterGet(f, n)) = KP!Used(f) - n
  BY <1>1, <1>2, RingConstants, KP!GetCounts
<1>4. KP!Held(KP!AfterGet(f, n)) = SubSeq(KP!Held(f), n + 1, KP!Used(f))
  BY <1>1, <1>2, RingConstants, KP!GetDrops
<1>5. KP!Ahead(f, n) = SubSeq(KP!Held(f), 1, n)
  BY <1>1, <1>2, RingConstants, KP!AheadIsPrefix
<1> QED
  BY <1>1, <1>3, <1>4, <1>5, RingConstants, RingOperators DEF Used

LEMMA RingGetTypes ==
  ASSUME NEW f \in Ring, Used(f) <= Size, NEW n \in Nat
  PROVE  /\ K!AfterGet(f, n) \in Ring /\ Used(K!AfterGet(f, n)) <= Size
         /\ K!Ahead(f, n) \in Seq(Byte)
<1>1. KP!Used(f) <= Size /\ f \in KP!Fifo /\ KP!Used(f) = Used(f) /\ Used(f) \in Nat
  BY RingConstants, RingOperators, RingUsed DEF Used
<1>2. PICK m \in Nat : m = KP!Smaller(n, KP!Used(f))
  BY <1>1 DEF KP!Smaller
<1>3. KP!AfterGet(f, n) \in KP!Fifo /\ KP!Used(KP!AfterGet(f, n)) = KP!Used(f) - m
  BY <1>1, <1>2, RingConstants, KP!GetCounts
<1>4. KP!Ahead(f, n) \in Seq(Byte)
  BY <1>1, <1>2, RingConstants, KP!AheadIs
<1>5. KP!Used(f) - m <= Size
  BY <1>1, RingConstants
<1> QED
  BY <1>1, <1>3, <1>4, <1>5, RingConstants, RingOperators DEF Used

LEMMA UsedStraight ==
  ASSUME NEW f \in Ring, f.in >= f.out
  PROVE  Used(f) = f.in - f.out
<1>1. PICK d \in 0..Modulus-1 : d = f.in - f.out
  BY RingConstants DEF Ring
<1>2. d % Modulus = d
  BY RingConstants, KP!ModSmall
<1> QED
  BY <1>1, <1>2 DEF Used, K!Used

(* kfifo_pop, some times: while in has not wrapped ahead of out, what      *)
(* kfifo_get would do.                                                     *)
LEMMA RingPops ==
  ASSUME NEW f \in Ring, Used(f) <= Size, NEW n \in Nat
  PROVE  /\ K!AfterPops(f, n) \in Ring /\ Used(K!AfterPops(f, n)) <= Size
         /\ f.in >= f.out /\ n <= Used(f) =>
              /\ K!AfterPops(f, n) = [f EXCEPT !.out = f.out + n]
              /\ Used(K!AfterPops(f, n)) = Used(f) - n
              /\ Held(K!AfterPops(f, n)) = SubSeq(Held(f), n + 1, Used(f))
<1>1. Used(f) \in Nat /\ f.in \in Nat /\ f.out \in Nat /\ f.in < Modulus /\ f.out < Modulus
  BY RingUsed, RingConstants DEF Ring
<1>2. CASE f.in > f.out
  <2>1. Used(f) = f.in - f.out
    BY <1>1, <1>2, UsedStraight
  <2>2. PICK d \in Nat : /\ d = (IF n < Used(f) THEN n ELSE Used(f)) /\ d <= Used(f)
                         /\ (n <= Used(f) => d = n)
    BY <1>1
  <2>3. f.out + d \in 0..Modulus-1
    BY <1>1, <1>2, <2>1, <2>2, RingConstants
  <2>4. (f.out + d) % Modulus = f.out + d
    BY <2>3, RingConstants, KP!ModSmall
  <2>5. K!Smaller(f.out + n, f.in) = f.out + d
    BY <1>1, <1>2, <2>1, <2>2 DEF K!Smaller
  <2>6. K!AfterPops(f, n) = [f EXCEPT !.out = f.out + d]
    BY <1>2, <2>5 DEF K!AfterPops
  <2>7. K!AfterGet(f, d) = K!AfterPops(f, n)
    BY <2>2, <2>4, <2>6, RingGet
  <2>8. /\ K!AfterGet(f, d) \in Ring
        /\ Used(K!AfterGet(f, d)) = Used(f) - d
        /\ Held(K!AfterGet(f, d)) = SubSeq(Held(f), d + 1, Used(f))
    BY <2>2, RingGet
  <2>9. Used(f) - d <= Size
    BY <1>1, <2>2, RingConstants
  <2> QED
    BY <2>2, <2>6, <2>7, <2>8, <2>9
<1>3. CASE f.in <= f.out
  <2>1. K!AfterPops(f, n) = f
    BY <1>1, <1>3 DEF K!AfterPops
  <2>2. ASSUME f.in >= f.out, n <= Used(f)
        PROVE  n = 0 /\ Used(f) = 0
    BY <1>1, <1>3, <2>2, UsedStraight
  <2>3. [f EXCEPT !.out = f.out + 0] = f
    BY <1>1 DEF Ring
  <2>4. SubSeq(Held(f), 1, 0) = Held(f) \/ Used(f) # 0
    <3>1. Used(f) = 0 => Held(f) = SubSeq(Held(f), 1, Len(Held(f))) /\ Len(Held(f)) = 0
      BY RingHeld, SubSeqFull
    <3> QED
      BY <3>1
  <2> QED
    BY <2>1, <2>2, <2>3, <2>4
<1> QED
  BY <1>1, <1>2, <1>3

-----------------------------------------------------------------------------
(* Types *)

LEMMA Least ==
  ASSUME NEW S, S \subseteq Nat, S # {}
  PROVE  \E m \in S : \A k \in S : m <= k
<1>1. PICK m \in S : \A k \in S : ~(<<k, m>> \in OpToRel(<, Nat))
  BY NatLessThanWellFounded, WFMin
<1>2. \A k \in S : m <= k
  <2> TAKE k \in S
  <2>1. k \in Nat /\ m \in Nat /\ <<k, m>> \in Nat \X Nat
    OBVIOUS
  <2>2. ~(k < m)
    BY <1>1, <2>1 DEF OpToRel
  <2> QED
    BY <2>1, <2>2
<1> QED
  BY <1>2

(* The position where protocol_check stops, and what it has skipped.       *)
LEMMA StopAtIs ==
  ASSUME NEW b \in Seq(Byte)
  PROVE  /\ StopAt(b) \in 1..Len(b)+1
         /\ \A i \in 1..Len(b) : i < StopAt(b) => Verdict(b, i) = "skip"
         /\ StopAt(b) <= Len(b) => Verdict(b, StopAt(b)) # "skip"
<1> DEFINE S == {i \in 1..Len(b) : Verdict(b, i) # "skip"} \cup {Len(b) + 1}
<1>1. S \subseteq Nat /\ S # {} /\ S \subseteq 1..Len(b)+1
  OBVIOUS
<1>2. PICK m \in S : \A k \in S : m <= k
  BY <1>1, Least
<1>3. Min(S) \in S /\ \A k \in S : Min(S) <= k
  BY <1>2 DEF Min
<1>4. StopAt(b) \in S /\ \A k \in S : StopAt(b) <= k
  BY <1>3 DEF StopAt
<1> QED
  BY <1>1, <1>4

LEMMA ContentIs ==
  ASSUME fifo \in Ring, Used(fifo) <= Size
  PROVE  /\ Content = Held(fifo) /\ Content \in Seq(Byte) /\ Len(Content) = Used(fifo)
         /\ Len(Content) \in Nat /\ Len(Content) <= Size
BY RingHeld, RingUsed DEF Content, Held

(* A message lies within the copy.                                         *)
LEMMA FoundIs ==
  ASSUME NEW b \in Seq(Byte), Found(b)
  PROVE  LET i == StopAt(b)
             n == Word(b, i + 1)
         IN  /\ i \in 1..Len(b) /\ Verdict(b, i) = "message"
             /\ n \in Nat /\ n >= 8 /\ i - 1 + n <= Len(b)
<1>1. PICK i \in Nat : i = StopAt(b) /\ i \in 1..Len(b) /\ Verdict(b, i) = "message"
  BY StopAtIs DEF Found
<1>2. Len(b) - i + 1 > 2
  BY <1>1 DEF Verdict
<1>3. b[i + 1] \in Nat /\ b[i + 2] \in Nat
  <2>1. i + 1 \in 1..Len(b) /\ i + 2 \in 1..Len(b) /\ Len(b) \in Nat
    BY <1>1, <1>2
  <2>2. b[i + 1] \in Byte /\ b[i + 2] \in Byte
    BY <2>1, ElementOfSeq
  <2>3. Byte \subseteq Nat
    BY DEF Byte
  <2> QED
    BY <2>2, <2>3
<1>4. PICK n \in Nat : n = Word(b, i + 1)
  BY <1>1, <1>3 DEF Word
<1>5. ~(n < MinLen) /\ ~(n > Len(b) - i + 1)
  BY <1>1, <1>4 DEF Verdict
<1> QED
  BY <1>1, <1>4, <1>5, FramingAssumption

FramingType ==
  /\ inbox \in Seq(Byte) /\ stream \in Seq(Byte)
  /\ fifo \in Ring /\ Used(fifo) <= Size
  /\ pc \in {"read", "check"}
  /\ delivered \in Seq(Seq(Byte))
  /\ sent \in Seq([at : Nat, bytes : Packets])
  /\ sends \in 0..MaxSends
LEMMA SendIs ==
  ASSUME FramingType, NEW bytes \in Packets \cup Noise, Send(bytes)
  PROVE  /\ bytes \in Seq(Byte)
         /\ inbox' = inbox \o bytes /\ inbox' \in Seq(Byte)
         /\ stream' = stream \o bytes /\ stream' \in Seq(Byte)
         /\ \/ bytes \in Noise /\ sent' = sent
            \/ /\ bytes \in Packets
               /\ sent' = Append(sent, [at |-> Len(stream), bytes |-> bytes])
         /\ sends' = sends + 1 /\ sends' \in 0..MaxSends
         /\ sent' \in Seq([at : Nat, bytes : Packets])
         /\ UNCHANGED <<fifo, pc, delivered>>
<1>1. bytes \in Seq(Byte)
  BY PeerAssumption
<1>2. inbox \in Seq(Byte) /\ stream \in Seq(Byte) /\ sent \in Seq([at : Nat, bytes : Packets])
      /\ sends \in 0..MaxSends /\ MaxSends \in Nat
  BY FramingAssumption DEF FramingType
<1>3. inbox \o bytes \in Seq(Byte) /\ stream \o bytes \in Seq(Byte)
  BY <1>1, <1>2, ConcatProperties
<1>4. CASE bytes \in Packets
  <2>1. [at |-> Len(stream), bytes |-> bytes] \in [at : Nat, bytes : Packets]
    BY <1>2, <1>4
  <2>2. sent' = Append(sent, [at |-> Len(stream), bytes |-> bytes])
    BY <1>4 DEF Send
  <2>3. sent' \in Seq([at : Nat, bytes : Packets])
    BY <1>2, <2>1, <2>2, AppendProperties
  <2> QED
    BY <1>1, <1>2, <1>3, <1>4, <2>2, <2>3 DEF Send
<1>5. CASE bytes \notin Packets
  BY <1>1, <1>2, <1>3, <1>5 DEF Send
<1> QED
  BY <1>4, <1>5

LEMMA ReceiveIs ==
  ASSUME FramingType, NEW n \in 1..Size, Receive(n)
  PROVE  /\ n \in Nat /\ n >= 1 /\ n <= Len(inbox)
         /\ SubSeq(inbox, 1, n) \in Seq(Byte) /\ Len(SubSeq(inbox, 1, n)) = n
         /\ \A j \in 1..n : SubSeq(inbox, 1, n)[j] = inbox[j]
         /\ inbox' \in Seq(Byte) /\ Len(inbox') = Len(inbox) - n
         /\ \A j \in 1..Len(inbox) - n : inbox'[j] = inbox[n + j]
         /\ fifo' = K!AfterPut(fifo, SubSeq(inbox, 1, n))
         /\ fifo' \in Ring /\ Used(fifo') <= Size
         /\ pc' = "check"
         /\ UNCHANGED <<delivered, stream, sent, sends>>
<1>1. /\ n \in Nat /\ n >= 1 /\ n <= Len(inbox) /\ Len(inbox) \in Nat
      /\ inbox \in Seq(Byte) /\ fifo \in Ring /\ Used(fifo) <= Size
  BY RingConstants DEF FramingType, Receive
<1>2. \A j \in 1..Len(inbox) : inbox[j] \in Byte
  BY <1>1, ElementOfSeq
<1>3. /\ SubSeq(inbox, 1, n) \in Seq(Byte) /\ Len(SubSeq(inbox, 1, n)) = n
      /\ \A j \in 1..n : SubSeq(inbox, 1, n)[j] = inbox[j]
  BY <1>1, <1>2, SubSeqProperties
<1>4. PICK k \in Nat : k = Len(inbox) - n
  BY <1>1
<1>5. /\ SubSeq(inbox, n + 1, Len(inbox)) \in Seq(Byte)
      /\ Len(SubSeq(inbox, n + 1, Len(inbox))) = k
      /\ \A j \in 1..k : SubSeq(inbox, n + 1, Len(inbox))[j] = inbox[n + j]
  BY <1>1, <1>2, <1>4, SubSeqDrops
<1>6. fifo' = K!AfterPut(fifo, SubSeq(inbox, 1, n)) /\ fifo' \in Ring /\ Used(fifo') <= Size
  BY <1>1, <1>3, RingPut DEF Receive
<1> QED
  BY <1>1, <1>3, <1>4, <1>5, <1>6 DEF Receive

LEMMA DeliverTypes ==
  ASSUME FramingType, Deliver
  PROVE  fifo' \in Ring /\ Used(fifo') <= Size /\ delivered' \in Seq(Seq(Byte))
<1>1. fifo \in Ring /\ Used(fifo) <= Size /\ Content \in Seq(Byte)
  BY ContentIs DEF FramingType
<1>2. Found(Content)
  BY DEF Deliver
<1>3. PICK i \in Nat, n \in Nat : i = StopAt(Content) /\ i >= 1 /\ n = Word(Content, i + 1)
  BY <1>1, <1>2, FoundIs
<1>4. PICK p : p = K!AfterPops(fifo, i - 1)
  OBVIOUS
<1>5. p \in Ring /\ Used(p) <= Size
  <2>1. i - 1 \in Nat
    BY <1>3
  <2> QED
    BY <1>1, <1>4, <2>1, RingPops
<1>6. fifo' = K!AfterGet(p, n) /\ delivered' = Append(delivered, K!Ahead(p, n))
  BY <1>3, <1>4 DEF Deliver
<1>7. delivered \in Seq(Seq(Byte))
  BY DEF FramingType
<1>8. K!Ahead(p, n) \in Seq(Byte) /\ K!AfterGet(p, n) \in Ring /\ Used(K!AfterGet(p, n)) <= Size
  BY <1>3, <1>5, RingGetTypes
<1> QED
  BY <1>6, <1>7, <1>8, AppendProperties

LEMMA BreakTypes ==
  ASSUME FramingType, Break
  PROVE  fifo' \in Ring /\ Used(fifo') <= Size
<1>1. fifo \in Ring /\ Used(fifo) <= Size /\ Content \in Seq(Byte)
  BY ContentIs DEF FramingType
<1>2. StopAt(Content) - 1 \in Nat
  BY <1>1, StopAtIs
<1> QED
  BY <1>1, <1>2, RingPops DEF Break

LEMMA TypeNext == FramingType /\ [Next]_vars => FramingType'
<1> SUFFICES ASSUME FramingType, [Next]_vars PROVE FramingType'
  OBVIOUS
<1>1. ASSUME NEW bytes \in Packets \cup Noise, Send(bytes) PROVE FramingType'
  BY <1>1, SendIs DEF FramingType
<1>2. ASSUME NEW n \in 1..Size, Receive(n) PROVE FramingType'
  BY <1>2, ReceiveIs DEF FramingType
<1>3. CASE Deliver
  BY <1>3, DeliverTypes DEF FramingType, Deliver
<1>4. CASE Break
  BY <1>4, BreakTypes DEF FramingType, Break
<1>5. CASE UNCHANGED vars
  BY <1>5 DEF FramingType, vars
<1> QED
  BY <1>1, <1>2, <1>3, <1>4, <1>5 DEF Next

LEMMA EmptyIs == K!Empty \in Ring /\ Used(K!Empty) = 0 /\ Held(K!Empty) = <<>>
<1>1. K!Empty \in Ring
  <2>1. [k \in 0..Size-1 |-> 0] \in [0..Size-1 -> Byte]
    BY DEF Byte
  <2> QED
    BY <2>1, RingConstants DEF Ring, K!Empty
<1>2. Used(K!Empty) = 0
  <2>1. K!Empty.in = 0 /\ K!Empty.out = 0
    BY DEF K!Empty
  <2> QED
    BY <1>1, <2>1, UsedStraight
<1>3. Held(K!Empty) \in Seq(Byte) /\ Len(Held(K!Empty)) = 0
  BY <1>1, <1>2, RingHeld, RingConstants
<1> QED
  BY <1>1, <1>2, <1>3, EmptySeq

LEMMA TypeInit == Init => FramingType
<1>1. <<>> \in Seq(Byte) /\ <<>> \in Seq(Seq(Byte)) /\ <<>> \in Seq([at : Nat, bytes : Packets])
  OBVIOUS
<1>2. 0 \in 0..MaxSends
  BY FramingAssumption
<1> QED
  BY <1>1, <1>2, EmptyIs, RingConstants DEF Init, FramingType

(* Whatever arrives, in whatever pieces, the fifo holds no more than it    *)
(* can and its counters keep their width; what is handed on are sequences  *)
(* of bytes (event_recvmsg, kfifo_put and kfifo_get).                      *)
THEOREM FramingTypeOK == Spec => []TypeOK
<1>1. FramingType => TypeOK
  BY DEF FramingType, TypeOK, Ring, Used
<1> QED
  BY TypeInit, TypeNext, <1>1, PTL DEF Spec

-----------------------------------------------------------------------------
(* Verdicts *)

(* m bytes of b, from the i-th, are those of c from the k-th.              *)
Agree(b, i, c, k, m) ==
  /\ i - 1 + m <= Len(b) /\ k - 1 + m <= Len(c)
  /\ \A j \in 1..m : b[i - 1 + j] = c[k - 1 + j]

LEMMA SameBytes ==
  ASSUME NEW b \in Seq(Byte), NEW c \in Seq(Byte), NEW i \in Nat, NEW k \in Nat, NEW m \in Nat,
         i >= 1, k >= 1, Agree(b, i, c, k, m)
  PROVE  SubSeq(b, i, i + m - 1) = SubSeq(c, k, k + m - 1)
<1> USE DEF Agree
<1>1. Len(b) \in Nat /\ Len(c) \in Nat
  OBVIOUS
<1>2. \A j \in i..i+m-1 : b[j] \in Byte
  <2> TAKE j \in i..i+m-1
  <2>1. j \in 1..Len(b)
    BY <1>1
  <2> QED
    BY <2>1, ElementOfSeq
<1>3. \A j \in k..k+m-1 : c[j] \in Byte
  <2> TAKE j \in k..k+m-1
  <2>1. j \in 1..Len(c)
    BY <1>1
  <2> QED
    BY <2>1, ElementOfSeq
<1>4. /\ SubSeq(b, i, i + m - 1) \in Seq(Byte) /\ Len(SubSeq(b, i, i + m - 1)) = m
      /\ \A j \in 1..m : SubSeq(b, i, i + m - 1)[j] = b[i + j - 1]
  BY <1>2, SubSeqProperties
<1>5. /\ SubSeq(c, k, k + m - 1) \in Seq(Byte) /\ Len(SubSeq(c, k, k + m - 1)) = m
      /\ \A j \in 1..m : SubSeq(c, k, k + m - 1)[j] = c[k + j - 1]
  BY <1>3, SubSeqProperties
<1>6. \A j \in 1..m : i + j - 1 = i - 1 + j /\ k + j - 1 = k - 1 + j
  OBVIOUS
<1>7. \A j \in 1..m : SubSeq(b, i, i + m - 1)[j] = SubSeq(c, k, k + m - 1)[j]
  BY <1>4, <1>5, <1>6
<1> QED
  BY <1>4, <1>5, <1>7, SeqEqual

LEMMA WordIs ==
  ASSUME NEW b \in Seq(Byte), NEW i \in Nat, i >= 1, i + 1 <= Len(b)
  PROVE  Word(b, i) \in Nat
<1>1. b[i] \in Byte /\ b[i + 1] \in Byte
  BY ElementOfSeq
<1>2. Byte \subseteq Nat
  BY DEF Byte
<1>3. b[i] \in Nat /\ b[i + 1] \in Nat
  BY <1>1, <1>2
<1> QED
  BY <1>3 DEF Word

(* They are all the bytes the verdict depends on: all there are behind i,  *)
(* or as many as the length says.                                          *)
Enough(b, i, c, k, m) ==
  \/ Len(b) - i = Len(c) - k /\ m = Len(b) - i + 1
  \/ m >= 3 /\ Word(b, i + 1) <= m

(* Where two copies agree on enough bytes they are given the same verdict. *)
LEMMA SameVerdict ==
  ASSUME NEW b \in Seq(Byte), NEW c \in Seq(Byte), NEW i \in Nat, NEW k \in Nat, NEW m \in Nat,
         i >= 1, k >= 1, m >= 1, Agree(b, i, c, k, m), Enough(b, i, c, k, m)
  PROVE  /\ Verdict(b, i) = Verdict(c, k)
         /\ m >= 3 => Word(b, i + 1) = Word(c, k + 1)
<1>0. Len(b) \in Nat /\ Len(c) \in Nat
  BY LenProperties
<1>1. /\ Len(b) \in Nat /\ Len(c) \in Nat /\ i - 1 + m <= Len(b) /\ k - 1 + m <= Len(c)
      /\ \A j \in 1..m : b[i - 1 + j] = c[k - 1 + j]
  BY <1>0, Zenon DEF Agree
<1>2. b[i] = c[k]
  <2>1. b[i - 1 + 1] = c[k - 1 + 1]
    BY <1>1
  <2> QED
    BY <2>1
<1>3. ASSUME m >= 3
      PROVE  Word(b, i + 1) \in Nat /\ Word(b, i + 1) = Word(c, k + 1)
  <2>1. b[i - 1 + 2] = c[k - 1 + 2] /\ b[i - 1 + 3] = c[k - 1 + 3]
    <3>1. 2 \in 1..m /\ 3 \in 1..m
      BY <1>3
    <3> QED
      BY <1>1, <3>1
  <2>2. b[i + 1] = c[k + 1] /\ b[i + 1 + 1] = c[k + 1 + 1]
    <3>1. i - 1 + 2 = i + 1 /\ i - 1 + 3 = i + 1 + 1 /\ k - 1 + 2 = k + 1 /\ k - 1 + 3 = k + 1 + 1
      OBVIOUS
    <3> QED
      BY <2>1, <3>1
  <2>3. i + 1 + 1 <= Len(b)
    BY <1>1, <1>3
  <2>4. Word(b, i + 1) \in Nat
    BY <2>3, WordIs
  <2> QED
    BY <2>2, <2>4 DEF Word
<1>u. PICK u \in Nat, v \in Nat :
        u = Len(b) /\ v = Len(c) /\ i - 1 + m <= u /\ k - 1 + m <= v
  BY <1>1
<1>4. PICK r \in Int, q \in Int : r = Len(b) - i + 1 /\ q = Len(c) - k + 1
  <2>1. Len(b) - i + 1 \in Int /\ Len(c) - k + 1 \in Int
    BY <1>1
  <2> QED
    BY <2>1, Zenon
<1>5. \/ r = q /\ m = r
      \/ m <= r /\ m <= q /\ m >= 3 /\ Word(b, i + 1) <= m
  <2>1. CASE Len(b) - i = Len(c) - k /\ m = Len(b) - i + 1
    <3>1. r = u - i + 1 /\ q = v - k + 1 /\ u - i = v - k /\ m = u - i + 1
      BY <1>4, <1>u, <2>1
    <3> QED
      BY <3>1
  <2>2. CASE m >= 3 /\ Word(b, i + 1) <= m
    <3>1. r = u - i + 1 /\ q = v - k + 1 /\ i - 1 + m <= u /\ k - 1 + m <= v
      BY <1>1, <1>4, <1>u
    <3>2. m <= r /\ m <= q
      BY <3>1
    <3> QED
      BY <2>2, <3>2
  <2> QED
    BY <2>1, <2>2 DEF Enough
<1>6. r <= 2 <=> q <= 2
  BY <1>5
<1>7. CASE b[i] # CE \/ r <= 2
  <2>1. CASE b[i] # CE
    <3>1. c[k] # CE
      BY <1>2, <2>1
    <3>2. Verdict(b, i) = "skip"
      BY <2>1 DEF Verdict
    <3>3. Verdict(c, k) = "skip"
      BY <3>1 DEF Verdict
    <3> QED
      BY <1>3, <3>2, <3>3
  <2>2. CASE b[i] = CE /\ r <= 2
    <3>1. c[k] = CE /\ q <= 2
      BY <1>2, <1>6, <2>2
    <3>2. Verdict(b, i) = "half"
      BY <1>4, <2>2 DEF Verdict
    <3>3. Verdict(c, k) = "half"
      BY <1>4, <3>1 DEF Verdict
    <3> QED
      BY <1>3, <3>2, <3>3
  <2> QED
    BY <1>7, <2>1, <2>2
<1>8. CASE b[i] = CE /\ ~(r <= 2)
  <2>1. m >= 3
    BY <1>8, <1>5
  <2>2. PICK n \in Nat : n = Word(b, i + 1) /\ n = Word(c, k + 1)
    BY <1>3, <2>1
  <2>8. \/ r = q /\ m = r
        \/ n <= m /\ m <= r /\ m <= q
    BY <1>5, <2>2
  <2>3. n > r <=> n > q
    BY <2>8
  <2>4. Verdict(b, i) =
          IF n < MinLen \/ n > MaxLen THEN "skip"
          ELSE IF n > r THEN "half"
          ELSE IF /\ protocol_checksum(b, i, n - 2) = b[i + n - 2]
                  /\ b[i + n - 1] = CE
                 THEN "message" ELSE "skip"
    BY <1>4, <1>8, <2>2 DEF Verdict
  <2>5. Verdict(c, k) =
          IF n < MinLen \/ n > MaxLen THEN "skip"
          ELSE IF n > q THEN "half"
          ELSE IF /\ protocol_checksum(c, k, n - 2) = c[k + n - 2]
                  /\ c[k + n - 1] = CE
                 THEN "message" ELSE "skip"
    <3>1. c[k] = CE /\ ~(q <= 2)
      BY <1>2, <1>6, <1>8
    <3> QED
      BY <1>4, <2>2, <3>1 DEF Verdict
  <2>6. CASE ~(n < MinLen) /\ ~(n > MaxLen) /\ ~(n > r)
    <3>1. n >= 8 /\ n <= m
      <4>1. n <= m
        BY <2>6, <2>8
      <4>2. n >= 8
        BY <2>6, FramingAssumption
      <4> QED
        BY <4>1, <4>2
    <3>2. SubSeq(b, i, i + (n - 2) - 1) = SubSeq(c, k, k + (n - 2) - 1)
      <4>1. PICK l \in Nat : l = n - 2 /\ l <= m
        BY <3>1
      <4>2. Agree(b, i, c, k, l)
        <5>1. i - 1 + l <= Len(b) /\ k - 1 + l <= Len(c)
          <6>1. i - 1 + l <= u /\ k - 1 + l <= v
            BY <1>u, <4>1
          <6> QED
            BY <1>u, <6>1
        <5>2. \A j \in 1..l : j \in 1..m
          BY <4>1
        <5>3. \A j \in 1..l : b[i - 1 + j] = c[k - 1 + j]
          BY <1>1, <5>2
        <5> QED
          BY <5>1, <5>3, Zenon DEF Agree
      <4>3. SubSeq(b, i, i + l - 1) = SubSeq(c, k, k + l - 1)
        BY <4>2, SameBytes
      <4> QED
        BY <4>1, <4>3
    <3>3. protocol_checksum(b, i, n - 2) = protocol_checksum(c, k, n - 2)
      BY <3>2 DEF protocol_checksum
    <3>4. b[i + n - 2] = c[k + n - 2] /\ b[i + n - 1] = c[k + n - 1]
      <4>0. n - 1 \in 1..m /\ n \in 1..m
        BY <3>1
      <4>1. b[i - 1 + (n - 1)] = c[k - 1 + (n - 1)] /\ b[i - 1 + n] = c[k - 1 + n]
        BY <1>1, <4>0
      <4>2. /\ i - 1 + (n - 1) = i + n - 2 /\ k - 1 + (n - 1) = k + n - 2
            /\ i - 1 + n = i + n - 1 /\ k - 1 + n = k + n - 1
        OBVIOUS
      <4> QED
        BY <4>1, <4>2
    <3>5. PICK x, y, z : x = protocol_checksum(b, i, n - 2) /\ y = b[i + n - 2] /\ z = b[i + n - 1]
      OBVIOUS
    <3>6. /\ Verdict(b, i) = IF x = y /\ z = CE THEN "message" ELSE "skip"
          /\ Verdict(c, k) = IF x = y /\ z = CE THEN "message" ELSE "skip"
      <4>1. Verdict(b, i) = IF x = y /\ z = CE THEN "message" ELSE "skip"
        BY <2>4, <2>6, <3>5
      <4>2. ~(n > q) /\ x = protocol_checksum(c, k, n - 2) /\ y = c[k + n - 2] /\ z = c[k + n - 1]
        BY <2>3, <2>6, <3>3, <3>4, <3>5
      <4>3. Verdict(c, k) = IF x = y /\ z = CE THEN "message" ELSE "skip"
        BY <2>5, <2>6, <4>2
      <4> QED
        BY <4>1, <4>3
    <3> QED
      BY <2>2, <3>6
  <2>7. CASE n < MinLen \/ n > MaxLen \/ n > r
    BY <2>2, <2>3, <2>4, <2>5, <2>7
  <2> QED
    BY <2>2, <2>6, <2>7
<1> QED
  BY <1>3, <1>7, <1>8

LEMMA PacketIs ==
  ASSUME NEW p \in Packets
  PROVE  /\ p \in Seq(Byte) /\ Len(p) \in Nat /\ Word(p, 2) = Len(p) /\ Verdict(p, 1) = "message"
         /\ Len(p) >= 8 /\ Len(p) >= MinLen /\ Len(p) <= MaxLen /\ p[1] = CE
<1>1. p \in Seq(Byte) /\ Len(p) \in Nat /\ Word(p, 2) = Len(p) /\ Verdict(p, 1) = "message"
  BY PeerAssumption
<1>2. p[1] = CE
  BY <1>1 DEF Verdict
<1>3. ~(Len(p) < MinLen) /\ ~(Len(p) > MaxLen)
  <2>1. Word(p, 1 + 1) = Len(p)
    BY <1>1
  <2> QED
    BY <1>1, <1>2, <2>1 DEF Verdict
<1> QED
  BY <1>1, <1>2, <1>3, FramingAssumption

(* What begins with a packet, or with the beginning of one, is a message   *)
(* of its length or may become one.                                        *)
LEMMA PacketVerdict ==
  ASSUME NEW p \in Packets, NEW b \in Seq(Byte), NEW i \in Nat, i >= 1, i <= Len(b),
         \A j \in 1..Len(b) : j <= Len(p) /\ i - 1 + j <= Len(b) => b[i - 1 + j] = p[j]
  PROVE  /\ Verdict(b, i) # "skip"
         /\ Verdict(b, i) = "message" => Word(b, i + 1) = Len(p)
<1>1. PICK n \in Nat : n = Len(p) /\ n >= 8
  BY PacketIs
<1>2. PICK r \in Nat : r = Len(b) - i + 1 /\ r >= 1 /\ r <= Len(b)
  <2>1. Len(b) - i + 1 \in Nat /\ Len(b) - i + 1 >= 1 /\ Len(b) - i + 1 <= Len(b)
    OBVIOUS
  <2> QED
    BY <2>1
<1>3. \A j \in 1..r : j <= n => b[i - 1 + j] = p[j]
  <2> TAKE j \in 1..r
  <2>1. j \in 1..Len(b) /\ i - 1 + j <= Len(b)
    BY <1>2
  <2> QED
    BY <1>1, <2>1
<1>4. b[i] = CE
  <2>1. b[i - 1 + 1] = p[1] /\ i - 1 + 1 = i
    BY <1>1, <1>2, <1>3
  <2> QED
    BY <2>1, PacketIs
<1>5. CASE r <= 2
  BY <1>2, <1>4, <1>5 DEF Verdict
<1>6. CASE r >= 3
  <2>1. Word(b, i + 1) = n
    <3>1. 2 \in 1..r /\ 3 \in 1..r /\ 2 <= n /\ 3 <= n
      BY <1>1, <1>6
    <3>2. b[i - 1 + 2] = p[2] /\ b[i - 1 + 3] = p[3]
      BY <1>3, <3>1
    <3>3. i - 1 + 2 = i + 1 /\ i - 1 + 3 = i + 1 + 1 /\ 2 + 1 = 3
      OBVIOUS
    <3>4. Word(b, i + 1) = Word(p, 2)
      BY <3>2, <3>3 DEF Word
    <3> QED
      BY <1>1, <3>4, PacketIs
  <2>2. CASE n > r
    <3>1. ~(n < MinLen) /\ ~(n > MaxLen)
      BY <1>1, PacketIs, FramingAssumption
    <3>2. Verdict(b, i) = "half"
      BY <1>2, <1>4, <1>6, <2>1, <2>2, <3>1 DEF Verdict
    <3> QED
      BY <3>2
  <2>3. CASE n <= r
    <3>1. Agree(p, 1, b, i, n)
      <4>1. \A j \in 1..n : p[1 - 1 + j] = b[i - 1 + j]
        <5> TAKE j \in 1..n
        <5>1. j \in 1..r /\ 1 - 1 + j = j
          BY <2>3
        <5> QED
          BY <1>3, <5>1
      <4>2. 1 - 1 + n <= Len(p) /\ i - 1 + n <= Len(b)
        BY <1>1, <1>2, <2>3
      <4> QED
        BY <4>1, <4>2 DEF Agree
    <3>2. Word(p, 1 + 1) <= n /\ n >= 3 /\ n >= 1 /\ p \in Seq(Byte) /\ Verdict(p, 1) = "message"
      BY <1>1, PacketIs
    <3>3. Verdict(p, 1) = Verdict(b, i)
      <4>1. PICK o \in Nat : o = 1 /\ o >= 1
        OBVIOUS
      <4>2. Agree(p, o, b, i, n) /\ Enough(p, o, b, i, n)
        BY <3>1, <3>2, <4>1 DEF Enough
      <4>3. Verdict(p, o) = Verdict(b, i)
        BY <3>2, <4>1, <4>2, SameVerdict
      <4> QED
        BY <4>1, <4>3
    <3> QED
      BY <1>1, <2>1, <3>2, <3>3
  <2> QED
    BY <2>2, <2>3
<1> QED
  BY <1>5, <1>6

-----------------------------------------------------------------------------
(* The stream.  Until the counters wrap, they are positions in it.         *)

End(k) == sent[k].at + Len(sent[k].bytes)

WireInv ==
  /\ fifo.in = fifo.out + Len(Content) /\ Len(stream) = fifo.in + Len(inbox)
  /\ \A j \in 1..Len(Content) : Content[j] = stream[fifo.out + j]
  /\ \A j \in 1..Len(inbox) : inbox[j] = stream[fifo.in + j]

(* The packets lie in the stream one after the other.                      *)
SentInv ==
  /\ \A k \in 1..Len(sent) : End(k) <= Len(stream)
  /\ \A k \in 1..Len(sent) : \A j \in 1..Len(sent[k].bytes) :
       sent[k].bytes[j] = stream[sent[k].at + j]
  /\ \A k, l \in 1..Len(sent) : k < l => End(k) <= sent[l].at

(* Those handed on are gone, and of the others nothing is.                 *)
DeliveredInv ==
  /\ Len(delivered) <= Len(sent)
  /\ \A k \in 1..Len(sent) :
       IF k <= Len(delivered) THEN delivered[k] = sent[k].bytes /\ End(k) <= fifo.out
                              ELSE sent[k].at >= fifo.out

(* The loop of event_recvmsg ends where protocol_check must wait.          *)
Waiting == Content = <<>> \/ (Verdict(Content, 1) # "skip" /\ ~Found(Content))

StreamInv ==
  /\ FramingType
  /\ Len(inbox) + Len(Content) <= MaxBurst
  /\ WireInv /\ SentInv /\ DeliveredInv
  /\ pc = "read" => Waiting

(* What the peer sends between its packets must not happen to be a message *)
(* itself, and less is sent than the counters can count.                   *)
Unforged ==
  \A i \in 1..Len(stream) :
    Verdict(stream, i) = "message" =>
      \E k \in 1..Len(sent) : sent[k].at < i /\ i <= End(k)
Straight == Len(stream) < Modulus

LEMMA StreamParts ==
  ASSUME StreamInv
  PROVE  /\ inbox \in Seq(Byte) /\ stream \in Seq(Byte) /\ Content \in Seq(Byte)
         /\ Len(inbox) \in Nat /\ Len(stream) \in Nat /\ Len(Content) \in Nat
         /\ fifo \in Ring /\ Used(fifo) = Len(Content) /\ Len(Content) <= Size
         /\ Used(fifo) <= Size
         /\ fifo.in \in Nat /\ fifo.out \in Nat /\ fifo.in >= fifo.out
         /\ delivered \in Seq(Seq(Byte)) /\ Len(delivered) \in Nat
         /\ sent \in Seq([at : Nat, bytes : Packets]) /\ Len(sent) \in Nat
<1>1. /\ inbox \in Seq(Byte) /\ stream \in Seq(Byte)
      /\ fifo \in Ring /\ Used(fifo) <= Size
      /\ delivered \in Seq(Seq(Byte)) /\ sent \in Seq([at : Nat, bytes : Packets])
  BY DEF StreamInv, FramingType
<1>2. /\ Content \in Seq(Byte) /\ Used(fifo) = Len(Content) /\ Len(Content) \in Nat
      /\ fifo.in \in Nat /\ fifo.out \in Nat
  BY <1>1, ContentIs, RingUsed
<1>3. fifo.in >= fifo.out
  BY <1>2 DEF StreamInv, WireInv
<1> QED
  BY <1>1, <1>2, <1>3, LenProperties

LEMMA SentIs ==
  ASSUME StreamInv, NEW k \in 1..Len(sent)
  PROVE  /\ sent[k].at \in Nat /\ sent[k].bytes \in Packets /\ sent[k].bytes \in Seq(Byte)
         /\ Len(sent[k].bytes) \in Nat /\ Len(sent[k].bytes) >= 8
         /\ End(k) \in Nat /\ sent[k].at + 8 <= End(k)
<1>1. sent[k] \in [at : Nat, bytes : Packets]
  BY StreamParts, ElementOfSeq
<1>2. sent[k].at \in Nat /\ sent[k].bytes \in Packets
  BY <1>1
<1>3. PICK n \in Nat : n = Len(sent[k].bytes) /\ n >= 8 /\ sent[k].bytes \in Seq(Byte)
  BY <1>2, PacketIs
<1> QED
  BY <1>2, <1>3 DEF End

(* The counters and lengths as numbers.                                    *)
LEMMA WireIs ==
  ASSUME StreamInv
  PROVE  \E o \in Nat, c \in Nat, x \in Nat, s \in Nat :
           /\ o = fifo.out /\ o + c = fifo.in /\ c = Len(Content) /\ x = Len(inbox)
           /\ s = Len(stream) /\ s = o + c + x
           /\ \A j \in 1..c : Content[j] = stream[o + j]
           /\ \A j \in 1..x : inbox[j] = stream[o + c + j]
<1>1. PICK o \in Nat, c \in Nat, x \in Nat, s \in Nat :
        o = fifo.out /\ c = Len(Content) /\ x = Len(inbox) /\ s = Len(stream)
  BY StreamParts
<1>2. WireInv
  BY DEF StreamInv
<1>3. o + c = fifo.in /\ s = o + c + x
  BY <1>1, <1>2 DEF WireInv
<1>4. /\ \A j \in 1..c : Content[j] = stream[o + j]
      /\ \A j \in 1..x : inbox[j] = stream[o + c + j]
  BY <1>1, <1>2, <1>3 DEF WireInv
<1> QED
  BY <1>1, <1>3, <1>4

LEMMA StreamSend ==
  ASSUME StreamInv, NEW bytes \in Packets \cup Noise, Send(bytes)
  PROVE  StreamInv'
<1>0. FramingType
  BY DEF StreamInv
<1>1. /\ bytes \in Seq(Byte)
      /\ fifo' = fifo /\ pc' = pc /\ delivered' = delivered
      /\ inbox' = inbox \o bytes /\ stream' = stream \o bytes
  BY <1>0, SendIs
<1>2. Content' = Content
  BY <1>1 DEF Content
<1>3. FramingType'
  BY <1>0, TypeNext DEF Next
<1>a. PICK o \in Nat, c \in Nat, x \in Nat, s \in Nat :
      /\ o = fifo.out /\ o + c = fifo.in /\ c = Len(Content) /\ x = Len(inbox)
      /\ s = Len(stream) /\ s = o + c + x
      /\ \A j \in 1..c : Content[j] = stream[o + j]
      /\ \A j \in 1..x : inbox[j] = stream[o + c + j]
  BY WireIs
<1>b. PICK y \in Nat : y = Len(bytes)
  BY <1>1, LenProperties
<1>c. o \in Nat /\ c \in Nat /\ x \in Nat /\ s \in Nat /\ y \in Nat /\ s = o + c + x
  BY <1>a
<1>4. /\ Len(inbox') = x + y
      /\ \A j \in 1..x : inbox'[j] = inbox[j]
      /\ \A j \in 1..y : inbox'[x + j] = bytes[j]
  BY <1>1, <1>a, <1>b, StreamParts, ConcatIs
<1>5. /\ Len(stream') = s + y
      /\ \A j \in 1..s : stream'[j] = stream[j]
      /\ \A j \in 1..y : stream'[s + j] = bytes[j]
  <2>1. stream \in Seq(Byte) /\ s = Len(stream)
    BY <1>a, StreamParts
  <2>2. /\ stream \o bytes \in Seq(Byte) /\ Len(stream \o bytes) = s + y
        /\ \A j \in 1..s : (stream \o bytes)[j] = stream[j]
        /\ \A j \in 1..y : (stream \o bytes)[s + j] = bytes[j]
    BY <1>1, <1>b, <2>1, ConcatIs
  <2> QED
    BY <1>1, <2>2
<1>6. Len(inbox') + Len(Content') <= MaxBurst
  <2>1. Len(inbox) + Len(Content) + Len(bytes) <= MaxBurst
    BY DEF Send
  <2>2. Len(inbox) + Len(Content) + Len(bytes) = Len(inbox') + Len(Content')
    BY <1>2, <1>4, <1>a, <1>b
  <2> QED
    BY <2>1, <2>2
<1>7. WireInv'
  <2>1. \A j \in 1..c : Content[j] = stream'[o + j]
    <3> TAKE j \in 1..c
    <3>1. o + j \in 1..s
      BY <1>a
    <3> QED
      BY <1>5, <1>a, <3>1
  <2>2. \A j \in 1..x + y : inbox'[j] = stream'[o + c + j]
    <3> TAKE j \in 1..x + y
    <3>1. CASE j <= x
      <4>1. o + c + j \in 1..s /\ j \in 1..x
        BY <1>a, <3>1
      <4> QED
        BY <1>4, <1>5, <1>a, <4>1
    <3>2. CASE ~(j <= x)
      <4>1. j - x \in 1..y
        BY <3>2
      <4>2. PICK i \in 1..y : i = j - x
        BY <4>1
      <4>3. j = x + i /\ o + c + j = s + i
        BY <1>c, <4>2
      <4>4. inbox'[x + i] = stream'[s + i]
        BY <1>4, <1>5, <4>2
      <4> QED
        BY <4>3, <4>4
    <3> QED
      BY <3>1, <3>2
  <2>3. fifo'.in = fifo'.out + Len(Content') /\ Len(stream') = fifo'.in + Len(inbox')
    <3>1. fifo'.in = o + c /\ fifo'.out = o /\ Len(Content') = c
      BY <1>1, <1>2, <1>a
    <3>2. s + y = o + c + (x + y)
      BY <1>c
    <3> QED
      BY <1>4, <1>5, <3>1, <3>2
  <2> QED
    BY <1>1, <1>2, <1>4, <1>a, <2>1, <2>2, <2>3 DEF WireInv
<1>8. ASSUME NEW k \in 1..Len(sent)
      PROVE  /\ End(k) <= s /\ End(k) <= s + y
             /\ \A j \in 1..Len(sent[k].bytes) : sent[k].bytes[j] = stream'[sent[k].at + j]
  <2>1. PICK a \in Nat, l \in Nat : a = sent[k].at /\ l = Len(sent[k].bytes) /\ End(k) = a + l
    BY SentIs DEF End
  <2>2. a + l <= s
    BY <1>a, <2>1 DEF StreamInv, SentInv
  <2>3. \A j \in 1..l : sent[k].bytes[j] = stream[a + j]
    BY <2>1 DEF StreamInv, SentInv
  <2>4. \A j \in 1..l : a + j \in 1..s
    BY <2>2
  <2>5. a + l <= s + y
    BY <2>2
  <2> QED
    BY <1>5, <2>1, <2>2, <2>3, <2>4, <2>5
<1>9. CASE sent' = sent
  <2>1. SentInv'
    <3>1. \A k \in 1..Len(sent) : End(k)' = End(k)
      BY <1>9 DEF End
    <3>2. \A k, l \in 1..Len(sent) : k < l => End(k) <= sent[l].at
      BY DEF StreamInv, SentInv
    <3> QED
      BY <1>5, <1>8, <1>9, <3>1, <3>2 DEF SentInv
  <2>2. DeliveredInv'
    BY <1>1, <1>9 DEF StreamInv, DeliveredInv, End
  <2> QED
    BY <1>1, <1>2, <1>3, <1>6, <1>7, <2>1, <2>2 DEF StreamInv, Waiting
<1>10. CASE /\ bytes \in Packets
            /\ sent' = Append(sent, [at |-> Len(stream), bytes |-> bytes])
  <2>0. bytes \in Packets /\ sent' = Append(sent, [at |-> s, bytes |-> bytes])
    BY <1>10, <1>a
  <2>1. /\ Len(sent') = Len(sent) + 1 /\ \A k \in 1..Len(sent) : sent'[k] = sent[k]
        /\ sent'[Len(sent) + 1] = [at |-> s, bytes |-> bytes]
    <3>1. [at |-> s, bytes |-> bytes] \in [at : Nat, bytes : Packets]
      BY <2>0
    <3> QED
      BY <2>0, <3>1, StreamParts, AppendProperties
  <2>2. PICK m \in Nat : m = Len(sent)
    BY StreamParts
  <2>3. /\ \A k \in 1..m : End(k)' = End(k)
        /\ End(m + 1)' = Len(stream')
        /\ sent'[m + 1].at = s /\ sent'[m + 1].bytes = bytes
    <3>1. sent'[m + 1].at = s /\ sent'[m + 1].bytes = bytes
      BY <2>1, <2>2
    <3>2. End(m + 1)' = s + y
      BY <3>1, <1>b DEF End
    <3>3. \A k \in 1..m : End(k)' = End(k)
      BY <2>1, <2>2 DEF End
    <3> QED
      BY <1>5, <3>1, <3>2, <3>3
  <2>4. \A k \in 1..m+1 : k \in 1..m \/ k = m + 1
    OBVIOUS
  <2>5. SentInv'
    <3>1. \A k \in 1..m+1 : End(k)' <= Len(stream')
      <4>1. \A k \in 1..m : End(k)' <= s + y
        BY <1>8, <2>2, <2>3
      <4>2. End(m + 1)' <= s + y
        BY <1>5, <2>3
      <4> QED
        BY <1>5, <2>4, <4>1, <4>2
    <3>2. \A j \in 1..Len(bytes) : bytes[j] = stream'[s + j]
      BY <1>5, <1>b
    <3>3. \A k \in 1..m+1 : \A j \in 1..Len(sent'[k].bytes) :
            sent'[k].bytes[j] = stream'[sent'[k].at + j]
      <4> TAKE k \in 1..m+1
      <4>1. CASE k \in 1..m
        <5>1. k \in 1..Len(sent) /\ sent'[k] = sent[k]
          BY <2>1, <2>2, <4>1
        <5> QED
          BY <1>8, <5>1
      <4>2. CASE k = m + 1
        BY <2>3, <3>2, <4>2
      <4> QED
        BY <2>4, <4>1, <4>2
    <3>4. \A k, l \in 1..m+1 : k < l => End(k)' <= sent'[l].at
      <4> TAKE k, l \in 1..m+1
      <4>1. CASE l \in 1..m
        <5>1. k < l => k \in 1..m
          BY <4>1
        <5> QED
          BY <2>1, <2>2, <2>3, <4>1, <5>1 DEF StreamInv, SentInv
      <4>2. CASE l = m + 1
        <5>1. k < l => k \in 1..m
          BY <2>4, <4>2
        <5> QED
          BY <1>8, <2>2, <2>3, <4>2, <5>1
      <4> QED
        BY <2>4, <4>1, <4>2
    <3> QED
      BY <2>1, <2>2, <3>1, <3>3, <3>4 DEF SentInv
  <2>6. DeliveredInv'
    <3>1. Len(delivered) <= m /\ Len(delivered) \in Nat
      BY <2>2, StreamParts DEF StreamInv, DeliveredInv
    <3>2. s >= fifo.out
      BY <1>a
    <3>3. ASSUME NEW k \in 1..m+1
          PROVE  IF k <= Len(delivered) THEN delivered[k] = sent'[k].bytes /\ End(k)' <= fifo.out
                                        ELSE sent'[k].at >= fifo.out
      <4>1. CASE k \in 1..m
        BY <2>1, <2>2, <2>3, <4>1 DEF StreamInv, DeliveredInv
      <4>2. CASE k = m + 1
        BY <2>3, <3>1, <3>2, <4>2
      <4> QED
        BY <2>4, <4>1, <4>2
    <3>4. Len(delivered) <= m + 1 /\ Len(sent') = m + 1
      BY <2>1, <2>2, <3>1
    <3> QED
      BY <1>1, <3>3, <3>4 DEF DeliveredInv
  <2> QED
    BY <1>1, <1>2, <1>3, <1>6, <1>7, <2>5, <2>6 DEF StreamInv, Waiting
<1> QED
  BY <1>0, <1>9, <1>10, SendIs

LEMMA StreamReceive ==
  ASSUME MaxBurst <= Size, StreamInv, Straight, NEW n \in 1..Size, Receive(n)
  PROVE  StreamInv'
<1>0. FramingType /\ FramingType'
  BY TypeNext DEF StreamInv, Next
<1>a. PICK o \in Nat, c \in Nat, x \in Nat, s \in Nat :
        /\ o = fifo.out /\ o + c = fifo.in /\ c = Len(Content) /\ x = Len(inbox)
        /\ s = Len(stream) /\ s = o + c + x
        /\ \A j \in 1..c : Content[j] = stream[o + j]
        /\ \A j \in 1..x : inbox[j] = stream[o + c + j]
  BY WireIs
<1>b. PICK bytes : bytes = SubSeq(inbox, 1, n)
  OBVIOUS
<1>1. /\ n \in Nat /\ n >= 1 /\ n <= x
      /\ bytes \in Seq(Byte) /\ Len(bytes) = n
      /\ \A j \in 1..n : bytes[j] = inbox[j]
      /\ Len(inbox') = x - n
      /\ \A j \in 1..x - n : inbox'[j] = inbox[n + j]
      /\ fifo' = K!AfterPut(fifo, bytes)
      /\ pc' = "check"
      /\ UNCHANGED <<delivered, stream, sent, sends>>
  BY <1>0, <1>a, <1>b, ReceiveIs
<1>c. PICK y \in Nat : y = x - n
  BY <1>1
<1>d. /\ o \in Nat /\ c \in Nat /\ x \in Nat /\ s \in Nat /\ y \in Nat /\ n \in Nat
      /\ s = o + c + x /\ x = n + y
  BY <1>1, <1>a, <1>c
<1>2. c + x <= MaxBurst /\ c + n <= Size
  <2>1. c + x <= MaxBurst
    BY <1>a DEF StreamInv
  <2> QED
    BY <1>d, <2>1, FramingAssumption
<1>3. o + c + n \in 0..Modulus-1
  BY <1>a, <1>d, RingConstants DEF Straight
<1>4. /\ Content' = Content \o bytes
      /\ fifo'.in = o + c + n /\ fifo'.out = o
  <2>1. fifo \in Ring /\ Used(fifo) <= Size /\ Used(fifo) = c /\ Content = Held(fifo)
    BY <1>a, StreamParts DEF Content, Held
  <2>2. Used(fifo) + Len(bytes) <= Size
    BY <1>1, <1>2, <2>1
  <2>3. Held(fifo') = Held(fifo) \o bytes /\ fifo'.in = (o + c + n) % Modulus /\ fifo'.out = o
    BY <1>1, <1>a, <2>1, <2>2, RingPut
  <2>4. (o + c + n) % Modulus = o + c + n
    BY <1>3, RingConstants, KP!ModSmall
  <2>5. Content' = Held(fifo')
    BY DEF Content, Held
  <2> QED
    BY <2>1, <2>3, <2>4, <2>5
<1>5. /\ Len(Content') = c + n
      /\ \A j \in 1..c : Content'[j] = Content[j]
      /\ \A j \in 1..n : Content'[c + j] = bytes[j]
  <2>1. Content \in Seq(Byte) /\ c = Len(Content)
    BY <1>a, StreamParts
  <2>2. bytes \in Seq(Byte) /\ n = Len(bytes) /\ n \in Nat
    BY <1>1
  <2>3. /\ Len(Content \o bytes) = c + n
        /\ \A j \in 1..c : (Content \o bytes)[j] = Content[j]
        /\ \A j \in 1..n : (Content \o bytes)[c + j] = bytes[j]
    BY <2>1, <2>2, ConcatIs
  <2> QED
    BY <1>4, <2>3
<1>6. WireInv'
  <2>1. \A j \in 1..c + n : Content'[j] = stream[o + j]
    <3> TAKE j \in 1..c + n
    <3>1. CASE j <= c
      <4>1. j \in 1..c
        BY <1>d, <3>1
      <4> QED
        BY <1>5, <1>a, <4>1
    <3>2. CASE ~(j <= c)
      <4>1. j - c \in 1..n
        BY <1>d, <3>2
      <4>2. PICK i \in 1..n : i = j - c
        BY <4>1
      <4>3. i \in 1..x /\ j = c + i /\ o + j = o + c + i
        BY <1>d, <4>2
      <4>4. Content'[c + i] = stream[o + c + i]
        BY <1>1, <1>5, <1>a, <4>3
      <4> QED
        BY <4>3, <4>4
    <3> QED
      BY <3>1, <3>2
  <2>2. \A j \in 1..y : inbox'[j] = stream[o + c + n + j]
    <3> TAKE j \in 1..y
    <3>1. n + j \in 1..x /\ o + c + (n + j) = o + c + n + j
      BY <1>d
    <3>2. inbox'[j] = inbox[n + j] /\ inbox[n + j] = stream[o + c + (n + j)]
      BY <1>1, <1>a, <1>c, <3>1
    <3> QED
      BY <3>1, <3>2
  <2>3. o + c + n = o + (c + n) /\ s = o + c + n + y
    BY <1>d
  <2>4. Len(inbox') = y /\ Len(stream') = s /\ stream' = stream
    BY <1>1, <1>a, <1>c
  <2>5. fifo'.in = fifo'.out + Len(Content') /\ Len(stream') = fifo'.in + Len(inbox')
    BY <1>4, <1>5, <2>3, <2>4
  <2>6. /\ \A j \in 1..Len(Content') : Content'[j] = stream'[fifo'.out + j]
        /\ \A j \in 1..Len(inbox') : inbox'[j] = stream'[fifo'.in + j]
    BY <1>4, <1>5, <2>1, <2>2, <2>4
  <2> QED
    BY <2>5, <2>6 DEF WireInv
<1>7. SentInv'
  BY <1>1 DEF StreamInv, SentInv, End
<1>8. DeliveredInv'
  BY <1>1, <1>4, <1>a DEF StreamInv, DeliveredInv, End
<1>9. Len(inbox') + Len(Content') <= MaxBurst
  <2>1. Len(inbox') + Len(Content') = c + x
    BY <1>1, <1>5, <1>d
  <2> QED
    BY <1>2, <2>1
<1> QED
  BY <1>0, <1>1, <1>6, <1>7, <1>8, <1>9 DEF StreamInv

(* A packet not yet handed on that has begun to arrive is never skipped.   *)
LEMMA Undelivered ==
  ASSUME StreamInv, NEW k \in 1..Len(sent), ~(k <= Len(delivered)),
         NEW q \in Nat, sent[k].at + 1 = fifo.out + q, q <= Len(Content)
  PROVE  /\ q >= 1 /\ q >= StopAt(Content)
         /\ Verdict(Content, q) = "message" => Word(Content, q + 1) = Len(sent[k].bytes)
<1>a. PICK o \in Nat, c \in Nat, x \in Nat, s \in Nat :
        /\ o = fifo.out /\ o + c = fifo.in /\ c = Len(Content) /\ x = Len(inbox)
        /\ s = Len(stream) /\ s = o + c + x
        /\ \A j \in 1..c : Content[j] = stream[o + j]
        /\ \A j \in 1..x : inbox[j] = stream[o + c + j]
  BY WireIs
<1>b. PICK a \in Nat, l \in Nat, p \in Packets :
        a = sent[k].at /\ p = sent[k].bytes /\ l = Len(p)
  BY SentIs
<1>1. a + 1 = o + q /\ q <= c
  BY <1>a, <1>b
<1>2. a >= o /\ \A j \in 1..l : p[j] = stream[a + j]
  BY <1>a, <1>b DEF StreamInv, DeliveredInv, SentInv
<1>3. q >= 1
  BY <1>1, <1>2
<1>4. \A j \in 1..c : j <= l /\ q - 1 + j <= c => Content[q - 1 + j] = p[j]
  <2> SUFFICES ASSUME NEW j \in 1..c, j <= l, q - 1 + j <= c PROVE Content[q - 1 + j] = p[j]
    OBVIOUS
  <2>1. PICK i \in 1..c : i = q - 1 + j
    <3>1. q - 1 + j \in 1..c
      BY <1>3
    <3> QED
      BY <3>1
  <2>2. o + i = a + j
    BY <1>1, <2>1
  <2>3. Content[i] = stream[o + i] /\ p[j] = stream[a + j]
    BY <1>2, <1>a
  <2> QED
    BY <2>1, <2>2, <2>3
<1>5. /\ Verdict(Content, q) # "skip"
      /\ Verdict(Content, q) = "message" => Word(Content, q + 1) = l
  <2>1. Content \in Seq(Byte) /\ Len(Content) = c
    BY <1>a, StreamParts
  <2> QED
    BY <1>1, <1>3, <1>4, <1>b, <2>1, PacketVerdict
<1>6. q >= StopAt(Content)
  <2>1. /\ StopAt(Content) \in 1..c+1
        /\ \A i \in 1..c : i < StopAt(Content) => Verdict(Content, i) = "skip"
    BY <1>a, StreamParts, StopAtIs
  <2>2. q \in 1..c
    BY <1>1, <1>3
  <2>3. ~(q < StopAt(Content))
    BY <1>5, <2>1, <2>2
  <2> QED
    BY <2>1, <2>2, <2>3
<1> QED
  BY <1>3, <1>5, <1>6, <1>b

(* g is what is left of f without its first n bytes, m remaining.          *)
Holds(f, n, m) == f \in Ring /\ Used(f) <= Size /\ n + m = Used(f)
Without(g, f, n, m) ==
  /\ g \in Ring /\ Used(g) = m /\ g.in = f.in /\ g.out = f.out + n
  /\ Held(g) \in Seq(Byte) /\ Len(Held(g)) = m
  /\ \A j \in 1..m : Held(g)[j] = Held(f)[n + j]

(* What the fifo holds when bytes were popped from it.                     *)
LEMMA Popped ==
  ASSUME NEW f, NEW n \in Nat, NEW m \in Nat, Holds(f, n, m), f.in >= f.out
  PROVE  Without(K!AfterPops(f, n), f, n, m)
<1> USE DEF Holds
<1>1. n <= Used(f) /\ Used(f) - n = m /\ Used(f) \in Nat
  BY RingUsed
<1>2. PICK g : g = K!AfterPops(f, n)
  OBVIOUS
<1>3. /\ g \in Ring /\ g = [f EXCEPT !.out = f.out + n] /\ Used(g) = m
      /\ Held(g) = SubSeq(Held(f), n + 1, Used(f))
  BY <1>1, <1>2, RingPops
<1>4. Held(f) \in Seq(Byte) /\ Len(Held(f)) = Used(f)
  BY RingHeld
<1>5. PICK h \in Seq(Byte) : h = Held(f) /\ Len(h) = n + m
  BY <1>4
<1>6. /\ SubSeq(h, n + 1, Len(h)) \in Seq(Byte) /\ Len(SubSeq(h, n + 1, Len(h))) = m
      /\ \A j \in 1..m : SubSeq(h, n + 1, Len(h))[j] = h[n + j]
  BY <1>5, SubSeqDrops
<1>7. Held(g) = SubSeq(h, n + 1, Len(h))
  BY <1>3, <1>4, <1>5
<1>8. g.in = f.in /\ g.out = f.out + n
  BY <1>3 DEF Ring
<1> QED
  BY <1>2, <1>3, <1>5, <1>6, <1>7, <1>8 DEF Without

LEMMA StreamBreak ==
  ASSUME StreamInv, Break
  PROVE  StreamInv'
<1>0. FramingType /\ FramingType'
  BY TypeNext DEF StreamInv, Next
<1>a. PICK o \in Nat, c \in Nat, x \in Nat, s \in Nat :
        /\ o = fifo.out /\ o + c = fifo.in /\ c = Len(Content) /\ x = Len(inbox)
        /\ s = Len(stream) /\ s = o + c + x
        /\ \A j \in 1..c : Content[j] = stream[o + j]
        /\ \A j \in 1..x : inbox[j] = stream[o + c + j]
  BY WireIs
<1>b. Content \in Seq(Byte) /\ Content' \in Seq(Byte) /\ Content' = Held(fifo')
  <2>1. Content \in Seq(Byte)
    BY StreamParts
  <2>2. Content' = Held(fifo')
    BY DEF Content, Held
  <2>3. Held(fifo') \in Seq(Byte)
    BY <1>0, RingHeld DEF FramingType
  <2> QED
    BY <2>1, <2>2, <2>3
<1>c. PICK n \in Nat : n + 1 = StopAt(Content) /\ n = StopAt(Content) - 1 /\ n <= c
  <2>1. StopAt(Content) \in 1..c+1
    BY <1>a, <1>b, StopAtIs
  <2> QED
    BY <1>a, <2>1
<1>e. PICK m \in Nat : n + m = c
  <2>1. c - n \in Nat /\ n + (c - n) = c
    BY <1>c
  <2> QED
    BY <2>1
<1>1. /\ fifo' = K!AfterPops(fifo, n) /\ ~Found(Content) /\ pc' = "read"
      /\ UNCHANGED <<inbox, delivered, stream, sent, sends>>
  BY <1>c DEF Break
<1>2. /\ fifo'.in = o + c /\ fifo'.out = o + n /\ Len(Content') = m
      /\ \A j \in 1..m : Content'[j] = Content[n + j]
  <2>1. Holds(fifo, n, m) /\ fifo.in >= fifo.out /\ Content = Held(fifo)
    BY <1>a, <1>e, StreamParts DEF Content, Held, Holds
  <2>2. Without(fifo', fifo, n, m)
    BY <1>1, <2>1, Popped
  <2> QED
    BY <1>a, <1>b, <2>1, <2>2 DEF Without
<1>d. /\ o \in Nat /\ c \in Nat /\ x \in Nat /\ s \in Nat /\ n \in Nat /\ m \in Nat
      /\ s = o + c + x /\ c = n + m
  BY <1>a, <1>e
<1>3. WireInv'
  <2>1. \A j \in 1..m : Content'[j] = stream[o + n + j]
    <3> TAKE j \in 1..m
    <3>1. n + j \in 1..c /\ o + (n + j) = o + n + j
      BY <1>d
    <3>2. Content'[j] = Content[n + j] /\ Content[n + j] = stream[o + (n + j)]
      BY <1>2, <1>a, <3>1
    <3> QED
      BY <3>1, <3>2
  <2>2. o + c = o + n + m /\ s = o + c + x
    BY <1>d
  <2> QED
    BY <1>1, <1>2, <1>a, <2>1, <2>2 DEF WireInv
<1>4. SentInv'
  BY <1>1 DEF StreamInv, SentInv, End
<1>5. DeliveredInv'
  <2>1. ASSUME NEW k \in 1..Len(sent), ~(k <= Len(delivered))
        PROVE  sent[k].at >= o + n
    <3>1. PICK a \in Nat : a = sent[k].at /\ a >= o
      BY <1>a, <2>1, SentIs DEF StreamInv, DeliveredInv
    <3>2. PICK q \in Nat : a + 1 = o + q /\ q >= 1
      <4>1. a + 1 - o \in Nat /\ a + 1 - o >= 1 /\ a + 1 = o + (a + 1 - o)
        <5>1. a >= o /\ a \in Int /\ o \in Int
          BY <3>1
        <5> QED
          BY <5>1
      <4> QED
        BY <4>1
    <3>3. ASSUME q <= c PROVE q >= n + 1
      <4>1. sent[k].at + 1 = fifo.out + q /\ q <= Len(Content)
        BY <1>a, <3>1, <3>2, <3>3
      <4>2. q >= StopAt(Content)
        BY <2>1, <4>1, Undelivered
      <4> QED
        BY <1>c, <4>2
    <3>4. ASSUME ~(q <= c) PROVE q >= n + 1
      BY <1>d, <3>4
    <3>5. q >= n + 1 /\ a + 1 = o + q
      BY <3>2, <3>3, <3>4
    <3>6. a >= o + n
      BY <3>5
    <3> QED
      BY <3>1, <3>6
  <2>2. ASSUME NEW k \in 1..Len(sent), k <= Len(delivered)
        PROVE  delivered[k] = sent[k].bytes /\ End(k) <= o + n
    <3>1. delivered[k] = sent[k].bytes /\ End(k) <= o /\ End(k) \in Nat
      BY <1>a, <2>2, SentIs DEF StreamInv, DeliveredInv
    <3> QED
      BY <1>d, <3>1
  <2>3. Len(delivered) <= Len(sent)
    BY DEF StreamInv, DeliveredInv
  <2>4. delivered' = delivered /\ sent' = sent /\ \A k : End(k)' = End(k)
    BY <1>1 DEF End
  <2> QED
    BY <1>2, <2>1, <2>2, <2>3, <2>4 DEF DeliveredInv
<1>6. Len(inbox') + Len(Content') <= MaxBurst
  <2>1. x + c <= MaxBurst
    BY <1>a DEF StreamInv
  <2>2. x + m <= MaxBurst
    BY <1>d, <2>1, FramingAssumption
  <2> QED
    BY <1>1, <1>2, <1>a, <2>2
<1>7. Waiting'
  <2>1. CASE m = 0
    <3>1. Content' = <<>>
      BY <1>2, <1>b, <2>1, EmptySeq
    <3> QED
      BY <3>1 DEF Waiting
  <2>2. CASE m >= 1
    <3>1. PICK i \in Nat, one \in Nat : i = n + 1 /\ one = 1 /\ i >= 1 /\ one >= 1
      BY <1>d
    <3>2. Agree(Content, i, Content', one, m)
      <4>1. i - 1 = n /\ one - 1 = 0 /\ i - 1 + m <= c /\ one - 1 + m <= m
        BY <1>d, <3>1
      <4>2. \A j \in 1..m : Content[n + j] = Content'[0 + j]
        BY <1>2
      <4> QED
        BY <1>2, <1>a, <4>1, <4>2 DEF Agree
    <3>3. Len(Content) - i = Len(Content') - one /\ m = Len(Content) - i + 1
      BY <1>2, <1>a, <1>d, <3>1
    <3>4. /\ Verdict(Content, i) = Verdict(Content', one)
          /\ m >= 3 => Word(Content, i + 1) = Word(Content', one + 1)
      <4>1. PICK b \in Seq(Byte), d \in Seq(Byte) : b = Content /\ d = Content'
        BY <1>b
      <4>2. Agree(b, i, d, one, m) /\ Enough(b, i, d, one, m)
        BY <3>2, <3>3, <4>1 DEF Enough
      <4>3. /\ Verdict(b, i) = Verdict(d, one)
            /\ m >= 3 => Word(b, i + 1) = Word(d, one + 1)
        BY <2>2, <3>1, <4>2, SameVerdict
      <4> QED
        BY <4>1, <4>3
    <3>5. i = StopAt(Content) /\ i <= Len(Content)
      BY <1>a, <1>c, <1>d, <2>2, <3>1
    <3>6. Verdict(Content, i) # "skip"
      BY <1>b, <3>5, StopAtIs
    <3>7. ASSUME Found(Content') PROVE FALSE
      <4>1. StopAt(Content') = one
        <5>1. /\ StopAt(Content') \in 1..m+1
              /\ \A j \in 1..m : j < StopAt(Content') => Verdict(Content', j) = "skip"
          BY <1>2, <1>b, StopAtIs
        <5>2. one \in 1..m
          BY <2>2, <3>1
        <5>3. ~(one < StopAt(Content'))
          BY <3>4, <3>6, <5>1, <5>2
        <5> QED
          BY <3>1, <5>1, <5>3
      <4>2. /\ Verdict(Content', one) = "message" /\ Word(Content', one + 1) >= 8
            /\ one - 1 + Word(Content', one + 1) <= m /\ Word(Content', one + 1) \in Nat
        BY <1>2, <1>b, <3>7, <4>1, FoundIs
      <4>3. Word(Content', one + 3) \notin {ILLEGAL, HALFPACK}
        BY <3>7, <4>1 DEF Found
      <4>4. Word(Content, i + 3) = Word(Content', one + 3)
        <5>1. m >= 8
          BY <3>1, <4>2
        <5>2. 4 \in 1..m /\ 5 \in 1..m
          BY <5>1
        <5>3. Content'[4] = Content[n + 4] /\ Content'[5] = Content[n + 5]
          BY <1>2, <5>2
        <5>4. i + 3 = n + 4 /\ i + 3 + 1 = n + 5 /\ one + 3 = 4 /\ one + 3 + 1 = 5
          BY <1>d, <3>1
        <5> QED
          BY <5>3, <5>4 DEF Word
      <4>5. Found(Content)
        BY <3>4, <3>5, <4>2, <4>3, <4>4 DEF Found
      <4> QED
        BY <1>1, <4>5
    <3>8. Verdict(Content', 1) # "skip"
      BY <3>1, <3>4, <3>6
    <3> QED
      BY <3>7, <3>8 DEF Waiting
  <2> QED
    BY <1>d, <2>1, <2>2
<1> QED
  BY <1>0, <1>3, <1>4, <1>5, <1>6, <1>7 DEF StreamInv

(* What kfifo_get leaves, when the popped bytes and the message were in a  *)
(* straight line of the counters.                                          *)
LEMMA Gotten ==
  ASSUME NEW f, NEW n \in Nat, NEW m \in Nat, Holds(f, n, m), f.out + n < Modulus
  PROVE  /\ K!Ahead(f, n) = SubSeq(Held(f), 1, n)
         /\ Without(K!AfterGet(f, n), f, n, m)
<1> USE DEF Holds
<1>1. n <= Used(f) /\ Used(f) - n = m /\ Used(f) \in Nat
  BY RingUsed
<1>2. PICK g : g = K!AfterGet(f, n)
  OBVIOUS
<1>3. (f.out + n) % Modulus = f.out + n
  <2>1. f.out + n \in 0..Modulus-1
    BY RingUsed, RingConstants
  <2> QED
    BY <2>1, RingConstants, KP!ModSmall
<1>4. /\ g \in Ring /\ g = [f EXCEPT !.out = f.out + n] /\ Used(g) = m
      /\ Held(g) = SubSeq(Held(f), n + 1, Used(f))
      /\ K!Ahead(f, n) = SubSeq(Held(f), 1, n)
  BY <1>1, <1>2, <1>3, RingGet
<1>5. PICK h \in Seq(Byte) : h = Held(f) /\ Len(h) = n + m
  BY RingHeld
<1>6. /\ SubSeq(h, n + 1, Len(h)) \in Seq(Byte) /\ Len(SubSeq(h, n + 1, Len(h))) = m
      /\ \A j \in 1..m : SubSeq(h, n + 1, Len(h))[j] = h[n + j]
  BY <1>5, SubSeqDrops
<1>7. Held(g) = SubSeq(h, n + 1, Len(h))
  BY <1>4, <1>5
<1>8. g.in = f.in /\ g.out = f.out + n
  BY <1>4 DEF Ring
<1> QED
  BY <1>2, <1>4, <1>5, <1>6, <1>7, <1>8 DEF Without

(* The message protocol_check finds is the next one not handed on.         *)
LEMMA FoundNext ==
  ASSUME StreamInv, Unforged, Found(Content)
  PROVE  LET k == Len(delivered) + 1
             i == StopAt(Content)
         IN  /\ k \in 1..Len(sent) /\ sent[k].at + 1 = fifo.out + i
             /\ Word(Content, i + 1) = Len(sent[k].bytes)
             /\ i \in 1..Len(Content) /\ i - 1 + Len(sent[k].bytes) <= Len(Content)
<1>a. PICK o \in Nat, c \in Nat, x \in Nat, s \in Nat :
        /\ o = fifo.out /\ o + c = fifo.in /\ c = Len(Content) /\ x = Len(inbox)
        /\ s = Len(stream) /\ s = o + c + x
        /\ \A j \in 1..c : Content[j] = stream[o + j]
        /\ \A j \in 1..x : inbox[j] = stream[o + c + j]
  BY WireIs
<1>b. PICK b \in Seq(Byte), w \in Seq(Byte) : b = Content /\ w = stream
  BY StreamParts
<1>c. PICK i \in Nat, n \in Nat :
        /\ i = StopAt(b) /\ i \in 1..c /\ Verdict(b, i) = "message"
        /\ n = Word(b, i + 1) /\ n >= 8 /\ i - 1 + n <= c
  BY <1>a, <1>b, FoundIs
<1>d. PICK d \in Nat, z \in Nat : d = Len(delivered) /\ z = Len(sent) /\ d <= z
  BY StreamParts DEF StreamInv, DeliveredInv
<1>f. /\ o \in Nat /\ c \in Nat /\ x \in Nat /\ s \in Nat /\ i \in Nat /\ n \in Nat
      /\ s = o + c + x /\ i >= 1 /\ i <= c /\ i - 1 + n <= c /\ n >= 8
  <2>1. i >= 1 /\ i <= c
    BY <1>c
  <2> QED
    BY <1>a, <1>c, <2>1
<1>e. PICK p \in Nat : p = o + i /\ p >= 1 /\ p <= s
  <2>1. o + i \in Nat /\ o + i >= 1 /\ o + i <= s
    BY <1>f
  <2> QED
    BY <2>1
<1>1. Verdict(w, p) = "message"
  <2>1. Agree(b, i, w, p, n)
    <3>1. i - 1 + n <= Len(b) /\ p - 1 + n <= Len(w)
      <4>1. p - 1 + n <= s
        BY <1>f, <1>e
      <4> QED
        BY <1>a, <1>b, <1>c, <4>1
    <3>2. \A j \in 1..n : b[i - 1 + j] = w[p - 1 + j]
      <4> TAKE j \in 1..n
      <4>1. i - 1 + j \in 1..c /\ o + (i - 1 + j) = p - 1 + j
        BY <1>f, <1>e
      <4>2. b[i - 1 + j] = w[o + (i - 1 + j)]
        BY <1>a, <1>b, <4>1
      <4> QED
        BY <4>1, <4>2
    <3> QED
      BY <3>1, <3>2 DEF Agree
  <2>2. Enough(b, i, w, p, n) /\ i >= 1 /\ n >= 1
    BY <1>c DEF Enough
  <2>3. Verdict(b, i) = Verdict(w, p)
    BY <1>e, <2>1, <2>2, SameVerdict
  <2> QED
    BY <1>c, <2>3
<1>2. PICK k \in 1..z : sent[k].at < p /\ p <= End(k)
  <2>1. p \in 1..Len(stream) /\ Verdict(stream, p) = "message"
    BY <1>1, <1>a, <1>b, <1>e
  <2> QED
    BY <1>d, <2>1 DEF Unforged
<1>3. ~(k <= d)
  <2>1. k <= d => End(k) <= o
    BY <1>2, <1>a, <1>d DEF StreamInv, DeliveredInv
  <2>2. End(k) \in Nat
    BY <1>2, <1>d, SentIs
  <2>3. ~(p <= o)
    BY <1>c, <1>e
  <2> QED
    BY <1>2, <2>1, <2>2, <2>3
<1>4. PICK l \in 1..z : l = d + 1 /\ ~(l <= d) /\ l <= k
  <2>1. d + 1 \in 1..z /\ ~(d + 1 <= d) /\ d + 1 <= k
    BY <1>3, <1>2
  <2> QED
    BY <2>1
<1>5. PICK a \in Nat : a = sent[l].at /\ a >= o
  BY <1>4, <1>a, <1>d, SentIs DEF StreamInv, DeliveredInv
<1>6. a < p
  <2>1. CASE l = k
    BY <1>2, <1>5, <2>1
  <2>2. CASE l # k
    <3>1. l < k
      BY <1>2, <1>4, <2>2
    <3>2. End(l) <= sent[k].at
      BY <1>2, <1>4, <1>d, <3>1 DEF StreamInv, SentInv
    <3>3. PICK e \in Nat, u \in Nat : e = End(l) /\ u = sent[k].at /\ a + 8 <= e
      BY <1>2, <1>4, <1>5, <1>d, SentIs
    <3>4. e <= u /\ u < p
      BY <1>2, <3>2, <3>3
    <3> QED
      BY <1>5, <1>e, <3>3, <3>4
  <2> QED
    BY <2>1, <2>2
<1>7. PICK q \in Nat : a + 1 = o + q /\ q <= i /\ q <= c
  <2>1. a + 1 - o \in Nat /\ a + 1 = o + (a + 1 - o) /\ a + 1 - o <= i /\ a + 1 - o <= c
    <3>1. a >= o /\ a < o + i /\ i <= c /\ a \in Nat /\ o \in Nat /\ i \in Nat /\ c \in Nat
      BY <1>5, <1>6, <1>f, <1>e
    <3> QED
      BY <3>1
  <2> QED
    BY <2>1
<1>8. /\ q >= StopAt(Content)
      /\ Verdict(Content, q) = "message" => Word(Content, q + 1) = Len(sent[l].bytes)
  <2>1. l \in 1..Len(sent) /\ ~(l <= Len(delivered))
    BY <1>4, <1>d
  <2>2. sent[l].at + 1 = fifo.out + q /\ q <= Len(Content)
    BY <1>5, <1>7, <1>a
  <2> QED
    BY <2>1, <2>2, Undelivered
<1>9. q = i
  <2>1. q >= i
    BY <1>8, <1>b, <1>c
  <2> QED
    BY <1>7, <2>1
<1>10. n = Len(sent[l].bytes) /\ a + 1 = o + i
  BY <1>7, <1>8, <1>9, <1>b, <1>c
<1> QED
  <2>1. l = Len(delivered) + 1 /\ l \in 1..Len(sent) /\ i = StopAt(Content)
    BY <1>4, <1>b, <1>c, <1>d
  <2>2. sent[l].at + 1 = fifo.out + i /\ Word(Content, i + 1) = Len(sent[l].bytes)
    BY <1>10, <1>5, <1>a, <1>b, <1>c
  <2>3. i \in 1..Len(Content) /\ i - 1 + Len(sent[l].bytes) <= Len(Content)
    BY <1>10, <1>a, <1>c
  <2> QED
    BY <2>1, <2>2, <2>3

LEMMA StreamDeliver ==
  ASSUME StreamInv, Straight, Unforged, Deliver
  PROVE  StreamInv'
<1>0. FramingType /\ FramingType'
  BY TypeNext DEF StreamInv, Next
<1>a. PICK o \in Nat, c \in Nat, x \in Nat, s \in Nat :
        /\ o = fifo.out /\ o + c = fifo.in /\ c = Len(Content) /\ x = Len(inbox)
        /\ s = Len(stream) /\ s = o + c + x
        /\ \A j \in 1..c : Content[j] = stream[o + j]
        /\ \A j \in 1..x : inbox[j] = stream[o + c + j]
  BY WireIs
<1>b. PICK d \in Nat, z \in Nat, k \in Nat :
        d = Len(delivered) /\ z = Len(sent) /\ k = d + 1
  BY StreamParts
<1>1. Found(Content)
  BY DEF Deliver
<1>c. PICK i \in Nat, n \in Nat, a \in Nat, p \in Packets :
        /\ i = StopAt(Content) /\ n = Word(Content, i + 1) /\ n = Len(p)
        /\ k \in 1..z /\ a = sent[k].at /\ p = sent[k].bytes
        /\ a + 1 = o + i /\ i >= 1 /\ i <= c /\ i - 1 + n <= c
  <2>1. /\ k \in 1..Len(sent) /\ sent[k].at + 1 = fifo.out + StopAt(Content)
        /\ Word(Content, StopAt(Content) + 1) = Len(sent[k].bytes)
        /\ StopAt(Content) \in 1..Len(Content)
        /\ StopAt(Content) - 1 + Len(sent[k].bytes) <= Len(Content)
    BY <1>1, <1>b, FoundNext
  <2>2. PICK i \in Nat : i = StopAt(Content) /\ i \in 1..c
    BY <2>1, <1>a
  <2>3. PICK a \in Nat, p \in Packets : a = sent[k].at /\ p = sent[k].bytes
    BY <2>1, SentIs
  <2>4. PICK n \in Nat : n = Len(p)
    BY PacketIs
  <2>5. a + 1 = o + i /\ n = Word(Content, i + 1) /\ i - 1 + n <= c /\ k \in 1..z
    BY <2>1, <2>2, <2>3, <2>4, <1>a, <1>b
  <2>6. i >= 1 /\ i <= c
    BY <2>2
  <2> QED
    BY <2>2, <2>3, <2>4, <2>5, <2>6
<1>d. PICK r \in Nat, t \in Nat, m \in Nat :
        r = i - 1 /\ r + m = c /\ n + t = m
  <2>1. PICK r \in Nat : r = i - 1 /\ r + n <= c
    BY <1>c
  <2>2. PICK m \in Nat : m = c - r /\ r + m = c /\ n <= m
    BY <2>1
  <2>3. PICK t \in Nat : t = m - n /\ n + t = m
    BY <2>2
  <2> QED
    BY <2>1, <2>2, <2>3
<1>e. /\ o \in Nat /\ c \in Nat /\ x \in Nat /\ s \in Nat /\ r \in Nat /\ n \in Nat
      /\ t \in Nat /\ m \in Nat /\ a \in Nat /\ d \in Nat /\ z \in Nat
      /\ s = o + c + x /\ c = r + m /\ m = n + t /\ a = o + r
      /\ k = d + 1 /\ k <= z /\ k \in Nat
  <2>1. a = o + r
    <3>1. a + 1 = o + i /\ r = i - 1 /\ a \in Nat /\ o \in Nat /\ i \in Nat
      BY <1>c, <1>d
    <3> QED
      BY <3>1
  <2>2. k <= z
    BY <1>c
  <2> QED
    BY <1>a, <1>b, <1>d, <2>1, <2>2
<1>f. PICK g : g = K!AfterPops(fifo, r)
  OBVIOUS
<1>2. /\ fifo' = K!AfterGet(g, n) /\ delivered' = Append(delivered, K!Ahead(g, n))
      /\ UNCHANGED <<inbox, pc, stream, sent, sends>>
  BY <1>c, <1>d, <1>f DEF Deliver
<1>3. /\ g \in Ring /\ Used(g) = m /\ g.in = o + c /\ g.out = o + r
      /\ Held(g) \in Seq(Byte) /\ Len(Held(g)) = m
      /\ \A j \in 1..m : Held(g)[j] = Content[r + j]
  <2>1. Holds(fifo, r, m) /\ fifo.in >= fifo.out /\ Content = Held(fifo)
    BY <1>a, <1>d, StreamParts DEF Content, Held, Holds
  <2>2. Without(g, fifo, r, m)
    BY <1>f, <2>1, Popped
  <2> QED
    BY <1>a, <2>1, <2>2 DEF Without
<1>4. /\ K!Ahead(g, n) = SubSeq(Held(g), 1, n)
      /\ fifo'.in = o + c /\ fifo'.out = o + r + n
      /\ Len(Content') = t
      /\ \A j \in 1..t : Content'[j] = Held(g)[n + j]
  <2>1. Used(g) <= Size
    <3>1. c <= Size /\ Size \in Nat
      BY <1>a, StreamParts, RingConstants
    <3> QED
      BY <1>3, <1>e, <3>1
  <2>2. g.out + n < Modulus
    <3>1. s < Modulus /\ Modulus \in Nat
      BY <1>a, RingConstants DEF Straight
    <3>2. o + r + n < Modulus
      BY <1>e, <3>1
    <3> QED
      BY <1>3, <3>2
  <2>3. Holds(g, n, t)
    BY <1>3, <1>d, <2>1 DEF Holds
  <2>4. K!Ahead(g, n) = SubSeq(Held(g), 1, n) /\ Without(fifo', g, n, t)
    BY <1>2, <2>2, <2>3, Gotten
  <2>5. Content' = Held(fifo')
    BY DEF Content, Held
  <2> QED
    BY <1>3, <2>4, <2>5 DEF Without
<1>5. K!Ahead(g, n) = p
  <2>1. PICK h \in Seq(Byte) : h = Held(g) /\ Len(h) = m
    BY <1>3
  <2>2. \A j \in 1..n : h[j] \in Byte
    <3> TAKE j \in 1..n
    <3>1. j \in 1..m
      BY <1>e
    <3> QED
      BY <2>1, <3>1, ElementOfSeq
  <2>3. /\ SubSeq(h, 1, n) \in Seq(Byte) /\ Len(SubSeq(h, 1, n)) = n
        /\ \A j \in 1..n : SubSeq(h, 1, n)[j] = h[j]
    BY <2>2, <1>e, SubSeqProperties
  <2>4. \A j \in 1..n : h[j] = p[j]
    <3> TAKE j \in 1..n
    <3>1. j \in 1..m /\ r + j \in 1..c /\ o + (r + j) = a + j
      BY <1>e
    <3>2. h[j] = Content[r + j] /\ Content[r + j] = stream[o + (r + j)]
      BY <1>3, <1>a, <2>1, <3>1
    <3>3. p[j] = stream[a + j]
      BY <1>b, <1>c DEF StreamInv, SentInv
    <3> QED
      BY <3>1, <3>2, <3>3
  <2>5. p \in Seq(Byte) /\ Len(p) = n
    BY <1>c, PacketIs
  <2>6. SubSeq(h, 1, n) = p
    BY <2>3, <2>4, <2>5, SeqEqual
  <2> QED
    BY <1>4, <2>1, <2>6
<1>6. WireInv'
  <2>1. \A j \in 1..t : Content'[j] = stream[o + r + n + j]
    <3> TAKE j \in 1..t
    <3>1. /\ n + j \in 1..m /\ r + (n + j) \in 1..c
          /\ o + (r + (n + j)) = o + r + n + j
      BY <1>e
    <3>2. /\ Content'[j] = Held(g)[n + j] /\ Held(g)[n + j] = Content[r + (n + j)]
          /\ Content[r + (n + j)] = stream[o + (r + (n + j))]
      BY <1>3, <1>4, <1>a, <3>1
    <3> QED
      BY <3>1, <3>2
  <2>2. o + c = o + r + n + t /\ s = o + c + x
    BY <1>e
  <2> QED
    BY <1>2, <1>4, <1>a, <2>1, <2>2 DEF WireInv
<1>7. SentInv'
  BY <1>2 DEF StreamInv, SentInv, End
<1>8. DeliveredInv'
  <2>1. /\ delivered' = Append(delivered, p) /\ Len(delivered') = k
        /\ \A l \in 1..d : delivered'[l] = delivered[l]
        /\ delivered'[k] = p
    <3>1. p \in Seq(Byte) /\ delivered \in Seq(Seq(Byte))
      BY <1>c, PacketIs, StreamParts
    <3>2. delivered' = Append(delivered, p)
      BY <1>2, <1>5
    <3> QED
      BY <3>1, <3>2, <1>b, AppendProperties
  <2>2. ASSUME NEW l \in 1..z
        PROVE  IF l <= k THEN delivered'[l] = sent[l].bytes /\ End(l) <= o + r + n
                         ELSE sent[l].at >= o + r + n
    <3>0. k \in 1..z /\ End(k) = o + r + n
      BY <1>c, <1>e DEF End
    <3>1. CASE l <= d
      <4>1. delivered[l] = sent[l].bytes /\ End(l) <= o
        BY <3>1, <1>a, <1>b DEF StreamInv, DeliveredInv
      <4>2. End(l) \in Nat
        BY <1>b, SentIs
      <4>3. l <= k /\ l \in 1..d /\ End(l) <= o + r + n
        BY <1>e, <3>1, <4>1, <4>2
      <4> QED
        BY <2>1, <4>1, <4>3
    <3>2. CASE l = k
      <4>1. delivered'[l] = sent[l].bytes
        BY <2>1, <1>c, <3>2
      <4>2. End(l) <= o + r + n
        BY <1>e, <3>0, <3>2
      <4> QED
        BY <1>e, <3>2, <4>1, <4>2
    <3>3. CASE ~(l <= k)
      <4>1. k < l
        BY <1>e, <3>3
      <4>2. End(k) <= sent[l].at
        BY <1>b, <3>0, <4>1 DEF StreamInv, SentInv
      <4>3. sent[l].at \in Nat
        BY <1>b, SentIs
      <4> QED
        BY <3>0, <3>3, <4>2, <4>3, <1>e
    <3> QED
      BY <1>e, <3>1, <3>2, <3>3
  <2>3. sent' = sent /\ \A l : End(l)' = End(l)
    BY <1>2 DEF End
  <2>4. Len(delivered') <= Len(sent)
    BY <2>1, <1>b, <1>e
  <2> QED
    BY <1>4, <1>b, <2>1, <2>2, <2>3, <2>4 DEF DeliveredInv
<1>9. Len(inbox') + Len(Content') <= MaxBurst
  <2>1. x + c <= MaxBurst
    BY <1>a DEF StreamInv
  <2>2. x + t <= MaxBurst
    BY <1>e, <2>1, FramingAssumption
  <2> QED
    BY <1>2, <1>4, <1>a, <2>2
<1>10. pc' = "check"
  BY <1>2 DEF Deliver
<1> QED
  BY <1>0, <1>6, <1>7, <1>8, <1>9, <1>10 DEF StreamInv

LEMMA StreamInit == Init => StreamInv
<1> SUFFICES ASSUME Init PROVE StreamInv
  OBVIOUS
<1>1. /\ inbox = <<>> /\ stream = <<>> /\ sent = <<>> /\ delivered = <<>>
      /\ fifo = K!Empty /\ fifo.in = 0 /\ fifo.out = 0 /\ Content = <<>>
  BY EmptyIs DEF Init, Content, Held, K!Empty
<1>2. FramingType
  BY TypeInit
<1>3. Len(inbox) + Len(Content) <= MaxBurst
  BY <1>1, FramingAssumption
<1>4. WireInv /\ SentInv /\ DeliveredInv
  BY <1>1 DEF WireInv, SentInv, DeliveredInv
<1>5. Waiting
  BY <1>1 DEF Waiting
<1> QED
  BY <1>2, <1>3, <1>4, <1>5 DEF StreamInv

LEMMA StreamNext ==
  ASSUME MaxBurst <= Size
  PROVE  StreamInv /\ Straight /\ Unforged /\ [Next]_vars => StreamInv'
<1> SUFFICES ASSUME StreamInv, Straight, Unforged, [Next]_vars PROVE StreamInv'
  OBVIOUS
<1>1. ASSUME NEW bytes \in Packets \cup Noise, Send(bytes) PROVE StreamInv'
  BY <1>1, StreamSend
<1>2. ASSUME NEW n \in 1..Size, Receive(n) PROVE StreamInv'
  BY <1>2, StreamReceive
<1>3. CASE Deliver
  BY <1>3, StreamDeliver
<1>4. CASE Break
  BY <1>4, StreamBreak
<1>5. CASE UNCHANGED vars
  <2>1. FramingType'
    BY TypeNext DEF StreamInv
  <2>2. Content' = Content
    BY <1>5 DEF vars, Content
  <2>3. Waiting' = Waiting
    BY <2>2 DEF Waiting
  <2>4. WireInv' /\ SentInv' /\ DeliveredInv'
    BY <1>5, <2>2 DEF vars, StreamInv, WireInv, SentInv, DeliveredInv, End
  <2> QED
    BY <1>5, <2>1, <2>2, <2>3, <2>4 DEF vars, StreamInv
<1> QED
  BY <1>1, <1>2, <1>3, <1>4, <1>5 DEF Next

(* What is held is the end of the stream, and a packet is handed on before *)
(* any byte of it is gone.                                                 *)
LEMMA StreamSurvives == StreamInv => MessagesSurvive
<1> SUFFICES ASSUME StreamInv PROVE MessagesSurvive
  OBVIOUS
<1>a. PICK o \in Nat, c \in Nat, x \in Nat, s \in Nat :
        /\ o = fifo.out /\ o + c = fifo.in /\ c = Len(Content) /\ x = Len(inbox)
        /\ s = Len(stream) /\ s = o + c + x
        /\ \A j \in 1..c : Content[j] = stream[o + j]
        /\ \A j \in 1..x : inbox[j] = stream[o + c + j]
  BY WireIs
<1>b. PICK b \in Seq(Byte), y \in Seq(Byte), w \in Seq(Byte) :
        b = Content /\ y = inbox /\ w = stream
  BY StreamParts
<1>c. PICK h : h = b \o y
  OBVIOUS
<1>d. c \in Nat /\ o \in Nat /\ x \in Nat /\ s \in Nat /\ s = o + (c + x)
  <2>1. s = o + c + x /\ c \in Nat /\ o \in Nat /\ x \in Nat /\ s \in Nat
    BY <1>a
  <2> QED
    BY <2>1
<1>1. /\ h \in Seq(Byte) /\ Len(h) = c + x
      /\ \A j \in 1..c : h[j] = b[j]
      /\ \A j \in 1..x : h[c + j] = y[j]
  <2>1. c = Len(b) /\ x = Len(y)
    BY <1>a, <1>b
  <2>2. /\ b \o y \in Seq(Byte) /\ Len(b \o y) = c + x
        /\ \A j \in 1..c : (b \o y)[j] = b[j]
        /\ \A j \in 1..x : (b \o y)[c + j] = y[j]
    BY <2>1, ConcatIs
  <2> QED
    BY <1>c, <2>2
<1>2. \A j \in 1..c + x : h[j] = w[o + j]
  <2> TAKE j \in 1..c + x
  <2>1. CASE j <= c
    <3>1. j \in 1..c
      BY <1>d, <2>1
    <3> QED
      BY <1>1, <1>a, <1>b, <3>1
  <2>2. CASE ~(j <= c)
    <3>1. j - c \in 1..x
      BY <1>d, <2>2
    <3>2. PICK i \in 1..x : i = j - c
      BY <3>1
    <3>3. j = c + i /\ o + j = o + c + i
      BY <1>d, <3>2
    <3>4. h[c + i] = w[o + c + i]
      BY <1>1, <1>a, <1>b
    <3> QED
      BY <3>3, <3>4
  <2> QED
    BY <2>1, <2>2
<1>3. h = SubSeq(w, o + 1, Len(w))
  <2>1. PICK v \in Nat : v = c + x /\ Len(w) = o + v
    <3>1. c + x \in Nat
      BY <1>d
    <3>2. Len(w) = o + (c + x)
      BY <1>a, <1>b, <1>d
    <3> QED
      BY <3>1, <3>2
  <2>2. /\ SubSeq(w, o + 1, Len(w)) \in Seq(Byte) /\ Len(SubSeq(w, o + 1, Len(w))) = v
        /\ \A j \in 1..v : SubSeq(w, o + 1, Len(w))[j] = w[o + j]
    BY <2>1, SubSeqDrops
  <2>3. Len(h) = v /\ \A j \in 1..v : h[j] = SubSeq(w, o + 1, Len(w))[j]
    BY <1>1, <1>2, <2>1, <2>2
  <2> QED
    BY <1>1, <2>2, <2>3, SeqEqual
<1>4. Len(stream) - Len(h) = o
  BY <1>1, <1>a, <1>d
<1>5. /\ Content \o inbox = h
      /\ h = SubSeq(stream, (Len(stream) - Len(h)) + 1, Len(stream))
  BY <1>3, <1>4, <1>b, <1>c
<1>6. /\ Len(delivered) <= Len(sent)
      /\ \A k \in 1..Len(sent) :
           IF k <= Len(delivered) THEN delivered[k] = sent[k].bytes
                                  ELSE sent[k].at >= Len(stream) - Len(h)
  BY <1>4, <1>a DEF StreamInv, DeliveredInv
<1> QED
  BY <1>5, <1>6 DEF MessagesSurvive

LEMMA StreamDelivers == StreamInv => AllDelivered
<1> SUFFICES ASSUME StreamInv, pc = "read", inbox = <<>>, ~Stalled
             PROVE  Len(delivered) = Len(sent)
  BY DEF AllDelivered
<1>1. Waiting
  BY DEF StreamInv
<1>2. Content = <<>>
  <2>1. SUFFICES ASSUME Content # <<>> PROVE FALSE
    OBVIOUS
  <2>2. Verdict(Content, 1) # "skip" /\ ~Found(Content)
    BY <1>1, <2>1 DEF Waiting
  <2>3. Content \in Seq(Byte) /\ Len(Content) >= 1
    <3>1. Content \in Seq(Byte) /\ Len(Content) \in Nat
      BY StreamParts
    <3>2. Len(Content) # 0
      BY <2>1, <3>1, EmptySeq
    <3> QED
      BY <3>1, <3>2
  <2>4. Verdict(Content, 1) \in {"skip", "half", "message"}
    BY DEF Verdict
  <2>5. Verdict(Content, 1) = "message"
    BY <2>1, <2>2, <2>4 DEF Stalled
  <2>6. StopAt(Content) = 1
    <3>1. /\ StopAt(Content) \in 1..Len(Content)+1
          /\ \A i \in 1..Len(Content) : i < StopAt(Content) => Verdict(Content, i) = "skip"
      BY <2>3, StopAtIs
    <3>2. ~(1 < StopAt(Content))
      BY <2>2, <2>3, <3>1
    <3> QED
      BY <3>1, <3>2
  <2>7. Word(Content, 4) \in {ILLEGAL, HALFPACK}
    <3>1. StopAt(Content) <= Len(Content) /\ StopAt(Content) + 3 = 4
      BY <2>3, <2>6
    <3> QED
      BY <2>2, <2>5, <2>6, <3>1 DEF Found
  <2> QED
    BY <2>1, <2>5, <2>7 DEF Stalled
<1>3. PICK d \in Nat, z \in Nat : d = Len(delivered) /\ z = Len(sent) /\ d <= z
  BY StreamParts DEF StreamInv, DeliveredInv
<1>4. SUFFICES ASSUME d < z PROVE FALSE
  BY <1>3
<1>5. PICK k \in 1..z : k = d + 1 /\ ~(k <= d)
  <2>1. d + 1 \in 1..z /\ ~(d + 1 <= d)
    BY <1>4
  <2> QED
    BY <2>1
<1>6. sent[k].at >= fifo.out /\ End(k) <= Len(stream)
  BY <1>3, <1>5 DEF StreamInv, DeliveredInv, SentInv
<1>7. Len(stream) = fifo.out /\ fifo.out \in Nat
  <2>1. Len(Content) = 0 /\ Len(inbox) = 0
    BY <1>2
  <2>2. fifo.in = fifo.out + 0 /\ Len(stream) = fifo.in + 0
    BY <2>1 DEF StreamInv, WireInv
  <2> QED
    BY <2>2, StreamParts
<1>8. sent[k].at \in Nat /\ End(k) \in Nat /\ sent[k].at + 8 <= End(k)
  BY <1>3, SentIs
<1> QED
  BY <1>6, <1>7, <1>8

(* As long as no counter has wrapped and the other bytes the peer sends    *)
(* hold no message: every cut of the stream into reads and every order of  *)
(* sending, receiving and handing on gives the messages sent, byte for     *)
(* byte and in order, and eats into none that is still to come             *)
(* (event_recvmsg and protocol_check).                                     *)
THEOREM FramingMessagesSurvive ==
  ASSUME MaxBurst <= Size
  PROVE  Spec /\ []Straight /\ []Unforged => []MessagesSurvive
<1>1. StreamInv /\ Straight /\ Unforged /\ [Next]_vars => StreamInv'
  BY StreamNext
<1> QED
  BY StreamInit, <1>1, StreamSurvives, PTL DEF Spec

(* Under the same conditions nothing complete is left lying in the fifo    *)
(* once everything has been read, unless protocol_check is waiting for     *)
(* the rest of a longer one or takes an id for "no message" (the for(;;)   *)
(* of event_recvmsg).                                                      *)
THEOREM FramingAllDelivered ==
  ASSUME MaxBurst <= Size
  PROVE  Spec /\ []Straight /\ []Unforged => []AllDelivered
<1>1. StreamInv /\ Straight /\ Unforged /\ [Next]_vars => StreamInv'
  BY StreamNext
<1> QED
  BY StreamInit, <1>1, StreamDelivers, PTL DEF Spec

-----------------------------------------------------------------------------
(* A peer that sends messages only                                         *)

CoverInv ==
  /\ FramingType
  /\ Len(stream) <= sends * MaxLen
  /\ \A i \in 1..Len(stream) : \E k \in 1..Len(sent) : sent[k].at < i /\ i <= End(k)

LEMMA CoverInit == Init => CoverInv
<1> SUFFICES ASSUME Init PROVE CoverInv
  OBVIOUS
<1>1. stream = <<>> /\ sends = 0
  BY DEF Init
<1>2. 0 <= 0 * MaxLen
  BY FramingAssumption
<1> QED
  BY <1>1, <1>2, TypeInit DEF CoverInv

LEMMA CoverNext ==
  ASSUME Noise = {}
  PROVE  CoverInv /\ [Next]_vars => CoverInv'
<1> SUFFICES ASSUME CoverInv, [Next]_vars PROVE CoverInv'
  OBVIOUS
<1>0. FramingType /\ FramingType'
  BY TypeNext DEF CoverInv
<1>1. ASSUME NEW bytes \in Packets \cup Noise, Send(bytes) PROVE CoverInv'
  <2>1. /\ bytes \in Packets
        /\ stream' = stream \o bytes /\ sends' = sends + 1
        /\ sent' = Append(sent, [at |-> Len(stream), bytes |-> bytes])
    BY <1>0, <1>1, SendIs
  <2>2. /\ stream \in Seq(Byte) /\ sent \in Seq([at : Nat, bytes : Packets])
        /\ sends \in Nat
    BY <1>0 DEF FramingType
  <2>3. PICK s \in Nat, y \in Nat, m \in Nat :
          s = Len(stream) /\ y = Len(bytes) /\ m = Len(sent)
    BY <2>1, <2>2, PacketIs
  <2>4. Len(stream') = s + y
    <3>1. bytes \in Seq(Byte)
      BY <2>1, PacketIs
    <3>2. Len(stream \o bytes) = s + y
      BY <2>2, <2>3, <3>1, ConcatIs
    <3> QED
      BY <2>1, <3>2
  <2>5. /\ Len(sent') = m + 1 /\ \A k \in 1..m : sent'[k] = sent[k]
        /\ sent'[m + 1] = [at |-> s, bytes |-> bytes]
    <3>1. [at |-> s, bytes |-> bytes] \in [at : Nat, bytes : Packets]
      BY <2>1
    <3> QED
      BY <2>1, <2>2, <2>3, <3>1, AppendProperties
  <2>6. Len(stream') <= sends' * MaxLen
    <3>1. y <= MaxLen /\ s <= sends * MaxLen
      BY <2>1, <2>3, PacketIs DEF CoverInv
    <3>2. (sends + 1) * MaxLen = sends * MaxLen + MaxLen /\ sends * MaxLen \in Nat
      BY <2>2, FramingAssumption
    <3>3. PICK v \in Nat : v = sends * MaxLen
      BY <3>2
    <3>4. s + y <= v + MaxLen
      BY <3>1, <3>3, FramingAssumption
    <3> QED
      BY <2>1, <2>4, <3>2, <3>3, <3>4
  <2>7. ASSUME NEW i \in 1..s+y
        PROVE  \E k \in 1..m+1 : sent'[k].at < i /\ i <= End(k)'
    <3>1. CASE i <= s
      <4>1. PICK k \in 1..m : sent[k].at < i /\ i <= End(k)
        BY <2>3, <3>1 DEF CoverInv
      <4>2. k \in 1..m+1 /\ sent'[k] = sent[k]
        BY <2>5
      <4> QED
        BY <4>1, <4>2 DEF End
    <3>2. CASE ~(i <= s)
      <4>1. sent'[m + 1].at = s /\ End(m + 1)' = s + y
        BY <2>3, <2>5 DEF End
      <4>2. m + 1 \in 1..m+1 /\ s < i /\ i <= s + y
        BY <3>2
      <4> QED
        BY <4>1, <4>2
    <3> QED
      BY <3>1, <3>2
  <2> QED
    BY <1>0, <2>4, <2>5, <2>6, <2>7 DEF CoverInv
<1>2. ASSUME UNCHANGED <<stream, sent, sends>> PROVE CoverInv'
  BY <1>0, <1>2 DEF CoverInv, End
<1>3. ASSUME NEW n \in 1..Size, Receive(n) PROVE CoverInv'
  BY <1>2, <1>3 DEF Receive
<1>4. CASE Deliver
  BY <1>2, <1>4 DEF Deliver
<1>5. CASE Break
  BY <1>2, <1>5 DEF Break
<1>6. CASE UNCHANGED vars
  BY <1>2, <1>6 DEF vars
<1> QED
  BY <1>1, <1>3, <1>4, <1>5, <1>6 DEF Next

LEMMA CoverSuffices ==
  ASSUME MaxSends * MaxLen < Modulus
  PROVE  CoverInv => Straight /\ Unforged
<1> SUFFICES ASSUME CoverInv PROVE Straight /\ Unforged
  OBVIOUS
<1>1. Unforged
  BY DEF CoverInv, Unforged
<1>2. Straight
  <2>1. Len(stream) \in Nat /\ sends \in Nat /\ sends <= MaxSends /\ Len(stream) <= sends * MaxLen
    BY FramingAssumption DEF CoverInv, FramingType
  <2>2. PICK r \in Nat : sends + r = MaxSends
    <3>1. MaxSends - sends \in Nat /\ sends + (MaxSends - sends) = MaxSends
      BY <2>1, FramingAssumption
    <3> QED
      BY <3>1
  <2>3. (sends + r) * MaxLen = sends * MaxLen + r * MaxLen /\ sends * MaxLen \in Nat
        /\ r * MaxLen \in Nat
    BY <2>1, FramingAssumption
  <2>4. sends * MaxLen <= MaxSends * MaxLen
    BY <2>2, <2>3
  <2> QED
    BY <2>1, <2>3, <2>4, RingConstants, FramingAssumption DEF Straight
<1> QED
  BY <1>1, <1>2

(* A peer that sends nothing but messages, and fewer than it takes to wrap *)
(* a counter, needs no further condition.                                  *)
THEOREM FramingOnlyMessages ==
  ASSUME MaxBurst <= Size, Noise = {}, MaxSends * MaxLen < Modulus
  PROVE  Spec => [](MessagesSurvive /\ AllDelivered)
<1>1. CoverInv /\ [Next]_vars => CoverInv'
  BY CoverNext
<1>2. CoverInv => Straight /\ Unforged
  BY CoverSuffices
<1>3. StreamInv /\ Straight /\ Unforged /\ [Next]_vars => StreamInv'
  BY StreamNext
<1>4. StreamInv => MessagesSurvive /\ AllDelivered
  BY StreamSurvives, StreamDelivers
<1> QED
  BY CoverInit, StreamInit, <1>1, <1>2, <1>3, <1>4, PTL DEF Spec
=============================================================================
