----------------------------- MODULE KFifoProofs -----------------------------
(***************************************************************************)
(* The ring with its wrapping counters is a bounded queue of bytes, for    *)
(* every size and every width of the counters of which it is a divisor.    *)
(***************************************************************************)
EXTENDS KFifo, SequenceTheorems, TLAPS

-----------------------------------------------------------------------------
(* Arithmetic *)

LEMMA ModRange ==
  ASSUME NEW a \in Int, NEW n \in Nat \ {0}
  PROVE  a % n \in 0..n-1 /\ \E q \in Int : a = q * n + (a % n)
<1>1. a % n \in 0..n-1 /\ a \div n \in Int
  OBVIOUS
<1>2. a = n * (a \div n) + (a % n)
  BY SMTT(30)
<1>3. n * (a \div n) = (a \div n) * n
  BY <1>1
<1> QED
  BY <1>1, <1>2, <1>3

LEMMA AddMultiples ==
  ASSUME NEW a \in Int, NEW b \in Int, NEW p \in Int, NEW q \in Int, NEW n \in Int,
         NEW r \in Int, a = b + q * n, b = p * n + r
  PROVE  a = (p + q) * n + r
  OBVIOUS

(* A remainder is known by what it has to be.                              *)
LEMMA ModUnique ==
  ASSUME NEW a \in Int, NEW n \in Nat \ {0}, NEW r \in 0..n-1, NEW q \in Int,
         a = q * n + r
  PROVE  a % n = r
<1>1. PICK p \in Int : a = p * n + (a % n)
  BY ModRange
<1>2. a % n \in 0..n-1
  BY ModRange
<1>3. CASE p = q
  BY <1>1, <1>3
<1>4. CASE p > q
  <2>1. (p - q) * n >= n
    BY <1>4
  <2> QED
    BY <1>1, <1>2, <2>1
<1>5. CASE q > p
  <2>1. (q - p) * n >= n
    BY <1>5
  <2> QED
    BY <1>1, <1>2, <2>1
<1> QED
  BY <1>3, <1>4, <1>5

LEMMA ModSmall ==
  ASSUME NEW n \in Nat \ {0}, NEW r \in 0..n-1
  PROVE  r % n = r
<1>1. r = 0 * n + r
  OBVIOUS
<1> QED
  BY <1>1, ModUnique

(* Numbers that differ by a multiple of n have the same remainder.         *)
LEMMA ModShift ==
  ASSUME NEW b \in Int, NEW n \in Nat \ {0}, NEW q \in Int
  PROVE  (b + q * n) % n = b % n
<1>1. PICK p \in Int : b = p * n + (b % n)
  BY ModRange
<1>2. PICK r \in 0..n-1 : r = b % n
  BY ModRange
<1>3. b = p * n + r
  BY <1>1, <1>2
<1>4. PICK a \in Int : a = b + q * n
  OBVIOUS
<1>5. a = (p + q) * n + r
  BY <1>2, <1>3, <1>4, AddMultiples
<1>6. p + q \in Int
  OBVIOUS
<1>7. a % n = r
  BY <1>5, <1>6, ModUnique
<1> QED
  BY <1>2, <1>4, <1>7

(* Reducing first to the width of a counter makes no difference.           *)
LEMMA Divides == \E k \in Nat : Modulus = k * Size
<1> Size \in Nat \ {0} /\ Modulus \in Int
  BY FifoAssumption
<1>1. PICK k \in Int : Modulus = k * Size + (Modulus % Size)
  BY ModRange
<1>2. Modulus = k * Size
  BY <1>1, FifoAssumption
<1>3. k >= 0
  <2> SUFFICES ASSUME k <= -1 PROVE FALSE
    BY <1>1
  <2>1. k * Size <= -1 * Size
    BY FifoAssumption
  <2> QED
    BY <1>2, <2>1, FifoAssumption
<1> QED
  BY <1>2, <1>3

LEMMA ModTwice ==
  ASSUME NEW a \in Int, NEW b \in Int
  PROVE  ((a % Modulus) + b) % Size = (a + b) % Size
<1>1. PICK q \in Int : a = q * Modulus + (a % Modulus)
  BY ModRange, FifoAssumption
<1>2. PICK k \in Nat : Modulus = k * Size
  BY Divides
<1>3. PICK r \in Int : r = a % Modulus
  BY ModRange, FifoAssumption
<1>4. PICK m \in Int : m = q * k
  OBVIOUS
<1>5. q * (k * Size) = (q * k) * Size
  BY FifoAssumption
<1>6. a = m * Size + r
  BY <1>1, <1>2, <1>3, <1>4, <1>5
<1>7. PICK x \in Int, y \in Int : x = a + b /\ y = r + b
  OBVIOUS
<1>8. x = y + m * Size
  <2>1. m * Size \in Int
    BY FifoAssumption
  <2> QED
    BY <1>6, <1>7, <2>1
<1>9. (y + m * Size) % Size = y % Size
  BY ModShift, FifoAssumption
<1> QED
  BY <1>3, <1>7, <1>8, <1>9

LEMMA ModIsInt ==
  ASSUME NEW a \in Int, NEW n \in Nat \ {0}
  PROVE  a % n \in Int
  BY ModRange

LEMMA ModAdd ==
  ASSUME NEW a \in Int, NEW b \in Int, NEW n \in Nat \ {0}
  PROVE  ((a % n) + b) % n = (a + b) % n
<1>1. PICK q \in Int : a = q * n + (a % n)
  BY ModRange
<1>2. PICK r \in Int, y \in Int : r = a % n /\ y = r + b
  BY ModRange
<1>3. (y + q * n) % n = y % n
  BY <1>2, ModShift
<1>4. a + b = y + q * n
  <2>1. q * n \in Int
    OBVIOUS
  <2> QED
    BY <1>1, <1>2, <2>1
<1> QED
  BY <1>2, <1>3, <1>4

LEMMA ModSub ==
  ASSUME NEW a \in Int, NEW b \in Int, NEW n \in Nat \ {0}
  PROVE  (b - (a % n)) % n = (b - a) % n
<1>1. PICK q \in Int : a = q * n + (a % n)
  BY ModRange
<1>2. PICK r \in Int, y \in Int : r = a % n /\ y = b - a
  BY ModRange
<1>3. PICK m \in Int : m = q * n
  OBVIOUS
<1>4. (y + q * n) % n = y % n
  BY <1>2, ModShift
<1>5. a = m + r
  BY <1>1, <1>2, <1>3
<1>6. b - r = y + m
  BY <1>2, <1>5
<1> QED
  BY <1>2, <1>3, <1>4, <1>6

-----------------------------------------------------------------------------
(* Counters and positions *)

LEMMA Constants ==
  /\ Size \in Nat \ {0} /\ Modulus \in Nat \ {0} /\ Size < Modulus
  /\ Size \in Int /\ Modulus \in Int
  BY FifoAssumption

(* in moves up, or out does; a difference below the width is not affected  *)
(* by a wrap of either.                                                    *)
LEMMA UsedUp ==
  ASSUME NEW i \in Int, NEW o \in Int, NEW d \in Int,
         ((i - o) % Modulus) + d \in 0..Modulus-1
  PROVE  (((i + d) % Modulus) - o) % Modulus = ((i - o) % Modulus) + d
<1> USE Constants
<1>1. PICK a \in Int, b \in Int, c \in Int : a = i - o /\ b = i + d /\ c = -o
  OBVIOUS
<1>2. PICK u \in Int, z \in Int : u = a % Modulus /\ z = b % Modulus
  <2>1. a % Modulus \in Int /\ b % Modulus \in Int
    BY ModIsInt
  <2> QED
    BY <2>1
<1>3. ((b % Modulus) + c) % Modulus = (b + c) % Modulus
  BY ModAdd
<1>4. ((a % Modulus) + d) % Modulus = (a + d) % Modulus
  BY ModAdd
<1>5. b + c = a + d /\ z + c = z - o
  BY <1>1
<1>6. PICK v \in 0..Modulus-1 : v = u + d
  BY <1>1, <1>2
<1>7. v % Modulus = v
  BY ModSmall
<1> QED
  BY <1>1, <1>2, <1>3, <1>4, <1>5, <1>6, <1>7

LEMMA UsedDown ==
  ASSUME NEW i \in Int, NEW o \in Int, NEW d \in Int,
         ((i - o) % Modulus) - d \in 0..Modulus-1
  PROVE  (i - ((o + d) % Modulus)) % Modulus = ((i - o) % Modulus) - d
<1> USE Constants
<1>1. PICK a \in Int, b \in Int, c \in Int : a = i - o /\ b = o + d /\ c = -d
  OBVIOUS
<1>2. PICK u \in Int : u = a % Modulus
  <2>1. a % Modulus \in Int
    BY ModIsInt
  <2> QED
    BY <2>1
<1>3. (i - (b % Modulus)) % Modulus = (i - b) % Modulus
  BY ModSub
<1>4. ((a % Modulus) + c) % Modulus = (a + c) % Modulus
  BY ModAdd
<1>5. a + c = i - b /\ u + c = u - d
  BY <1>1
<1>6. PICK v \in 0..Modulus-1 : v = u - d
  BY <1>1, <1>2
<1>7. v % Modulus = v
  BY ModSmall
<1> QED
  BY <1>1, <1>2, <1>3, <1>4, <1>5, <1>6, <1>7

LEMMA FreeIsRest ==
  ASSUME NEW i \in Int, NEW o \in Int, (i - o) % Modulus <= Size
  PROVE  (Size - i + o) % Modulus = Size - ((i - o) % Modulus)
<1> USE Constants
<1>1. PICK a \in Int : a = i - o
  OBVIOUS
<1>2. PICK u \in 0..Modulus-1 : u = a % Modulus
  BY ModRange
<1>3. (Size - (a % Modulus)) % Modulus = (Size - a) % Modulus
  BY ModSub
<1>4. PICK v \in 0..Modulus-1 : v = Size - u
  <2>1. u <= Size
    BY <1>1, <1>2
  <2> QED
    BY <2>1
<1>5. v % Modulus = v
  BY ModSmall
<1>6. Size - a = Size - i + o
  BY <1>1
<1> QED
  BY <1>1, <1>2, <1>3, <1>4, <1>5, <1>6

(* How far behind in a byte lies that is e places after out.               *)
LEMMA Offset ==
  ASSUME NEW i \in Int, NEW o \in Int, NEW e \in Int
  PROVE  (((o + e) % Size) - i) % Size = (e - ((i - o) % Modulus)) % Size
<1> USE Constants
<1>1. PICK a \in Int, b \in Int, c \in Int : a = i - o /\ b = o + e /\ c = -i
  OBVIOUS
<1>2. PICK u \in Int, z \in Int : u = a % Modulus /\ z = b % Size
  BY ModRange
<1>3. ((b % Size) + c) % Size = (b + c) % Size
  BY ModAdd
<1>4. PICK q \in Int : a = q * Modulus + (a % Modulus)
  BY ModRange
<1>5. PICK k \in Nat : Modulus = k * Size
  BY Divides
<1>6. PICK m \in Int : m = q * k
  OBVIOUS
<1>7. q * (k * Size) = (q * k) * Size
  OBVIOUS
<1>8. PICK n \in Int : n = m * Size
  OBVIOUS
<1>9. a = n + u
  BY <1>2, <1>4, <1>5, <1>6, <1>7, <1>8
<1>10. PICK x \in Int, y \in Int : x = b + c /\ y = e - u
  OBVIOUS
<1>11. y = x + n /\ z + c = z - i
  BY <1>1, <1>9, <1>10
<1>12. (x + m * Size) % Size = x % Size
  BY ModShift
<1> QED
  BY <1>1, <1>2, <1>3, <1>8, <1>10, <1>11, <1>12

-----------------------------------------------------------------------------
(* The counters *)

Fifo == [buffer : [0..Size-1 -> Byte], in : 0..Modulus-1, out : 0..Modulus-1]
FifoInv == fifo \in Fifo /\ Used(fifo) <= Size

LEMMA UsedRange ==
  ASSUME NEW f \in Fifo
  PROVE  Used(f) \in 0..Modulus-1 /\ f.in \in Int /\ f.out \in Int
<1>1. f.in \in Int /\ f.out \in Int
  BY Constants DEF Fifo
<1>2. PICK a \in Int : a = f.in - f.out
  BY <1>1
<1>3. a % Modulus \in 0..Modulus-1
  BY ModRange, Constants
<1> QED
  BY <1>1, <1>2, <1>3 DEF Used

LEMMA FreeIs ==
  ASSUME NEW f \in Fifo, Used(f) <= Size
  PROVE  Free(f) = Size - Used(f)
  BY UsedRange, FreeIsRest DEF Used, Free

LEMMA PutCounts ==
  ASSUME NEW f \in Fifo, Used(f) <= Size, NEW n \in Nat, NEW bytes \in [1..n -> Byte],
         NEW m \in Nat, m = Smaller(Len(bytes), Free(f))
  PROVE  /\ m <= n /\ m <= Size - Used(f)
         /\ AfterPut(f, bytes) \in Fifo
         /\ Used(AfterPut(f, bytes)) = Used(f) + m
<1> USE Constants
<1>1. Len(bytes) = n /\ Used(f) \in 0..Modulus-1 /\ f.in \in Int /\ f.out \in Int
  BY UsedRange
<1>2. Free(f) = Size - Used(f)
  BY FreeIs
<1>3. m <= n /\ m <= Size - Used(f)
  BY <1>1, <1>2 DEF Smaller
<1>4. Used(f) + m \in 0..Modulus-1
  BY <1>1, <1>3
<1>5. (f.in + m) % Modulus \in 0..Modulus-1
  <2>1. PICK a \in Int : a = f.in + m
    BY <1>1
  <2>2. a % Modulus \in 0..Modulus-1
    BY ModRange
  <2> QED
    BY <2>1, <2>2
<1>6. AfterPut(f, bytes).in = (f.in + m) % Modulus /\ AfterPut(f, bytes).out = f.out
  BY DEF AfterPut, Fifo
<1>7. ASSUME NEW k \in 0..Size-1
      PROVE  (IF (k - f.in) % Size < m THEN bytes[((k - f.in) % Size) + 1]
                                       ELSE f.buffer[k]) \in Byte
  <2>1. PICK a \in Int : a = k - f.in
    BY <1>1
  <2>2. PICK b \in 0..Size-1 : b = a % Size
    BY ModRange
  <2>3. b < m => b + 1 \in 1..n
    BY <1>3
  <2>4. f.buffer[k] \in Byte
    BY DEF Fifo
  <2> QED
    BY <2>1, <2>2, <2>3, <2>4
<1>8. AfterPut(f, bytes) \in Fifo
  BY <1>5, <1>7 DEF AfterPut, Fifo
<1>9. ((f.in - f.out) % Modulus) + m \in 0..Modulus-1
  BY <1>4 DEF Used
<1>10. (((f.in + m) % Modulus) - f.out) % Modulus = ((f.in - f.out) % Modulus) + m
  BY <1>1, <1>9, UsedUp
<1> QED
  BY <1>3, <1>6, <1>8, <1>10 DEF Used

LEMMA GetCounts ==
  ASSUME NEW f \in Fifo, Used(f) <= Size, NEW n \in Nat,
         NEW m \in Nat, m = Smaller(n, Used(f))
  PROVE  /\ m <= n /\ m <= Used(f)
         /\ AfterGet(f, n) = [f EXCEPT !.out = (f.out + m) % Modulus]
         /\ AfterGet(f, n) \in Fifo
         /\ Used(AfterGet(f, n)) = Used(f) - m
<1> USE Constants
<1>1. Used(f) \in 0..Modulus-1 /\ f.in \in Int /\ f.out \in Int
  BY UsedRange
<1>2. m <= n /\ m <= Used(f)
  BY <1>1 DEF Smaller
<1>3. AfterGet(f, n) = [f EXCEPT !.out = (f.out + m) % Modulus]
  BY DEF AfterGet
<1>4. (f.out + m) % Modulus \in 0..Modulus-1
  <2>1. PICK a \in Int : a = f.out + m
    BY <1>1
  <2>2. a % Modulus \in 0..Modulus-1
    BY ModRange
  <2> QED
    BY <2>1, <2>2
<1>5. AfterGet(f, n) \in Fifo
  BY <1>3, <1>4 DEF Fifo
<1>6. ((f.in - f.out) % Modulus) - m \in 0..Modulus-1
  BY <1>1, <1>2 DEF Used
<1>7. (f.in - ((f.out + m) % Modulus)) % Modulus = ((f.in - f.out) % Modulus) - m
  BY <1>1, <1>6, UsedDown
<1> QED
  BY <1>2, <1>3, <1>5, <1>7 DEF Used, Fifo

(* kfifo_pop does what kfifo_get of one byte does, or nothing.             *)
LEMMA PopGets ==
  ASSUME NEW f \in Fifo
  PROVE  \/ AfterPops(f, 1) = f
         \/ Used(f) >= 1 /\ AfterPops(f, 1) = AfterGet(f, 1)
<1> USE Constants
<1>1. CASE f.in <= f.out
  BY <1>1 DEF AfterPops, Fifo
<1>2. CASE f.in > f.out
  <2>1. PICK a \in 0..Modulus-1 : a = f.in - f.out
    BY <1>2 DEF Fifo
  <2>2. a % Modulus = a
    BY ModSmall
  <2>3. Used(f) = a /\ a >= 1
    BY <1>2, <2>1, <2>2 DEF Used, Fifo
  <2>4. PICK b \in 0..Modulus-1 : b = f.out + 1
    BY <1>2 DEF Fifo
  <2>5. b % Modulus = b
    BY ModSmall
  <2>6. Smaller(1, Used(f)) = 1 /\ Smaller(f.out + 1, f.in) = f.out + 1
    BY <1>2, <2>3 DEF Smaller, Fifo
  <2> QED
    BY <1>2, <2>3, <2>4, <2>5, <2>6 DEF AfterPops, AfterGet
<1> QED
  BY <1>1, <1>2 DEF Fifo

LEMMA FifoInvInit == Init => FifoInv
<1> SUFFICES ASSUME Init PROVE FifoInv
  OBVIOUS
<1>1. 0 % Modulus = 0
  BY ModSmall, Constants
<1>2. [k \in 0..Size-1 |-> 0] \in [0..Size-1 -> Byte]
  BY FifoAssumption
<1> QED
  BY <1>1, <1>2, Constants DEF Init, Empty, FifoInv, Fifo, Used

LEMMA FifoInvNext == FifoInv /\ [Next]_vars => FifoInv'
<1> SUFFICES ASSUME FifoInv, [Next]_vars PROVE FifoInv'
  OBVIOUS
<1>0. fifo \in Fifo /\ Used(fifo) \in 0..Size
  BY UsedRange, Constants DEF FifoInv
<1>1. ASSUME NEW n \in 1..MaxPut, NEW bytes \in [1..n -> Byte], Put(bytes) PROVE FifoInv'
  <2>1. n \in Nat
    BY FifoAssumption
  <2>2. PICK m \in Nat : m = Smaller(Len(bytes), Free(fifo))
    BY <1>0, <2>1, FreeIs, Constants DEF Smaller
  <2>3. /\ m <= Size - Used(fifo) /\ AfterPut(fifo, bytes) \in Fifo
        /\ Used(AfterPut(fifo, bytes)) = Used(fifo) + m
    BY <1>0, <2>1, <2>2, PutCounts
  <2> QED
    BY <1>0, <1>1, <2>3, Constants DEF Put, FifoInv
<1>2. ASSUME NEW n \in Nat, fifo' = AfterGet(fifo, n) PROVE FifoInv'
  <2>1. PICK m \in Nat : m = Smaller(n, Used(fifo))
    BY <1>0 DEF Smaller
  <2>2. /\ AfterGet(fifo, n) \in Fifo
        /\ Used(AfterGet(fifo, n)) = Used(fifo) - m
    BY <1>0, <2>1, GetCounts, Constants
  <2> QED
    BY <1>0, <1>2, <2>1, <2>2, Constants DEF FifoInv
<1>3. ASSUME NEW n \in 1..Size, Get(n) PROVE FifoInv'
  BY <1>2, <1>3, Constants DEF Get
<1>4. CASE Pop
  BY <1>0, <1>2, <1>4, PopGets DEF Pop, FifoInv
<1>5. CASE UNCHANGED vars
  BY <1>5 DEF vars, FifoInv
<1> QED
  BY <1>1, <1>3, <1>4, <1>5 DEF Next, Offers

(* However often the counters wrap, they stay within their width and no    *)
(* further apart than the ring is long, for every size and width.          *)
THEOREM KFifoCountersOK == Spec => []CountersOK
<1>1. FifoInv => CountersOK
  BY FreeIs DEF FifoInv, CountersOK, Fifo
<1> QED
  BY FifoInvInit, FifoInvNext, <1>1, PTL DEF Spec

-----------------------------------------------------------------------------
(* The bytes *)

Held(f) == Ahead(f, Size)

LEMMA FunIsSeq ==
  ASSUME NEW n \in Nat, NEW s \in [1..n -> Byte]
  PROVE  s \in Seq(Byte) /\ Len(s) = n
  OBVIOUS

(* A position in the ring.                                                 *)
LEMMA Position ==
  ASSUME NEW a \in Int
  PROVE  a % Size \in 0..Size-1
  BY ModRange, Constants

LEMMA AheadIs ==
  ASSUME NEW f \in Fifo, NEW n \in Nat, NEW m \in Nat, m = Smaller(n, Used(f))
  PROVE  /\ Ahead(f, n) \in Seq(Byte) /\ Len(Ahead(f, n)) = m
         /\ \A j \in 1..m : Ahead(f, n)[j] = f.buffer[(f.out + j - 1) % Size]
<1>1. Ahead(f, n) = [j \in 1..m |-> f.buffer[(f.out + j - 1) % Size]]
  BY DEF Ahead
<1>2. ASSUME NEW j \in 1..m PROVE f.buffer[(f.out + j - 1) % Size] \in Byte
  <2>1. PICK a \in Int : a = f.out + j - 1
    BY UsedRange
  <2>2. a % Size \in 0..Size-1
    BY Position
  <2> QED
    BY <2>1, <2>2 DEF Fifo
<1>3. Ahead(f, n) \in [1..m -> Byte]
  BY <1>1, <1>2
<1> QED
  BY <1>1, <1>3, FunIsSeq

LEMMA HeldIs ==
  ASSUME NEW f \in Fifo, Used(f) <= Size
  PROVE  /\ Held(f) \in Seq(Byte) /\ Len(Held(f)) = Used(f)
         /\ \A j \in 1..Used(f) : Held(f)[j] = f.buffer[(f.out + j - 1) % Size]
<1>1. Used(f) \in Nat /\ Smaller(Size, Used(f)) = Used(f)
  BY UsedRange, Constants DEF Smaller
<1> QED
  BY <1>1, AheadIs, Constants DEF Held

(* What is asked for ahead is the beginning of what is held.               *)
LEMMA AheadIsPrefix ==
  ASSUME NEW f \in Fifo, Used(f) <= Size, NEW n \in Nat,
         NEW m \in Nat, m = Smaller(n, Used(f))
  PROVE  Ahead(f, n) = SubSeq(Held(f), 1, m)
<1>1. m <= Used(f) /\ Used(f) \in Nat
  BY UsedRange, Constants DEF Smaller
<1>2. \A j \in 1..m : Held(f)[j] \in Byte
  BY <1>1, HeldIs, ElementOfSeq
<1>3. /\ SubSeq(Held(f), 1, m) \in Seq(Byte) /\ Len(SubSeq(Held(f), 1, m)) = m
      /\ \A j \in 1..m : SubSeq(Held(f), 1, m)[j] = Held(f)[j]
  BY <1>1, <1>2, SubSeqProperties
<1>4. \A j \in 1..m : Ahead(f, n)[j] = SubSeq(Held(f), 1, m)[j]
  BY <1>1, <1>3, AheadIs, HeldIs
<1> QED
  BY <1>3, <1>4, AheadIs, SeqEqual

(* A byte that is put does not touch those that are held, and comes after  *)
(* them: what is counted as free is free.                                  *)
Appends(f, bytes, m) == Held(AfterPut(f, bytes)) = Held(f) \o SubSeq(bytes, 1, m)

LEMMA PutAppends ==
  ASSUME NEW f \in Fifo, Used(f) <= Size, NEW n \in Nat, NEW bytes \in [1..n -> Byte],
         NEW m \in Nat, m = Smaller(Len(bytes), Free(f))
  PROVE  Appends(f, bytes, m)
<1> USE Constants DEF Appends
<1>1. PICK u \in Nat : u = Used(f)
  BY UsedRange
<1>2. PICK g \in Fifo : g = AfterPut(f, bytes)
  BY PutCounts
<1>3. m <= n /\ m <= Size - u /\ Used(g) = u + m
  BY <1>1, <1>2, PutCounts
<1>4. /\ Held(g) \in Seq(Byte) /\ Len(Held(g)) = u + m
      /\ \A j \in 1..u+m : Held(g)[j] = g.buffer[(g.out + j - 1) % Size]
  BY <1>1, <1>3, HeldIs
<1>5. /\ Held(f) \in Seq(Byte) /\ Len(Held(f)) = u
      /\ \A j \in 1..u : Held(f)[j] = f.buffer[(f.out + j - 1) % Size]
  BY <1>1, HeldIs
<1>6. /\ SubSeq(bytes, 1, m) \in Seq(Byte) /\ Len(SubSeq(bytes, 1, m)) = m
      /\ \A j \in 1..m : SubSeq(bytes, 1, m)[j] = bytes[j]
  <2>1. \A j \in 1..m : bytes[j] \in Byte
    BY <1>3
  <2> QED
    BY <2>1, SubSeqProperties
<1>7. /\ Held(f) \o SubSeq(bytes, 1, m) \in Seq(Byte)
      /\ Len(Held(f) \o SubSeq(bytes, 1, m)) = u + m
      /\ \A j \in 1..u+m : (Held(f) \o SubSeq(bytes, 1, m))[j]
                             = IF j <= u THEN Held(f)[j] ELSE bytes[j - u]
  BY <1>5, <1>6, ConcatProperties
<1>8. /\ g.out = f.out
      /\ \A k \in 0..Size-1 :
           g.buffer[k] = IF (k - f.in) % Size < m
                           THEN bytes[((k - f.in) % Size) + 1] ELSE f.buffer[k]
  BY <1>1, <1>2, <1>3 DEF AfterPut, Fifo
<1>9. ASSUME NEW j \in 1..u+m
      PROVE  Held(g)[j] = (Held(f) \o SubSeq(bytes, 1, m))[j]
  <2>1. PICK e \in Int : e = j - 1
    OBVIOUS
  <2>2. PICK k \in 0..Size-1 : k = (f.out + e) % Size
    <3>1. PICK a \in Int : a = f.out + e
      BY UsedRange
    <3>2. a % Size \in 0..Size-1
      BY Position
    <3> QED
      BY <3>1, <3>2
  <2>3. (((f.out + e) % Size) - f.in) % Size = (e - ((f.in - f.out) % Modulus)) % Size
    BY UsedRange, Offset
  <2>4. (k - f.in) % Size = (e - u) % Size
    BY <1>1, <2>2, <2>3 DEF Used
  <2>5. f.out + j - 1 = f.out + e
    BY <2>1, UsedRange
  <2>6. Held(g)[j] = g.buffer[k]
    BY <1>4, <1>8, <2>2, <2>5
  <2>7. CASE j <= u
    <3>1. PICK r \in 0..Size-1 : r = (e - u) + Size
      BY <1>3, <2>1, <2>7
    <3>2. PICK d \in Int : d = e - u
      OBVIOUS
    <3>3. PICK q \in Int : q = 1
      OBVIOUS
    <3>4. (d + q * Size) % Size = d % Size
      BY ModShift
    <3>5. q * Size = Size
      BY <3>3
    <3>6. r = d + q * Size
      BY <3>1, <3>2, <3>5
    <3>7. r % Size = r
      BY ModSmall
    <3>8. (k - f.in) % Size = r
      BY <2>4, <3>2, <3>4, <3>6, <3>7
    <3>9. r >= m
      BY <1>3, <2>1, <3>1
    <3>10. g.buffer[k] = f.buffer[k]
      BY <1>8, <3>8, <3>9
    <3>11. Held(f)[j] = f.buffer[k]
      BY <1>5, <2>2, <2>5, <2>7
    <3> QED
      BY <1>7, <2>6, <2>7, <3>10, <3>11
  <2>8. CASE j > u
    <3>1. PICK r \in 0..Size-1 : r = e - u
      BY <1>3, <2>1, <2>8
    <3>2. r % Size = r
      BY ModSmall
    <3>3. (k - f.in) % Size = r
      BY <2>4, <3>1, <3>2
    <3>4. r < m /\ r + 1 = j - u
      BY <2>1, <3>1
    <3>5. g.buffer[k] = bytes[j - u]
      BY <1>8, <3>3, <3>4
    <3> QED
      BY <1>7, <2>6, <2>8, <3>5
  <2>9. j <= u \/ j > u
    OBVIOUS
  <2> QED
    BY <2>7, <2>8, <2>9
<1>10. Held(g) = Held(f) \o SubSeq(bytes, 1, m)
  BY <1>4, <1>7, <1>9, SeqEqual
<1> QED
  BY <1>2, <1>10

(* Getting takes off the front, whether out wraps or not.                  *)
LEMMA GetDrops ==
  ASSUME NEW f \in Fifo, Used(f) <= Size, NEW n \in Nat,
         NEW m \in Nat, m = Smaller(n, Used(f))
  PROVE  Held(AfterGet(f, n)) = SubSeq(Held(f), m + 1, Used(f))
<1> USE Constants
<1>1. PICK u \in Nat : u = Used(f)
  BY UsedRange
<1>2. PICK g \in Fifo : g = AfterGet(f, n)
  BY GetCounts
<1>3. m <= u /\ Used(g) = u - m /\ g = [f EXCEPT !.out = (f.out + m) % Modulus]
  BY <1>1, <1>2, GetCounts
<1>4. PICK v \in Nat : v = u - m
  BY <1>3
<1>5. /\ Held(g) \in Seq(Byte) /\ Len(Held(g)) = v
      /\ \A j \in 1..v : Held(g)[j] = g.buffer[(g.out + j - 1) % Size]
  <2>1. Used(g) = v /\ v <= Size
    BY <1>1, <1>3, <1>4
  <2> QED
    BY <2>1, HeldIs
<1>6. /\ Held(f) \in Seq(Byte) /\ Len(Held(f)) = u
      /\ \A j \in 1..u : Held(f)[j] = f.buffer[(f.out + j - 1) % Size]
  BY <1>1, HeldIs
<1>7. /\ SubSeq(Held(f), m + 1, u) \in Seq(Byte) /\ Len(SubSeq(Held(f), m + 1, u)) = v
      /\ \A j \in 1..v : SubSeq(Held(f), m + 1, u)[j] = Held(f)[m + j]
  <2>1. \A j \in m+1..u : Held(f)[j] \in Byte
    BY <1>6, ElementOfSeq
  <2>2. /\ SubSeq(Held(f), m + 1, u) \in Seq(Byte)
        /\ Len(SubSeq(Held(f), m + 1, u)) = IF m + 1 <= u THEN u - (m + 1) + 1 ELSE 0
        /\ \A j \in 1..u - (m + 1) + 1 : SubSeq(Held(f), m + 1, u)[j] = Held(f)[(m + 1) + j - 1]
    BY <2>1, SubSeqProperties
  <2> QED
    BY <1>3, <1>4, <2>2
<1>8. g.buffer = f.buffer /\ g.out = (f.out + m) % Modulus
  BY <1>3 DEF Fifo
<1>9. ASSUME NEW j \in 1..v
      PROVE  Held(g)[j] = SubSeq(Held(f), m + 1, u)[j]
  <2>1. PICK a \in Int, e \in Int : a = f.out + m /\ e = j - 1
    BY UsedRange
  <2>2. PICK o \in Int : o = a % Modulus
    BY ModIsInt
  <2>3. ((a % Modulus) + e) % Size = (a + e) % Size
    BY ModTwice
  <2>4. o + j - 1 = o + e /\ f.out + (m + j) - 1 = a + e
    BY <2>1, UsedRange
  <2>5. Held(g)[j] = f.buffer[(a + e) % Size]
    BY <1>5, <1>8, <2>1, <2>2, <2>3, <2>4
  <2>6. m + j \in 1..u
    BY <1>3, <1>4
  <2>7. Held(f)[m + j] = f.buffer[(a + e) % Size]
    BY <1>6, <2>4, <2>6
  <2> QED
    BY <1>7, <2>5, <2>7
<1>10. Held(g) = SubSeq(Held(f), m + 1, u)
  BY <1>5, <1>7, <1>9, SeqEqual
<1> QED
  BY <1>1, <1>2, <1>10

(* The ring is a bounded queue of bytes: a put appends what fits, a get    *)
(* takes off the front what it returns, a pop takes off one byte or, while *)
(* in has wrapped and out has not, none.                                   *)
THEOREM KFifoRefinesByteFifo == Spec => ImplementsByteFifo
<1>1. Init => BF!Init
  <2> SUFFICES ASSUME Init PROVE BF!Init
    OBVIOUS
  <2>1. fifo \in Fifo /\ Used(fifo) <= Size
    BY FifoInvInit DEF FifoInv
  <2>2. Used(fifo) = 0
    <3>1. 0 % Modulus = 0
      BY ModSmall, Constants
    <3> QED
      BY <3>1 DEF Init, Empty, Used
  <2>3. Held(fifo) \in Seq(Byte) /\ Len(Held(fifo)) = 0
    BY <2>1, <2>2, HeldIs
  <2>4. Held(fifo) = <<>>
    BY <2>3, EmptySeq
  <2> QED
    BY <2>4 DEF Init, BF!Init, Held
<1>2. FifoInv /\ [Next]_vars => [BF!Next]_(BF!vars)
  <2> SUFFICES ASSUME FifoInv, [Next]_vars PROVE [BF!Next]_(BF!vars)
    OBVIOUS
  <2>1. PICK f \in Fifo : f = fifo /\ Used(f) \in 0..Size
    BY UsedRange, Constants DEF FifoInv
  <2>2. PICK h \in Seq(Byte) : h = Held(fifo) /\ Len(h) = Used(f)
    BY <2>1, HeldIs, Constants
  <2>3. ASSUME NEW n \in 1..MaxPut, NEW bytes \in [1..n -> Byte], Put(bytes)
        PROVE  BF!Put(bytes)
    <3>1. n \in Nat
      BY FifoAssumption
    <3>2. PICK m \in Nat : m = Smaller(Len(bytes), Free(f))
      BY <2>1, <3>1, FreeIs, Constants DEF Smaller
    <3>3. Held(fifo') = h \o SubSeq(bytes, 1, m)
      <4>1. Used(f) <= Size
        BY <2>1, Constants
      <4>2. Held(AfterPut(f, bytes)) = Held(f) \o SubSeq(bytes, 1, m)
        BY <3>1, <3>2, <4>1, PutAppends DEF Appends
      <4> QED
        BY <2>1, <2>2, <2>3, <4>2 DEF Put
    <3>4. m = BF!Smaller(Len(bytes), Size - Len(h))
      BY <2>1, <2>2, <3>2, FreeIs, Constants DEF Smaller, BF!Smaller
    <3> QED
      BY <2>2, <2>3, <3>3, <3>4 DEF BF!Put, Put, Held
  <2>4. ASSUME NEW n \in Nat, fifo' = AfterGet(fifo, n)
        PROVE  /\ Held(fifo') = SubSeq(h, BF!Smaller(n, Len(h)) + 1, Len(h))
               /\ Ahead(fifo, n) = SubSeq(h, 1, BF!Smaller(n, Len(h)))
    <3>1. PICK m \in Nat : m = Smaller(n, Used(f))
      BY <2>1 DEF Smaller
    <3>2. m = BF!Smaller(n, Len(h))
      BY <2>2, <3>1 DEF Smaller, BF!Smaller
    <3>3. Held(fifo') = SubSeq(h, m + 1, Len(h))
      BY <2>1, <2>2, <2>4, <3>1, GetDrops, Constants
    <3>4. Ahead(fifo, n) = SubSeq(h, 1, m)
      BY <2>1, <2>2, <3>1, AheadIsPrefix, Constants
    <3> QED
      BY <3>2, <3>3, <3>4
  <2>5. ASSUME NEW n \in 1..Size, Get(n) PROVE BF!Get(n)
    BY <2>2, <2>4, <2>5, Constants DEF Get, BF!Get, Held
  <2>6. ASSUME Pop PROVE BF!Pop \/ UNCHANGED BF!vars
    <3>1. CASE fifo' = fifo
      BY <2>6, <3>1 DEF Pop, BF!vars
    <3>2. CASE Used(f) >= 1 /\ fifo' = AfterGet(fifo, 1)
      <4>1. BF!Smaller(1, Len(h)) = 1 /\ h # <<>>
        BY <2>1, <2>2, <3>2 DEF BF!Smaller
      <4>2. Held(fifo') = SubSeq(h, 2, Len(h))
        <5>1. PICK n \in Nat : n = 1
          OBVIOUS
        <5>2. Held(fifo') = SubSeq(h, BF!Smaller(n, Len(h)) + 1, Len(h))
          BY <2>4, <3>2, <5>1
        <5> QED
          BY <4>1, <5>1, <5>2
      <4>3. Held(fifo') = Tail(h)
        BY <4>1, <4>2, TailIsSubSeq
      <4> QED
        BY <2>2, <2>6, <4>1, <4>3 DEF BF!Pop, Pop, Held
    <3> QED
      BY <2>1, <2>6, <3>1, <3>2, PopGets DEF Pop
  <2>7. CASE UNCHANGED vars
    BY <2>7 DEF vars, BF!vars
  <2> QED
    BY <2>3, <2>5, <2>6, <2>7 DEF Next, Offers, BF!Next, BF!Offers
<1> QED
  BY FifoInvInit, FifoInvNext, <1>1, <1>2, PTL
     DEF Spec, ImplementsByteFifo, BF!Spec
=============================================================================
