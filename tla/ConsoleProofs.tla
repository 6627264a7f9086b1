---------------------------- MODULE ConsoleProofs ----------------------------
(***************************************************************************)
(* Proofs about module Console, for any sizes of the buffers, any number   *)
(* of characters typed and written and any lengths of read()s.             *)
(*                                                                         *)
(* The inductive invariant ConInv has two halves.  For the input, Text is  *)
(* the finished input followed by the line under edit: its k-th character  *)
(* is in the k-th place after cons.r, cons.w is as far from cons.r as the  *)
(* finished input is long, and a line that fills the buffer is finished.   *)
(* For the output, who has uart_tx_lock is in uartstart(), a character     *)
(* taken from the buffer was taken from an idle transmitter, and what is   *)
(* in the transmitter and about to be written to it is at most two.        *)
(***************************************************************************)
EXTENDS Console, ModuloProofs, TLAPS

\* The k-th character of the input that nobody has read, finished or not.
Text(k) == IF k <= Len(ready) THEN ready[k] ELSE line[k - Len(ready)]

\* The indices are as far apart as the input is long.
IndexInv ==
    /\ Len(ready) + Len(line) <= INPUT_BUF_SIZE
    /\ Len(ready) + Len(line) = INPUT_BUF_SIZE => Len(line) = 0
    /\ Minus(cons.w, cons.r) = Len(ready) /\ Minus(cons.e, cons.w) = Len(line)

\* The buffer has the input in its places; a line under edit has no end in it.
TextInv ==
    /\ \A k \in 1 .. Len(ready) + Len(line) : cons.buf[(cons.r + k - 1) % INPUT_BUF_SIZE] = Text(k)
    /\ \A k \in 1 .. Len(line) : line[k] = "x"

\* consoleread() has something left to read for, and sleeps on an empty buffer.
ReaderInv ==
    /\ reader.pc # "idle" => reader.n > 0
    /\ reader.pc \in {"sleep", "asleep"} => cons.r = cons.w

\* Some call of uartstart() has a character for THR.
Taken == \E a \in Actors : pc[a] = "thr"

\* uart_tx_lock is held in uartstart(), and only there.
LockInv ==
    /\ \A a \in Actors : pc[a] \in {"uartstart", "thr"} <=> txlock = a
    /\ \A a \in Actors : hand[a] = IF pc[a] = "thr" THEN tx.r ELSE Echo
    /\ pc["writer"] \in {"idle", "uartstart", "thr", "asleep"}
    /\ pc["intr"] = "echo" => echo > 0

One(b) == IF b THEN 1 ELSE 0

\* Nothing that is written to THR is lost.
RoomInv == Len(thr) + One(pc["intr"] = "echo") + One(Taken) <= 2

\* The transmitter has a written character among the echoed ones, and only c.
Carries(s) == \E k \in 1 .. Len(s) : s[k] # Echo
AtMost(s, c) ==
    /\ \A k \in 1 .. Len(s) : s[k] \in {Echo, c}
    /\ \A j, k \in 1 .. Len(s) : s[j] # Echo /\ s[k] # Echo => j = k

InThr == Carries(thr)

\* At most one written character is on its way, and it is the next to leave.
SendInv ==
    /\ AtMost(thr, tx.r)
    /\ Taken \/ InThr => tx.r > 0
    /\ ~(Taken /\ InThr)
    /\ out = Upto(IF Taken \/ InThr THEN tx.r - 1 ELSE tx.r)

\* What waits in uart_tx_buf.
BufInv ==
    /\ tx.w = written /\ tx.r <= tx.w /\ tx.w <= tx.r + UART_TX_BUF_SIZE
    /\ \A k \in tx.r + 1 .. tx.w : tx.buf[(k - 1) % UART_TX_BUF_SIZE] = k

InputInv == IndexInv /\ TextInv /\ ReaderInv
OutputInv == LockInv /\ RoomInv /\ SendInv /\ BufInv /\ WriterSleepsOnFull
ConInv == TypeOK /\ InputInv /\ OutputInv

-----------------------------------------------------------------------------
(* Indices *)

\* The indices of the input buffer are those of two rings.
LEMMA Rings ==
    ASSUME TypeOK
    PROVE  /\ Ring(UINT, INPUT_BUF_SIZE, cons.r, cons.w) /\ Ring(UINT, INPUT_BUF_SIZE, cons.w, cons.e)
           /\ Ring(UINT, INPUT_BUF_SIZE, cons.r, cons.e)
<1>1. cons.r \in 0 .. UINT - 1 /\ cons.w \in 0 .. UINT - 1 /\ cons.e \in 0 .. UINT - 1
    BY DEF TypeOK
<1>2. /\ UINT \in Int /\ UINT > 0 /\ INPUT_BUF_SIZE \in Int /\ INPUT_BUF_SIZE > 0
      /\ INPUT_BUF_SIZE < UINT /\ UINT % INPUT_BUF_SIZE = 0
    BY ConsoleAssumption
<1>3. QED
    BY <1>1, <1>2 DEF Ring

\* From r to e by way of w.
LEMMA Arc ==
    ASSUME NEW U \in Nat, NEW r \in 0 .. U - 1, NEW w \in 0 .. U - 1, NEW e \in 0 .. U - 1,
           ((w - r) % U) + ((e - w) % U) < U
    PROVE  (e - r) % U = ((w - r) % U) + ((e - w) % U)
<1>1. (w - r) % U = IF w >= r THEN w - r ELSE w - r + U
    BY ModDiff
<1>2. (e - w) % U = IF e >= w THEN e - w ELSE e - w + U
    BY ModDiff
<1>3. (e - r) % U = IF e >= r THEN e - r ELSE e - r + U
    BY ModDiff
<1>4. QED
    BY <1>1, <1>2, <1>3

\* Going back by m from e, but not past w.
LEMMA Back ==
    ASSUME NEW U \in Nat, NEW w \in 0 .. U - 1, NEW e \in 0 .. U - 1, NEW m \in Nat, m <= (e - w) % U
    PROVE  (e - m) % U \in 0 .. U - 1 /\ (((e - m) % U) - w) % U = ((e - w) % U) - m
<1> DEFINE v == (e - m) % U
<1>1. (e - w) % U = IF e >= w THEN e - w ELSE e - w + U
    BY ModDiff
<1>2. m < U
    BY <1>1
<1>3. v = IF e >= m THEN e - m ELSE e - m + U
    BY <1>2, ModDiff
<1>4. v \in 0 .. U - 1
    BY <1>2, <1>3
<1>5. (v - w) % U = IF v >= w THEN v - w ELSE v - w + U
    BY <1>4, ModDiff
<1> HIDE DEF v
<1>6. (v - w) % U = ((e - w) % U) - m
    BY <1>1, <1>3, <1>4, <1>5
<1>7. QED
    BY <1>4, <1>6 DEF v

\* How much is in the buffer, and when it is full or empty.
LEMMA Distances ==
    ASSUME TypeOK, IndexInv
    PROVE  /\ Len(ready) \in Nat /\ Len(line) \in Nat
           /\ Minus(cons.e, cons.r) = Len(ready) + Len(line)
           /\ cons.r = cons.w <=> Len(ready) = 0
           /\ cons.w = cons.e <=> Len(line) = 0
<1>1. Len(ready) \in Nat /\ Len(line) \in Nat
    BY DEF TypeOK
<1>2. Minus(cons.e, cons.r) = Len(ready) + Len(line)
  <2>1. /\ UINT \in Nat /\ cons.r \in 0 .. UINT - 1 /\ cons.w \in 0 .. UINT - 1
        /\ cons.e \in 0 .. UINT - 1
      BY ConsoleAssumption DEF TypeOK
  <2>2. ((cons.w - cons.r) % UINT) + ((cons.e - cons.w) % UINT) < UINT
      BY <1>1, ConsoleAssumption DEF IndexInv, Minus
  <2>3. QED
    <3>1. (cons.e - cons.r) % UINT = ((cons.w - cons.r) % UINT) + ((cons.e - cons.w) % UINT)
        BY <2>1, <2>2, Arc, Zenon
    <3>2. QED
        BY <3>1, Zenon DEF IndexInv, Minus
<1>3. cons.r = cons.w <=> Len(ready) = 0
    BY Rings, RingCount DEF IndexInv, Minus
<1>4. cons.w = cons.e <=> Len(line) = 0
    BY Rings, RingCount DEF IndexInv, Minus
<1>5. QED
    BY <1>1, <1>2, <1>3, <1>4

-----------------------------------------------------------------------------
(* Steps of the input *)

\* Storing after b characters of a ring that has room leaves them where they are.
LEMMA PutAfter ==
    ASSUME NEW N \in Nat, N > 0, NEW S, NEW buf \in [0 .. N - 1 -> S], NEW r \in Nat, NEW b \in Nat,
           b < N, NEW c \in S, NEW k \in 1 .. b + 1
    PROVE  [buf EXCEPT ![(r + b) % N] = c][(r + k - 1) % N]
               = IF k = b + 1 THEN c ELSE buf[(r + k - 1) % N]
<1>0. PICK x \in Int, y \in Int : x = r + k - 1 /\ y = r + b
    OBVIOUS
<1>1. x <= y /\ y < x + N /\ (x = y <=> k = b + 1) /\ N \in Int
    BY <1>0
<1>2. x % N \in 0 .. N - 1 /\ y % N \in 0 .. N - 1
    BY <1>1, DivMod
<1>3. x % N = y % N => x = y
    BY <1>1, ModDistinct, Zenon
<1>4. [buf EXCEPT ![y % N] = c][x % N] = IF x % N = y % N THEN c ELSE buf[x % N]
    BY <1>2
<1>5. QED
    BY <1>0, <1>1, <1>3, <1>4, Zenon

\* The characters of an input that grows by a character.
LEMMA Joined ==
    ASSUME NEW S, NEW s \in Seq(S), NEW t \in Seq(S), NEW c \in S
    PROVE  /\ s \o Append(t, c) \in Seq(S) /\ Len(s \o Append(t, c)) = Len(s) + Len(t) + 1
           /\ \A k \in 1 .. Len(s) + Len(t) + 1 : (s \o Append(t, c))[k] =
                  IF k = Len(s) + Len(t) + 1 THEN c ELSE IF k <= Len(s) THEN s[k] ELSE t[k - Len(s)]
<1>n. Len(s) \in Nat /\ Len(t) \in Nat
    OBVIOUS
<1>0. Append(t, c) \in Seq(S)
    OBVIOUS
<1>1. PICK z : z = Append(t, c)
    BY Zenon
<1>2. z \in Seq(S) /\ Len(z) = Len(t) + 1
    BY <1>1
<1>3. \A k \in 1 .. Len(t) + 1 : z[k] = IF k = Len(t) + 1 THEN c ELSE t[k]
    BY <1>1
<1>4. s \o z \in Seq(S) /\ Len(s \o z) = Len(s) + Len(z)
    BY <1>2
<1>5. \A k \in 1 .. Len(s) + Len(z) : (s \o z)[k] = IF k <= Len(s) THEN s[k] ELSE z[k - Len(s)]
    BY <1>2
<1>6. ASSUME NEW k \in 1 .. Len(s) + Len(t) + 1
      PROVE  (s \o z)[k] =
                 IF k = Len(s) + Len(t) + 1 THEN c ELSE IF k <= Len(s) THEN s[k] ELSE t[k - Len(s)]
  <2>1. (s \o z)[k] = IF k <= Len(s) THEN s[k] ELSE z[k - Len(s)]
      BY <1>2, <1>5, <1>n
  <2>2. CASE k <= Len(s)
      BY <2>1, <2>2, <1>n
  <2>3. CASE k > Len(s)
    <3>1. k - Len(s) \in 1 .. Len(t) + 1 /\ (k - Len(s) = Len(t) + 1 <=> k = Len(s) + Len(t) + 1)
        BY <2>3, <1>n
    <3>2. z[k - Len(s)] = IF k = Len(s) + Len(t) + 1 THEN c ELSE t[k - Len(s)]
        BY <1>3, <3>1
    <3>3. ~(k <= Len(s))
        BY <2>3, <1>n
    <3>4. QED
        BY <2>1, <3>2, <3>3, Zenon
  <2>4. k <= Len(s) \/ k > Len(s)
      BY <1>n
  <2>5. QED
      BY <2>2, <2>3, <2>4, Zenon
<1>7. Len(s \o z) = Len(s) + Len(t) + 1
    BY <1>2, <1>4, <1>n
<1>8. QED
    BY <1>1, <1>4, <1>6, <1>7, Zenon

\* A character is stored at cons.e.
Stored(c) == cons'.r = cons.r /\ cons'.buf = [cons.buf EXCEPT ![cons.e % INPUT_BUF_SIZE] = c]

\* Then the buffer holds the input in its places and the character after it.
LEMMA TextGrows ==
    ASSUME TypeOK, IndexInv, TextInv, NEW c \in Chars, Len(ready) + Len(line) < INPUT_BUF_SIZE, Stored(c)
    PROVE  \A k \in 1 .. Len(ready) + Len(line) + 1 :
               cons'.buf[(cons'.r + k - 1) % INPUT_BUF_SIZE]
               = IF k = Len(ready) + Len(line) + 1 THEN c ELSE Text(k)
<1>0. PICK N, b, r, buf : /\ N = INPUT_BUF_SIZE /\ b = Len(ready) + Len(line)
                          /\ r = cons.r /\ buf = cons.buf
    OBVIOUS
<1>n. N \in Nat /\ N > 0 /\ b \in Nat /\ b < N
    BY <1>0, Distances, ConsoleAssumption
<1>r. r \in Nat
    BY <1>0, Rings DEF Ring
<1>b. buf \in [0 .. N - 1 -> Chars]
    BY <1>0 DEF TypeOK
<1>1. cons.e % N = (r + b) % N
  <2>1. cons.e % N = (cons.r + ((cons.e - cons.r) % UINT)) % N
      BY <1>0, Rings, RingPlace
  <2>2. QED
      BY <1>0, <2>1, Distances DEF Minus
<1>2. cons'.r = r /\ cons'.buf = [buf EXCEPT ![(r + b) % N] = c]
    BY <1>0, <1>1, Zenon DEF Stored
<1>3. \A k \in 1 .. b : buf[(r + k - 1) % N] = Text(k)
    BY <1>0, Zenon DEF TextInv
<1>4. ASSUME NEW k \in 1 .. b + 1
      PROVE  cons'.buf[(r + k - 1) % N] = IF k = b + 1 THEN c ELSE Text(k)
  <2>1. cons'.buf[(r + k - 1) % N] = IF k = b + 1 THEN c ELSE buf[(r + k - 1) % N]
    <3>1. [buf EXCEPT ![(r + b) % N] = c][(r + k - 1) % N]
              = IF k = b + 1 THEN c ELSE buf[(r + k - 1) % N]
        BY <1>n, <1>r, <1>b, PutAfter
    <3>2. QED
        BY <1>2, <3>1, Zenon
  <2>2. k # b + 1 => k \in 1 .. b
      BY <1>n
  <2>3. QED
      BY <1>3, <2>1, <2>2, Zenon
<1>5. QED
    BY <1>0, <1>2, <1>4, Zenon

\* consoleintr() stores a character and goes on with the line.
LEMMA StoreNext ==
    ASSUME TypeOK, IndexInv, TextInv, NEW c \in Chars, c = "x",
           Len(ready) + Len(line) + 1 < INPUT_BUF_SIZE,
           Stored(c),
           cons'.e = Inc(cons.e), cons'.w = cons.w, line' = Append(line, c), ready' = ready
    PROVE  IndexInv' /\ TextInv'
<1>s. ready \in Seq(Chars) /\ line \in Seq(Chars)
    BY DEF TypeOK
<1>n. Len(ready) \in Nat /\ Len(line) \in Nat /\ INPUT_BUF_SIZE \in Nat /\ INPUT_BUF_SIZE < UINT /\ UINT \in Nat
    BY Distances, ConsoleAssumption
<1>1. /\ Len(line') = Len(line) + 1 /\ Len(ready') = Len(ready)
      /\ \A k \in 1 .. Len(line) : line'[k] = line[k]
      /\ line'[Len(line) + 1] = c
    BY <1>s
<1>2. IndexInv'
  <2>1. Minus(cons.w, cons.r)' = Len(ready)'
      BY <1>1, Zenon DEF IndexInv, Minus, Stored
  <2>2. Minus(cons.e, cons.w)' = Len(line)'
    <3>1. ((cons.e - cons.w) % UINT) + 1 < UINT
        BY <1>n DEF IndexInv, Minus
    <3>2. (((cons.e + 1) % UINT) - cons.w) % UINT = ((cons.e - cons.w) % UINT) + 1
        BY <3>1, Rings, RingPut
    <3>3. QED
        BY <3>2, <1>1 DEF IndexInv, Minus, Inc
  <2>3. QED
      BY <1>1, <1>n, <2>1, <2>2 DEF IndexInv
<1>3. TextInv'
  <2>1. ASSUME NEW k \in 1 .. Len(ready) + Len(line) + 1
        PROVE  Text(k)' = IF k = Len(ready) + Len(line) + 1 THEN c ELSE Text(k)
      BY <1>1, <1>n DEF Text
  <2>2. \A k \in 1 .. Len(ready') + Len(line') :
            cons'.buf[(cons'.r + k - 1) % INPUT_BUF_SIZE] = Text(k)'
      BY <1>1, <1>n, <2>1, TextGrows
  <2>3. \A k \in 1 .. Len(line') : line'[k] = "x"
      BY <1>1, <1>n DEF TextInv
  <2>4. QED
      BY <2>2, <2>3 DEF TextInv
<1>4. QED
    BY <1>2, <1>3

\* consoleintr() stores a character that ends the line.
LEMMA EndNext ==
    ASSUME TypeOK, IndexInv, TextInv, NEW c \in Chars, Len(ready) + Len(line) < INPUT_BUF_SIZE,
           Stored(c),
           cons'.e = Inc(cons.e), cons'.w = Inc(cons.e), line' = <<>>, ready' = ready \o Append(line, c)
    PROVE  IndexInv' /\ TextInv'
<1>s. ready \in Seq(Chars) /\ line \in Seq(Chars)
    BY DEF TypeOK
<1>n. Len(ready) \in Nat /\ Len(line) \in Nat /\ INPUT_BUF_SIZE \in Nat /\ INPUT_BUF_SIZE < UINT /\ UINT \in Nat
    BY Distances, ConsoleAssumption
<1>2. /\ Len(ready') = Len(ready) + Len(line) + 1 /\ Len(line') = 0
      /\ \A k \in 1 .. Len(ready) + Len(line) + 1 : ready'[k] =
             IF k = Len(ready) + Len(line) + 1 THEN c ELSE Text(k)
  <2>1. /\ Len(ready \o Append(line, c)) = Len(ready) + Len(line) + 1
        /\ \A k \in 1 .. Len(ready) + Len(line) + 1 : (ready \o Append(line, c))[k] =
               IF k = Len(ready) + Len(line) + 1 THEN c
               ELSE IF k <= Len(ready) THEN ready[k] ELSE line[k - Len(ready)]
      BY <1>s, Joined
  <2>2. Len(line') = 0
      OBVIOUS
  <2>3. QED
      BY <2>1, <2>2, Zenon DEF Text
<1>3. IndexInv'
  <2>1. Minus(cons.w, cons.r)' = Len(ready)'
    <3>1. ((cons.e - cons.r) % UINT) + 1 < UINT /\ (cons.e - cons.r) % UINT = Len(ready) + Len(line)
        BY <1>n, Distances DEF Minus
    <3>2. (((cons.e + 1) % UINT) - cons.r) % UINT = ((cons.e - cons.r) % UINT) + 1
        BY <3>1, Rings, RingPut
    <3>3. QED
        BY <3>1, <3>2, <1>2, Zenon DEF Minus, Inc, Stored
  <2>2. Minus(cons.e, cons.w)' = Len(line)'
    <3>1. cons'.e \in Int /\ cons'.e = cons'.w
        BY Rings, DivMod DEF Ring, Inc
    <3>2. QED
        BY <3>1, <1>2, <1>n DEF Minus
  <2>3. QED
      BY <1>2, <1>n, <2>1, <2>2 DEF IndexInv
<1>4. TextInv'
  <2>1. ASSUME NEW k \in 1 .. Len(ready) + Len(line) + 1
        PROVE  Text(k)' = IF k = Len(ready) + Len(line) + 1 THEN c ELSE Text(k)
    <3>1. k <= Len(ready')
        BY <1>2, <1>n
    <3>2. QED
        BY <3>1, <1>2, Zenon DEF Text
  <2>2. \A k \in 1 .. Len(ready') + Len(line') :
            cons'.buf[(cons'.r + k - 1) % INPUT_BUF_SIZE] = Text(k)'
      BY <1>2, <1>n, <2>1, TextGrows
  <2>3. QED
      BY <1>2, <2>2 DEF TextInv
<1>5. QED
    BY <1>3, <1>4

\* The two parts of the buffer are the finished input and the line.
LEMMA Lines == ASSUME TypeOK, IndexInv, TextInv PROVE InputIsLines
<1>0. PICK N, a, b, r, w, buf : /\ N = INPUT_BUF_SIZE /\ a = Len(ready) /\ b = Len(line)
                                /\ r = cons.r /\ w = cons.w /\ buf = cons.buf
    BY Zenon
<1>n. N \in Nat /\ N < UINT /\ UINT \in Nat /\ a \in Nat /\ b \in Nat /\ a + b <= N
    BY <1>0, Distances, ConsoleAssumption DEF IndexInv
<1>g. Ring(UINT, N, r, w) /\ Ring(UINT, N, w, cons.e)
    BY <1>0, Rings
<1>r. r \in Nat /\ w \in Nat
    BY <1>g DEF Ring
<1>s. ready = [k \in 1 .. a |-> ready[k]] /\ line = [k \in 1 .. b |-> line[k]]
  <2>1. ready \in Seq(Chars) /\ line \in Seq(Chars)
      BY DEF TypeOK
  <2>2. QED
      BY <1>0, <2>1
<1>d. (w - r) % UINT = a /\ (cons.e - w) % UINT = b
    BY <1>0 DEF IndexInv, Minus
<1>t. \A k \in 1 .. a + b : buf[(r + k - 1) % N] = Text(k)
    BY <1>0, Zenon DEF TextInv
<1>1. ASSUME NEW k \in 1 .. a PROVE buf[((r + k - 1) % UINT) % N] = ready[k]
  <2>1. k - 1 \in Int /\ 0 <= k - 1 /\ k - 1 < UINT /\ k \in 1 .. a + b /\ r + (k - 1) = r + k - 1
      BY <1>n, <1>r
  <2>2. ((r + k - 1) % UINT) % N = (r + k - 1) % N
      BY <1>g, <2>1, RingWrap
  <2>3. k <= Len(ready)
      BY <1>0
  <2>4. QED
      BY <1>t, <2>1, <2>2, <2>3, Zenon DEF Text
<1>2. ASSUME NEW k \in 1 .. b PROVE buf[((w + k - 1) % UINT) % N] = line[k]
  <2>1. /\ k - 1 \in Int /\ 0 <= k - 1 /\ k - 1 < UINT /\ a + k \in 1 .. a + b
        /\ w + (k - 1) = w + k - 1 /\ r + a + (k - 1) = r + (a + k) - 1
      BY <1>n, <1>r
  <2>2. ((w + k - 1) % UINT) % N = (w + k - 1) % N
      BY <1>g, <2>1, RingWrap
  <2>3. (w + k - 1) % N = (r + (a + k) - 1) % N
      BY <1>g, <1>d, <2>1, RingFrom
  <2>4. Text(a + k) = line[k]
    <3>1. ~(a + k <= Len(ready)) /\ (a + k) - Len(ready) = k
        BY <1>0, <1>n
    <3>2. QED
        BY <3>1, Zenon DEF Text
  <2>5. QED
      BY <1>t, <2>1, <2>2, <2>3, <2>4, Zenon
<1>3. Span(cons.r, cons.w) = ready
  <2>1. Span(cons.r, cons.w) = [k \in 1 .. a |-> buf[((r + k - 1) % UINT) % N]]
      BY <1>0, <1>d, Zenon DEF Span, Minus
  <2>2. QED
      BY <1>1, <1>s, <2>1
<1>4. Span(cons.w, cons.e) = line
  <2>1. Span(cons.w, cons.e) = [k \in 1 .. b |-> buf[((w + k - 1) % UINT) % N]]
      BY <1>0, <1>d, Zenon DEF Span, Minus
  <2>2. QED
      BY <1>2, <1>s, <2>1
<1>5. Minus(cons.e, cons.r) <= INPUT_BUF_SIZE
    BY Distances DEF IndexInv
<1>6. QED
    BY <1>3, <1>4, <1>5 DEF InputIsLines

\* "^U" erases the whole line: there is no newline in it.
LEMMA ErasesLine == ASSUME TypeOK, IndexInv, TextInv PROVE Erased = Len(line)
<1>1. Span(cons.w, cons.e) = line
    BY Lines DEF InputIsLines
<1>2. {k \in DOMAIN line : line[k] = "nl"} = {}
  <2>1. DOMAIN line = 1 .. Len(line)
      BY DEF TypeOK
  <2>2. QED
      BY <2>1 DEF TextInv
<1>3. Len(line) - 0 = Len(line)
    BY Distances
<1>4. QED
    BY <1>1, <1>2, <1>3, Zenon DEF Erased

\* m characters of the line are erased.
Shrunk(m) ==
    /\ cons'.r = cons.r /\ cons'.w = cons.w /\ cons'.buf = cons.buf /\ cons'.e = Minus(cons.e, m)
    /\ line' = SubSeq(line, 1, Len(line) - m) /\ ready' = ready

\* consoleintr() erases.
LEMMA EraseNext ==
    ASSUME TypeOK, IndexInv, TextInv, NEW m \in Nat, m <= Len(line), Shrunk(m)
    PROVE  IndexInv' /\ TextInv'
<1>n. Len(ready) \in Nat /\ Len(line) \in Nat /\ INPUT_BUF_SIZE \in Nat /\ UINT \in Nat
    BY Distances, ConsoleAssumption
<1>s. line \in Seq(Chars)
    BY DEF TypeOK
<1>1. /\ Len(line') = Len(line) - m /\ Len(ready') = Len(ready)
      /\ \A k \in 1 .. Len(line) - m : line'[k] = line[k]
    BY <1>s, <1>n DEF Shrunk
<1>2. Minus(cons.e, cons.w)' = Len(line)'
  <2>1. cons.w \in 0 .. UINT - 1 /\ cons.e \in 0 .. UINT - 1
      BY DEF TypeOK
  <2>2. m <= (cons.e - cons.w) % UINT
      BY Zenon DEF IndexInv, Minus
  <2>3. (((cons.e - m) % UINT) - cons.w) % UINT = ((cons.e - cons.w) % UINT) - m
      BY <1>n, <2>1, <2>2, Back, Zenon
  <2>4. QED
      BY <1>1, <2>3, Zenon DEF IndexInv, Minus, Shrunk
<1>3. Minus(cons.w, cons.r)' = Len(ready)'
    BY <1>1, Zenon DEF IndexInv, Minus, Shrunk
<1>4. IndexInv'
  <2>1. /\ Len(ready) + Len(line) <= INPUT_BUF_SIZE
        /\ Len(ready) + Len(line) = INPUT_BUF_SIZE => Len(line) = 0
      BY Zenon DEF IndexInv
  <2>2. PICK a, b : a = Len(ready) /\ b = Len(line)
      BY Zenon
  <2>3. /\ a + (b - m) <= INPUT_BUF_SIZE
        /\ a + (b - m) = INPUT_BUF_SIZE => b - m = 0
      BY <1>n, <2>1, <2>2
  <2>4. QED
      BY <1>1, <1>2, <1>3, <2>2, <2>3, Zenon DEF IndexInv
<1>5. \A k \in 1 .. Len(ready') + Len(line') : Text(k)' = Text(k)
  <2> SUFFICES ASSUME NEW k \in 1 .. Len(ready') + Len(line') PROVE Text(k)' = Text(k)
      BY Zenon
  <2>1. CASE k <= Len(ready)
      BY <1>1, <2>1, Zenon DEF Text, Shrunk
  <2>2. CASE ~(k <= Len(ready))
    <3>1. k - Len(ready) \in 1 .. Len(line) - m
        BY <1>1, <1>n, <2>2
    <3>2. QED
        BY <1>1, <2>2, <3>1, Zenon DEF Text, Shrunk
  <2>3. QED
      BY <2>1, <2>2, Zenon
<1>6. \A k \in 1 .. Len(ready') + Len(line') : k \in 1 .. Len(ready) + Len(line)
    BY <1>1, <1>n
<1>7. \A k \in 1 .. Len(line') : line'[k] = "x"
  <2>1. \A k \in 1 .. Len(line) - m : k \in 1 .. Len(line)
      BY <1>n
  <2>2. QED
      BY <1>1, <2>1, Zenon DEF TextInv
<1>8. TextInv'
    BY <1>5, <1>6, <1>7, Zenon DEF TextInv, Shrunk
<1>9. QED
    BY <1>4, <1>8

\* A character is taken.
Shifted ==
    /\ cons'.r = Inc(cons.r) /\ cons'.w = cons.w /\ cons'.buf = cons.buf /\ cons'.e = cons.e
    /\ line' = line /\ ready' = Tail(ready)

\* consoleread() takes a character.
LEMMA TakeNext ==
    ASSUME TypeOK, IndexInv, TextInv, cons.r # cons.w, Shifted
    PROVE  IndexInv' /\ TextInv'
<1>n. Len(ready) \in Nat /\ Len(ready) > 0 /\ Len(line) \in Nat /\ INPUT_BUF_SIZE \in Nat /\ UINT \in Nat
    BY Distances, ConsoleAssumption
<1>s. ready \in Seq(Chars)
    BY DEF TypeOK
<1>1. /\ Len(ready') = Len(ready) - 1 /\ Len(line') = Len(line)
      /\ \A k \in 1 .. Len(ready) - 1 : ready'[k] = ready[k + 1]
    BY <1>s, <1>n DEF Shifted
<1>2. Minus(cons.w, cons.r)' = Len(ready)'
  <2>1. (cons.w - ((cons.r + 1) % UINT)) % UINT = ((cons.w - cons.r) % UINT) - 1
      BY Rings, RingGet
  <2>2. QED
      BY <1>1, <2>1, Zenon DEF IndexInv, Minus, Inc, Shifted
<1>3. Minus(cons.e, cons.w)' = Len(line)'
    BY <1>1, Zenon DEF IndexInv, Minus, Shifted
<1>4. IndexInv'
    BY <1>1, <1>2, <1>3, <1>n DEF IndexInv
<1>5. ASSUME NEW k \in 1 .. Len(ready') + Len(line')
      PROVE  cons'.buf[(cons'.r + k - 1) % INPUT_BUF_SIZE] = Text(k)'
  <2>1. /\ k - 1 \in Int /\ k + 1 \in 1 .. Len(ready) + Len(line) /\ cons.r \in Int
        /\ cons.r + 1 + (k - 1) = cons.r + (k + 1) - 1
    <3>1. cons.r \in Int
        BY Rings DEF Ring
    <3>2. QED
        BY <1>1, <1>n, <3>1
  <2>2. (((cons.r + 1) % UINT) + (k - 1)) % INPUT_BUF_SIZE = (cons.r + 1 + (k - 1)) % INPUT_BUF_SIZE
      BY <2>1, Rings, RingNext, ZenonT(30)
  <2>3. ((cons.r + 1) % UINT) + (k - 1) = ((cons.r + 1) % UINT) + k - 1
    <3>1. (cons.r + 1) % UINT \in Int
        BY <2>1, ConsoleAssumption, DivMod
    <3>2. QED
        BY <3>1, <2>1
  <2>4. cons.buf[(cons.r + (k + 1) - 1) % INPUT_BUF_SIZE] = Text(k + 1)
      BY <2>1, Zenon DEF TextInv
  <2>5. Text(k)' = Text(k + 1)
    <3>1. CASE k <= Len(ready')
      <4>1. k \in 1 .. Len(ready) - 1 /\ k + 1 <= Len(ready)
          BY <1>1, <1>n, <3>1
      <4>2. QED
          BY <1>1, <3>1, <4>1, Zenon DEF Text, Shifted
    <3>2. CASE ~(k <= Len(ready'))
      <4>1. ~(k + 1 <= Len(ready)) /\ k - Len(ready') = (k + 1) - Len(ready)
          BY <1>1, <1>n, <3>2
      <4>2. QED
          BY <1>1, <3>2, <4>1, Zenon DEF Text, Shifted
    <3>3. QED
        BY <3>1, <3>2, Zenon
  <2>6. QED
      BY <2>1, <2>2, <2>3, <2>4, <2>5, Zenon DEF Inc, Shifted
<1>6. TextInv'
    BY <1>5, Zenon DEF TextInv, Shifted
<1>7. QED
    BY <1>4, <1>6

\* What consoleintr() does to the input.
LEMMA EditNext ==
    ASSUME TypeOK, InputInv, NEW c \in Keys, reader.pc # "sleep", consoleintr(c)
    PROVE  InputInv'
<1>0. IndexInv /\ TextInv /\ ReaderInv
    BY DEF InputInv
<1>t. cons \in [buf : [0 .. INPUT_BUF_SIZE - 1 -> Chars], r : 0 .. UINT - 1, w : 0 .. UINT - 1, e : 0 .. UINT - 1]
    BY DEF TypeOK
<1>n. Len(ready) \in Nat /\ Len(line) \in Nat /\ INPUT_BUF_SIZE \in Nat /\ UINT \in Nat
    BY <1>0, Distances, ConsoleAssumption
<1>1. CASE c = "^U"
  <2>1. cons' = [cons EXCEPT !.e = Minus(cons.e, Len(line))]
      BY <1>0, <1>1, ErasesLine, Zenon DEF consoleintr
  <2>2. line' = SubSeq(line, 1, Len(line) - Len(line)) /\ reader' = reader /\ ready' = ready
    <3>1. line' = <<>> /\ reader' = reader /\ ready' = ready
        BY <1>1, Zenon DEF consoleintr
    <3>2. SubSeq(line, 1, Len(line) - Len(line)) = <<>>
      <4>1. line \in Seq(Chars)
          BY DEF TypeOK
      <4>2. QED
          BY <1>n, <4>1
    <3>3. QED
        BY <3>1, <3>2, Zenon
  <2>3. Shrunk(Len(line))
      BY <1>t, <2>1, <2>2 DEF Shrunk
  <2>4. IndexInv' /\ TextInv'
      BY <1>0, <1>n, <2>3, EraseNext
  <2>5. ReaderInv'
      BY <1>0, <2>2, <2>3, Zenon DEF ReaderInv, Shrunk
  <2>6. QED
      BY <2>4, <2>5 DEF InputInv
<1>2. CASE c = "^H"
  <2>1. CASE CanErase
    <3>1. cons' = [cons EXCEPT !.e = Minus(cons.e, 1)]
        BY <1>2, <2>1 DEF consoleintr, Dec, Minus
    <3>2. Len(line) # 0 /\ line # <<>>
        BY <1>0, <2>1, Distances DEF CanErase
    <3>3. line' = SubSeq(line, 1, Len(line) - 1) /\ reader' = reader /\ ready' = ready
        BY <1>2, <3>2 DEF consoleintr
    <3>4. Shrunk(1)
        BY <1>t, <3>1, <3>3 DEF Shrunk
    <3>5. IndexInv' /\ TextInv'
        BY <1>0, <1>n, <3>2, <3>4, EraseNext
    <3>6. ReaderInv'
        BY <1>0, <3>3, <3>4, Zenon DEF ReaderInv, Shrunk
    <3>7. QED
        BY <3>5, <3>6 DEF InputInv
  <2>2. CASE ~CanErase
    <3>1. line \in Seq(Chars)
        BY DEF TypeOK
    <3>2. Len(line) = 0
        BY <1>0, <2>2, Distances DEF CanErase
    <3>3. line = <<>>
        BY <3>1, <3>2
    <3>4. UNCHANGED <<cons, line, ready, reader>>
        BY <1>2, <2>2, <3>3 DEF consoleintr
    <3>5. QED
        BY <3>4, Zenon DEF InputInv, IndexInv, TextInv, ReaderInv, Text
  <2>3. QED
      BY <2>1, <2>2, Zenon
<1>3. CASE c \notin {"^P", "^U", "^H", "nul"} /\ HasRoom
  <2>c. c \in Chars
      BY <1>3, ConsoleAssumption DEF Chars
  <2>r. Len(ready) + Len(line) < INPUT_BUF_SIZE
      BY <1>0, <1>3, Distances DEF HasRoom
  <2>e. Minus(Inc(cons.e), cons.r) = Len(ready) + Len(line) + 1
    <3>1. (cons.e - cons.r) % UINT = Len(ready) + Len(line)
        BY <1>0, Distances, Zenon DEF Minus
    <3>2. ((cons.e - cons.r) % UINT) + 1 < UINT
        BY <1>n, <2>r, <3>1, ConsoleAssumption
    <3>3. (((cons.e + 1) % UINT) - cons.r) % UINT = ((cons.e - cons.r) % UINT) + 1
        BY <3>2, Rings, RingPut, Zenon
    <3>4. QED
        BY <3>1, <3>3, Zenon DEF Minus, Inc
  <2>l. EndsLine(c, Inc(cons.e)) <=> (c \in {"nl", "^D"} \/ Len(ready) + Len(line) + 1 = INPUT_BUF_SIZE)
      BY <2>e, Zenon DEF EndsLine
  <2>1. CASE EndsLine(c, Inc(cons.e))
    <3>1. /\ cons' = [cons EXCEPT !.buf[cons.e % INPUT_BUF_SIZE] = c, !.e = Inc(cons.e), !.w = Inc(cons.e)]
          /\ line' = <<>> /\ ready' = ready \o Append(line, c) /\ wakeup_reader
        BY <1>3, <2>1, <2>l DEF consoleintr
    <3>2. /\ Stored(c) /\ cons'.e = Inc(cons.e) /\ cons'.w = Inc(cons.e)
        BY <1>t, <3>1 DEF Stored
    <3>3. IndexInv' /\ TextInv'
        BY <1>0, <2>c, <2>r, <3>1, <3>2, EndNext, Zenon
    <3>4. ReaderInv'
      <4>1. reader \in [pc : {"idle", "read", "sleep", "asleep"}, target : Nat, n : Nat, killed : BOOLEAN]
          BY DEF TypeOK
      <4>2. reader' = IF reader.pc = "asleep" THEN [reader EXCEPT !.pc = "read"] ELSE reader
          BY <3>1, Zenon DEF wakeup_reader
      <4>3. reader'.pc \notin {"sleep", "asleep"} /\ reader'.n = reader.n /\ (reader'.pc # "idle" => reader.pc # "idle")
          BY <4>1, <4>2
      <4>4. QED
          BY <1>0, <4>3 DEF ReaderInv
    <3>5. QED
        BY <3>3, <3>4 DEF InputInv
  <2>2. CASE ~EndsLine(c, Inc(cons.e))
    <3>1. /\ cons' = [cons EXCEPT !.buf[cons.e % INPUT_BUF_SIZE] = c, !.e = Inc(cons.e), !.w = cons.w]
          /\ line' = Append(line, c) /\ ready' = ready /\ reader' = reader
        BY <1>3, <2>2, <2>l DEF consoleintr
    <3>2. /\ Stored(c) /\ cons'.e = Inc(cons.e) /\ cons'.w = cons.w /\ cons'.r = cons.r
        BY <1>t, <3>1 DEF Stored
    <3>3. c = "x" /\ Len(ready) + Len(line) + 1 < INPUT_BUF_SIZE
        BY <1>n, <2>c, <2>r, <2>2, <2>l DEF Chars
    <3>4. IndexInv' /\ TextInv'
        BY <1>0, <2>c, <3>1, <3>2, <3>3, StoreNext, Zenon
    <3>5. ReaderInv'
        BY <1>0, <3>1, <3>2, Zenon DEF ReaderInv
    <3>6. QED
        BY <3>4, <3>5 DEF InputInv
  <2>3. QED
      BY <2>1, <2>2, Zenon
<1>4. CASE c \notin {"^P", "^U", "^H"} /\ (c = "nul" \/ ~HasRoom)
  <2>1. UNCHANGED <<cons, line, ready, reader>>
      BY <1>4 DEF consoleintr
  <2>2. QED
      BY <2>1, Zenon DEF InputInv, IndexInv, TextInv, ReaderInv, Text
<1>5. CASE c = "^P"
  <2>1. UNCHANGED <<cons, line, ready, reader>>
      BY <1>5, Zenon DEF consoleintr
  <2>2. QED
      BY <2>1, Zenon DEF InputInv, IndexInv, TextInv, ReaderInv, Text
<1>6. QED
    BY <1>1, <1>2, <1>3, <1>4, <1>5

\* One round of consoleread()'s loop.
LEMMA ReadNext == ASSUME TypeOK, InputInv, consoleread_step PROVE InputInv'
<1>0. IndexInv /\ TextInv /\ ReaderInv
    BY DEF InputInv
<1>t. cons \in [buf : [0 .. INPUT_BUF_SIZE - 1 -> Chars], r : 0 .. UINT - 1, w : 0 .. UINT - 1, e : 0 .. UINT - 1]
    BY DEF TypeOK
<1>r. reader \in [pc : {"idle", "read", "sleep", "asleep"}, target : Nat, n : Nat, killed : BOOLEAN]
    BY DEF TypeOK
<1>n. reader.pc = "read" /\ reader.n > 0 /\ line' = line
    BY <1>0 DEF consoleread_step, ReaderInv, input, output
<1>1. CASE cons.r = cons.w
  <2>1. cons' = cons /\ ready' = ready /\ reader'.n = reader.n
      BY <1>1, <1>r DEF consoleread_step
  <2>2. IndexInv' /\ TextInv'
      BY <1>0, <1>n, <2>1, Zenon DEF IndexInv, TextInv, Text
  <2>3. ReaderInv'
      BY <1>1, <1>n, <2>1, Zenon DEF ReaderInv
  <2>4. QED
      BY <2>2, <2>3 DEF InputInv
<1>2. CASE cons.r # cons.w /\ cons' = [cons EXCEPT !.r = Inc(cons.r)] /\ ready' = Tail(ready)
           /\ reader'.pc \in {"idle", "read"} /\ (reader'.pc = "read" => reader'.n > 0)
  <2>1. Shifted
      BY <1>t, <1>n, <1>2 DEF Shifted
  <2>2. IndexInv' /\ TextInv'
      BY <1>0, <1>2, <2>1, TakeNext
  <2>3. ReaderInv'
      BY <1>2 DEF ReaderInv
  <2>4. QED
      BY <2>2, <2>3 DEF InputInv
<1>3. CASE cons' = cons /\ ready' = ready /\ reader'.pc = "idle"
  <2>1. IndexInv' /\ TextInv'
      BY <1>0, <1>n, <1>3, Zenon DEF IndexInv, TextInv, Text
  <2>2. ReaderInv'
      BY <1>3 DEF ReaderInv
  <2>3. QED
      BY <2>1, <2>2 DEF InputInv
<1>4. ASSUME cons.r # cons.w, cons.buf[cons.r % INPUT_BUF_SIZE] = "^D" PROVE InputInv'
  <2>1. /\ cons' = [cons EXCEPT !.r = IF reader.n < reader.target THEN cons.r ELSE Inc(cons.r)]
        /\ ready' = IF reader.n < reader.target THEN ready ELSE Tail(ready)
        /\ reader' = [reader EXCEPT !.pc = "idle"]
      BY <1>4 DEF consoleread_step, EofIndex
  <2>2. reader'.pc = "idle"
      BY <1>r, <2>1
  <2>3. CASE reader.n < reader.target
    <3>1. cons' = cons /\ ready' = ready
        BY <1>t, <2>1, <2>3
    <3>2. QED
        BY <1>3, <2>2, <3>1
  <2>4. CASE ~(reader.n < reader.target)
      BY <1>2, <1>4, <2>1, <2>2, <2>4
  <2>5. QED
      BY <2>3, <2>4, Zenon
<1>5. ASSUME cons.r # cons.w, cons.buf[cons.r % INPUT_BUF_SIZE] # "^D" PROVE InputInv'
  <2>1. cons' = [cons EXCEPT !.r = Inc(cons.r)] /\ ready' = Tail(ready)
      BY <1>5 DEF consoleread_step
  <2>2. \/ \E last \in BOOLEAN : /\ reader.n = 1 => last
                                 /\ reader' = [reader EXCEPT !.n = reader.n - 1, !.pc = IF last THEN "idle" ELSE "read"]
        \/ reader' = [reader EXCEPT !.pc = "idle"]
      BY <1>5, Zenon DEF consoleread_step
  <2>3. reader'.pc \in {"idle", "read"} /\ (reader'.pc = "read" => reader'.n > 0)
    <3>1. ASSUME NEW last \in BOOLEAN, reader.n = 1 => last,
                 reader' = [reader EXCEPT !.n = reader.n - 1, !.pc = IF last THEN "idle" ELSE "read"]
          PROVE  reader'.pc \in {"idle", "read"} /\ (reader'.pc = "read" => reader'.n > 0)
      <4>1. reader'.n = reader.n - 1 /\ reader'.pc = IF last THEN "idle" ELSE "read"
          BY <1>r, <3>1
      <4>2. reader.n # 1 => reader.n - 1 > 0
          BY <1>r, <1>n
      <4>3. QED
          BY <3>1, <4>1, <4>2
    <3>2. CASE reader' = [reader EXCEPT !.pc = "idle"]
        BY <1>r, <3>2
    <3>3. QED
        BY <2>2, <3>1, <3>2, Zenon
  <2>4. QED
      BY <1>2, <1>5, <2>1, <2>3
<1>6. QED
    BY <1>1, <1>4, <1>5, Zenon

\* The input half of the invariant.
LEMMA InputNext == TypeOK /\ InputInv /\ [Next]_vars => InputInv'
<1> SUFFICES ASSUME TypeOK, InputInv, [Next]_vars PROVE InputInv'
    OBVIOUS
<1>r. reader \in [pc : {"idle", "read", "sleep", "asleep"}, target : Nat, n : Nat, killed : BOOLEAN]
    BY DEF TypeOK
<1>1. CASE UNCHANGED <<cons, reader, line, ready>>
    BY <1>1, Zenon DEF InputInv, IndexInv, TextInv, ReaderInv, Text
<1>2. ASSUME UNCHANGED <<cons, line, ready>>, ReaderInv' PROVE InputInv'
    BY <1>2, Zenon DEF InputInv, IndexInv, TextInv, Text
<1>3. ASSUME NEW n \in Reads, consoleread(n) PROVE InputInv'
  <2>1. reader'.pc = "read" /\ reader'.n = n /\ n > 0
      BY <1>3, <1>r, ConsoleAssumption DEF consoleread
  <2>2. QED
      BY <1>2, <1>3, <2>1 DEF consoleread, ReaderInv
<1>4. CASE sleep
  <2>1. reader.pc = "sleep" /\ reader'.pc = "asleep" /\ reader'.n = reader.n
      BY <1>4, <1>r DEF sleep
  <2>2. QED
      BY <1>2, <1>4, <2>1 DEF sleep, InputInv, ReaderInv
<1>5. CASE kill
  <2>1. reader'.pc = (IF reader.pc = "asleep" THEN "read" ELSE reader.pc) /\ reader'.n = reader.n
      BY <1>5, <1>r DEF kill
  <2>2. QED
      BY <1>2, <1>5, <2>1 DEF kill, InputInv, ReaderInv
<1>6. CASE uartgetc
  <2>1. CASE rhr = <<>>
      BY <1>1, <1>6, <2>1 DEF uartgetc
  <2>2. CASE rhr # <<>>
    <3>1. Head(rhr) \in Keys
      <4>1. rhr \in Seq(Keys)
          BY DEF TypeOK
      <4>2. QED
          BY <2>2, <4>1
    <3>2. QED
        BY <1>6, <2>2, <3>1, EditNext DEF uartgetc
  <2>3. QED
      BY <2>1, <2>2, Zenon
<1>7. ASSUME \/ \E c \in Keys : type(c)
             \/ uartputc \/ transmit \/ plic_claim \/ uartputc_sync \/ echo_thr \/ uartintr
             \/ \E a \in Actors : uartstart(a) \/ write_thr(a)
             \/ UNCHANGED vars
      PROVE  InputInv'
    BY <1>1, <1>7, Zenon
    DEF type, uartputc, transmit, plic_claim, uartputc_sync, echo_thr, uartintr, uartstart,
                      write_thr, input, vars
<1>8. QED
    BY <1>3, <1>4, <1>5, <1>6, <1>7, ReadNext, Zenon DEF Next, handler

-----------------------------------------------------------------------------
(* Types *)

\* What consoleintr() leaves.
LEMMA EditType ==
    ASSUME TypeOK, InputInv, NEW c \in Keys, consoleintr(c)
    PROVE  /\ cons' \in [buf : [0 .. INPUT_BUF_SIZE - 1 -> Chars],
                         r : 0 .. UINT - 1, w : 0 .. UINT - 1, e : 0 .. UINT - 1]
           /\ reader' \in [pc : {"idle", "read", "sleep", "asleep"}, target : Nat, n : Nat, killed : BOOLEAN]
           /\ reader'.n <= reader'.target
           /\ line' \in Seq(Chars) /\ ready' \in Seq(Chars) /\ echo' \in Nat
<1>0. IndexInv /\ TextInv
    BY DEF InputInv
<1>t. cons \in [buf : [0 .. INPUT_BUF_SIZE - 1 -> Chars], r : 0 .. UINT - 1, w : 0 .. UINT - 1, e : 0 .. UINT - 1]
    BY DEF TypeOK
<1>r. /\ reader \in [pc : {"idle", "read", "sleep", "asleep"}, target : Nat, n : Nat, killed : BOOLEAN]
      /\ reader.n <= reader.target
    BY DEF TypeOK
<1>s. line \in Seq(Chars) /\ ready \in Seq(Chars) /\ Len(line) \in Nat
    BY DEF TypeOK
<1>m. \A x \in Int : x % UINT \in 0 .. UINT - 1
  <2>1. UINT \in Int /\ UINT > 0
      BY ConsoleAssumption
  <2>2. QED
      BY <2>1, DivMod
<1>i. /\ cons.e \in Int /\ Inc(cons.e) \in 0 .. UINT - 1 /\ Dec(cons.e) \in 0 .. UINT - 1
      /\ Minus(cons.e, Len(line)) \in 0 .. UINT - 1
  <2>1. cons.e \in Int
      BY <1>t
  <2>2. cons.e + 1 \in Int /\ cons.e - 1 \in Int /\ cons.e - Len(line) \in Int
      BY <1>s, <2>1
  <2>3. QED
      BY <1>m, <2>1, <2>2, Zenon DEF Inc, Dec, Minus
<1>1. CASE c = "^U"
  <2>1. /\ cons' = [cons EXCEPT !.e = Minus(cons.e, Len(line))] /\ line' = <<>>
        /\ echo' = 3 * Len(line) /\ reader' = reader /\ ready' = ready
      BY <1>0, <1>1, ErasesLine, Zenon DEF consoleintr
  <2>2. cons' \in [buf : [0 .. INPUT_BUF_SIZE - 1 -> Chars], r : 0 .. UINT - 1, w : 0 .. UINT - 1, e : 0 .. UINT - 1]
      BY <1>t, <1>i, <2>1
  <2>3. line' \in Seq(Chars) /\ echo' \in Nat
      BY <1>s, <2>1
  <2>4. QED
      BY <1>r, <1>s, <2>1, <2>2, <2>3, Zenon
<1>2. CASE c = "^H"
  <2>1. /\ cons' = (IF CanErase THEN [cons EXCEPT !.e = Dec(cons.e)] ELSE cons) /\ reader' = reader /\ ready' = ready
        /\ line' = (IF line = <<>> THEN line ELSE SubSeq(line, 1, Len(line) - 1)) /\ echo' \in {0, 3}
      BY <1>2 DEF consoleintr
  <2>2. cons' \in [buf : [0 .. INPUT_BUF_SIZE - 1 -> Chars], r : 0 .. UINT - 1, w : 0 .. UINT - 1, e : 0 .. UINT - 1]
      BY <1>t, <1>i, <2>1
  <2>3. line' \in Seq(Chars) /\ echo' \in Nat
      BY <1>s, <2>1
  <2>4. QED
      BY <1>r, <1>s, <2>1, <2>2, <2>3, Zenon
<1>3. CASE c \notin {"^P", "^U", "^H", "nul"} /\ HasRoom
  <2>c. c \in Chars
      BY <1>3, ConsoleAssumption DEF Chars
  <2>p. cons.e % INPUT_BUF_SIZE \in 0 .. INPUT_BUF_SIZE - 1
      BY <1>i, ConsoleAssumption, DivMod
  <2>1. \E w \in {cons.w, Inc(cons.e)} :
            cons' = [cons EXCEPT !.buf[cons.e % INPUT_BUF_SIZE] = c, !.e = Inc(cons.e), !.w = w]
      BY <1>3, Zenon DEF consoleintr
  <2>2. cons' \in [buf : [0 .. INPUT_BUF_SIZE - 1 -> Chars], r : 0 .. UINT - 1, w : 0 .. UINT - 1, e : 0 .. UINT - 1]
    <3>1. PICK w \in {cons.w, Inc(cons.e)} :
              cons' = [cons EXCEPT !.buf[cons.e % INPUT_BUF_SIZE] = c, !.e = Inc(cons.e), !.w = w]
        BY <2>1, Zenon
    <3>2. w \in 0 .. UINT - 1
        BY <1>t, <1>i, <3>1
    <3>3. PICK buf : buf = [cons.buf EXCEPT ![cons.e % INPUT_BUF_SIZE] = c]
        BY Zenon
    <3>4. buf \in [0 .. INPUT_BUF_SIZE - 1 -> Chars]
        BY <1>t, <2>c, <2>p, <3>3
    <3>5. cons' = [buf |-> buf, r |-> cons.r, w |-> w, e |-> Inc(cons.e)]
        BY <1>t, <3>1, <3>3, Zenon
    <3>6. cons.r \in 0 .. UINT - 1
        BY <1>t
    <3>7. QED
        BY <1>i, <3>2, <3>4, <3>5, <3>6
  <2>3. echo' = 1 /\ (reader' = reader \/ wakeup_reader)
      BY <1>3 DEF consoleintr
  <2>4. /\ reader' \in [pc : {"idle", "read", "sleep", "asleep"}, target : Nat, n : Nat, killed : BOOLEAN]
        /\ reader'.n <= reader'.target
      BY <1>r, <2>3 DEF wakeup_reader
  <2>5. line' \in {<<>>, Append(line, c)} /\ ready' \in {ready, ready \o Append(line, c)}
      BY <1>3 DEF consoleintr
  <2>6. line' \in Seq(Chars)
    <3>1. <<>> \in Seq(Chars) /\ Append(line, c) \in Seq(Chars)
        BY <1>s, <2>c
    <3>2. QED
        BY <2>5, <3>1, Zenon
  <2>7. ready' \in Seq(Chars)
    <3>1. ready \o Append(line, c) \in Seq(Chars)
        BY <1>s, <2>c, Joined, Zenon
    <3>2. QED
        BY <1>s, <2>5, <3>1, Zenon
  <2>8. QED
      BY <2>2, <2>3, <2>4, <2>6, <2>7
<1>4. CASE c \notin {"^P", "^U", "^H"} /\ (c = "nul" \/ ~HasRoom)
  <2>1. UNCHANGED <<cons, line, ready, reader>> /\ echo' = 0
      BY <1>4 DEF consoleintr
  <2>2. QED
      BY <1>t, <1>r, <1>s, <2>1
<1>5. CASE c = "^P"
  <2>1. UNCHANGED <<cons, line, ready, reader>> /\ echo' = 1
      BY <1>5, Zenon DEF consoleintr
  <2>2. QED
      BY <1>t, <1>r, <1>s, <2>1
<1>6. QED
    BY <1>1, <1>2, <1>3, <1>4, <1>5

\* The ends of a sequence.
LEMMA Ends ==
    ASSUME NEW S, NEW s \in Seq(S)
    PROVE  /\ \A c \in S : Append(s, c) \in Seq(S)
           /\ s # <<>> => Head(s) \in S /\ Tail(s) \in Seq(S)
    OBVIOUS

\* Every step keeps the types.
LEMMA TypeNext == ConInv /\ [Next]_vars => TypeOK'
<1> SUFFICES ASSUME ConInv, [Next]_vars PROVE TypeOK'
    OBVIOUS
<1>0. TypeOK /\ InputInv /\ OutputInv
    BY DEF ConInv
<1> DEFINE InType == /\ cons \in [buf : [0 .. INPUT_BUF_SIZE - 1 -> Chars],
                                  r : 0 .. UINT - 1, w : 0 .. UINT - 1, e : 0 .. UINT - 1]
                     /\ reader \in [pc : {"idle", "read", "sleep", "asleep"}, target : Nat, n : Nat,
                                    killed : BOOLEAN]
                     /\ reader.n <= reader.target
                     /\ line \in Seq(Chars) /\ ready \in Seq(Chars)
           TxType == /\ tx \in [buf : [0 .. UART_TX_BUF_SIZE - 1 -> 0 .. MaxWritten], r : Nat, w : Nat]
                     /\ hand \in [Actors -> 0 .. MaxWritten] /\ txlock \in Actors \union {"none"}
                     /\ written \in 0 .. MaxWritten
           PcType == pc \in [Actors -> {"idle", "uartstart", "thr", "asleep", "getc", "echo", "lock"}]
           ThrType == thr \in Seq(0 .. MaxWritten) /\ out \in Seq(1 .. MaxWritten)
           InDev == rhr \in Seq(Keys) /\ typed \in 0 .. MaxTyped
           Flags == irq \in BOOLEAN /\ echo \in Nat
<1>a. InType /\ TxType /\ PcType /\ ThrType /\ InDev /\ Flags
    BY <1>0 DEF TypeOK
<1>b. ASSUME InType', TxType', PcType', ThrType', InDev', Flags' PROVE TypeOK'
    BY <1>b DEF TypeOK
<1>c. MaxTyped \in Nat /\ MaxWritten \in Nat /\ UART_TX_BUF_SIZE \in Nat /\ UART_TX_BUF_SIZE > 0
      /\ "intr" \in Actors /\ "writer" \in Actors /\ Echo \in 0 .. MaxWritten
    BY ConsoleAssumption DEF Actors, Echo
<1>i. (UNCHANGED <<cons, reader, line, ready>> => InType')
    BY <1>a, Zenon
<1>x. (UNCHANGED <<tx, hand, txlock, written>> => TxType')
    BY <1>a, Zenon
<1>p. (UNCHANGED pc => PcType') /\ (UNCHANGED <<thr, out>> => ThrType')
      /\ (UNCHANGED <<rhr, typed>> => InDev') /\ (UNCHANGED <<irq, echo>> => Flags')
    BY <1>a, Zenon
<1> HIDE DEF InType, TxType, PcType, ThrType, InDev, Flags
<1>1. ASSUME NEW c \in Keys, type(c) PROVE TypeOK'
  <2>1. UNCHANGED <<cons, reader, line, ready, tx, hand, txlock, written, pc, thr, out, echo>>
      BY <1>1 DEF type, output
  <2>2. InDev'
      BY <1>1, <1>a, <1>c DEF type, InDev
  <2>3. Flags'
      BY <1>1, <1>a, <2>1 DEF type, Flags
  <2>4. QED
      BY <1>b, <1>i, <1>x, <1>p, <2>1, <2>2, <2>3
<1>2. ASSUME NEW n \in Reads, consoleread(n) PROVE TypeOK'
  <2>1. UNCHANGED <<cons, line, ready, tx, hand, txlock, written, pc, thr, out, echo, rhr, typed, irq>>
      BY <1>2 DEF consoleread, output
  <2>2. InType'
    <3>1. reader' = [reader EXCEPT !.pc = "read", !.target = n, !.n = n] /\ n \in Nat
        BY <1>2, ConsoleAssumption DEF consoleread
    <3>2. /\ reader' \in [pc : {"idle", "read", "sleep", "asleep"}, target : Nat, n : Nat, killed : BOOLEAN]
          /\ reader'.n <= reader'.target
      <4>1. reader \in [pc : {"idle", "read", "sleep", "asleep"}, target : Nat, n : Nat, killed : BOOLEAN]
          BY <1>a, Zenon DEF InType
      <4>2. reader' = [pc |-> "read", target |-> n, n |-> n, killed |-> reader.killed]
          BY <3>1, <4>1, Zenon
      <4>3. QED
          BY <3>1, <4>1, <4>2
    <3>3. QED
        BY <1>a, <2>1, <3>2, Zenon DEF InType
  <2>3. QED
      BY <1>b, <1>x, <1>p, <2>1, <2>2
<1>3. CASE consoleread_step
  <2>1. UNCHANGED <<line, tx, hand, txlock, written, pc, thr, out, echo, rhr, typed, irq>>
      BY <1>3 DEF consoleread_step, output
  <2>2. /\ cons' \in {cons, [cons EXCEPT !.r = EofIndex], [cons EXCEPT !.r = Inc(cons.r)]}
        /\ ready' = ready \/ (ready' = Tail(ready) /\ cons.r # cons.w)
      BY <1>3 DEF consoleread_step
  <2>3. EofIndex \in 0 .. UINT - 1 /\ Inc(cons.r) \in 0 .. UINT - 1
    <3>1. cons.r \in 0 .. UINT - 1 /\ UINT \in Int /\ UINT > 0
        BY <1>a, ConsoleAssumption DEF InType
    <3>2. (cons.r + 1) % UINT \in 0 .. UINT - 1
        BY <3>1, DivMod
    <3>3. QED
        BY <3>1, <3>2, Zenon DEF EofIndex, Inc
  <2>4. cons' \in [buf : [0 .. INPUT_BUF_SIZE - 1 -> Chars], r : 0 .. UINT - 1, w : 0 .. UINT - 1, e : 0 .. UINT - 1]
      BY <1>a, <2>2, <2>3, Zenon DEF InType
  <2>5. ready' \in Seq(Chars)
    <3>1. cons.r # cons.w => Len(ready) > 0
        BY <1>0, Distances DEF InputInv
    <3>2. ready \in Seq(Chars)
        BY <1>a DEF InType
    <3>3. QED
        BY <2>2, <3>1, <3>2
  <2>6. /\ reader' \in [pc : {"idle", "read", "sleep", "asleep"}, target : Nat, n : Nat, killed : BOOLEAN]
        /\ reader'.n <= reader'.target
    <3>1. \/ \E q \in {"idle", "sleep"} : reader' = [reader EXCEPT !.pc = q]
          \/ \E q \in {"idle", "read"} : reader' = [reader EXCEPT !.n = reader.n - 1, !.pc = q]
        BY <1>3, Zenon DEF consoleread_step
    <3>2. reader.n > 0
        BY <1>0, <1>3 DEF consoleread_step, InputInv, ReaderInv
    <3>3. /\ reader \in [pc : {"idle", "read", "sleep", "asleep"}, target : Nat, n : Nat, killed : BOOLEAN]
          /\ reader.n <= reader.target
        BY <1>a DEF InType
    <3>4. CASE \E q \in {"idle", "sleep"} : reader' = [reader EXCEPT !.pc = q]
        BY <3>3, <3>4
    <3>5. CASE \E q \in {"idle", "read"} : reader' = [reader EXCEPT !.n = reader.n - 1, !.pc = q]
      <4>1. PICK q \in {"idle", "read"} : reader' = [reader EXCEPT !.n = reader.n - 1, !.pc = q]
          BY <3>5, Zenon
      <4>2. reader' = [pc |-> q, target |-> reader.target, n |-> reader.n - 1, killed |-> reader.killed]
          BY <3>3, <4>1, Zenon
      <4>3. reader.n - 1 \in Nat /\ reader.n - 1 <= reader.target
          BY <3>2, <3>3
      <4>4. QED
          BY <3>3, <4>1, <4>2, <4>3
    <3>6. QED
        BY <3>1, <3>4, <3>5, Zenon
  <2>7. InType'
    <3>1. line' \in Seq(Chars)
        BY <1>a, <2>1 DEF InType
    <3>2. QED
        BY <2>4, <2>5, <2>6, <3>1 DEF InType
  <2>8. QED
      BY <1>b, <1>x, <1>p, <2>1, <2>7
<1>4. CASE sleep \/ kill
  <2>1. UNCHANGED <<cons, line, ready, tx, hand, txlock, written, pc, thr, out, echo, rhr, typed, irq>>
      BY <1>4 DEF sleep, kill, output
  <2>2. InType'
      BY <1>4, <1>a, <2>1, Zenon DEF InType, sleep, kill
  <2>3. QED
      BY <1>b, <1>x, <1>p, <2>1, <2>2
<1>5. CASE uartputc
  <2>1. UNCHANGED <<cons, reader, line, ready, hand, thr, out, echo, rhr, typed, irq>>
      BY <1>5 DEF uartputc, input
  <2>2. PcType'
      BY <1>5, <1>a, <1>c DEF uartputc, PcType
  <2>3. TxType'
    <3>1. CASE UNCHANGED <<tx, txlock, written>>
        BY <1>x, <2>1, <3>1
    <3>2. CASE ~UNCHANGED <<tx, txlock, written>>
      <4>1. /\ tx' = [tx EXCEPT !.buf[tx.w % UART_TX_BUF_SIZE] = written + 1, !.w = tx.w + 1]
            /\ written' = written + 1 /\ txlock' = "writer" /\ written < MaxWritten
          BY <1>5, <3>2 DEF uartputc
      <4>2. PICK buf : buf = [tx.buf EXCEPT ![tx.w % UART_TX_BUF_SIZE] = written + 1]
          BY Zenon
      <4>3. tx' = [buf |-> buf, r |-> tx.r, w |-> tx.w + 1]
          BY <1>a, <4>1, <4>2, Zenon DEF TxType
      <4>4. written + 1 \in 0 .. MaxWritten
          BY <1>a, <1>c, <4>1 DEF TxType
      <4>5. tx.w % UART_TX_BUF_SIZE \in 0 .. UART_TX_BUF_SIZE - 1
          BY <1>a, <1>c, DivMod DEF TxType
      <4>6. buf \in [0 .. UART_TX_BUF_SIZE - 1 -> 0 .. MaxWritten]
          BY <1>a, <4>2, <4>4, <4>5 DEF TxType
      <4>7. tx' \in [buf : [0 .. UART_TX_BUF_SIZE - 1 -> 0 .. MaxWritten], r : Nat, w : Nat]
          BY <1>a, <4>3, <4>6 DEF TxType
      <4>8. QED
          BY <1>a, <1>c, <2>1, <4>1, <4>4, <4>7 DEF TxType
    <3>3. QED
        BY <3>1, <3>2, Zenon
  <2>4. QED
      BY <1>b, <1>i, <1>p, <2>1, <2>2, <2>3
<1>6. ASSUME NEW a \in Actors, uartstart(a) PROVE TypeOK'
  <2>1. UNCHANGED <<cons, reader, line, ready, written, thr, out, echo, rhr, typed, irq>>
      BY <1>6 DEF uartstart, input
  <2>2. PcType'
      BY <1>6, <1>a, <1>c DEF uartstart, PcType, Wake
  <2>3. txlock' \in {txlock, "none"}
      BY <1>6 DEF uartstart
  <2>4. \/ UNCHANGED <<tx, hand>>
        \/ /\ hand' = [hand EXCEPT ![a] = tx.buf[tx.r % UART_TX_BUF_SIZE]]
           /\ tx' = [tx EXCEPT !.r = tx.r + 1]
      BY <1>6 DEF uartstart
  <2>5. tx.buf[tx.r % UART_TX_BUF_SIZE] \in 0 .. MaxWritten
    <3>1. tx.r % UART_TX_BUF_SIZE \in 0 .. UART_TX_BUF_SIZE - 1
        BY <1>a, <1>c, DivMod DEF TxType
    <3>2. QED
        BY <1>a, <3>1, Zenon DEF TxType
  <2>6. TxType'
      BY <1>a, <2>1, <2>3, <2>4, <2>5 DEF TxType
  <2>7. QED
      BY <1>b, <1>i, <1>p, <2>1, <2>2, <2>6
<1>s. ASSUME NEW c \in 0 .. MaxWritten, thr' = Sent(c), out' = out PROVE ThrType'
  <2>1. thr \in Seq(0 .. MaxWritten) /\ (thr' = thr \/ thr' = Append(thr, c))
      BY <1>s, <1>a, Zenon DEF Sent, ThrType
  <2>2. thr' \in Seq(0 .. MaxWritten)
      BY <2>1, Ends, Zenon
  <2>3. QED
      BY <1>s, <1>a, <2>2, Zenon DEF ThrType
<1>7. ASSUME NEW a \in Actors, write_thr(a) PROVE TypeOK'
  <2>1. UNCHANGED <<cons, reader, line, ready, tx, txlock, written, out, echo, rhr, typed, irq>>
      BY <1>7 DEF write_thr, input
  <2>2. PcType'
      BY <1>7, <1>a DEF write_thr, PcType
  <2>3. TxType'
      BY <1>7, <1>a, <1>c, <2>1 DEF write_thr, TxType
  <2>4. hand[a] \in 0 .. MaxWritten /\ thr' = Sent(hand[a])
      BY <1>7, <1>a DEF write_thr, TxType
  <2>5. ThrType'
      BY <1>s, <2>1, <2>4, Zenon
  <2>6. QED
      BY <1>b, <1>i, <1>p, <2>1, <2>2, <2>3, <2>5
<1>8. CASE transmit
  <2>1. UNCHANGED <<cons, reader, line, ready, tx, txlock, hand, written, pc, echo, rhr, typed>>
      BY <1>8 DEF transmit, input
  <2>2. ThrType'
    <3>1. thr \in Seq(0 .. MaxWritten) /\ thr # <<>> /\ out \in Seq(1 .. MaxWritten)
        BY <1>8, <1>a DEF ThrType, transmit
    <3>2. Head(thr) \in 0 .. MaxWritten /\ Tail(thr) \in Seq(0 .. MaxWritten)
        BY <3>1, Ends, Zenon
    <3>3. Head(thr) # Echo => Head(thr) \in 1 .. MaxWritten
        BY <3>2, <1>c DEF Echo
    <3>4. out' \in Seq(1 .. MaxWritten)
        BY <1>8, <3>1, <3>3, Ends, Zenon DEF transmit
    <3>5. QED
        BY <1>8, <3>2, <3>4 DEF ThrType, transmit
  <2>3. Flags'
      BY <1>8, <1>a, <2>1 DEF transmit, Flags
  <2>4. QED
      BY <1>b, <1>i, <1>x, <1>p, <2>1, <2>2, <2>3
<1>9. CASE plic_claim \/ uartputc_sync \/ uartintr
  <2>1. UNCHANGED <<cons, reader, line, ready, tx, hand, written, thr, out, echo, rhr, typed>>
      BY <1>9 DEF plic_claim, uartputc_sync, uartintr, input, output
  <2>2. PcType'
      BY <1>9, <1>a DEF PcType, plic_claim, uartputc_sync, uartintr
  <2>3. TxType'
      BY <1>9, <1>a, <1>c, <2>1 DEF TxType, plic_claim, uartputc_sync, uartintr, output
  <2>4. Flags'
      BY <1>9, <1>a, <2>1, Zenon DEF Flags, plic_claim, uartputc_sync, uartintr
  <2>5. QED
      BY <1>b, <1>i, <1>p, <2>1, <2>2, <2>3, <2>4
<1>10. CASE echo_thr
  <2>1. UNCHANGED <<cons, reader, line, ready, tx, hand, txlock, written, out, rhr, typed, irq>>
      BY <1>10 DEF echo_thr, input, output
  <2>2. PcType'
      BY <1>10, <1>a, Zenon DEF PcType, echo_thr
  <2>3. ThrType'
      BY <1>10, <1>c, <1>s, <2>1 DEF echo_thr
  <2>4. Flags'
    <3>1. echo > 0
        BY <1>0, <1>10 DEF OutputInv, LockInv, echo_thr
    <3>2. QED
        BY <1>10, <1>a, <2>1, <3>1 DEF Flags, echo_thr
  <2>5. QED
      BY <1>b, <1>i, <1>x, <1>p, <2>1, <2>2, <2>3, <2>4
<1>11. CASE uartgetc
  <2>1. UNCHANGED <<tx, hand, txlock, written, out, thr, typed, irq>>
      BY <1>11 DEF uartgetc, output
  <2>2. PcType'
      BY <1>11, <1>a DEF PcType, uartgetc
  <2>3. CASE rhr = <<>>
    <3>1. UNCHANGED <<cons, reader, line, ready, echo, rhr>>
        BY <1>11, <2>3 DEF uartgetc
    <3>2. QED
        BY <1>b, <1>i, <1>x, <1>p, <2>1, <2>2, <3>1
  <2>4. CASE rhr # <<>>
    <3>1. rhr' = Tail(rhr) /\ consoleintr(Head(rhr))
        BY <1>11, <2>4 DEF uartgetc
    <3>2. Head(rhr) \in Keys /\ Tail(rhr) \in Seq(Keys)
        BY <1>a, <2>4 DEF InDev
    <3>3. InType' /\ echo' \in Nat
        BY <1>0, <3>1, <3>2, EditType, Zenon DEF InType
    <3>4. InDev'
        BY <1>a, <2>1, <3>1, <3>2 DEF InDev
    <3>5. Flags'
        BY <1>a, <2>1, <3>3 DEF Flags
    <3>6. QED
        BY <1>b, <1>x, <1>p, <2>1, <2>2, <3>3, <3>4, <3>5
  <2>5. QED
      BY <2>3, <2>4, Zenon
<1>12. CASE UNCHANGED vars
    BY <1>b, <1>i, <1>x, <1>p, <1>12, Zenon DEF vars
<1>13. QED
    BY <1>1, <1>2, <1>3, <1>4, <1>5, <1>6, <1>7, <1>8, <1>9, <1>10, <1>11, <1>12, Zenon
    DEF Next, handler

-----------------------------------------------------------------------------
(* The transmitter *)

\* An echoed character goes in behind what is there.
LEMMA EchoIn ==
    ASSUME NEW s \in Seq(Nat), NEW c \in Nat, AtMost(s, c)
    PROVE  AtMost(Append(s, Echo), c) /\ (Carries(Append(s, Echo)) <=> Carries(s))
<1>1. /\ Len(Append(s, Echo)) = Len(s) + 1 /\ Append(s, Echo)[Len(s) + 1] = Echo /\ Len(s) \in Nat
      /\ \A k \in 1 .. Len(s) : Append(s, Echo)[k] = s[k]
    BY DEF Echo
<1> DEFINE t == Append(s, Echo)
<1>2. \A k \in 1 .. Len(t) : k \in 1 .. Len(s) \/ k = Len(s) + 1
    BY <1>1
<1>3. 1 .. Len(s) \subseteq 1 .. Len(t)
    BY <1>1
<1> HIDE DEF t
<1>4. QED
    BY <1>1, <1>2, <1>3, Zenon DEF AtMost, Carries, t

\* A written character goes in where there is none.
LEMMA CharIn ==
    ASSUME NEW s \in Seq(Nat), NEW c \in Nat, c > 0, ~Carries(s)
    PROVE  AtMost(Append(s, c), c) /\ Carries(Append(s, c))
<1>1. /\ Len(Append(s, c)) = Len(s) + 1 /\ Append(s, c)[Len(s) + 1] = c /\ Len(s) \in Nat
      /\ \A k \in 1 .. Len(s) : Append(s, c)[k] = s[k]
    OBVIOUS
<1> DEFINE t == Append(s, c)
<1>2. \A k \in 1 .. Len(t) : k \in 1 .. Len(s) \/ k = Len(s) + 1
    BY <1>1
<1>3. Len(s) + 1 \in 1 .. Len(t) /\ c # Echo
    BY <1>1 DEF Echo
<1>4. \A k \in 1 .. Len(s) : t[k] = Echo
    BY <1>1 DEF Carries
<1> HIDE DEF t
<1>5. QED
    BY <1>1, <1>2, <1>3, <1>4, Zenon DEF AtMost, Carries, t

\* The first character leaves.
LEMMA FirstOut ==
    ASSUME NEW s \in Seq(Nat), s # <<>>, NEW c \in Nat, AtMost(s, c)
    PROVE  /\ AtMost(Tail(s), c)
           /\ Head(s) = Echo => (Carries(Tail(s)) <=> Carries(s))
           /\ Head(s) # Echo => Head(s) = c /\ Carries(s) /\ ~Carries(Tail(s))
<1>1. /\ Len(s) \in Nat /\ Len(s) >= 1 /\ Len(Tail(s)) = Len(s) - 1 /\ Head(s) = s[1]
      /\ \A k \in 1 .. Len(s) - 1 : Tail(s)[k] = s[k + 1]
    OBVIOUS
<1> DEFINE t == Tail(s)
<1>2. \A k \in 1 .. Len(t) : k + 1 \in 1 .. Len(s) /\ k + 1 # 1 /\ t[k] = s[k + 1]
    BY <1>1
<1>3. \A k \in 1 .. Len(s) : k = 1 \/ (k - 1 \in 1 .. Len(t) /\ t[k - 1] = s[k])
    BY <1>1
<1>4. 1 \in 1 .. Len(s)
    BY <1>1
<1>5. \A j, k \in 1 .. Len(t) : j + 1 = k + 1 => j = k
    BY <1>1
<1>6. Head(s) = s[1]
    BY <1>1
<1> HIDE DEF t
<1>7. AtMost(t, c)
    BY <1>2, <1>5, Zenon DEF AtMost
<1>8. Head(s) = Echo => (Carries(t) <=> Carries(s))
    BY <1>2, <1>3, <1>6, Zenon DEF Carries
<1>9. Head(s) # Echo => Head(s) = c /\ Carries(s) /\ ~Carries(t)
    BY <1>2, <1>4, <1>6, Zenon DEF Carries, AtMost
<1>10. QED
    BY <1>7, <1>8, <1>9, Zenon DEF t

\* An empty transmitter.
LEMMA NothingIn == ASSUME NEW s, s = <<>>, NEW c PROVE AtMost(s, c) /\ ~Carries(s)
    BY DEF AtMost, Carries

\* One more character has left.
LEMMA UptoNext == ASSUME NEW n \in Nat PROVE Append(Upto(n), n + 1) = Upto(n + 1)
<1>1. Upto(n) \in Seq(Nat) /\ Len(Upto(n)) = n /\ Upto(n + 1) \in Seq(Nat) /\ Len(Upto(n + 1)) = n + 1
    BY DEF Upto
<1>2. \A k \in 1 .. n + 1 : Append(Upto(n), n + 1)[k] = Upto(n + 1)[k]
  <2> SUFFICES ASSUME NEW k \in 1 .. n + 1 PROVE Append(Upto(n), n + 1)[k] = Upto(n + 1)[k]
      BY Zenon
  <2>1. CASE k = n + 1
      BY <1>1, <2>1 DEF Upto
  <2>2. CASE k # n + 1
      BY <1>1, <2>2 DEF Upto
  <2>3. QED
      BY <2>1, <2>2, Zenon
<1>3. Append(Upto(n), n + 1) \in Seq(Nat) /\ Len(Append(Upto(n), n + 1)) = n + 1
    BY <1>1
<1>4. QED
    BY <1>1, <1>2, <1>3

-----------------------------------------------------------------------------
(* Output *)

\* A sequence over a set is one over a larger set.
LEMMA Wider == ASSUME NEW S, NEW T, S \subseteq T, NEW s \in Seq(S) PROVE s \in Seq(T)
    OBVIOUS

\* The types the proofs of the output half keep needing.
OutType ==
    /\ pc \in [Actors -> {"idle", "uartstart", "thr", "asleep", "getc", "echo", "lock"}]
    /\ hand \in [Actors -> Nat] /\ thr \in Seq(Nat) /\ tx.r \in Nat /\ tx.w \in Nat

\* They are among those of TypeOK.
LEMMA OutTypes == ASSUME TypeOK PROVE OutType
<1>1. /\ tx \in [buf : [0 .. UART_TX_BUF_SIZE - 1 -> 0 .. MaxWritten], r : Nat, w : Nat]
      /\ pc \in [Actors -> {"idle", "uartstart", "thr", "asleep", "getc", "echo", "lock"}]
      /\ hand \in [Actors -> 0 .. MaxWritten] /\ thr \in Seq(0 .. MaxWritten)
    BY DEF TypeOK
<1>2. 0 .. MaxWritten \subseteq Nat
    OBVIOUS
<1>3. hand \in [Actors -> Nat]
    BY <1>1, <1>2, Zenon
<1>4. thr \in Seq(Nat)
    BY <1>1, <1>2, Wider, Zenon
<1>5. tx.r \in Nat /\ tx.w \in Nat
    BY <1>1
<1>6. QED
    BY <1>1, <1>3, <1>4, <1>5, Zenon DEF OutType

\* A step of the input side leaves the output side as it was.
LEMMA OutSame == ASSUME OutputInv, UNCHANGED <<tx, txlock, pc, hand, echo, thr, written, out>> PROVE OutputInv'
    BY Zenon DEF OutputInv, LockInv, RoomInv, SendInv, BufInv, WriterSleepsOnFull, Full, Taken, InThr

\* While one actor is in uartstart() the other is not.
LEMMA Alone ==
    ASSUME LockInv, NEW a \in Actors, pc[a] \in {"uartstart", "thr"}
    PROVE  txlock = a /\ \A b \in Actors \ {a} : pc[b] \notin {"uartstart", "thr"}
    BY DEF LockInv

\* uartputc() puts a character into the buffer, or sleeps.
LEMMA PutNext == ASSUME TypeOK, OutputInv, uartputc PROVE OutputInv'
<1>t. OutType
    BY OutTypes
<1>0. LockInv /\ RoomInv /\ SendInv /\ BufInv /\ WriterSleepsOnFull
    BY DEF OutputInv
<1>1. UNCHANGED <<hand, thr, out, echo>> /\ pc["writer"] = "idle" /\ txlock = "none"
    BY DEF uartputc
<1>2. pc'["intr"] = pc["intr"] /\ pc'["writer"] \in {"asleep", "uartstart"}
    BY <1>t DEF uartputc, OutType, Actors
<1>3. tx'.r = tx.r
    BY Zenon DEF uartputc, TypeOK
<1>4. \A a \in Actors : pc'[a] = "thr" <=> pc[a] = "thr"
    BY <1>1, <1>2 DEF Actors
<1>5. (Taken' <=> Taken) /\ (InThr' <=> InThr)
    BY <1>1, <1>4, Zenon DEF Taken, InThr
<1>6. LockInv'
  <2>1. \/ pc'["writer"] = "asleep" /\ txlock' = txlock
        \/ pc'["writer"] = "uartstart" /\ txlock' = "writer"
    <3>1. \/ pc' = [pc EXCEPT !["writer"] = "asleep"] /\ txlock' = txlock
          \/ pc' = [pc EXCEPT !["writer"] = "uartstart"] /\ txlock' = "writer"
        BY Zenon DEF uartputc
    <3>2. pc \in [Actors -> {"idle", "uartstart", "thr", "asleep", "getc", "echo", "lock"}] /\ "writer" \in Actors
        BY <1>t DEF OutType, Actors
    <3>3. \A v : pc' = [pc EXCEPT !["writer"] = v] => pc'["writer"] = v
        BY <3>2, Zenon
    <3>4. QED
        BY <3>1, <3>3, Zenon
  <2>2. QED
      BY <1>0, <1>1, <1>2, <1>3, <2>1 DEF LockInv, Actors
<1>7. RoomInv'
    BY <1>0, <1>1, <1>2, <1>5, Zenon DEF RoomInv, One
<1>8. SendInv'
    BY <1>0, <1>1, <1>3, <1>5, Zenon DEF SendInv
<1>9. CASE UNCHANGED <<tx, written>>
  <2>1. BufInv'
      BY <1>0, <1>9, Zenon DEF BufInv
  <2>2. pc'["writer"] = "asleep" => Full
    <3>1. written \in Nat
        BY ConsoleAssumption DEF TypeOK
    <3>2. Full
        BY <1>9, <3>1 DEF uartputc
    <3>3. QED
        BY <3>2
  <2>3. WriterSleepsOnFull'
      BY <1>9, <2>2, Zenon DEF WriterSleepsOnFull, Full
  <2>4. QED
      BY <1>6, <1>7, <1>8, <2>1, <2>3, Zenon DEF OutputInv
<1>10. CASE ~UNCHANGED <<tx, written>>
  <2>1. /\ ~Full /\ tx' = [tx EXCEPT !.buf[tx.w % UART_TX_BUF_SIZE] = written + 1, !.w = tx.w + 1]
        /\ written' = written + 1 /\ pc' = [pc EXCEPT !["writer"] = "uartstart"]
      BY <1>10 DEF uartputc
  <2>2. WriterSleepsOnFull'
    <3>1. pc'["writer"] = "uartstart"
        BY <1>t, <2>1 DEF OutType, Actors
    <3>2. QED
        BY <3>1 DEF WriterSleepsOnFull
  <2>3. BufInv'
    <3> DEFINE N == UART_TX_BUF_SIZE
    <3>0. N \in Nat /\ N > 0
        BY ConsoleAssumption
    <3>1. PICK b, r, w : b = tx.buf /\ r = tx.r /\ w = tx.w
        BY Zenon
    <3>2. b \in [0 .. N - 1 -> 0 .. MaxWritten] /\ r \in Nat /\ w \in Nat /\ tx = [buf |-> b, r |-> r, w |-> w]
        BY <3>1 DEF TypeOK
    <3>3. /\ w = written /\ r <= w /\ w < r + N
          /\ \A k \in r + 1 .. w : b[(k - 1) % N] = k
      <4>1. /\ w = written /\ r <= w /\ w <= r + N /\ w # r + N
            /\ \A k \in r + 1 .. w : b[(k - 1) % N] = k
          BY <1>0, <2>1, <3>1, Zenon DEF BufInv, Full
      <4>2. w < r + N
          BY <3>0, <3>2, <4>1
      <4>3. QED
          BY <4>1, <4>2, Zenon
    <3>4. tx'.buf = [b EXCEPT ![w % N] = w + 1] /\ tx'.r = r /\ tx'.w = w + 1 /\ written' = w + 1
        BY <2>1, <3>2, <3>3
    <3> HIDE DEF N
    <3>5. \A k \in r + 1 .. w : (k - 1) % N # w % N /\ (k - 1) % N \in 0 .. N - 1
      <4> SUFFICES ASSUME NEW k \in r + 1 .. w PROVE (k - 1) % N # w % N /\ (k - 1) % N \in 0 .. N - 1
          BY Zenon
      <4>1. k - 1 \in Int /\ w \in Int /\ N \in Int /\ k - 1 <= w /\ w < (k - 1) + N /\ k - 1 # w
          BY <3>0, <3>2, <3>3
      <4>2. (k - 1) % N # w % N
          BY <3>0, <4>1, ModDistinct
      <4>3. (k - 1) % N \in 0 .. N - 1
          BY <3>0, <4>1, DivMod
      <4>4. QED
          BY <4>2, <4>3
    <3>6. w % N \in 0 .. N - 1
        BY <3>0, <3>2, DivMod
    <3>7. PICK v : v = w % N
        BY Zenon
    <3>8. tx'.buf[v] = w + 1
        BY <3>2, <3>4, <3>6, <3>7, Zenon
    <3>9. \A k \in r + 1 .. w : tx'.buf[(k - 1) % N] = k
        BY <3>2, <3>3, <3>4, <3>5, Zenon
    <3>10. \A k \in r + 1 .. w + 1 : tx'.buf[(k - 1) % N] = k
      <4> SUFFICES ASSUME NEW k \in r + 1 .. w + 1 PROVE tx'.buf[(k - 1) % N] = k
          BY Zenon
      <4>1. CASE k = w + 1
        <5>1. k - 1 = w
            BY <3>2, <4>1
        <5>2. QED
            BY <3>7, <3>8, <4>1, <5>1, Zenon
      <4>2. CASE k # w + 1
        <5>1. k \in r + 1 .. w
            BY <3>2, <4>2
        <5>2. QED
            BY <3>9, <5>1, Zenon
      <4>3. QED
          BY <4>1, <4>2, Zenon
    <3>11. w + 1 >= r /\ w + 1 <= r + N
        BY <3>0, <3>2, <3>3
    <3>12. QED
        BY <3>4, <3>10, <3>11, Zenon DEF BufInv, N
  <2>4. QED
      BY <1>6, <1>7, <1>8, <2>2, <2>3, Zenon DEF OutputInv
<1>11. QED
    BY <1>9, <1>10, Zenon

\* The interrupt handler moves on outside uartstart(), or takes the lock for it.
LEMMA HandlerNext ==
    ASSUME TypeOK, OutputInv, plic_claim \/ uartgetc \/ uartputc_sync \/ uartintr
    PROVE  OutputInv'
<1>t. OutType
    BY OutTypes
<1>0. LockInv /\ RoomInv /\ SendInv /\ BufInv /\ WriterSleepsOnFull
    BY DEF OutputInv
<1>1. UNCHANGED <<tx, hand, thr, out, written>>
    BY DEF plic_claim, uartgetc, uartputc_sync, uartintr, output
<1>2. pc'["writer"] = pc["writer"] /\ pc["intr"] \notin {"uartstart", "thr"} /\ pc'["intr"] # "thr"
    BY <1>t DEF plic_claim, uartgetc, uartputc_sync, uartintr, OutType, Actors
<1>3. \/ txlock' = txlock /\ pc'["intr"] \notin {"uartstart", "thr"}
      \/ txlock = "none" /\ txlock' = "intr" /\ pc'["intr"] = "uartstart"
    BY <1>t DEF plic_claim, uartgetc, uartputc_sync, uartintr, OutType, Actors, output
<1>4. pc'["intr"] = "echo" => pc["intr"] # "echo" /\ echo' = echo /\ echo > 0 /\ thr = <<>>
    BY <1>t DEF plic_claim, uartgetc, uartputc_sync, uartintr, OutType, Actors, Idle
<1>5. (Taken' <=> Taken) /\ (InThr' <=> InThr)
  <2>1. \A a \in Actors : pc'[a] = "thr" <=> pc[a] = "thr"
      BY <1>2 DEF Actors
  <2>2. QED
      BY <1>1, <2>1, Zenon DEF Taken, InThr
<1>6. LockInv'
    BY <1>0, <1>1, <1>2, <1>3, <1>4 DEF LockInv, Actors
<1>7. RoomInv'
  <2>1. CASE pc'["intr"] = "echo"
    <3>1. Len(thr') = 0
        BY <1>1, <1>4, <2>1
    <3>2. One((pc["intr"] = "echo")') = 1
        BY <2>1, Zenon DEF One
    <3>3. PICK x \in {0, 1} : x = One(Taken')
        BY Zenon DEF One
    <3>4. 0 + 1 + x <= 2
        OBVIOUS
    <3>5. QED
        BY <3>1, <3>2, <3>3, <3>4, Zenon DEF RoomInv
  <2>2. CASE pc'["intr"] # "echo"
    <3>1. Len(thr) \in Nat /\ Len(thr') = Len(thr)
        BY <1>1, <1>t DEF OutType
    <3>2. PICK x \in {0, 1} : x = One(pc["intr"] = "echo")
        BY Zenon DEF One
    <3>3. PICK y \in {0, 1} : y = One(Taken) /\ y = One(Taken')
        BY <1>5, Zenon DEF One
    <3>4. Len(thr) + x + y <= 2
        BY <1>0, <3>2, <3>3, Zenon DEF RoomInv
    <3>5. One((pc["intr"] = "echo")') = 0
        BY <2>2, Zenon DEF One
    <3>6. Len(thr') + 0 + y <= 2
        BY <3>1, <3>4
    <3>7. QED
        BY <3>3, <3>5, <3>6, Zenon DEF RoomInv
  <2>3. QED
      BY <2>1, <2>2, Zenon
<1>8. SendInv'
    BY <1>0, <1>1, <1>5, Zenon DEF SendInv
<1>9. BufInv' /\ WriterSleepsOnFull'
    BY <1>0, <1>1, <1>2, Zenon DEF BufInv, WriterSleepsOnFull, Full
<1>10. QED
    BY <1>6, <1>7, <1>8, <1>9, Zenon DEF OutputInv

\* The echo goes past the buffer.
LEMMA EchoNext == ASSUME TypeOK, OutputInv, echo_thr PROVE OutputInv'
<1>t. OutType
    BY OutTypes
<1>0. LockInv /\ RoomInv /\ SendInv /\ BufInv /\ WriterSleepsOnFull
    BY DEF OutputInv
<1>1. UNCHANGED <<tx, txlock, hand, out, written>> /\ pc["intr"] = "echo" /\ thr' = Sent(Echo)
    BY DEF echo_thr, output
<1>2. pc'["writer"] = pc["writer"] /\ pc'["intr"] = "getc"
    BY <1>t DEF echo_thr, OutType, Actors
<1>3. Len(thr) \in Nat /\ FIFO \in Nat /\ Len(thr) < FIFO
    BY <1>0, <1>1, <1>t, ConsoleAssumption DEF RoomInv, One, OutType
<1>4. thr' = Append(thr, Echo) /\ Len(thr') = Len(thr) + 1
    BY <1>1, <1>3, <1>t DEF Sent, OutType, Echo
<1>5. Taken' <=> Taken
  <2>1. \A a \in Actors : pc'[a] = "thr" <=> pc[a] = "thr"
      BY <1>1, <1>2 DEF Actors
  <2>2. QED
      BY <2>1, Zenon DEF Taken
<1>6. AtMost(thr', tx.r) /\ (InThr' <=> InThr)
    BY <1>0, <1>4, <1>t, EchoIn, Zenon DEF SendInv, InThr, OutType
<1>7. LockInv'
    BY <1>0, <1>1, <1>2 DEF LockInv, Actors
<1>8. RoomInv'
    BY <1>0, <1>1, <1>2, <1>3, <1>4, <1>5 DEF RoomInv, One
<1>9. SendInv'
    BY <1>0, <1>1, <1>5, <1>6, Zenon DEF SendInv
<1>10. BufInv' /\ WriterSleepsOnFull'
    BY <1>0, <1>1, <1>2, Zenon DEF BufInv, WriterSleepsOnFull, Full
<1>11. QED
    BY <1>7, <1>8, <1>9, <1>10, Zenon DEF OutputInv

\* The device sends a character.
LEMMA TransmitNext == ASSUME TypeOK, OutputInv, transmit PROVE OutputInv'
<1>t. OutType
    BY OutTypes
<1>0. LockInv /\ RoomInv /\ SendInv /\ BufInv /\ WriterSleepsOnFull
    BY DEF OutputInv
<1>1. /\ UNCHANGED <<tx, txlock, hand, written, pc, echo>> /\ thr # <<>> /\ thr' = Tail(thr)
      /\ out' = IF Head(thr) = Echo THEN out ELSE Append(out, Head(thr))
    BY DEF transmit
<1>2. Taken' <=> Taken
    BY <1>1, Zenon DEF Taken
<1>3. /\ AtMost(thr', tx.r)
      /\ Head(thr) = Echo => (InThr' <=> InThr)
      /\ Head(thr) # Echo => Head(thr) = tx.r /\ InThr /\ ~InThr'
    BY <1>0, <1>1, <1>t, FirstOut, Zenon DEF SendInv, InThr, OutType
<1>4. LockInv'
    BY <1>0, <1>1, Zenon DEF LockInv
<1>5. RoomInv'
  <2>1. Len(thr) \in Nat /\ Len(thr') <= Len(thr) /\ Len(thr') \in Nat
      BY <1>1, <1>t DEF OutType
  <2>2. PICK x \in {0, 1} : x = One(pc["intr"] = "echo") /\ x = One((pc["intr"] = "echo")')
      BY <1>1, Zenon DEF One
  <2>3. PICK y \in {0, 1} : y = One(Taken) /\ y = One(Taken')
      BY <1>2, Zenon DEF One
  <2>4. Len(thr) + x + y <= 2
      BY <1>0, <2>2, <2>3, Zenon DEF RoomInv
  <2>5. Len(thr') + x + y <= 2
      BY <2>1, <2>4
  <2>6. QED
      BY <2>2, <2>3, <2>5, Zenon DEF RoomInv
<1>6. SendInv'
  <2>1. CASE Head(thr) = Echo
      BY <1>0, <1>1, <1>2, <1>3, <2>1, Zenon DEF SendInv
  <2>2. CASE Head(thr) # Echo
    <3>1. Head(thr) = tx.r /\ InThr /\ ~InThr' /\ ~Taken /\ ~Taken' /\ tx.r > 0 /\ out = Upto(tx.r - 1)
        BY <1>0, <1>2, <1>3, <2>2, Zenon DEF SendInv
    <3>2. tx.r - 1 \in Nat /\ (tx.r - 1) + 1 = tx.r
        BY <1>t, <3>1 DEF OutType
    <3>3. out' = Append(Upto(tx.r - 1), tx.r)
        BY <1>1, <2>2, <3>1, Zenon
    <3>4. Append(Upto(tx.r - 1), (tx.r - 1) + 1) = Upto((tx.r - 1) + 1)
        BY <3>2, UptoNext, Zenon
    <3>5. out' = Upto(tx.r)
        BY <3>2, <3>3, <3>4, Zenon
    <3>6. QED
        BY <1>1, <1>3, <3>1, <3>5, Zenon DEF SendInv
  <2>3. QED
      BY <2>1, <2>2, Zenon
<1>7. BufInv' /\ WriterSleepsOnFull'
    BY <1>0, <1>1, Zenon DEF BufInv, WriterSleepsOnFull, Full
<1>8. QED
    BY <1>4, <1>5, <1>6, <1>7, Zenon DEF OutputInv

\* uartstart() takes a character from the buffer for an idle transmitter, or stops.
LEMMA StartNext == ASSUME TypeOK, OutputInv, NEW a \in Actors, uartstart(a) PROVE OutputInv'
<1>t. OutType
    BY OutTypes
<1>0. LockInv /\ RoomInv /\ SendInv /\ BufInv /\ WriterSleepsOnFull
    BY DEF OutputInv
<1>1. UNCHANGED <<thr, out, echo, written>> /\ pc[a] = "uartstart"
    BY DEF uartstart
<1>2. txlock = a /\ \A b \in Actors \ {a} : pc[b] \notin {"uartstart", "thr"}
    BY <1>0, <1>1, Alone
<1>3. ~Taken
    BY <1>1, <1>2 DEF Taken
<1>4. CASE Stops
  <2>1. UNCHANGED <<tx, hand>> /\ txlock' = "none" /\ pc' = [pc EXCEPT ![a] = "idle"]
      BY <1>4 DEF uartstart
  <2>2. pc'[a] = "idle" /\ \A b \in Actors \ {a} : pc'[b] = pc[b]
      BY <2>1, <1>t DEF OutType
  <2>3. ~Taken' /\ (InThr' <=> InThr)
      BY <1>1, <1>2, <2>2 DEF Taken, InThr
  <2>4. LockInv'
    <3>1. \A b \in Actors : pc'[b] \notin {"uartstart", "thr"} /\ txlock' # b
        BY <1>2, <2>1, <2>2 DEF Actors
    <3>2. \A b \in Actors : hand'[b] = Echo
        BY <1>0, <1>1, <1>2, <2>1 DEF LockInv
    <3>3. pc'["writer"] \in {"idle", "uartstart", "thr", "asleep"}
        BY <1>0, <2>2 DEF LockInv, Actors
    <3>4. pc'["intr"] = "echo" => echo' > 0
        BY <1>0, <1>1, <2>2 DEF LockInv, Actors
    <3>5. \A b \in Actors : pc'[b] # "thr"
        BY <3>1
    <3>6. QED
        BY <3>1, <3>2, <3>3, <3>4, <3>5, Zenon DEF LockInv
  <2>5. RoomInv'
    <3>1. pc'["intr"] = "echo" <=> pc["intr"] = "echo"
        BY <1>1, <2>2 DEF Actors
    <3>2. One((pc["intr"] = "echo")') = One(pc["intr"] = "echo") /\ One(Taken') = One(Taken)
        BY <1>3, <2>3, <3>1, Zenon DEF One
    <3>3. QED
        BY <1>0, <1>1, <3>2, Zenon DEF RoomInv
  <2>6. SendInv'
      BY <1>0, <1>1, <1>3, <2>1, <2>3, Zenon DEF SendInv
  <2>7. BufInv' /\ WriterSleepsOnFull'
    <3>1. pc'["writer"] = "asleep" => pc["writer"] = "asleep"
        BY <2>2 DEF Actors
    <3>2. QED
        BY <1>0, <1>1, <2>1, <3>1, Zenon DEF BufInv, WriterSleepsOnFull, Full
  <2>8. QED
      BY <2>4, <2>5, <2>6, <2>7, Zenon DEF OutputInv
<1>5. CASE ~Stops
  <2>1. /\ tx.w # tx.r /\ thr = <<>>
        /\ hand' = [hand EXCEPT ![a] = tx.buf[tx.r % UART_TX_BUF_SIZE]]
        /\ tx' = [tx EXCEPT !.r = tx.r + 1] /\ txlock' = txlock
        /\ pc' = Wake([pc EXCEPT ![a] = "thr"])
      BY <1>5 DEF uartstart, Stops, Idle
  <2>2. PICK r, w : r = tx.r /\ w = tx.w
      BY Zenon
  <2>3. r \in Nat /\ w \in Nat /\ r < w /\ r + 1 \in r + 1 .. w /\ (r + 1) - 1 = r
      BY <1>0, <1>t, <2>1, <2>2 DEF BufInv, OutType
  <2>4. tx.buf[r % UART_TX_BUF_SIZE] = r + 1
      BY <1>0, <2>2, <2>3, Zenon DEF BufInv
  <2>5. tx'.r = r + 1 /\ tx'.w = w /\ tx'.buf = tx.buf
      BY <2>1, <2>2, Zenon DEF TypeOK
  <2>6. hand'[a] = r + 1 /\ \A b \in Actors \ {a} : hand'[b] = hand[b]
      BY <1>t, <2>1, <2>2, <2>4, Zenon DEF OutType
  <2>7. pc'[a] = "thr" /\ \A b \in Actors \ {a} : pc'[b] = pc[b] \/ (pc[b] = "asleep" /\ pc'[b] = "idle")
      BY <1>t, <2>1 DEF Wake, OutType, Actors
  <2>8. pc'["writer"] # "asleep"
      BY <1>t, <2>1 DEF Wake, OutType, Actors
  <2>9. Taken' /\ ~InThr'
      BY <1>1, <2>1, <2>7, NothingIn, Zenon DEF Taken, InThr
  <2>10. LockInv'
    <3>1. \A b \in Actors : pc'[b] \in {"uartstart", "thr"} <=> txlock' = b
        BY <1>2, <2>1, <2>7, Zenon
    <3>2. \A b \in Actors \ {a} : pc[b] # "thr" /\ pc'[b] # "thr"
        BY <1>2, <2>7
    <3>3. \A b \in Actors \ {a} : hand'[b] = Echo
        BY <1>0, <2>6, <3>2, Zenon DEF LockInv
    <3>4. \A b \in Actors : hand'[b] = IF pc'[b] = "thr" THEN tx'.r ELSE Echo
        BY <2>5, <2>6, <2>7, <3>2, <3>3, Zenon
    <3>5. pc'["writer"] \in {"idle", "uartstart", "thr", "asleep"}
        BY <1>0, <2>7 DEF LockInv, Actors
    <3>6. pc'["intr"] = "echo" => echo' > 0
        BY <1>0, <1>1, <2>7 DEF LockInv, Actors
    <3>7. QED
        BY <3>1, <3>4, <3>5, <3>6, Zenon DEF LockInv
  <2>11. RoomInv'
    <3>1. PICK x \in {0, 1} : x = One((pc["intr"] = "echo")')
        BY Zenon DEF One
    <3>2. One(Taken') = 1 /\ Len(thr') = 0
        BY <1>1, <2>1, <2>9 DEF One
    <3>3. 0 + x + 1 <= 2
        OBVIOUS
    <3>4. QED
        BY <3>1, <3>2, <3>3, Zenon DEF RoomInv
  <2>12. SendInv'
    <3>1. AtMost(thr', tx'.r) /\ ~InThr
        BY <1>1, <2>1, NothingIn, Zenon DEF InThr
    <3>2. out' = Upto(r)
        BY <1>0, <1>1, <1>3, <2>2, <3>1, Zenon DEF SendInv
    <3>3. r + 1 > 0 /\ (r + 1) - 1 = r
        BY <2>3
    <3>4. QED
        BY <2>5, <2>9, <3>1, <3>2, <3>3, Zenon DEF SendInv
  <2>13. BufInv'
    <3>1. r + 1 <= w /\ w <= (r + 1) + UART_TX_BUF_SIZE /\ (r + 1) + 1 .. w \subseteq r + 1 .. w
        BY <1>0, <2>2, <2>3, ConsoleAssumption DEF BufInv
    <3>2. QED
        BY <1>0, <1>1, <2>2, <2>5, <3>1, Zenon DEF BufInv
  <2>14. QED
      BY <2>8, <2>10, <2>11, <2>12, <2>13, Zenon DEF OutputInv, WriterSleepsOnFull
<1>6. QED
    BY <1>4, <1>5, Zenon

\* uartstart() writes the character to THR.
LEMMA WriteNext == ASSUME TypeOK, OutputInv, NEW a \in Actors, write_thr(a) PROVE OutputInv'
<1>t. OutType
    BY OutTypes
<1>0. LockInv /\ RoomInv /\ SendInv /\ BufInv /\ WriterSleepsOnFull
    BY DEF OutputInv
<1>1. UNCHANGED <<tx, txlock, out, echo, written>> /\ pc[a] = "thr" /\ thr' = Sent(hand[a])
    BY DEF write_thr
<1>2. txlock = a /\ \A b \in Actors \ {a} : pc[b] \notin {"uartstart", "thr"}
    BY <1>0, <1>1, Alone
<1>3. pc'[a] = "uartstart" /\ \A b \in Actors \ {a} : pc'[b] = pc[b]
    BY <1>t DEF write_thr, OutType
<1>4. hand'[a] = Echo /\ \A b \in Actors \ {a} : hand'[b] = hand[b]
    BY <1>t, Zenon DEF write_thr, OutType
<1>5. hand[a] = tx.r /\ Taken /\ ~Taken' /\ ~InThr
  <2>1. hand[a] = tx.r
      BY <1>0, <1>1, Zenon DEF LockInv
  <2>2. Taken
      BY <1>1, Zenon DEF Taken
  <2>3. ~Taken'
      BY <1>2, <1>3 DEF Taken
  <2>4. QED
      BY <1>0, <2>1, <2>2, <2>3, Zenon DEF SendInv
<1>6. tx.r > 0 /\ tx.r \in Nat /\ out = Upto(tx.r - 1)
    BY <1>0, <1>5, <1>t, Zenon DEF SendInv, OutType
<1>7. Len(thr) \in Nat /\ FIFO \in Nat /\ Len(thr) < FIFO /\ Len(thr) + One(pc["intr"] = "echo") <= 1
  <2>1. PICK x \in {0, 1} : x = One(pc["intr"] = "echo")
      BY Zenon DEF One
  <2>2. One(Taken) = 1
      BY <1>5, Zenon DEF One
  <2>3. Len(thr) + x + 1 <= 2
      BY <1>0, <2>1, <2>2, Zenon DEF RoomInv
  <2>4. Len(thr) \in Nat
      BY <1>t DEF OutType
  <2>5. Len(thr) < FIFO /\ Len(thr) + x <= 1 /\ FIFO \in Nat
      BY <2>3, <2>4, ConsoleAssumption
  <2>6. QED
      BY <2>1, <2>4, <2>5, Zenon
<1>8. thr' = Append(thr, tx.r) /\ Len(thr') = Len(thr) + 1
    BY <1>1, <1>5, <1>6, <1>7, <1>t DEF Sent, OutType
<1>9. AtMost(thr', tx.r) /\ InThr'
    BY <1>5, <1>6, <1>8, <1>t, CharIn, Zenon DEF InThr, OutType
<1>10. LockInv'
  <2>1. \A b \in Actors : pc'[b] \in {"uartstart", "thr"} <=> txlock' = b
      BY <1>1, <1>2, <1>3
  <2>2. \A b \in Actors \ {a} : hand'[b] = Echo
      BY <1>0, <1>2, <1>4 DEF LockInv
  <2>3. \A b \in Actors : hand'[b] = Echo /\ pc'[b] # "thr"
      BY <1>2, <1>3, <1>4, <2>2
  <2>4. pc'["writer"] \in {"idle", "uartstart", "thr", "asleep"}
      BY <1>0, <1>3 DEF LockInv, Actors
  <2>5. pc'["intr"] = "echo" => echo' > 0
      BY <1>0, <1>1, <1>3 DEF LockInv, Actors
  <2>6. QED
      BY <2>1, <2>3, <2>4, <2>5, Zenon DEF LockInv
<1>11. RoomInv'
  <2>1. pc'["intr"] = "echo" <=> pc["intr"] = "echo"
      BY <1>1, <1>3 DEF Actors
  <2>2. PICK x \in {0, 1} : x = One((pc["intr"] = "echo")') /\ x = One(pc["intr"] = "echo")
      BY <2>1, Zenon DEF One
  <2>3. One(Taken') = 0
      BY <1>5, Zenon DEF One
  <2>4. Len(thr') + x + 0 <= 2
      BY <1>7, <1>8, <2>2
  <2>5. QED
      BY <2>2, <2>3, <2>4, Zenon DEF RoomInv
<1>12. SendInv'
    BY <1>1, <1>5, <1>6, <1>9, Zenon DEF SendInv
<1>13. BufInv' /\ WriterSleepsOnFull'
  <2>1. pc'["writer"] = "asleep" => pc["writer"] = "asleep"
      BY <1>3 DEF Actors
  <2>2. QED
      BY <1>0, <1>1, <2>1, Zenon DEF BufInv, WriterSleepsOnFull, Full
<1>14. QED
    BY <1>10, <1>11, <1>12, <1>13, Zenon DEF OutputInv

\* The output half of the invariant.
LEMMA OutputNext == TypeOK /\ OutputInv /\ [Next]_vars => OutputInv'
<1> SUFFICES ASSUME TypeOK, OutputInv, [Next]_vars PROVE OutputInv'
    OBVIOUS
<1>1. ASSUME \/ \E c \in Keys : type(c)
             \/ \E n \in Reads : consoleread(n)
             \/ consoleread_step \/ sleep \/ kill
             \/ UNCHANGED vars
      PROVE  OutputInv'
  <2>1. UNCHANGED <<tx, txlock, pc, hand, echo, thr, written, out>>
      BY <1>1, Zenon DEF type, consoleread, consoleread_step, sleep, kill, output, vars
  <2>2. QED
      BY <2>1, OutSame
<1>2. QED
    BY <1>1, PutNext, TransmitNext, HandlerNext, EchoNext, StartNext, WriteNext, Zenon DEF Next, handler

-----------------------------------------------------------------------------
(* The theorems *)

\* The console starts in the invariant.
LEMMA InvInit == Init => ConInv
<1> SUFFICES ASSUME Init PROVE ConInv
    OBVIOUS
<1>c. /\ INPUT_BUF_SIZE \in Nat \ {0} /\ UART_TX_BUF_SIZE \in Nat \ {0} /\ UINT \in Nat /\ UINT > 0
      /\ MaxTyped \in Nat /\ MaxWritten \in Nat /\ FIFO \in Nat
    BY ConsoleAssumption
<1>1. TypeOK
  <2>1. /\ cons \in [buf : [0 .. INPUT_BUF_SIZE - 1 -> Chars],
                     r : 0 .. UINT - 1, w : 0 .. UINT - 1, e : 0 .. UINT - 1]
        /\ reader \in [pc : {"idle", "read", "sleep", "asleep"}, target : Nat, n : Nat, killed : BOOLEAN]
        /\ reader.n <= reader.target
      BY <1>c DEF Init, Chars
  <2>2. /\ tx \in [buf : [0 .. UART_TX_BUF_SIZE - 1 -> 0 .. MaxWritten], r : Nat, w : Nat]
        /\ txlock \in Actors \union {"none"}
        /\ pc \in [Actors -> {"idle", "uartstart", "thr", "asleep", "getc", "echo", "lock"}]
        /\ hand \in [Actors -> 0 .. MaxWritten]
      BY <1>c DEF Init, Echo
  <2>3. /\ thr \in Seq(0 .. MaxWritten) /\ echo \in Nat /\ rhr \in Seq(Keys) /\ irq \in BOOLEAN
        /\ typed \in 0 .. MaxTyped /\ written \in 0 .. MaxWritten
        /\ line \in Seq(Chars) /\ ready \in Seq(Chars) /\ out \in Seq(1 .. MaxWritten)
      BY <1>c DEF Init
  <2>4. QED
      BY <2>1, <2>2, <2>3, Zenon DEF TypeOK
<1>2. InputInv
  <2>1. /\ cons.r = 0 /\ cons.w = 0 /\ cons.e = 0 /\ Len(ready) = 0 /\ Len(line) = 0
        /\ reader.pc = "idle"
      BY DEF Init
  <2>2. Minus(0, 0) = 0
      BY <1>c, ModDiff DEF Minus
  <2>3. IndexInv
      BY <1>c, <2>1, <2>2 DEF IndexInv
  <2>4. TextInv
      BY <2>1 DEF TextInv
  <2>5. ReaderInv
      BY <2>1 DEF ReaderInv
  <2>6. QED
      BY <2>3, <2>4, <2>5, Zenon DEF InputInv
<1>3. OutputInv
  <2>1. /\ tx.r = 0 /\ tx.w = 0 /\ thr = <<>> /\ out = <<>> /\ written = 0 /\ txlock = "none"
        /\ \A a \in Actors : pc[a] = "idle" /\ hand[a] = Echo
        /\ pc["writer"] = "idle" /\ pc["intr"] = "idle"
      BY DEF Init, Actors
  <2>2. ~Taken /\ ~InThr /\ AtMost(thr, tx.r)
    <3>1. ~Taken
        BY <2>1 DEF Taken
    <3>2. QED
        BY <2>1, <3>1, NothingIn, Zenon DEF InThr
  <2>3. LockInv
      BY <2>1 DEF LockInv, Actors
  <2>4. RoomInv
    <3>1. One(pc["intr"] = "echo") = 0 /\ One(Taken) = 0 /\ Len(thr) = 0
        BY <2>1, <2>2 DEF One
    <3>2. QED
        BY <3>1 DEF RoomInv
  <2>5. SendInv
    <3>1. Upto(0) = <<>>
        BY DEF Upto
    <3>2. QED
        BY <2>1, <2>2, <3>1, Zenon DEF SendInv
  <2>6. BufInv
      BY <1>c, <2>1 DEF BufInv
  <2>7. WriterSleepsOnFull
      BY <2>1 DEF WriterSleepsOnFull
  <2>8. QED
      BY <2>3, <2>4, <2>5, <2>6, <2>7, Zenon DEF OutputInv
<1>4. QED
    BY <1>1, <1>2, <1>3, Zenon DEF ConInv

\* Every step of consoleintr(), consoleread(), uartputc(), uartstart() and the
\* device keeps the invariant of the two rings and of what is between them and
\* the wire.
THEOREM ConsoleInvariant == Spec => []ConInv
<1>1. Init => ConInv
    BY InvInit
<1>2. ConInv /\ [Next]_vars => ConInv'
    BY TypeNext, InputNext, OutputNext, Zenon DEF ConInv
<1>3. QED
    BY <1>1, <1>2, PTL DEF Spec

\* What the editor lets go is there to be read and is not the editor's any more.
LEMMA EditedFromInv == ConInv => InputEdited
<1> SUFFICES ASSUME ConInv PROVE InputEdited
    OBVIOUS
<1>0. TypeOK /\ IndexInv /\ TextInv /\ ReaderInv
    BY Zenon DEF ConInv, InputInv
<1>1. InputIsLines
    BY <1>0, Lines
<1>2. FullIsReadable
  <2>1. INPUT_BUF_SIZE > 0 /\ INPUT_BUF_SIZE \in Nat
      BY ConsoleAssumption
  <2>2. /\ Len(ready) \in Nat /\ Len(line) \in Nat
        /\ Minus(cons.e, cons.r) = Len(ready) + Len(line)
        /\ cons.r = cons.w <=> Len(ready) = 0
      BY <1>0, Distances
  <2>3. Len(ready) + Len(line) = INPUT_BUF_SIZE => Len(line) = 0
      BY <1>0 DEF IndexInv
  <2>4. QED
      BY <2>1, <2>2, <2>3 DEF FullIsReadable
<1>3. ReaderSleepsOnEmpty
    BY <1>0 DEF ReaderInv, ReaderSleepsOnEmpty
<1>4. QED
    BY <1>0, <1>1, <1>2, <1>3, Zenon DEF InputEdited

\* One written character, or none, is between the buffer and the wire.
LEMMA FifoFromInv == ConInv => OutputFifo
<1> SUFFICES ASSUME ConInv PROVE OutputFifo
    OBVIOUS
<1>0. TypeOK /\ LockInv /\ SendInv /\ BufInv /\ WriterSleepsOnFull
    BY Zenon DEF ConInv, OutputInv
<1>t. OutType
    BY <1>0, OutTypes
<1>1. tx.w - tx.r \in 0 .. UART_TX_BUF_SIZE
  <2>1. tx.r <= tx.w /\ tx.w <= tx.r + UART_TX_BUF_SIZE /\ tx.r \in Nat /\ tx.w \in Nat
      BY <1>0, <1>t, Zenon DEF BufInv, OutType
  <2>2. QED
      BY <2>1, ConsoleAssumption
<1>2. DOMAIN thr = 1 .. Len(thr)
    BY <1>t DEF OutType
<1>3. \A c \in Sending : c = tx.r
    BY <1>0, <1>2, Zenon DEF Sending, SendInv, AtMost, LockInv
<1>4. CASE Taken \/ InThr
  <2>1. tx.r > 0 /\ out = Upto(tx.r - 1)
      BY <1>0, <1>4, Zenon DEF SendInv
  <2>2. tx.r # Echo
      BY <1>t, <2>1 DEF Echo, OutType
  <2>3. tx.r \in Sending
    <3>1. CASE Taken
        BY <1>0, <2>2, <3>1, Zenon DEF Taken, Sending, LockInv
    <3>2. CASE InThr
        BY <1>0, <1>2, <2>2, <3>2, Zenon DEF InThr, Carries, Sending, SendInv, AtMost
    <3>3. QED
        BY <1>4, <3>1, <3>2, Zenon
  <2>4. Sending = {tx.r}
      BY <1>3, <2>3, Zenon
  <2>5. QED
      BY <1>0, <1>1, <2>1, <2>4, Zenon DEF OutputFifo, BufInv
<1>5. CASE ~(Taken \/ InThr)
  <2>1. out = Upto(tx.r)
      BY <1>0, <1>5, Zenon DEF SendInv
  <2>2. Sending = {}
      BY <1>0, <1>2, <1>5, Zenon DEF Sending, Taken, InThr, Carries, LockInv
  <2>3. QED
      BY <1>0, <1>1, <2>1, <2>2, Zenon DEF OutputFifo, BufInv
<1>6. QED
    BY <1>4, <1>5, Zenon

\* Whatever is typed, erased and read, and wherever the unsigned indices wrap,
\* the buffer of console.c holds the finished lines in order and then the line
\* under edit; when it is full there is something to read; and consoleread()
\* sleeps only when there is nothing.
THEOREM InputIsEdited == Spec => []InputEdited
<1>1. ConInv => InputEdited
    BY EditedFromInv
<1>2. QED
    BY <1>1, ConsoleInvariant, PTL

\* What is written leaves the UART in order, nothing lost and nothing twice,
\* however the writer, the interrupt handler, the echo and the device interleave;
\* and uartputc() sleeps only while the buffer is full.
THEOREM OutputIsFifo == Spec => []OutputFifo
<1>1. ConInv => OutputFifo
    BY FifoFromInv
<1>2. QED
    BY <1>1, ConsoleInvariant, PTL
=============================================================================
