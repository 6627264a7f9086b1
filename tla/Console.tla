------------------------------ MODULE Console -------------------------------
(***************************************************************************)
(* The console: line editing and reading (kernel/console.c) and the UART   *)
(* driver under it (kernel/uart.c), with the interrupt handler on one hart *)
(* and a process that writes on another.                                   *)
(*                                                                         *)
(* Grain.  cons.lock and uart_tx_lock sections are steps, except that the  *)
(* test of LSR and the write to THR, which the echo of uartputc_sync() can *)
(* come between, are separate.  The device is external: a receive queue, a *)
(* transmit FIFO, and an interrupt request that the PLIC keeps.            *)
(***************************************************************************)
EXTENDS Integers, Sequences

CONSTANTS INPUT_BUF_SIZE, UART_TX_BUF_SIZE,
          UINT,       \* 2^32: the indices r, w and e are uint
          FIFO,       \* characters the transmitter holds
          RFIFO,      \* characters the receiver holds; it loses what comes then
          Keys,       \* what is typed: "x" is a character, "nl", "^D", "^H", "^U", "^P", and "nul" is 0
          MaxTyped, MaxWritten,
          Reads       \* lengths of read()s

\* An index that wraps from UINT to 0 stays at the same place in its buffer, and
\* the transmitter, a 16550 whose FIFO uartinit() turns on, has room for two.
ASSUME ConsoleAssumption ==
    /\ INPUT_BUF_SIZE \in Nat \ {0} /\ UART_TX_BUF_SIZE \in Nat \ {0}
    /\ UINT \in Nat /\ INPUT_BUF_SIZE < UINT /\ UINT % INPUT_BUF_SIZE = 0
    /\ FIFO \in Nat /\ FIFO >= 2
    /\ Keys \subseteq {"x", "nl", "^D", "^H", "^U", "^P", "nul"}
    /\ MaxTyped \in Nat /\ MaxWritten \in Nat
    /\ Reads \subseteq Nat \ {0}

VARIABLES cons,       \* buf, r, w, e
          reader,     \* pc, target and n of consoleread(), killed
          tx,         \* uart_tx_buf, and its indices r and w
          txlock,     \* holder of uart_tx_lock, or "none"
          pc,         \* where the interrupt handler and the writer are
          hand,       \* the character each has taken from the buffer
          echo,       \* characters that consputc() has still to send
          rhr, thr, irq,    \* the device
          typed, written,   \* how many characters
          line, ready,      \* the line being edited, and the input that may be read
          out         \* the written characters that have left

vars == <<cons, reader, tx, txlock, pc, hand, echo, rhr, thr, irq, typed, written, line, ready, out>>
input == <<cons, reader, typed, line, ready>>
output == <<tx, txlock, hand, written, out>>

Actors == {"intr", "writer"}
Echo == 0            \* an echoed character; written ones are numbered from 1
Inc(k) == (k + 1) % UINT
Dec(k) == (k - 1) % UINT
Minus(a, b) == (a - b) % UINT

Init ==
    /\ cons = [buf |-> [k \in 0 .. INPUT_BUF_SIZE - 1 |-> "x"], r |-> 0, w |-> 0, e |-> 0]
    /\ reader = [pc |-> "idle", target |-> 0, n |-> 0, killed |-> FALSE]
    /\ tx = [buf |-> [k \in 0 .. UART_TX_BUF_SIZE - 1 |-> Echo], r |-> 0, w |-> 0]
    /\ txlock = "none"
    /\ pc = [a \in Actors |-> "idle"]
    /\ hand = [a \in Actors |-> Echo]
    /\ echo = 0 /\ rhr = <<>> /\ thr = <<>> /\ irq = FALSE
    /\ typed = 0 /\ written = 0
    /\ line = <<>> /\ ready = <<>> /\ out = <<>>

-----------------------------------------------------------------------------
(* Input *)

\* The characters in positions from .. to - 1 of the buffer.
Span(from, to) == [k \in 1 .. Minus(to, from) |-> cons.buf[((from + k - 1) % UINT) % INPUT_BUF_SIZE]]

\* How many characters "^U" erases: back to a newline or to cons.w.
Erased ==
    LET s == Span(cons.w, cons.e)
        nls == {k \in DOMAIN s : s[k] = "nl"} IN
    Len(s) - (IF nls = {} THEN 0 ELSE CHOOSE k \in nls : \A j \in nls : j <= k)

\* Mutant: as consoleintr() might be if a full buffer did not end the line.
EndsLine_open(c, e) == c \in {"nl", "^D"}

EndsLine(c, e) == c \in {"nl", "^D"} \/ Minus(e, cons.r) = INPUT_BUF_SIZE

\* Mutant: as consoleintr() might be if it counted the room from cons.w.
HasRoom_w == Minus(cons.e, cons.w) < INPUT_BUF_SIZE

HasRoom == Minus(cons.e, cons.r) < INPUT_BUF_SIZE

\* Mutant: as consoleintr() might be if a backspace could go past cons.w.
CanErase_any == cons.e # cons.r

CanErase == cons.e # cons.w

\* Mutant: as consoleintr() might be if it did not wake the reader.
wakeup_reader_none == UNCHANGED reader

wakeup_reader == reader' = IF reader.pc = "asleep" THEN [reader EXCEPT !.pc = "read"] ELSE reader

\* consoleintr(c), the echo being sent in later steps of the handler.  What
\* procdump() prints goes out in the same way: one character stands for it.
consoleintr(c) ==
    CASE c = "^P" ->
           /\ echo' = 1
           /\ UNCHANGED <<cons, line, ready, reader>>
      [] c = "^U" ->
           /\ cons' = [cons EXCEPT !.e = Minus(@, Erased)]
           /\ line' = <<>>
           /\ echo' = 3 * Erased
           /\ UNCHANGED <<reader, ready>>
      [] c = "^H" ->
           /\ cons' = IF CanErase THEN [cons EXCEPT !.e = Dec(@)] ELSE cons
           /\ line' = IF line = <<>> THEN line ELSE SubSeq(line, 1, Len(line) - 1)
           /\ echo' = IF CanErase THEN 3 ELSE 0
           /\ UNCHANGED <<reader, ready>>
      [] c \notin {"^P", "^U", "^H", "nul"} /\ HasRoom ->
           LET e == Inc(cons.e)
               full == Len(ready) + Len(line) + 1 = INPUT_BUF_SIZE IN
           /\ cons' = [cons EXCEPT !.buf[cons.e % INPUT_BUF_SIZE] = c, !.e = e,
                                   !.w = IF EndsLine(c, e) THEN e ELSE @]
           /\ echo' = 1
           /\ IF EndsLine(c, e) THEN wakeup_reader ELSE UNCHANGED reader
           /\ line' = IF c \in {"nl", "^D"} \/ full THEN <<>> ELSE Append(line, c)
           /\ ready' = IF c \in {"nl", "^D"} \/ full THEN ready \o Append(line, c) ELSE ready
      [] OTHER -> echo' = 0 /\ UNCHANGED <<cons, line, ready, reader>>

\* The device receives a character.
type(c) ==
    /\ typed < MaxTyped /\ Len(rhr) < RFIFO
    /\ typed' = typed + 1 /\ rhr' = Append(rhr, c) /\ irq' = TRUE
    /\ UNCHANGED <<cons, reader, line, ready, output, pc, echo, thr>>

consoleread(n) ==
    /\ reader.pc = "idle" /\ ~reader.killed
    /\ reader' = [reader EXCEPT !.pc = "read", !.target = n, !.n = n]
    /\ UNCHANGED <<cons, typed, line, ready, output, pc, echo, rhr, thr, irq>>

\* Mutant: as consoleread() might be if it lost the end of file after a line.
EofIndex_lost == Inc(cons.r)

\* "Save ^D for next time, to make sure caller gets a 0-byte result."
EofIndex == IF reader.n < reader.target THEN cons.r ELSE Inc(cons.r)

\* One character, or on to sleep(), or give up because of kill(); copyout() may fail.
\* consoleintr() has cons.lock until the echo is sent.
consoleread_step ==
    /\ reader.pc = "read" /\ echo = 0
    /\ IF cons.r = cons.w
       THEN /\ reader' = [reader EXCEPT !.pc = IF reader.killed THEN "idle" ELSE "sleep"]
            /\ UNCHANGED <<cons, ready>>
       ELSE LET c == cons.buf[cons.r % INPUT_BUF_SIZE]
                last == c = "nl" \/ reader.n = 1 IN
            IF c = "^D"
            THEN /\ cons' = [cons EXCEPT !.r = EofIndex]
                 /\ ready' = IF reader.n < reader.target THEN ready ELSE Tail(ready)
                 /\ reader' = [reader EXCEPT !.pc = "idle"]
            ELSE /\ cons' = [cons EXCEPT !.r = Inc(@)]
                 /\ ready' = Tail(ready)
                 /\ \/ reader' = [reader EXCEPT !.n = @ - 1, !.pc = IF last THEN "idle" ELSE "read"]
                    \/ reader' = [reader EXCEPT !.pc = "idle"]
    /\ UNCHANGED <<typed, line, output, pc, echo, rhr, thr, irq>>

\* sleep() lets go of cons.lock; a kill() just before wakes nobody.
sleep ==
    /\ reader.pc = "sleep"
    /\ reader' = [reader EXCEPT !.pc = "asleep"]
    /\ UNCHANGED <<cons, typed, line, ready, output, pc, echo, rhr, thr, irq>>

\* kill() of the reader: a sleeping one is woken.
kill ==
    /\ ~reader.killed
    /\ reader' = [reader EXCEPT !.killed = TRUE, !.pc = IF @ = "asleep" THEN "read" ELSE @]
    /\ UNCHANGED <<cons, typed, line, ready, output, pc, echo, rhr, thr, irq>>

-----------------------------------------------------------------------------
(* Output *)

Idle == thr = <<>>     \* LSR_TX_IDLE

\* Mutant: as uartputc() might be if it let the buffer overflow by one.
Full_late == tx.w > tx.r + UART_TX_BUF_SIZE

Full == tx.w = tx.r + UART_TX_BUF_SIZE

\* consolewrite() and uartputc(), up to uartstart(): sleep while the buffer is full.
uartputc ==
    /\ pc["writer"] = "idle" /\ txlock = "none" /\ written < MaxWritten
    /\ IF Full
       THEN /\ pc' = [pc EXCEPT !["writer"] = "asleep"]
            /\ UNCHANGED <<tx, txlock, written>>
       ELSE /\ tx' = [tx EXCEPT !.buf[tx.w % UART_TX_BUF_SIZE] = written + 1, !.w = @ + 1]
            /\ written' = written + 1
            /\ txlock' = "writer"
            /\ pc' = [pc EXCEPT !["writer"] = "uartstart"]
    /\ UNCHANGED <<input, hand, out, echo, rhr, thr, irq>>

Wake(p) == IF p["writer"] = "asleep" THEN [p EXCEPT !["writer"] = "idle"] ELSE p

\* Mutant: as uartstart() might be if it did not look at LSR.
Stops_empty == tx.w = tx.r

Stops == tx.w = tx.r \/ ~Idle

uartstart(a) ==
    /\ pc[a] = "uartstart"
    /\ IF Stops
       THEN /\ txlock' = "none"
            /\ pc' = [pc EXCEPT ![a] = "idle"]
            /\ UNCHANGED <<tx, hand>>
       ELSE /\ hand' = [hand EXCEPT ![a] = tx.buf[tx.r % UART_TX_BUF_SIZE]]
            /\ tx' = [tx EXCEPT !.r = @ + 1]
            /\ pc' = Wake([pc EXCEPT ![a] = "thr"])
            /\ UNCHANGED txlock
    /\ UNCHANGED <<input, written, out, echo, rhr, thr, irq>>

\* WriteReg(THR, c): a character too many is lost.
Sent(c) == IF Len(thr) < FIFO THEN Append(thr, c) ELSE thr
write_thr(a) ==
    /\ pc[a] = "thr"
    /\ thr' = Sent(hand[a])
    /\ hand' = [hand EXCEPT ![a] = Echo]
    /\ pc' = [pc EXCEPT ![a] = "uartstart"]
    /\ UNCHANGED <<input, tx, txlock, written, out, echo, rhr, irq>>

\* The device sends a character, and interrupts when it has no more.
transmit ==
    /\ thr # <<>>
    /\ out' = IF Head(thr) = Echo THEN out ELSE Append(out, Head(thr))
    /\ thr' = Tail(thr)
    /\ irq' = (irq \/ Len(thr) = 1)
    /\ UNCHANGED <<input, tx, txlock, hand, written, pc, echo, rhr>>

-----------------------------------------------------------------------------
(* The interrupt handler: devintr(), uartintr() *)

plic_claim ==
    /\ pc["intr"] = "idle" /\ irq
    /\ irq' = FALSE
    /\ pc' = [pc EXCEPT !["intr"] = "getc"]
    /\ UNCHANGED <<input, output, echo, rhr, thr>>

\* uartgetc() and consoleintr(), or the end of the loop.
uartgetc ==
    /\ pc["intr"] = "getc" /\ echo = 0
    /\ IF rhr = <<>>
       THEN /\ pc' = [pc EXCEPT !["intr"] = "lock"]
            /\ UNCHANGED <<cons, reader, line, ready, echo, rhr>>
       ELSE /\ reader.pc # "sleep"        \* it has cons.lock
            /\ consoleintr(Head(rhr))
            /\ rhr' = Tail(rhr)
            /\ UNCHANGED pc
    /\ UNCHANGED <<typed, output, thr, irq>>

\* uartputc_sync(): the test and the write.
uartputc_sync ==
    /\ pc["intr"] = "getc" /\ echo > 0 /\ Idle
    /\ pc' = [pc EXCEPT !["intr"] = "echo"]
    /\ UNCHANGED <<input, output, echo, rhr, thr, irq>>

echo_thr ==
    /\ pc["intr"] = "echo"
    /\ thr' = Sent(Echo)
    /\ echo' = echo - 1
    /\ pc' = [pc EXCEPT !["intr"] = "getc"]
    /\ UNCHANGED <<input, output, rhr, irq>>

\* Mutant: as uartintr() might be if it only read input.
uartintr_in ==
    /\ pc["intr"] = "lock"
    /\ pc' = [pc EXCEPT !["intr"] = "idle"]
    /\ UNCHANGED <<input, output, echo, rhr, thr, irq>>

uartintr ==
    /\ pc["intr"] = "lock" /\ txlock = "none"
    /\ txlock' = "intr"
    /\ pc' = [pc EXCEPT !["intr"] = "uartstart"]
    /\ UNCHANGED <<input, tx, hand, written, out, echo, rhr, thr, irq>>

handler == plic_claim \/ uartgetc \/ uartputc_sync \/ echo_thr \/ uartintr

Next ==
    \/ \E c \in Keys : type(c)
    \/ \E n \in Reads : consoleread(n)
    \/ consoleread_step \/ sleep \/ kill
    \/ uartputc \/ transmit \/ handler
    \/ \E a \in Actors : uartstart(a) \/ write_thr(a)

Spec == Init /\ [][Next]_vars

\* The device transmits, harts take interrupts and run what holds a lock.
Fairness ==
    /\ WF_vars(transmit) /\ WF_vars(handler) /\ WF_vars(uartputc)
    /\ \A a \in Actors : WF_vars(uartstart(a)) /\ WF_vars(write_thr(a))

LiveSpec == Spec /\ Fairness

-----------------------------------------------------------------------------
(* Properties *)

Chars == {"x", "nl", "^D"}

\* Every variable keeps its type.
TypeOK ==
    /\ cons \in [buf : [0 .. INPUT_BUF_SIZE - 1 -> Chars],
                 r : 0 .. UINT - 1, w : 0 .. UINT - 1, e : 0 .. UINT - 1]
    /\ reader \in [pc : {"idle", "read", "sleep", "asleep"}, target : Nat, n : Nat, killed : BOOLEAN]
    /\ reader.n <= reader.target
    /\ tx \in [buf : [0 .. UART_TX_BUF_SIZE - 1 -> 0 .. MaxWritten], r : Nat, w : Nat]
    /\ txlock \in Actors \union {"none"}
    /\ pc \in [Actors -> {"idle", "uartstart", "thr", "asleep", "getc", "echo", "lock"}]
    /\ hand \in [Actors -> 0 .. MaxWritten] /\ thr \in Seq(0 .. MaxWritten)
    /\ echo \in Nat /\ rhr \in Seq(Keys) /\ irq \in BOOLEAN
    /\ typed \in 0 .. MaxTyped /\ written \in 0 .. MaxWritten
    /\ line \in Seq(Chars) /\ ready \in Seq(Chars) /\ out \in Seq(1 .. MaxWritten)

\* The ring buffer is a queue of lines under edit: whatever is typed, erased and
\* read, and wherever the indices wrap, positions r to w hold the finished input
\* nobody has read, in order, and w to e the line that can still be edited.
InputIsLines ==
    /\ Span(cons.r, cons.w) = ready
    /\ Span(cons.w, cons.e) = line
    /\ Minus(cons.e, cons.r) <= INPUT_BUF_SIZE

\* A full buffer can be read: consoleintr() drops what is typed when the buffer
\* is full, so if nothing in it were finished no read() would ever return.
FullIsReadable == Minus(cons.e, cons.r) = INPUT_BUF_SIZE => cons.r # cons.w

\* consoleread() sleeps only while there is nothing to read: consoleintr() calls
\* wakeup() under the lock that the sleeper gave up.
ReaderSleepsOnEmpty == reader.pc = "asleep" => cons.r = cons.w

\* The console's input buffer works as a queue of edited lines, never fills up
\* with a line that nobody can read, and nobody sleeps over a line.
InputEdited == TypeOK /\ InputIsLines /\ FullIsReadable /\ ReaderSleepsOnEmpty

\* uartputc() sleeps only while the buffer is full (uartstart() wakes it).
WriterSleepsOnFull == pc["writer"] = "asleep" => Full

\* The written characters that have left the buffer and not the transmitter.
Sending == ({thr[k] : k \in DOMAIN thr} \union {hand[a] : a \in Actors}) \ {Echo}
Upto(n) == [k \in 1 .. n |-> k]

\* What write() gave to uartputc() leaves in order, and nothing is lost or sent
\* twice, though the echo goes past the buffer, and the echo and the driver may
\* both see LSR_TX_IDLE and then both write: at most one written character is
\* on its way, and those behind it wait in the buffer in order.
OutputFifo ==
    /\ TypeOK /\ WriterSleepsOnFull
    /\ tx.w = written /\ tx.w - tx.r \in 0 .. UART_TX_BUF_SIZE
    /\ \A k \in tx.r + 1 .. tx.w : tx.buf[(k - 1) % UART_TX_BUF_SIZE] = k
    /\ \/ Sending = {} /\ out = Upto(tx.r)
       \/ Sending = {tx.r} /\ out = Upto(tx.r - 1)

Pending == tx.w # tx.r
WriterAsleep == pc["writer"] = "asleep"

\* Every character given to uartputc() leaves, and the writer never stays asleep.
OutputDrains ==
    /\ Pending ~> ~Pending
    /\ WriterAsleep ~> ~WriterAsleep
=============================================================================
