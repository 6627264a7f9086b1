----------------------------- MODULE MCMachine ------------------------------
(***************************************************************************)
(* Small instances of Pipe, Mem, Trap, Clock, Console (its input side),    *)
(* UserCopy, Strings, ShellParse, Umalloc and Grep, side by side.          *)
(*                                                                         *)
(* Only the component named by sel takes steps, so the behaviours are      *)
(* those of the components one by one. Pipe has its own variables, which   *)
(* stay as Init has them while another component runs; the others share    *)
(* the variables s1 to s16.                                                *)
(***************************************************************************)
EXTENDS Pipe, TLC

CONSTANTS r1, w1, w2

OneReader == {r1}
TwoWriters == {w1, w2}
Perms == Permutations(Writers)

\* Patterns with files of one line, and a few with files of several.
Over(S, k) == UNION {[1 .. m -> S] : m \in 0 .. k}
NL == "\n"
GrepInputs ==
    {<<re, Append(s, NL)>> : re \in Over({"a", "b", ".", "*", "^", "$"}, 3), s \in Over({"a", "b"}, 3)}
    \union {<<re, s>> : re \in {<<"a">>, <<"^", "b", "*", "$">>}, s \in Over({"a", "b", NL}, 6)}

VARIABLES sel, s1, s2, s3, s4, s5, s6, s7, s8, s9, s10, s11, s12, s13, s14, s15, s16

slots1 == <<s1, s2, s3>>
slots4 == <<s4>>
slots5 == <<s5, s6>>
slots7 == <<s7, s8, s9, s10, s11, s12, s13, s14, s15>>
slots16 == <<s16>>
slots == <<slots1, slots4, slots5, slots7, slots16>>
all == <<vars, sel, slots>>

M == INSTANCE Mem WITH
        NPROC <- 2, MemSizes <- {11, 13, 15, 17, 18, 19, 20, 21, 22, 24}, PGSIZE <- 2, PTES <- 2,
        KTABLES <- 1, Programs <- {<<3>>, <<2, 5>>, <<0>>}, PLIC <- 60, Increments <- {1, 3, -1, -3}, MaxArgs <- 1,
        MaxCalls <- 4,
        free <- s1, mem <- s2, proc <- s3, ret <- s4, panic <- s5, view <- s6

T == INSTANCE Trap WITH
        Harts <- {"h0", "h1"}, hart0 <- "h0", Procs <- {"p"}, Calls <- {"uptime", "sleep", "driver", "fault"},
        MaxTraps <- 2,
        csr <- s1, cpu <- s2, run <- s3, stk <- s4, locked <- s5, lkcpu <- s6, state <- s7, killed <- s8,
        asleep <- s9, ticks <- s10, tpend <- s11, irq <- s12, started <- s13, inited <- s14, traps <- s15,
        panicked <- s16

K == INSTANCE Clock WITH
        Procs <- {1}, UINT <- 8, MaxTicks <- 7,
        ticks <- s1, sleeper <- s2, elapsed <- s3

C == INSTANCE Console WITH
        INPUT_BUF_SIZE <- 2, UART_TX_BUF_SIZE <- 2, UINT <- 4, FIFO <- 2, RFIFO <- 1, Keys <- {"x", "nl",
        "^D", "^H", "^U", "nul"}, MaxTyped <- 5, MaxWritten <- 0, Reads <- {1, 2},
        cons <- s1, reader <- s2, tx <- s3, txlock <- s4, pc <- s5, hand <- s6, echo <- s7, rhr <- s8,
        thr <- s9, irq <- s10, typed <- s11, written <- s12, line <- s13, ready <- s14, out <- s15

U == INSTANCE UserCopy WITH
        PGSIZE <- 2, NPAGES <- 3, UINT64 <- 8, WORD <- 2,
        args <- s1, pte <- s2, mem <- s3, out <- s4

S == INSTANCE Strings WITH
        Cells <- 5, Letters <- {1, 2}, MaxPath <- 6, INT <- 16, Bases <- {2, 10}, DIRSIZ <- 2,
        args <- s1, res <- s2, done <- s3

P == INSTANCE ShellParse WITH
        Alphabet <- {"a", " ", "<", "|", ">", "&", ";", "(", ")"}, MaxLen <- 5, MAXARGS <- 3,
        line <- s1, buf <- s2, cmd <- s3, phase <- s4

H == INSTANCE Umalloc WITH
        Requests <- {1, 2, 3, 5}, CHUNK <- 4, LIMIT <- 12,
        ptr <- s1, size <- s2, freep <- s3, brk <- s4, used <- s5, mine <- s6

G == INSTANCE Grep WITH
        Inputs <- GrepInputs, BUFSIZE <- 5,
        re <- s1, file <- s2, rest <- s3, buf <- s4, out <- s5, ended <- s6

Zero1 == s1 = 0 /\ s2 = 0 /\ s3 = 0
Zero4 == s4 = 0
Zero5 == s5 = 0 /\ s6 = 0
Zero7 == s7 = 0 /\ s8 = 0 /\ s9 = 0 /\ s10 = 0 /\ s11 = 0 /\ s12 = 0 /\ s13 = 0 /\ s14 = 0 /\ s15 = 0
Zero16 == s16 = 0

AllInit ==
    /\ Init
    /\ \/ sel = "pipe" /\ Zero1 /\ Zero4 /\ Zero5 /\ Zero7 /\ Zero16
       \/ sel = "mem" /\ M!Init /\ Zero7 /\ Zero16
       \/ sel = "trap" /\ T!Init
       \/ sel = "clock" /\ K!Init /\ Zero4 /\ Zero5 /\ Zero7 /\ Zero16
       \/ sel = "console" /\ C!Init /\ Zero16
       \/ sel = "copy" /\ U!Init /\ Zero5 /\ Zero7 /\ Zero16
       \/ sel = "strings" /\ S!Init /\ Zero4 /\ Zero5 /\ Zero7 /\ Zero16
       \/ sel = "parse" /\ P!Init /\ Zero5 /\ Zero7 /\ Zero16
       \/ sel = "malloc" /\ H!Init /\ Zero7 /\ Zero16
       \/ sel = "grep" /\ G!Init /\ Zero7 /\ Zero16
    /\ sel # "pipe" => ch = 0 /\ \A k \in DOMAIN data : data[k] = 0

PipeDoes(A) == sel = "pipe" /\ A /\ UNCHANGED <<sel, slots>>
MemDoes(A) == sel = "mem" /\ A /\ UNCHANGED <<vars, sel, slots7, slots16>>
TrapDoes(A) == sel = "trap" /\ A /\ UNCHANGED <<vars, sel>>
ClockDoes(A) == sel = "clock" /\ A /\ UNCHANGED <<vars, sel, slots4, slots5, slots7, slots16>>
ConsoleDoes(A) == sel = "console" /\ A /\ UNCHANGED <<vars, sel, slots16>>
UserCopyDoes(A) == sel = "copy" /\ A /\ UNCHANGED <<vars, sel, slots5, slots7, slots16>>
StringsDoes(A) == sel = "strings" /\ A /\ UNCHANGED <<vars, sel, slots4, slots5, slots7, slots16>>
ShellParseDoes(A) == sel = "parse" /\ A /\ UNCHANGED <<vars, sel, slots5, slots7, slots16>>
UmallocDoes(A) == sel = "malloc" /\ A /\ UNCHANGED <<vars, sel, slots7, slots16>>
GrepDoes(A) == sel = "grep" /\ A /\ UNCHANGED <<vars, sel, slots7, slots16>>

AllNext ==
    \/ PipeDoes(Next)
    \/ MemDoes(M!Next)
    \/ TrapDoes(T!Next)
    \/ ClockDoes(K!Next)
    \/ ConsoleDoes(C!Next)
    \/ UserCopyDoes(U!Next)
    \/ StringsDoes(S!Next)
    \/ ShellParseDoes(P!Next)
    \/ UmallocDoes(H!Next)
    \/ GrepDoes(G!Next)
    \/ sel \notin {"clock", "malloc"} /\ UNCHANGED all     \* these may come to an end

AllSpec == AllInit /\ [][AllNext]_all

-----------------------------------------------------------------------------
(* Properties: PipeIsFifo and NoUseAfterFree of Pipe, by their own names,  *)
(* and those of the others.                                                *)

\* Nobody sleeps over what they wait for: a writer in pipewrite() only while the
\* pipe is full; a reader in piperead() only while it is empty and has writers,
\* but for a killed writer's last bytes; sys_sleep() only until its time is over.
NoLostWakeup ==
    /\ TypeOK /\ WriterSleepsOnFull /\ ReaderSleepsOnKill
    /\ sel = "clock" => K!TypeOK /\ K!SleepsNoLonger

\* Every page is free or has exactly one use, whichever kalloc() of fork(),
\* exec(), sbrk() or allocproc() fails; exactly what is below p->sz is mapped;
\* each process finds in its memory what it wrote there, or its parent before
\* the fork(), and zeroes in what sbrk() and exec() added.
MemoryExact == sel = "mem" => M!MemoryExact

\* When memory runs out a fork(), exec() or sbrk() fails without a trace, but
\* for page-table pages that sbrk() may have added, and the kernel panics
\* nowhere but in allocproc().
OutOfMemorySafe == [][sel = "mem" => M!RunsOutSafely]_all

\* A thread that holds no lock has interrupts as its code set them, its traps go
\* to uservec or kernelvec as they should, and sret goes back to where its trap
\* came from, however often it was interrupted, switched or moved, though the
\* registers are the hart's.
TrapsReturnHome == sel = "trap" => T!TrapsReturnHome

\* No assertion of acquire(), release(), pop_off(), sched(), usertrap() and
\* kerneltrap() fails, a hart in a critical section takes no interrupt, and no
\* hart takes a lock before hart 0 has initialised it.
LockDiscipline == sel = "trap" => T!LockDiscipline

\* sleep(n) that returns 0 has lasted at least n ticks, whether or not ticks
\* has wrapped since (sys_sleep()).
SleepsLongEnough == [][sel = "clock" => K!ReturnsInTime]_all

\* The functions that compute agree with what they stand for: copyout(),
\* copyin(), fetchaddr() and fetchstr() with the user's bytes, memmove(),
\* printint() and skipelem() with the move, the number and the elements, grep()
\* with the lines that match, consoleintr() and consoleread() with the lines
\* typed, wherever the indices of the console's buffer wrap.
FunctionsExact ==
    /\ sel = "console" => C!InputEdited
    /\ sel = "copy" => U!CopiesExact
    /\ sel = "strings" => S!StringsExact
    /\ sel = "grep" => G!FindsLines

\* The shell's descent (parsecmd()) accepts exactly the lines of the grammar and
\* builds the only command the line can be; nulterminate() ends its words and
\* spoils none.
ParsesRight == sel = "parse" => P!ParsesRight

\* Every unit that malloc() got from sbrk() is in exactly one block, used or
\* free, and the free list goes once around the free ones in order, joined.
HeapExact == sel = "malloc" => H!HeapExact
=============================================================================
