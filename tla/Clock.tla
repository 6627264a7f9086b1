------------------------------- MODULE Clock --------------------------------
(***************************************************************************)
(* The clock and sys_sleep() (kernel/sysproc.c, clockintr() of             *)
(* kernel/trap.c).  Everything but kill() happens under tickslock; ticks  *)
(* is a uint that wraps, and the int argument is compared with it as one.  *)
(***************************************************************************)
EXTENDS Integers

CONSTANTS Procs,
          UINT,      \* 2^32
          MaxTicks   \* bound on the ticks from a call to its return

VARIABLES ticks,
          sleeper,   \* pc, n and ticks0 of sys_sleep(), its result, and killed
          elapsed    \* clock interrupts since the call

vars == <<ticks, sleeper, elapsed>>

Ints == - (UINT \div 2) .. (UINT \div 2) - 1      \* int

Init ==
    /\ ticks = 0
    /\ sleeper = [p \in Procs |-> [pc |-> "user", n |-> 0, ticks0 |-> 0, ret |-> 0, killed |-> FALSE]]
    /\ elapsed = [p \in Procs |-> 0]

\* Mutant: as sys_sleep() might be if it did not expect ticks to wrap.
MoreToSleep_nowrap(s, now) == now >= s.ticks0 /\ now - s.ticks0 < s.n % UINT

\* while(ticks - ticks0 < n): unsigned, so a negative n is a large number.
MoreToSleep(s, now) == (now - s.ticks0) % UINT < s.n % UINT

\* The loop, from its test to the call of sleep() or to the return.
Looped(s, now) ==
    IF ~MoreToSleep(s, now) THEN [s EXCEPT !.pc = "user", !.ret = 0]
    ELSE IF s.killed THEN [s EXCEPT !.pc = "exit", !.ret = -1]
    ELSE [s EXCEPT !.pc = "sleep"]

\* Nobody is between the test of killed() and sleep(), with tickslock.
Unlocked == \A p \in Procs : sleeper[p].pc # "sleep"

sys_sleep(p, n) ==
    /\ Unlocked /\ sleeper[p].pc = "user" /\ ~sleeper[p].killed
    /\ sleeper' = [sleeper EXCEPT ![p] = Looped([@ EXCEPT !.n = n, !.ticks0 = ticks], ticks)]
    /\ elapsed' = [elapsed EXCEPT ![p] = 0]
    /\ UNCHANGED ticks

\* Mutant: as clockintr() might be if it called wakeup() only for a new second.
Woken_some(s) == IF s.pc = "asleep" /\ ticks % 2 = 0 THEN [s EXCEPT !.pc = "woken"] ELSE s

Woken(s) == IF s.pc = "asleep" THEN [s EXCEPT !.pc = "woken"] ELSE s

clockintr ==
    /\ Unlocked /\ \A p \in Procs : elapsed[p] < MaxTicks
    /\ ticks' = (ticks + 1) % UINT
    /\ sleeper' = [p \in Procs |-> Woken(sleeper[p])]
    /\ elapsed' = [p \in Procs |-> IF sleeper[p].pc \in {"user", "exit"} THEN 0 ELSE elapsed[p] + 1]

\* A woken process runs when the scheduler picks it, maybe ticks later.
resume(p) ==
    /\ Unlocked /\ sleeper[p].pc = "woken"
    /\ sleeper' = [sleeper EXCEPT ![p] = Looped(@, ticks)]
    /\ elapsed' = [elapsed EXCEPT ![p] = IF sleeper'[p].pc = "sleep" THEN @ ELSE 0]
    /\ UNCHANGED ticks

\* sleep() lets go of tickslock; a kill() just before wakes nobody.
sleep(p) ==
    /\ sleeper[p].pc = "sleep"
    /\ sleeper' = [sleeper EXCEPT ![p].pc = "asleep"]
    /\ UNCHANGED <<ticks, elapsed>>

kill(p) ==
    /\ ~sleeper[p].killed
    /\ sleeper' = [sleeper EXCEPT ![p] = [Woken(@) EXCEPT !.killed = TRUE]]
    /\ UNCHANGED <<ticks, elapsed>>

Next == clockintr \/ \E p \in Procs : (\E n \in Ints : sys_sleep(p, n)) \/ sleep(p) \/ resume(p) \/ kill(p)

Spec == Init /\ [][Next]_vars

-----------------------------------------------------------------------------
(* Properties *)

\* Every variable keeps its type.
TypeOK ==
    /\ ticks \in 0 .. UINT - 1
    /\ \A p \in Procs : sleeper[p].pc \in {"user", "sleep", "asleep", "woken", "exit"}

ReturnsInTime ==
    \A p \in Procs :
        sleeper[p].pc = "woken" /\ sleeper'[p].pc = "user" => elapsed[p] >= sleeper[p].n

\* sleep(n) that returns 0 has lasted at least n ticks, whether or not ticks has
\* wrapped since (unless the process overslept by more than 2^32 - n ticks).
SleepsLongEnough == [][ReturnsInTime]_vars

\* Nobody is still asleep, or sleeps on, once its time is over: every tick wakes
\* every sleeper, and it looks at ticks itself.
SleepsNoLonger ==
    \A p \in Procs : sleeper[p].pc = "asleep" =>
        elapsed[p] < sleeper[p].n % UINT
=============================================================================
