----------------------------- MODULE Semaphore -----------------------------
(***************************************************************************)
(* The counting Semaphore of zpaq-std's thread layer, as operators on a    *)
(* record.  The POSIX class is a mutex, a condition variable and an int;   *)
(* its wait() tests the int ONCE ("if", not "while") before it sleeps, and *)
(* a woken thread decrements it without looking again (the assert that     *)
(* follows is compiled out unless DEBUG).  So a wait() is one step, or     *)
(* two with a sleep between them.  The Windows class is a kernel           *)
(* semaphore: its wait is one atomic step and never sleeps half-way.       *)
(*                                                                         *)
(*   val     - the int "sem" (POSIX) or the kernel count (Windows)         *)
(*   blocked - threads asleep inside pthread_cond_wait                     *)
(*   woken   - threads signalled, that have not yet reacquired the mutex   *)
(* Which thread sleeps is in the program counter of the thread.            *)
(***************************************************************************)
EXTENDS Integers

CONSTANT Build          \* which of the two classes is compiled

ASSUME BuildAssumption == Build \in {"posix", "windows"}

Semaphores == [val : Int, blocked : Nat, woken : Nat]

SemInit(n) == [val |-> n, blocked |-> 0, woken |-> 0]

\* Mutant: wait() sleeps only below zero.
Passes_BelowZero(s) == s.val >= 0

\* wait() that returns without sleeping.
Passes(s) == IF Build = "posix" THEN s.val # 0 ELSE s.val > 0

Take(s) == [s EXCEPT !.val = @ - 1]

\* wait() that goes to sleep.
Sleeps(s) == Build = "posix" /\ s.val = 0

Sleep(s) == [s EXCEPT !.blocked = @ + 1]

\* A woken thread leaves pthread_cond_wait and decrements, whatever it finds.
Wakes(s) == s.woken > 0

Wake(s) == [val |-> s.val - 1, blocked |-> s.blocked, woken |-> s.woken - 1]

\* Mutant: signal() without pthread_cond_signal.
Signal_WakesNobody(s) == [s EXCEPT !.val = @ + 1]

\* signal(): increments, and wakes one of the sleepers if there is one.
Signal(s) == IF s.blocked > 0
             THEN [val |-> s.val + 1, blocked |-> s.blocked - 1, woken |-> s.woken + 1]
             ELSE [s EXCEPT !.val = @ + 1]
=============================================================================
