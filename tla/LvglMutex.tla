------------------------------ MODULE LvglMutex ------------------------------
(***************************************************************************)
(* lvgl_port_lock(timeout_ms) and lvgl_port_unlock() (main/lvgl_port.c) as *)
(* any number of tasks may use them, with any time limit.  The recursive   *)
(* mutex and the tick clock are FreeRTOS's: a call that does not get the   *)
(* mutex waits its ticks and returns false.  No name is one of LvglPort's, *)
(* so that a module can extend both.                                       *)
(***************************************************************************)
EXTENDS Integers

CONSTANTS
    Tasks,          \* the callers
    Limits,         \* the values of timeout_ms they pass, besides -1
    TickRate,       \* configTICK_RATE_HZ
    MaxDepth        \* bound: how often a task takes the mutex in a row

NoOne == "none"
Forever == -1       \* portMAX_DELAY

ASSUME MutexAssumption ==
    /\ NoOne \notin Tasks
    /\ Limits \subseteq Nat
    /\ TickRate \in Nat \ {0}
    /\ MaxDepth \in Nat \ {0}

VARIABLES
    holder, held,   \* the recursive mutex
    asked,          \* timeout_ms of a task's last call
    left,           \* ticks the task may still wait
    waited,         \* ticks it has waited
    result,         \* of its last call: "waiting", "true", "false"
    locks           \* how many calls returned true and await their unlock

callVars == <<asked, left, waited, result>>
muxVars == <<holder, held, callVars, locks>>

MutexInit ==
    /\ holder = NoOne /\ held = 0
    /\ asked = [t \in Tasks |-> 0]
    /\ left = [t \in Tasks |-> 0]
    /\ waited = [t \in Tasks |-> 0]
    /\ result = [t \in Tasks |-> "none"]
    /\ locks = [t \in Tasks |-> 0]

\* Mutant of Ticks: it rounds up.
Ticks_Mut(ms) == IF ms < 0 THEN Forever ELSE (ms * TickRate + 999) \div 1000

\* Mutant of Ticks: the tick that has begun is not counted.
Ticks_MutBegun(ms) == IF ms < 0 THEN Forever ELSE ((ms * TickRate) \div 1000) - 1

\* portMAX_DELAY, or pdMS_TO_TICKS(), which rounds down.
Ticks(ms) == IF ms < 0 THEN Forever ELSE (ms * TickRate) \div 1000

Call(t, ms) ==
    /\ result[t] # "waiting"
    /\ locks[t] < MaxDepth
    /\ asked' = [asked EXCEPT ![t] = ms]
    /\ left' = [left EXCEPT ![t] = Ticks(ms)]
    /\ waited' = [waited EXCEPT ![t] = 0]
    /\ result' = [result EXCEPT ![t] = "waiting"]
    /\ UNCHANGED <<holder, held, locks>>

Take(t) ==
    /\ result[t] = "waiting"
    /\ holder \in {NoOne, t}
    /\ holder' = t
    /\ held' = held + 1
    /\ locks' = [locks EXCEPT ![t] = @ + 1]
    /\ result' = [result EXCEPT ![t] = "true"]
    /\ UNCHANGED <<asked, left, waited>>

TimeOut(t) ==
    /\ result[t] = "waiting"
    /\ left[t] = 0
    /\ holder \notin {NoOne, t}
    /\ result' = [result EXCEPT ![t] = "false"]
    /\ UNCHANGED <<holder, held, asked, left, waited, locks>>

\* A tick of the clock; a call whose time is up returns before the next.
Tick ==
    LET waiters == {t \in Tasks : result[t] = "waiting" /\ left[t] # Forever}
    IN  /\ waiters # {}
        /\ \A t \in waiters : left[t] > 0
        /\ left' = [t \in Tasks |-> IF t \in waiters THEN left[t] - 1 ELSE left[t]]
        /\ waited' = [t \in Tasks |-> IF t \in waiters THEN waited[t] + 1 ELSE waited[t]]
        /\ UNCHANGED <<holder, held, asked, result, locks>>

\* Mutant of Give: a task that holds the mutex twice frees it at once.
Give_Mut(t) ==
    /\ result[t] # "waiting"
    /\ locks[t] > 0
    /\ locks' = [locks EXCEPT ![t] = @ - 1]
    /\ held' = 0
    /\ holder' = NoOne
    /\ UNCHANGED callVars

Give(t) ==
    /\ result[t] # "waiting"
    /\ locks[t] > 0
    /\ locks' = [locks EXCEPT ![t] = @ - 1]
    /\ held' = held - 1
    /\ holder' = IF held = 1 THEN NoOne ELSE holder
    /\ UNCHANGED callVars

MutexNext ==
    \/ Tick
    \/ \E t \in Tasks : Take(t) \/ TimeOut(t) \/ Give(t) \/ \E ms \in Limits \cup {-1} : Call(t, ms)

MutexSafety == MutexInit /\ [][MutexNext]_muxVars

\* Time passes however many calls that need none are made, and a call that can
\* return does.  Nobody has to unlock.
MutexSpec ==
    /\ MutexSafety
    /\ SF_muxVars(Tick)
    /\ \A t \in Tasks : WF_muxVars(Take(t) \/ TimeOut(t))

-----------------------------------------------------------------------------
\* Between a lock that returned true and its unlock a task has the mutex, as
\* often as it took it, and no other task has it (lvgl_port.c:549-561).
HolderOnly ==
    /\ \A t \in Tasks : locks[t] > 0 => holder = t /\ held = locks[t]
    /\ holder = NoOne => held = 0

\* A caller with a limit is never held up longer than it asked for, and one
\* without (main.c:219, 248: -1) never gets false (lvgl_port.c:553-554).
KeepsLimit ==
    \A t \in Tasks :
        /\ asked[t] > 0 => waited[t] * 1000 <= asked[t] * TickRate
        /\ asked[t] < 0 => result[t] # "false"

\* lvgl_port.h:134 says of timeout_ms that 0 blocks indefinitely: such a call
\* would never return without the mutex.
ZeroBlocks ==
    \A t \in Tasks : asked[t] = 0 => result[t] # "false"

\* A call with a limit returns, whatever the others do with the mutex.
LimitedCallsReturn ==
    \A t \in Tasks :
        result[t] = "waiting" /\ asked[t] > 0 ~> result[t] # "waiting"

=============================================================================
