------------------------------- MODULE Relief ---------------------------------
\* The life of the background trimmer and its relief policy: trimmer_main and
\* relief_paths of trim.rs, maybe_start_trimmer of inner/alloc.rs, the fork
\* handlers of core_prim/fork.rs (the preload build registers them).
\*
\* The trimmer wakes up every Step, samples the memory pressure every Period and
\* switches the buddy backend off and on.  Threads start it when they refill,
\* trim by hand, and fork.  After a fork the model goes on as the parent or as
\* the child.
EXTENDS Integers, FiniteSets

CONSTANTS
    Thread,        \* threads of the program
    Free,          \* nobody holds GLOBAL_TRIM_LOCK
    Step, Period,  \* 100 ms, 300 ms
    Half,          \* total_elapsed is an integer of -Half..(Half - 1)
    EnableAfter,   \* ENABLE_AFTER
    Full,          \* 100 percent
    Configs,       \* configured relief percentages
    MaxForks       \* bound on the children

ASSUME ReliefAssumption ==
    /\ Step \in Nat \ {0} /\ Period \in Nat \ {0} /\ Half \in Nat \ {0}
    /\ EnableAfter \in Nat \ {0} /\ Full \in Nat /\ MaxForks \in Nat
    /\ Configs \subseteq [disable : Nat, enable : Nat]

VARIABLES
    limit,      \* BUDDY_DISABLE_PERCENTAGE and BUDDY_ENABLE_PERCENTAGE
    pressure,   \* of the system's memory
    guard,      \* TRIM_GUARD
    disabled,   \* DISABLE_BUDDY
    under,      \* UNDER_AFTER
    lock,       \* GLOBAL_TRIM_LOCK
    pc,         \* what a thread of the program is doing
    trimmer,    \* the trimmer threads of the process
    forks,      \* children so far
    lows,       \* low samples in a row
    torn        \* a child was forked out of the middle of relief_paths

vars == <<limit, pressure, guard, disabled, under, lock, pc, trimmer, forks, lows, torn>>

\* Trimmer threads there is room for in the model.
Id == 1..2
None == [pc |-> "none", elapsed |-> 0]
Least(a, b) == IF a < b THEN a ELSE b

\* The percentages as init and bootstrap store them.
Limits(c) ==
    LET d == Least(c.disable, Full)
    IN  [disable |-> d, enable |-> Least(c.enable, d)]

Init ==
    /\ limit \in {Limits(c) : c \in Configs}
    /\ pressure \in 0..Full
    /\ guard = FALSE /\ disabled = FALSE /\ under = 0 /\ lock = Free
    /\ pc = [t \in Thread |-> "run"]
    /\ trimmer = [i \in Id |-> None]
    /\ forks = 0 /\ lows = 0 /\ torn = FALSE

-------------------------------------------------------------------------------
\* maybe_start_trimmer, when enough memory is cached.

Started(t) ==
    /\ pc[t] = "run" /\ ~guard
    /\ pc' = [pc EXCEPT ![t] = "start"]
    /\ UNCHANGED <<guard, lock, trimmer, forks, torn>>

\* Mutant: the guard is stored, not exchanged.
ClaimStores(t) ==
    /\ pc[t] = "start"
    /\ guard' = TRUE
    /\ pc' = [pc EXCEPT ![t] = "spawn"]
    /\ UNCHANGED <<lock, trimmer, forks, torn>>

Claim(t) ==
    /\ pc[t] = "start"
    /\ guard' = TRUE
    /\ pc' = [pc EXCEPT ![t] = IF guard THEN "run" ELSE "spawn"]
    /\ UNCHANGED <<lock, trimmer, forks, torn>>

\* The new thread runs trimmer_main; when there is none the guard is given back.
Spawn(t) ==
    /\ pc[t] = "spawn"
    /\ pc' = [pc EXCEPT ![t] = "run"]
    /\ \/ \E i \in Id :
              /\ trimmer[i] = None /\ \A j \in Id : j < i => trimmer[j] # None
              /\ trimmer' = [trimmer EXCEPT ![i].pc = "sleep"]
              /\ UNCHANGED guard
       \/ guard' = FALSE /\ UNCHANGED trimmer
    /\ UNCHANGED <<lock, forks, torn>>

\* malloc_trim and rs_trim by the program: try_lock, and the guard's drop.
ManualTrim(t) ==
    /\ pc[t] = "run" /\ lock = Free
    /\ lock' = t /\ pc' = [pc EXCEPT ![t] = "trim"]
    /\ UNCHANGED <<guard, trimmer, forks, torn>>

ManualEnd(t) ==
    /\ pc[t] = "trim"
    /\ lock' = Free /\ pc' = [pc EXCEPT ![t] = "run"]
    /\ UNCHANGED <<guard, trimmer, forks, torn>>

\* fork_prepare waits for the lock.
ForkPrepare(t) ==
    /\ pc[t] = "run" /\ lock = Free
    /\ lock' = t /\ pc' = [pc EXCEPT ![t] = "fork"]
    /\ UNCHANGED <<guard, trimmer, forks, torn>>

\* fork_parent.
ForkParent(t) ==
    /\ pc[t] = "fork"
    /\ lock' = Free /\ pc' = [pc EXCEPT ![t] = "run"]
    /\ UNCHANGED <<guard, trimmer, forks, torn>>

\* The child: only the forking thread is left (threads it creates later take the
\* names of the others), and fork_child resets the locks and the guard.
ForkChild(t) ==
    /\ pc[t] = "fork" /\ forks < MaxForks
    /\ lock' = Free /\ guard' = FALSE
    /\ pc' = [u \in Thread |-> "run"]
    /\ trimmer' = [i \in Id |-> None]
    /\ torn' = (torn \/ \E i \in Id : trimmer[i].pc \in {"reset", "clear"})
    /\ forks' = forks + 1

-------------------------------------------------------------------------------
\* trimmer_main and relief_paths.

At(i, here) == trimmer[i].pc = here
Goto(i, there) == trimmer' = [trimmer EXCEPT ![i].pc = there]

\* total_elapsed wraps around like the i32 it is.
Wrapped(v) == ((v + Half) % (2 * Half)) - Half

\* The remainder of Rust has the sign of the dividend.
Due(v) == (IF v < 0 THEN -v ELSE v) % Period = 0

\* The sleep is over.
Wake(i) ==
    LET v == Wrapped(trimmer[i].elapsed + Step)
    IN  /\ At(i, "sleep")
        /\ trimmer' = [trimmer EXCEPT ![i] = [pc |-> IF Due(v) THEN "relief" ELSE "small", elapsed |-> v]]
        /\ UNCHANGED <<disabled, under, lock, lows>>

LowSample == pressure <= limit.enable

\* Low samples are counted as far as anybody looks.
Counted == lows' = IF LowSample THEN Least(lows + 1, EnableAfter) ELSE 0

\* Mutant: a sample between the limits does not start the count again.
SampleKeeps(i) ==
    /\ At(i, "relief") /\ Counted
    /\ \/ /\ pressure >= limit.disable /\ ~disabled
          /\ disabled' = TRUE /\ Goto(i, "reset") /\ UNCHANGED under
       \/ /\ disabled /\ LowSample
          /\ under' = under + 1 /\ UNCHANGED disabled
          /\ Goto(i, IF under + 1 >= EnableAfter THEN "enable" ELSE "small")
       \/ /\ ~(pressure >= limit.disable /\ ~disabled) /\ ~(disabled /\ LowSample)
          /\ UNCHANGED <<under, disabled>> /\ Goto(i, "small")
    /\ UNCHANGED lock


\* relief_paths up to its second store: at the upper limit the backend is
\* disabled; at the lower one a low sample is counted, and enough of them in a
\* row enable it; any other sample starts the count again.
Sample(i) ==
    /\ At(i, "relief") /\ Counted
    /\ \/ /\ pressure >= limit.disable /\ ~disabled
          /\ disabled' = TRUE /\ Goto(i, "reset") /\ UNCHANGED under
       \/ /\ disabled /\ LowSample
          /\ under' = under + 1 /\ UNCHANGED disabled
          /\ Goto(i, IF under + 1 >= EnableAfter THEN "enable" ELSE "small")
       \/ /\ ~(pressure >= limit.disable /\ ~disabled) /\ ~(disabled /\ LowSample)
          /\ under' = 0 /\ UNCHANGED disabled /\ Goto(i, "small")
    /\ UNCHANGED lock

\* UNDER_AFTER is reset after DISABLE_BUDDY was set; BUDDY_BACKEND.trim comes next.
ResetUnder(i) ==
    /\ At(i, "reset") /\ under' = 0 /\ Goto(i, "buddy")
    /\ UNCHANGED <<disabled, lock, lows>>

Enable(i) ==
    /\ At(i, "enable") /\ disabled' = FALSE /\ Goto(i, "clear")
    /\ UNCHANGED <<under, lock, lows>>

ClearUnder(i) ==
    /\ At(i, "clear") /\ under' = 0 /\ Goto(i, "small")
    /\ UNCHANGED <<disabled, lock, lows>>

\* The trims of one turn: BUDDY_BACKEND.trim(0) of relief_paths, then trim_small
\* and trim_old.  None of them waits for the lock.
Follow(here) == CASE here = "buddy" -> "small" [] here = "small" -> "old" [] here = "old" -> "sleep"

Trim(i) ==
    \E here \in {"buddy", "small", "old"} :
        /\ At(i, here) /\ lock # i
        /\ IF lock = Free THEN lock' = i /\ UNCHANGED trimmer
           ELSE UNCHANGED lock /\ Goto(i, Follow(here))
        /\ UNCHANGED <<disabled, under, lows>>

TrimEnd(i) ==
    \E here \in {"buddy", "small", "old"} :
        /\ At(i, here) /\ lock = i
        /\ lock' = Free /\ Goto(i, Follow(here))
        /\ UNCHANGED <<disabled, under, lows>>

\* Not enough time has passed since the last trim.
NoTrim(i) ==
    /\ At(i, "small") /\ lock # i /\ Goto(i, "sleep")
    /\ UNCHANGED <<disabled, under, lock, lows>>

TrimmerStep(i) ==
    /\ Wake(i) \/ Sample(i) \/ ResetUnder(i) \/ Enable(i) \/ ClearUnder(i) \/ Trim(i) \/ TrimEnd(i)
       \/ NoTrim(i)
    /\ UNCHANGED <<limit, pressure, guard, pc, forks, torn>>

ThreadStep(t) ==
    /\ Started(t) \/ Claim(t) \/ Spawn(t) \/ ManualTrim(t) \/ ManualEnd(t)
       \/ ForkPrepare(t) \/ ForkParent(t) \/ ForkChild(t)
    /\ UNCHANGED <<limit, pressure, disabled, under, lows>>

\* The system's memory pressure changes at any time.
PressureChanges ==
    /\ pressure' \in (0..Full) \ {pressure}
    /\ UNCHANGED <<limit, guard, disabled, under, lock, pc, trimmer, forks, lows, torn>>

Next == (\E i \in Id : TrimmerStep(i)) \/ (\E t \in Thread : ThreadStep(t)) \/ PressureChanges

\* The kernel runs the trimmer thread and ends its sleeps; it waits for no lock.
Spec == Init /\ [][Next]_vars /\ \A i \in Id : WF_vars(TrimmerStep(i))

-------------------------------------------------------------------------------
Alive == {i \in Id : trimmer[i] # None}

TypeOK ==
    /\ limit \in [disable : 0..Full, enable : 0..Full] /\ pressure \in 0..Full
    /\ guard \in BOOLEAN /\ disabled \in BOOLEAN /\ torn \in BOOLEAN
    /\ under \in 0..(EnableAfter + MaxForks) /\ lows \in 0..EnableAfter
    /\ lock \in Thread \cup Id \cup {Free}
    /\ pc \in [Thread -> {"run", "start", "spawn", "trim", "fork"}]
    /\ \A i \in Id : trimmer[i].elapsed \in (-Half)..(Half - 1)

\* A process has at most one trimmer, also when starts race, when a thread
\* cannot be created and after a fork; and while it has one, or one is being
\* created, the guard keeps others from starting one.  relief_paths updates
\* DISABLE_BUDDY and UNDER_AFTER in several steps and relies on being alone.
OneTrimmer ==
    /\ TypeOK
    /\ Cardinality(Alive) + Cardinality({t \in Thread : pc[t] = "spawn"}) <= 1
    /\ guard <=> (Alive # {} \/ \E t \in Thread : pc[t] = "spawn")

\* The buddy backend is enabled again only after ENABLE_AFTER low samples in a
\* row, across restarts of the trimmer in forked children, unless a child was
\* forked between the two stores of relief_paths, which leave the count torn.
Hysteresis == [][disabled /\ ~disabled' /\ ~torn => lows >= EnableAfter]_vars


===============================================================================
