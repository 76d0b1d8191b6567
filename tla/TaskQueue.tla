----------------------------- MODULE TaskQueue -----------------------------
(***************************************************************************)
(* What a page may expect of its timers, whatever runs them: a task gets   *)
(* the next number, runs at most once and after every task that was        *)
(* created before it, or is cancelled and never runs.                      *)
(***************************************************************************)
EXTENDS Naturals

VARIABLES
    created, \* numbers handed out, some to no task at all
    waiting, \* the tasks that may still run
    last     \* the task that ran last

tasks == <<created, waiting, last>>

Init == created = 0 /\ waiting = {} /\ last = 0

Create ==
    /\ created' = created + 1
    /\ waiting' \in {waiting, waiting \cup {created'}}
    /\ UNCHANGED last

Cancel ==
    /\ \E t \in waiting : waiting' = waiting \ {t}
    /\ UNCHANGED <<created, last>>

Run ==
    /\ \E t \in waiting :
           /\ \A other \in waiting : t <= other
           /\ waiting' = waiting \ {t} /\ last' = t
    /\ UNCHANGED created

\* A new page knows nothing of the tasks of the old one.
Reset == created' = 0 /\ waiting' = {} /\ last' = 0

Next == Create \/ Cancel \/ Run \/ Reset

Spec == Init /\ [][Next]_tasks
=============================================================================
