-------------------------- MODULE CoalescingQueue --------------------------
(***************************************************************************)
(* What the evaluation interface (pkg/evaluation/interface.go) promises to *)
(* the reconcilers that request evaluations of one kind of policy:         *)
(*   - every request is followed by an evaluation that starts after it;    *)
(*   - requests for a key that is already waiting coalesce: at most two    *)
(*     evaluations of a key are owed (one of the batch being worked on and *)
(*     one requested after that batch was taken);                          *)
(*   - an evaluation happens only if one is owed, it is the only one       *)
(*     running, and when it fails it is owed again.                        *)
(***************************************************************************)
EXTENDS Naturals

CONSTANT Items  \* what can be evaluated

VARIABLES owed,     \* owed[key]: evaluations of key still to start
          running   \* the key being evaluated, as a set of at most one

vars == <<owed, running>>

Init == /\ owed = [key \in Items |-> 0]
        /\ running = {}

\* A request makes an evaluation owed, or is absorbed by one already owed.
Request(key) == /\ \E n \in 1..2 : /\ n >= owed[key]
                                   /\ owed' = [owed EXCEPT ![key] = n]
                /\ UNCHANGED running

\* An evaluation starts.
Start(key) == /\ running = {}
              /\ owed[key] > 0
              /\ owed' = [owed EXCEPT ![key] = @ - 1]
              /\ running' = {key}

Succeed(key) == /\ running = {key}
                /\ running' = {}
                /\ UNCHANGED owed

\* A failed evaluation is owed again.
Fail(key) == /\ running = {key}
             /\ owed[key] < 2
             /\ owed' = [owed EXCEPT ![key] = @ + 1]
             /\ running' = {}

\* Two owed evaluations of the same key become one; never one becomes none.
Coalesce(key) == /\ owed[key] = 2
                 /\ owed' = [owed EXCEPT ![key] = 1]
                 /\ UNCHANGED running

Next == \E key \in Items : \/ Request(key)
                          \/ Start(key)
                          \/ Succeed(key)
                          \/ Fail(key)
                          \/ Coalesce(key)

Spec == Init /\ [][Next]_vars
============================================================================
