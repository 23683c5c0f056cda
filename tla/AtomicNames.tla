---------------------------- MODULE AtomicNames ----------------------------
(***************************************************************************)
(* What native/src/atomic.rs promises of the names in a directory, be they *)
(* of files or of directories that are replaced as a whole: the value of a *)
(* name changes in one step, a power loss leaves the value of now or an    *)
(* earlier one that was whole as well, and never one from before a write   *)
(* that was reported as done.                                              *)
(***************************************************************************)
EXTENDS Naturals, Sequences

CONSTANTS
    Name,       \* the names
    Value       \* the values they can have; each name has itself at first

VARIABLES
    history,    \* by name: the values so far; the last one is there now
    base,       \* by name: a power loss leaves the value of this position or a later one
    told        \* by name: the values that were reported as written

vars == <<history, base, told>>

Init == /\ history = [n \in Name |-> <<n>>]
        /\ base = [n \in Name |-> 1]
        /\ told = [n \in Name |-> {}]

\* A new value takes the place of the one before.
Install(n) == /\ \E v \in Value : history' = [history EXCEPT ![n] = Append(@, v)]
              /\ UNCHANGED <<base, told>>

\* Older values are gone for good, and a writer whose value is the one that is
\* kept, or an older one, is told so.
Settle(n) == /\ \E k \in base[n]..Len(history[n]) : base' = [base EXCEPT ![n] = k]
             /\ \E i \in 1..base'[n] :
                   told' = [told EXCEPT ![n] = @ \cup {history[n][i]}]
             /\ UNCHANGED history

\* A power loss.
Lose == /\ \A n \in Name : base'[n] \in base[n]..Len(history[n])
        /\ base' = [n \in Name |-> base'[n]]
        /\ history' = [n \in Name |-> SubSeq(history[n], 1, base'[n])]
        /\ UNCHANGED told

Next == (\E n \in Name : Install(n) \/ Settle(n)) \/ Lose

Spec == Init /\ [][Next]_vars
=============================================================================
