-------------------------- MODULE InterpreterLease --------------------------
(***************************************************************************)
(* What the interpreter pool promises: an interpreter is lent to one user   *)
(* at a time, passes from one user to another through the pool only, and a  *)
(* user gets it without the audio of the previous one in its buffers.       *)
(***************************************************************************)
CONSTANTS Ids, Users,
    Pooled      \* stands for the pool, which is not a user

VARIABLES
    lessees,    \* lessees[n]: who refers to interpreter n; nobody: no such object
    soiled      \* the interpreters whose buffers hold somebody's audio

Clean(n) == n \notin soiled'

Create(n) ==
    /\ lessees[n] = {}
    /\ \E o \in Users \cup {Pooled} : lessees'[n] = {o}
    /\ Clean(n)

Lend(n) ==
    /\ lessees[n] = {Pooled}
    /\ \E u \in Users : lessees'[n] = {u}
    /\ Clean(n)

Use(n) ==
    /\ \E u \in Users : lessees[n] = {u}
    /\ lessees'[n] = lessees[n]

Return(n) ==
    /\ \E u \in Users : lessees[n] = {u}
    /\ lessees'[n] = {Pooled}

Drop(n) ==
    /\ lessees'[n] = {}
    /\ Clean(n)

Keep(n) ==
    /\ lessees'[n] = lessees[n]
    /\ n \in soiled' <=> n \in soiled

Init ==
    /\ lessees = [n \in Ids |-> {}]
    /\ soiled = {}

Next ==
    /\ DOMAIN lessees' = Ids /\ soiled' \subseteq Ids
    /\ \A n \in Ids : Create(n) \/ Lend(n) \/ Use(n) \/ Return(n) \/ Drop(n) \/ Keep(n)

Spec == Init /\ [][Next]_<<lessees, soiled>>

=============================================================================
