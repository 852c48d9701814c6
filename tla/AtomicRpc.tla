----------------------------- MODULE AtomicRpc ------------------------------
(***************************************************************************)
(* What a caller of the SAI server may rely on, with no connection, buffer *)
(* or server in sight.  A call is <<c, n>>, the n-th one of client c.      *)
(*                                                                         *)
(*   - a call runs at most once, and the calls of a client run in the      *)
(*     order in which they were made, even when the client gave one up;    *)
(*   - a call that returns has run;                                        *)
(*   - a call that raises is settled: it ran, or it never will.            *)
(***************************************************************************)
EXTENDS Naturals

CONSTANT Clients

VARIABLES
    count, \* the number of calls each client has made
    open,  \* the calls whose callers are waiting
    due,   \* the calls that may still run
    ran,   \* the calls that ran
    returned, raised \* the calls that ended one way or the other for their callers

vars == <<count, open, due, ran, returned, raised>>

Init ==
    /\ count = [c \in Clients |-> 0]
    /\ open = {}
    /\ due = {}
    /\ ran = {}
    /\ returned = {}
    /\ raised = {}

\* A client makes a call.
Invoke(c) ==
    /\ \A i \in open : i[1] # c
    /\ count' = [count EXCEPT ![c] = @ + 1]
    /\ open' = open \cup {<<c, count[c] + 1>>}
    /\ due' = due \cup {<<c, count[c] + 1>>}
    /\ UNCHANGED <<ran, returned, raised>>

\* A call that fails before anything is sent: it never becomes due.
Misfire(c) ==
    /\ \A i \in open : i[1] # c
    /\ count' = [count EXCEPT ![c] = @ + 1]
    /\ raised' = raised \cup {<<c, count[c] + 1>>}
    /\ UNCHANGED <<open, due, ran, returned>>

\* The handler runs the oldest call of a client that is due.
Run(i) ==
    /\ i \in due
    /\ \A j \in due : j[1] = i[1] => i[2] <= j[2]
    /\ due' = due \ {i}
    /\ ran' = ran \cup {i}
    /\ UNCHANGED <<count, open, returned, raised>>

\* The server turns a call away.
Refuse(i) ==
    /\ i \in due
    /\ due' = due \ {i}
    /\ UNCHANGED <<count, open, ran, returned, raised>>

Return(i) ==
    /\ i \in open \cap ran
    /\ open' = open \ {i}
    /\ returned' = returned \cup {i}
    /\ UNCHANGED <<count, due, ran, raised>>

Raise(i) ==
    /\ i \in open \ due
    /\ open' = open \ {i}
    /\ raised' = raised \cup {i}
    /\ UNCHANGED <<count, due, ran, returned>>

\* The caller is interrupted and learns nothing: the call may still run.
Abandon(i) ==
    /\ i \in open
    /\ open' = open \ {i}
    /\ UNCHANGED <<count, due, ran, returned, raised>>

Next ==
    \/ \E c \in Clients : Invoke(c) \/ Misfire(c)
    \/ \E i \in due : Run(i) \/ Refuse(i)
    \/ \E i \in open : Return(i) \/ Raise(i) \/ Abandon(i)

Spec == Init /\ [][Next]_vars

=============================================================================
