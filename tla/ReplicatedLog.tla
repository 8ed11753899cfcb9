---------------------------- MODULE ReplicatedLog ----------------------------
(***************************************************************************)
(* What a recorder with a remote copy promises: tables that rows are only  *)
(* ever added to, a replica of each that holds rows of the table and never *)
(* loses one, and a count of the rows known to be there.                   *)
(***************************************************************************)
EXTENDS Integers, Sequences

CONSTANT Tables

VARIABLES
    log,        \* [Tables -> the rows recorded, in order]
    replica,    \* [Tables -> the rows of it in the replica]
    acked       \* [Tables -> how many of its rows need not be sent again]

logVars == <<log, replica, acked>>

Init ==
    /\ log = [t \in Tables |-> <<>>]
    /\ replica = [t \in Tables |-> {}]
    /\ acked = [t \in Tables |-> 0]

\* Rows join tables, of which none is changed or lost.
Record ==
    /\ \A t \in Tables :
          Len(log[t]) <= Len(log'[t]) /\ \A i \in 1 .. Len(log[t]) : log'[t][i] = log[t][i]
    /\ UNCHANGED <<replica, acked>>

\* Rows in a row are copied, those that were there already too.
Replicate(t) ==
    /\ \E m, n \in DOMAIN log[t] :
          replica' = [replica EXCEPT ![t] = @ \cup {log[t][i] : i \in m .. n}]
    /\ UNCHANGED <<log, acked>>

\* More rows are known to be in the replica.
Acknowledge(t) ==
    /\ \E n \in acked[t] .. Len(log[t]) :
          /\ \A i \in 1 .. n : log[t][i] \in replica[t]
          /\ acked' = [acked EXCEPT ![t] = n]
    /\ UNCHANGED <<log, replica>>

Next == Record \/ \E t \in Tables : Replicate(t) \/ Acknowledge(t)

Spec == Init /\ [][Next]_logVars
=============================================================================
