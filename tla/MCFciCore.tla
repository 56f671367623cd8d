------------------------------ MODULE MCFciCore ------------------------------
EXTENDS FciCore

CONSTANTS p1, p2, s1, s2

MCSlots == 1 .. 2

\* Four requests, or three among a report of any thread and a fault
MCBudgets == {[requests |-> 4, reports |-> 0, faults |-> 0],
              [requests |-> 3, reports |-> 1, faults |-> 1]}

\* Processes differ by what they do only, and so do the sockets of a process.
Symmetry == Permutations(Procs) \cup Permutations(Sockets)
=============================================================================
