------------------------------- MODULE BdFifo -------------------------------
(***************************************************************************)
(* What a buffer descriptor ring promises to its two ends: a FIFO through  *)
(* the hardware.  The software posts buffers, the hardware completes them  *)
(* in the order they were posted, the software collects the completed ones *)
(* in that order; nothing is lost, invented or seen twice.  Once the FIFO  *)
(* is closed nothing is promised of what is left in it.                    *)
(***************************************************************************)
EXTENDS Naturals, Sequences

CONSTANTS
    Entries,    \* what can be posted
    Capacity    \* the largest number of entries between Post and Collect

VARIABLES
    posted,     \* posted, not yet completed by the hardware
    done,       \* completed, not yet collected by the software
    open        \* not shut down

fifoVars == <<posted, done, open>>

Init == posted = <<>> /\ done = <<>> /\ open = TRUE

Post(e) ==
    /\ Len(posted) + Len(done) < Capacity
    /\ posted' = Append(posted, e)
    /\ UNCHANGED <<done, open>>

Complete ==
    /\ posted # <<>>
    /\ done' = Append(done, Head(posted))
    /\ posted' = Tail(posted)
    /\ UNCHANGED open

Collect ==
    /\ done # <<>>
    /\ done' = Tail(done)
    /\ UNCHANGED <<posted, open>>

Close == open /\ open' = FALSE /\ UNCHANGED <<posted, done>>

Clear == ~open /\ ~open'

Next ==
    \/ open /\ ((\E e \in Entries : Post(e)) \/ Complete \/ Collect)
    \/ Close
    \/ Clear

Spec == Init /\ [][Next]_fifoVars
=============================================================================
