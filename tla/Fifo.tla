-------------------------------- MODULE Fifo --------------------------------
(***************************************************************************)
(* What a pipe promises: a bounded queue of bytes, from the call of pipe() *)
(* until both ends are closed.  Bytes leave in the order in which they     *)
(* entered, none twice and none that was never there.                      *)
(***************************************************************************)
EXTENDS Integers, Sequences

CONSTANTS Bytes, Capacity
VARIABLES q,    \* the bytes in the pipe
          out,  \* the byte that left it last
          open  \* some process has an end of it

vars == <<q, out, open>>

Put(b) == open /\ Len(q) < Capacity /\ q' = Append(q, b) /\ UNCHANGED <<out, open>>
Get == open /\ q # <<>> /\ out' = Head(q) /\ q' = Tail(q) /\ UNCHANGED open
Close == open /\ open' = FALSE /\ UNCHANGED <<q, out>>
New == ~open /\ open' = TRUE /\ q' = <<>> /\ UNCHANGED out

Init == q = <<>> /\ out \in Bytes /\ open = TRUE
Next == (\E b \in Bytes : Put(b)) \/ Get \/ Close \/ New
Spec == Init /\ [][Next]_vars
=============================================================================
