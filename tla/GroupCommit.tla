---------------------------- MODULE GroupCommit ----------------------------
(***************************************************************************)
(* What the logging layer promises to the file system (the comment that    *)
(* opens kernel/log.c): system calls run concurrently over one view of the *)
(* disk blocks, and what survives a crash is the view as it stood at some  *)
(* earlier moment when no system call was active.                          *)
(***************************************************************************)
CONSTANTS Procs,    \* processes making file-system calls
          Blocks,   \* home block numbers
          Data,     \* contents of a block
          InitData  \* contents of every block in the image mkfs makes

VARIABLES mem,      \* [Blocks -> Data], what bread() returns
          durable,  \* [Blocks -> Data], what a restart would recover
          active    \* processes between begin_op() and end_op()

vars == <<mem, durable, active>>

Init == /\ mem = [b \in Blocks |-> InitData]
        /\ durable = mem
        /\ active = {}

Begin(p) == /\ p \notin active
            /\ active' = active \cup {p}
            /\ UNCHANGED <<mem, durable>>

Write(p, b, d) == /\ p \in active
                  /\ mem' = [mem EXCEPT ![b] = d]
                  /\ UNCHANGED <<durable, active>>

End(p) == /\ p \in active
          /\ active' = active \ {p}
          /\ UNCHANGED <<mem, durable>>

(* All the updates made so far become durable in one step, and only when   *)
(* no call is half-way.                                                    *)
Commit == /\ active = {}
          /\ durable' = mem
          /\ UNCHANGED <<mem, active>>

Crash == /\ mem' = durable
         /\ active' = {}
         /\ UNCHANGED durable

Next == \/ \E p \in Procs : \/ Begin(p) \/ End(p)
                            \/ \E b \in Blocks, d \in Data : Write(p, b, d)
        \/ Commit
        \/ Crash

Spec == Init /\ [][Next]_vars
=============================================================================
