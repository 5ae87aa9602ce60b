-------------------------------- MODULE Pipe --------------------------------
(***************************************************************************)
(* kernel/pipe.c: a pipe shared by several readers and writers, any of     *)
(* which may be killed at any time.                                        *)
(*                                                                         *)
(* pi->lock is explicit; sleep() releases it and wakeup() makes every      *)
(* sleeper on the channel compete for it again (module SleepLock).  nread  *)
(* and nwrite are uints: they count modulo WRAP, 2^32 in the code.         *)
(***************************************************************************)
EXTENDS Integers, Sequences, FiniteSets

CONSTANTS Readers, Writers,  \* the processes that have the ends open
          None,
          Bytes,
          PIPESIZE,
          WRAP,
          Lengths            \* the lengths of read() and write() calls

ASSUME PipeConstants ==
    /\ Readers \cap Writers = {} /\ None \notin Readers \cup Writers
    /\ PIPESIZE \in Nat \ {0} /\ WRAP \in Nat /\ Lengths \subseteq Nat
    /\ WRAP > PIPESIZE /\ WRAP % PIPESIZE = 0

Procs == Readers \cup Writers

VARIABLES
    data, nread, nwrite, readopen, writeopen, lock,   \* struct pipe
    pc,        \* process -> "idle", "acquire", "loop", "tosleep",
               \*            "sleep" or "copy"
    n, i,      \* process -> length of its call, and its local i
    killed,    \* process -> p->killed
    ch,        \* history: the byte that piperead() took last
    silent,    \* history: bytes were written since the last wakeup() of readers
    abandoned  \* history: and their writer has returned

counters == <<nread, nwrite>>
ends == <<readopen, writeopen>>
call == <<n, i>>
history == <<ch, silent, abandoned>>
vars == <<data, counters, ends, lock, pc, call, killed, history>>

(* The mutant finds the pipe full one byte too late.                       *)
mut_full_late == nwrite = (nread + PIPESIZE + 1) % WRAP
Empty == nread = nwrite
Full == nwrite = (nread + PIPESIZE) % WRAP

Init ==
    /\ data \in [0 .. PIPESIZE - 1 -> Bytes]
    /\ nread = 0 /\ nwrite = 0 /\ readopen = TRUE /\ writeopen = TRUE
    /\ lock = None
    /\ pc = [p \in Procs |-> "idle"]
    /\ n = [p \in Procs |-> 0] /\ i = [p \in Procs |-> 0]
    /\ killed = [p \in Procs |-> FALSE]
    /\ ch \in Bytes /\ silent = FALSE /\ abandoned = FALSE
-----------------------------------------------------------------------------
(* pc after wakeup() of the sleepers in S, with p moving to l.             *)
wakeup(S, p, l) == [q \in Procs |-> IF q = p THEN l
                                    ELSE IF q \in S /\ pc[q] = "sleep" THEN "acquire" ELSE pc[q]]
Goto(p, l) == pc' = [pc EXCEPT ![p] = l]
Holding(p, l) == lock = p /\ pc[p] = l

(* The readers have been told of every byte.                               *)
Announced == silent' = FALSE /\ abandoned' = FALSE

(* The call returns; its locals are gone.                                  *)
Return(p) == lock' = None /\ n' = [n EXCEPT ![p] = 0] /\ i' = [i EXCEPT ![p] = 0]

(* A call on an open end, of a process that has not been killed.           *)
start(p, k) ==
    /\ pc[p] = "idle" /\ ~killed[p]
    /\ p \in Readers => readopen
    /\ p \in Writers => writeopen
    /\ n' = [n EXCEPT ![p] = k] /\ UNCHANGED i
    /\ Goto(p, "acquire")
    /\ UNCHANGED <<data, counters, ends, lock, killed, history>>

acquire(p) ==
    /\ pc[p] = "acquire" /\ lock = None
    /\ lock' = p
    /\ Goto(p, "loop")
    /\ UNCHANGED <<data, counters, ends, call, killed, history>>

(* sleep(chan, &pi->lock), after the test of p->killed.                    *)
sleep(p) ==
    /\ Holding(p, "tosleep")
    /\ lock' = None /\ Goto(p, "sleep")
    /\ UNCHANGED <<data, counters, ends, call, killed, history>>
-----------------------------------------------------------------------------
(* pipewrite().                                                            *)

write_fail(p) ==
    /\ Holding(p, "loop") /\ i[p] < n[p]
    /\ ~readopen \/ killed[p]
    /\ Return(p) /\ Goto(p, "idle")
    /\ abandoned' = (abandoned \/ silent)
    /\ UNCHANGED <<data, counters, ends, killed, ch, silent>>

MayWrite(p) == Holding(p, "loop") /\ i[p] < n[p] /\ readopen /\ ~killed[p]

(* wakeup(&pi->nread) and on to sleep(); the mutant does not wake.         *)
mut_full_no_wakeup(p) ==
    /\ MayWrite(p) /\ Full
    /\ Goto(p, "tosleep")
    /\ UNCHANGED <<data, counters, ends, lock, call, killed, history>>
write_full(p) ==
    /\ MayWrite(p) /\ Full
    /\ pc' = wakeup(Readers, p, "tosleep") /\ Announced
    /\ UNCHANGED <<data, counters, ends, lock, call, killed, ch>>

(* The mutant's counter does not wrap.                                     *)
mut_no_wrap(p, b) ==
    /\ MayWrite(p) /\ ~Full
    /\ data' = [data EXCEPT ![nwrite % PIPESIZE] = b]
    /\ nwrite' = nwrite + 1
    /\ i' = [i EXCEPT ![p] = @ + 1]
    /\ silent' = TRUE
    /\ UNCHANGED <<nread, ends, lock, pc, n, killed, ch, abandoned>>
write_byte(p, b) ==
    /\ MayWrite(p) /\ ~Full
    /\ data' = [data EXCEPT ![nwrite % PIPESIZE] = b]
    /\ nwrite' = (nwrite + 1) % WRAP
    /\ i' = [i EXCEPT ![p] = @ + 1]
    /\ silent' = TRUE
    /\ UNCHANGED <<nread, ends, lock, pc, n, killed, ch, abandoned>>

(* All written, or copyin() fails.  The mutant does not wake the readers.  *)
mut_done_no_wakeup(p) ==
    /\ Holding(p, "loop") /\ (i[p] = n[p] \/ (MayWrite(p) /\ ~Full))
    /\ Return(p) /\ Goto(p, "idle")
    /\ UNCHANGED <<data, counters, ends, killed, history>>
write_done(p) ==
    /\ Holding(p, "loop") /\ (i[p] = n[p] \/ (MayWrite(p) /\ ~Full))
    /\ Return(p)
    /\ pc' = wakeup(Readers, p, "idle") /\ Announced
    /\ UNCHANGED <<data, counters, ends, killed, ch>>

pipewrite(p) ==
    \/ write_fail(p) \/ write_full(p) \/ write_done(p)
    \/ \E b \in Bytes : write_byte(p, b)
-----------------------------------------------------------------------------
(* piperead().                                                             *)

read_fail(p) ==
    /\ Holding(p, "loop") /\ Empty /\ writeopen /\ killed[p]
    /\ Return(p) /\ Goto(p, "idle")
    /\ UNCHANGED <<data, counters, ends, killed, history>>

read_empty(p) ==
    /\ Holding(p, "loop") /\ Empty /\ writeopen /\ ~killed[p]
    /\ Goto(p, "tosleep")
    /\ UNCHANGED <<data, counters, ends, lock, call, killed, history>>

read_ready(p) ==
    /\ Holding(p, "loop") /\ ~(Empty /\ writeopen)
    /\ Goto(p, "copy")
    /\ UNCHANGED <<data, counters, ends, lock, call, killed, history>>

(* ch = pi->data[pi->nread++ % PIPESIZE].                                  *)
TakeByte == nread' = (nread + 1) % WRAP /\ ch' = data[nread % PIPESIZE]

read_byte(p) ==
    /\ Holding(p, "copy") /\ i[p] < n[p] /\ ~Empty
    /\ TakeByte
    /\ i' = [i EXCEPT ![p] = @ + 1]
    /\ UNCHANGED <<data, nwrite, ends, lock, pc, n, killed, silent, abandoned>>

(* copyout() fails: the byte is gone from the pipe all the same.           *)
read_fault(p) ==
    /\ Holding(p, "copy") /\ i[p] < n[p] /\ ~Empty
    /\ TakeByte
    /\ Return(p)
    /\ pc' = wakeup(Writers, p, "idle")
    /\ UNCHANGED <<data, nwrite, ends, killed, silent, abandoned>>

(* wakeup(&pi->nwrite); the mutant forgets it.                             *)
mut_read_no_wakeup(p) ==
    /\ Holding(p, "copy") /\ (i[p] = n[p] \/ Empty)
    /\ Return(p) /\ Goto(p, "idle")
    /\ UNCHANGED <<data, counters, ends, killed, history>>
read_done(p) ==
    /\ Holding(p, "copy") /\ (i[p] = n[p] \/ Empty)
    /\ Return(p)
    /\ pc' = wakeup(Writers, p, "idle")
    /\ UNCHANGED <<data, counters, ends, killed, history>>

piperead(p) ==
    \/ read_fail(p) \/ read_empty(p) \/ read_ready(p)
    \/ read_byte(p) \/ read_fault(p) \/ read_done(p)
-----------------------------------------------------------------------------
(* pipeclose(), when the last descriptor of an end goes: nobody is inside  *)
(* a call on that end.  Closing the second end frees the pipe.             *)
(* The mutant closes the read end without a wakeup().                      *)
mut_close_no_wakeup ==
    /\ readopen /\ lock = None
    /\ \A r \in Readers : pc[r] = "idle"
    /\ readopen' = FALSE
    /\ UNCHANGED <<data, counters, writeopen, lock, pc, call, killed, history>>
pipeclose_read ==
    /\ readopen /\ lock = None
    /\ \A r \in Readers : pc[r] = "idle"
    /\ readopen' = FALSE
    /\ pc' = wakeup(Writers, None, "idle")
    /\ UNCHANGED <<data, counters, writeopen, lock, call, killed, history>>

pipeclose_write ==
    /\ writeopen /\ lock = None
    /\ \A w \in Writers : pc[w] = "idle"
    /\ writeopen' = FALSE
    /\ pc' = wakeup(Readers, None, "idle") /\ Announced
    /\ UNCHANGED <<data, counters, readopen, lock, call, killed, ch>>

(* A new pipe in the freed memory.                                         *)
pipealloc ==
    /\ ~readopen /\ ~writeopen
    /\ \A p \in Procs : pc[p] = "idle"
    /\ readopen' = TRUE /\ writeopen' = TRUE /\ nread' = 0 /\ nwrite' = 0
    /\ Announced
    /\ UNCHANGED <<data, lock, pc, call, killed, ch>>

(* kill() from anywhere; it wakes a sleeper.                               *)
kill(p) ==
    /\ ~killed[p]
    /\ killed' = [killed EXCEPT ![p] = TRUE]
    /\ pc' = IF pc[p] = "sleep" THEN [pc EXCEPT ![p] = "acquire"] ELSE pc
    /\ UNCHANGED <<data, counters, ends, lock, call, history>>
-----------------------------------------------------------------------------
Step(p) == acquire(p) \/ sleep(p) \/ (p \in Writers /\ pipewrite(p)) \/ (p \in Readers /\ piperead(p))

Next ==
    \/ \E p \in Procs : Step(p) \/ kill(p) \/ \E k \in Lengths : start(p, k)
    \/ pipeclose_read \/ pipeclose_write \/ pipealloc

Spec == Init /\ [][Next]_vars

(* A process inside a call runs on and gets pi->lock in the end.           *)
Fairness == \A p \in Procs : SF_vars(Step(p))
FairSpec == Spec /\ Fairness
-----------------------------------------------------------------------------
(* Type invariant: nread and nwrite stay uints through any wraparound, and *)
(* index a slot of data[].                                                 *)
TypeOK ==
    /\ data \in [0 .. PIPESIZE - 1 -> Bytes]
    /\ nread \in 0 .. WRAP - 1 /\ nwrite \in 0 .. WRAP - 1
    /\ readopen \in BOOLEAN /\ writeopen \in BOOLEAN
    /\ ch \in Bytes /\ silent \in BOOLEAN /\ abandoned \in BOOLEAN
    /\ lock \in Procs \cup {None}
    /\ pc \in [Procs -> {"idle", "acquire", "loop", "tosleep", "sleep", "copy"}]
    /\ n \in [Procs -> Nat] /\ i \in [Procs -> Nat]
    /\ killed \in [Procs -> BOOLEAN]

(* The circular buffer, read from nread on.                                *)
Count == (nwrite - nread) % WRAP
Contents == [k \in 1 .. Count |-> data[(nread + k - 1) % PIPESIZE]]

(* The buffer with its wrapping counters is a queue of at most PIPESIZE    *)
(* bytes, whoever reads and writes it and whoever is killed meanwhile: a   *)
(* reader takes the oldest byte, once.                                     *)
F == INSTANCE Fifo WITH q <- Contents, out <- ch, open <- readopen \/ writeopen,
                        Capacity <- PIPESIZE
IsFifo == F!Spec

(* No lost wakeup of writers: with pi->lock free, a writer sleeps only on  *)
(* a full pipe that somebody still reads.                                  *)
WriterSleepsOnFull ==
    lock = None => \A w \in Writers : pc[w] = "sleep" => Full /\ readopen

(* No lost wakeup of readers: with pi->lock free, a reader sleeps only on  *)
(* an empty pipe that somebody still writes, unless a killed writer left   *)
(* bytes that no wakeup() has told the readers of.                         *)
ReaderSleepsOnEmpty ==
    lock = None => \A r \in Readers : pc[r] = "sleep" => writeopen /\ (Empty \/ abandoned)

(* The same without the exception: "pipe-empty" is what piperead() waits   *)
(* for.                                                                    *)
ReaderNeverSleepsOnData ==
    lock = None => \A r \in Readers : pc[r] = "sleep" => writeopen /\ Empty

(* Readers and writers never wait for each other.                          *)
NoMutualWait ==
    lock = None => ~ \E r \in Readers, w \in Writers : pc[r] = "sleep" /\ pc[w] = "sleep"
(* Closing an end ends every call on the other: readers see the end of the *)
(* file, writers an error, and nobody is left waiting.                     *)
CloseEndsCalls ==
    /\ \A w \in Writers : ~readopen /\ pc[w] # "idle" ~> pc[w] = "idle"
    /\ \A r \in Readers : ~writeopen /\ pc[r] # "idle" ~> pc[r] = "idle"
=============================================================================
