----------------------------- MODULE PipeProofs -----------------------------
(***************************************************************************)
(* No wakeup of a pipe is lost, for any number of readers and writers, any *)
(* PIPESIZE and any width of the counters.                                 *)
(***************************************************************************)
EXTENDS Pipe, TLAPS

(* Who holds pi->lock.                                                     *)
LockOK == \A p \in Procs :
    /\ lock = p <=> pc[p] \in {"loop", "tosleep", "copy"}
    /\ pc[p] = "copy" => p \in Readers

(* A reader sleeps on an empty pipe, or one whose writer will wake it.     *)
ReaderOK(r) ==
    /\ pc[r] = "tosleep" => writeopen /\ Empty
    /\ pc[r] = "sleep" =>
         /\ writeopen
         /\ \/ Empty \/ abandoned
            \/ lock \in Writers /\ pc[lock] = "loop" /\ silent

(* A writer sleeps on a full pipe, or one whose reader will wake it; when  *)
(* it goes to sleep it has woken every reader.                             *)
WriterOK(w) ==
    /\ pc[w] = "tosleep" => readopen /\ Full /\ \A r \in Readers : pc[r] # "sleep"
    /\ pc[w] = "sleep" =>
         /\ readopen
         /\ Full \/ (lock \in Readers /\ pc[lock] = "copy")
         /\ \A r \in Readers : pc[r] # "sleep"

IInv ==
    /\ TypeOK /\ LockOK
    /\ \A r \in Readers : ReaderOK(r)
    /\ \A w \in Writers : WriterOK(w)
-----------------------------------------------------------------------------
LEMMA Sizes ==
    /\ Readers \cap Writers = {} /\ None \notin Readers \cup Writers
    /\ PIPESIZE \in Nat \ {0} /\ WRAP \in Nat /\ WRAP > PIPESIZE
    /\ Lengths \subseteq Nat
BY Zenon, PipeConstants

USE Sizes DEF Procs, counters, ends, call, history

(* x % WRAP for an x that the counters can reach.                          *)
LEMMA ModRange == ASSUME NEW x \in Nat PROVE x % WRAP \in 0 .. WRAP - 1
OBVIOUS

LEMMA NotBoth == ASSUME TypeOK PROVE ~(Empty /\ Full)
<1>1. nread \in 0 .. WRAP - 1
  BY Zenon DEF TypeOK
<1>2. nread + PIPESIZE < WRAP => (nread + PIPESIZE) % WRAP = nread + PIPESIZE
  BY <1>1
<1>3. nread + PIPESIZE >= WRAP => (nread + PIPESIZE) % WRAP = nread + PIPESIZE - WRAP
  BY <1>1
<1>4. QED
  BY <1>1, <1>2, <1>3 DEF Empty, Full

LEMMA StartPreserves ==
    ASSUME IInv, NEW p \in Procs, NEW k \in Lengths, start(p, k)
    PROVE  IInv'
<1> USE DEF start, Goto, Holding, Return, MayWrite, wakeup, Announced, TakeByte
<1>1. TypeOK /\ LockOK
  BY Zenon DEF IInv
<1>2. (\A r \in Readers : ReaderOK(r)) /\ (\A w \in Writers : WriterOK(w))
  BY Zenon DEF IInv
<1>3. TypeOK'
  BY Zenon, <1>1 DEF TypeOK
<1>4. LockOK'
  BY Zenon, <1>1 DEF TypeOK, LockOK
<1>5. ASSUME NEW r \in Readers PROVE ReaderOK(r)'
  BY Zenon, <1>1, <1>2, NotBoth DEF TypeOK, LockOK, ReaderOK, WriterOK, Empty
<1>6. ASSUME NEW w \in Writers PROVE WriterOK(w)'
  BY Zenon, <1>1, <1>2, NotBoth DEF TypeOK, LockOK, ReaderOK, WriterOK, Full
<1>7. QED
  BY Zenon, <1>3, <1>4, <1>5, <1>6 DEF IInv

LEMMA AcquirePreserves ==
    ASSUME IInv, NEW p \in Procs, acquire(p)
    PROVE  IInv'
<1> USE DEF acquire, Goto, Holding, Return, MayWrite, wakeup, Announced, TakeByte
<1>1. TypeOK /\ LockOK
  BY Zenon DEF IInv
<1>2. (\A r \in Readers : ReaderOK(r)) /\ (\A w \in Writers : WriterOK(w))
  BY Zenon DEF IInv
<1>3. TypeOK'
  BY Zenon, <1>1 DEF TypeOK
<1>4. LockOK'
  BY Zenon, <1>1 DEF TypeOK, LockOK
<1>5. ASSUME NEW r \in Readers PROVE ReaderOK(r)'
  BY Zenon, <1>1, <1>2, NotBoth DEF TypeOK, LockOK, ReaderOK, WriterOK, Empty
<1>6. ASSUME NEW w \in Writers PROVE WriterOK(w)'
  BY Zenon, <1>1, <1>2, NotBoth DEF TypeOK, LockOK, ReaderOK, WriterOK, Full
<1>7. QED
  BY Zenon, <1>3, <1>4, <1>5, <1>6 DEF IInv

LEMMA SleepPreserves ==
    ASSUME IInv, NEW p \in Procs, sleep(p)
    PROVE  IInv'
<1> USE DEF sleep, Goto, Holding, Return, MayWrite, wakeup, Announced, TakeByte
<1>1. TypeOK /\ LockOK
  BY Zenon DEF IInv
<1>2. (\A r \in Readers : ReaderOK(r)) /\ (\A w \in Writers : WriterOK(w))
  BY Zenon DEF IInv
<1>3. TypeOK'
  BY Zenon, <1>1 DEF TypeOK
<1>4. LockOK'
  BY Zenon, <1>1 DEF TypeOK, LockOK
<1>5. ASSUME NEW r \in Readers PROVE ReaderOK(r)'
  BY Zenon, <1>1, <1>2, NotBoth DEF TypeOK, LockOK, ReaderOK, WriterOK, Empty
<1>6. ASSUME NEW w \in Writers PROVE WriterOK(w)'
  BY Zenon, <1>1, <1>2, NotBoth DEF TypeOK, LockOK, ReaderOK, WriterOK, Full
<1>7. QED
  BY Zenon, <1>3, <1>4, <1>5, <1>6 DEF IInv

LEMMA WriteFailPreserves ==
    ASSUME IInv, NEW p \in Writers, write_fail(p)
    PROVE  IInv'
<1> USE DEF write_fail, Goto, Holding, Return, MayWrite, wakeup, Announced, TakeByte
<1>1. TypeOK /\ LockOK
  BY Zenon DEF IInv
<1>2. (\A r \in Readers : ReaderOK(r)) /\ (\A w \in Writers : WriterOK(w))
  BY Zenon DEF IInv
<1>3. TypeOK'
  BY Zenon, <1>1 DEF TypeOK
<1>4. LockOK'
  BY Zenon, <1>1 DEF TypeOK, LockOK
<1>5. ASSUME NEW r \in Readers PROVE ReaderOK(r)'
  BY Zenon, <1>1, <1>2, NotBoth DEF TypeOK, LockOK, ReaderOK, WriterOK, Empty
<1>6. ASSUME NEW w \in Writers PROVE WriterOK(w)'
  BY Zenon, <1>1, <1>2, NotBoth DEF TypeOK, LockOK, ReaderOK, WriterOK, Full
<1>7. QED
  BY Zenon, <1>3, <1>4, <1>5, <1>6 DEF IInv

LEMMA WriteFullPreserves ==
    ASSUME IInv, NEW p \in Writers, write_full(p)
    PROVE  IInv'
<1> USE DEF write_full, Goto, Holding, Return, MayWrite, wakeup, Announced, TakeByte
<1>1. TypeOK /\ LockOK
  BY Zenon DEF IInv
<1>2. (\A r \in Readers : ReaderOK(r)) /\ (\A w \in Writers : WriterOK(w))
  BY Zenon DEF IInv
<1>3. TypeOK'
  BY Zenon, <1>1 DEF TypeOK
<1>4. LockOK'
  BY Zenon, <1>1 DEF TypeOK, LockOK
<1>5. ASSUME NEW r \in Readers PROVE ReaderOK(r)'
  BY Zenon, <1>1, <1>2, NotBoth DEF TypeOK, LockOK, ReaderOK, WriterOK, Empty
<1>6. ASSUME NEW w \in Writers PROVE WriterOK(w)'
  BY Zenon, <1>1, <1>2, NotBoth DEF TypeOK, LockOK, ReaderOK, WriterOK, Full
<1>7. QED
  BY Zenon, <1>3, <1>4, <1>5, <1>6 DEF IInv

LEMMA WriteBytePreserves ==
    ASSUME IInv, NEW p \in Writers, NEW b \in Bytes, write_byte(p, b)
    PROVE  IInv'
<1> USE DEF write_byte, Goto, Holding, Return, MayWrite, wakeup, Announced, TakeByte
<1>1. TypeOK /\ LockOK
  BY Zenon DEF IInv
<1>2. (\A r \in Readers : ReaderOK(r)) /\ (\A w \in Writers : WriterOK(w))
  BY Zenon DEF IInv
<1>a. nwrite' \in 0 .. WRAP - 1
  <2>1. nwrite + 1 \in Nat
    BY <1>1 DEF TypeOK
  <2>2. QED
    BY Zenon, <2>1, ModRange
<1>3. TypeOK'
  BY <1>1, <1>a DEF TypeOK
<1>4. LockOK'
  BY Zenon, <1>1 DEF TypeOK, LockOK
<1>5. ASSUME NEW r \in Readers PROVE ReaderOK(r)'
  BY <1>1, <1>2, NotBoth DEF TypeOK, LockOK, ReaderOK, WriterOK, Empty
<1>6. ASSUME NEW w \in Writers PROVE WriterOK(w)'
  BY Zenon, <1>1, <1>2, NotBoth DEF TypeOK, LockOK, ReaderOK, WriterOK, Full
<1>7. QED
  BY Zenon, <1>3, <1>4, <1>5, <1>6 DEF IInv

LEMMA WriteDonePreserves ==
    ASSUME IInv, NEW p \in Writers, write_done(p)
    PROVE  IInv'
<1> USE DEF write_done, Goto, Holding, Return, MayWrite, wakeup, Announced, TakeByte
<1>1. TypeOK /\ LockOK
  BY Zenon DEF IInv
<1>2. (\A r \in Readers : ReaderOK(r)) /\ (\A w \in Writers : WriterOK(w))
  BY Zenon DEF IInv
<1>3. TypeOK'
  BY Zenon, <1>1 DEF TypeOK
<1>4. LockOK'
  BY Zenon, <1>1 DEF TypeOK, LockOK
<1>5. ASSUME NEW r \in Readers PROVE ReaderOK(r)'
  BY Zenon, <1>1, <1>2, NotBoth DEF TypeOK, LockOK, ReaderOK, WriterOK, Empty
<1>6. ASSUME NEW w \in Writers PROVE WriterOK(w)'
  BY Zenon, <1>1, <1>2, NotBoth DEF TypeOK, LockOK, ReaderOK, WriterOK, Full
<1>7. QED
  BY Zenon, <1>3, <1>4, <1>5, <1>6 DEF IInv

LEMMA ReadFailPreserves ==
    ASSUME IInv, NEW p \in Readers, read_fail(p)
    PROVE  IInv'
<1> USE DEF read_fail, Goto, Holding, Return, MayWrite, wakeup, Announced, TakeByte
<1>1. TypeOK /\ LockOK
  BY Zenon DEF IInv
<1>2. (\A r \in Readers : ReaderOK(r)) /\ (\A w \in Writers : WriterOK(w))
  BY Zenon DEF IInv
<1>3. TypeOK'
  BY Zenon, <1>1 DEF TypeOK
<1>4. LockOK'
  BY Zenon, <1>1 DEF TypeOK, LockOK
<1>5. ASSUME NEW r \in Readers PROVE ReaderOK(r)'
  BY Zenon, <1>1, <1>2, NotBoth DEF TypeOK, LockOK, ReaderOK, WriterOK, Empty
<1>6. ASSUME NEW w \in Writers PROVE WriterOK(w)'
  BY Zenon, <1>1, <1>2, NotBoth DEF TypeOK, LockOK, ReaderOK, WriterOK, Full
<1>7. QED
  BY Zenon, <1>3, <1>4, <1>5, <1>6 DEF IInv

LEMMA ReadEmptyPreserves ==
    ASSUME IInv, NEW p \in Readers, read_empty(p)
    PROVE  IInv'
<1> USE DEF read_empty, Goto, Holding, Return, MayWrite, wakeup, Announced, TakeByte
<1>1. TypeOK /\ LockOK
  BY Zenon DEF IInv
<1>2. (\A r \in Readers : ReaderOK(r)) /\ (\A w \in Writers : WriterOK(w))
  BY Zenon DEF IInv
<1>3. TypeOK'
  BY Zenon, <1>1 DEF TypeOK
<1>4. LockOK'
  BY Zenon, <1>1 DEF TypeOK, LockOK
<1>5. ASSUME NEW r \in Readers PROVE ReaderOK(r)'
  BY Zenon, <1>1, <1>2, NotBoth DEF TypeOK, LockOK, ReaderOK, WriterOK, Empty
<1>6. ASSUME NEW w \in Writers PROVE WriterOK(w)'
  BY Zenon, <1>1, <1>2, NotBoth DEF TypeOK, LockOK, ReaderOK, WriterOK, Full
<1>7. QED
  BY Zenon, <1>3, <1>4, <1>5, <1>6 DEF IInv

LEMMA ReadReadyPreserves ==
    ASSUME IInv, NEW p \in Readers, read_ready(p)
    PROVE  IInv'
<1> USE DEF read_ready, Goto, Holding, Return, MayWrite, wakeup, Announced, TakeByte
<1>1. TypeOK /\ LockOK
  BY Zenon DEF IInv
<1>2. (\A r \in Readers : ReaderOK(r)) /\ (\A w \in Writers : WriterOK(w))
  BY Zenon DEF IInv
<1>3. TypeOK'
  BY Zenon, <1>1 DEF TypeOK
<1>4. LockOK'
  BY Zenon, <1>1 DEF TypeOK, LockOK
<1>5. ASSUME NEW r \in Readers PROVE ReaderOK(r)'
  BY Zenon, <1>1, <1>2, NotBoth DEF TypeOK, LockOK, ReaderOK, WriterOK, Empty
<1>6. ASSUME NEW w \in Writers PROVE WriterOK(w)'
  BY Zenon, <1>1, <1>2, NotBoth DEF TypeOK, LockOK, ReaderOK, WriterOK, Full
<1>7. QED
  BY Zenon, <1>3, <1>4, <1>5, <1>6 DEF IInv

LEMMA ReadBytePreserves ==
    ASSUME IInv, NEW p \in Readers, read_byte(p)
    PROVE  IInv'
<1> USE DEF read_byte, Goto, Holding, Return, MayWrite, wakeup, Announced, TakeByte
<1>1. TypeOK /\ LockOK
  BY Zenon DEF IInv
<1>2. (\A r \in Readers : ReaderOK(r)) /\ (\A w \in Writers : WriterOK(w))
  BY Zenon DEF IInv
<1>a. nread' \in 0 .. WRAP - 1
  <2>1. nread + 1 \in Nat
    BY <1>1 DEF TypeOK
  <2>2. QED
    BY Zenon, <2>1, ModRange
<1>3. TypeOK'
  BY <1>1, <1>a DEF TypeOK
<1>4. LockOK'
  BY Zenon, <1>1 DEF TypeOK, LockOK
<1>5. ASSUME NEW r \in Readers PROVE ReaderOK(r)'
  BY Zenon, <1>1, <1>2, NotBoth DEF TypeOK, LockOK, ReaderOK, WriterOK, Empty
<1>6. ASSUME NEW w \in Writers PROVE WriterOK(w)'
  BY Zenon, <1>1, <1>2, NotBoth DEF TypeOK, LockOK, ReaderOK, WriterOK, Full
<1>7. QED
  BY Zenon, <1>3, <1>4, <1>5, <1>6 DEF IInv

LEMMA ReadFaultPreserves ==
    ASSUME IInv, NEW p \in Readers, read_fault(p)
    PROVE  IInv'
<1> USE DEF read_fault, Goto, Holding, Return, MayWrite, wakeup, Announced, TakeByte
<1>1. TypeOK /\ LockOK
  BY Zenon DEF IInv
<1>2. (\A r \in Readers : ReaderOK(r)) /\ (\A w \in Writers : WriterOK(w))
  BY Zenon DEF IInv
<1>a. nread' \in 0 .. WRAP - 1
  <2>1. nread + 1 \in Nat
    BY <1>1 DEF TypeOK
  <2>2. QED
    BY Zenon, <2>1, ModRange
<1>3. TypeOK'
  BY <1>1, <1>a DEF TypeOK
<1>4. LockOK'
  BY Zenon, <1>1 DEF TypeOK, LockOK
<1>5. ASSUME NEW r \in Readers PROVE ReaderOK(r)'
  BY Zenon, <1>1, <1>2, NotBoth DEF TypeOK, LockOK, ReaderOK, WriterOK, Empty
<1>6. ASSUME NEW w \in Writers PROVE WriterOK(w)'
  BY Zenon, <1>1, <1>2, NotBoth DEF TypeOK, LockOK, ReaderOK, WriterOK, Full
<1>7. QED
  BY Zenon, <1>3, <1>4, <1>5, <1>6 DEF IInv

LEMMA ReadDonePreserves ==
    ASSUME IInv, NEW p \in Readers, read_done(p)
    PROVE  IInv'
<1> USE DEF read_done, Goto, Holding, Return, MayWrite, wakeup, Announced, TakeByte
<1>1. TypeOK /\ LockOK
  BY Zenon DEF IInv
<1>2. (\A r \in Readers : ReaderOK(r)) /\ (\A w \in Writers : WriterOK(w))
  BY Zenon DEF IInv
<1>3. TypeOK'
  BY Zenon, <1>1 DEF TypeOK
<1>4. LockOK'
  BY Zenon, <1>1 DEF TypeOK, LockOK
<1>5. ASSUME NEW r \in Readers PROVE ReaderOK(r)'
  BY Zenon, <1>1, <1>2, NotBoth DEF TypeOK, LockOK, ReaderOK, WriterOK, Empty
<1>6. ASSUME NEW w \in Writers PROVE WriterOK(w)'
  BY Zenon, <1>1, <1>2, NotBoth DEF TypeOK, LockOK, ReaderOK, WriterOK, Full
<1>7. QED
  BY Zenon, <1>3, <1>4, <1>5, <1>6 DEF IInv

LEMMA PipecloseReadPreserves ==
    ASSUME IInv, pipeclose_read
    PROVE  IInv'
<1> USE DEF pipeclose_read, Goto, Holding, Return, MayWrite, wakeup, Announced, TakeByte
<1>1. TypeOK /\ LockOK
  BY Zenon DEF IInv
<1>2. (\A r \in Readers : ReaderOK(r)) /\ (\A w \in Writers : WriterOK(w))
  BY Zenon DEF IInv
<1>3. TypeOK'
  BY Zenon, <1>1 DEF TypeOK
<1>4. LockOK'
  BY Zenon, <1>1 DEF TypeOK, LockOK
<1>5. ASSUME NEW r \in Readers PROVE ReaderOK(r)'
  BY Zenon, <1>1, <1>2, NotBoth DEF TypeOK, LockOK, ReaderOK, WriterOK, Empty
<1>6. ASSUME NEW w \in Writers PROVE WriterOK(w)'
  BY Zenon, <1>1, <1>2, NotBoth DEF TypeOK, LockOK, ReaderOK, WriterOK, Full
<1>7. QED
  BY Zenon, <1>3, <1>4, <1>5, <1>6 DEF IInv

LEMMA PipecloseWritePreserves ==
    ASSUME IInv, pipeclose_write
    PROVE  IInv'
<1> USE DEF pipeclose_write, Goto, Holding, Return, MayWrite, wakeup, Announced, TakeByte
<1>1. TypeOK /\ LockOK
  BY Zenon DEF IInv
<1>2. (\A r \in Readers : ReaderOK(r)) /\ (\A w \in Writers : WriterOK(w))
  BY Zenon DEF IInv
<1>3. TypeOK'
  BY Zenon, <1>1 DEF TypeOK
<1>4. LockOK'
  BY Zenon, <1>1 DEF TypeOK, LockOK
<1>5. ASSUME NEW r \in Readers PROVE ReaderOK(r)'
  BY Zenon, <1>1, <1>2, NotBoth DEF TypeOK, LockOK, ReaderOK, WriterOK, Empty
<1>6. ASSUME NEW w \in Writers PROVE WriterOK(w)'
  BY Zenon, <1>1, <1>2, NotBoth DEF TypeOK, LockOK, ReaderOK, WriterOK, Full
<1>7. QED
  BY Zenon, <1>3, <1>4, <1>5, <1>6 DEF IInv

LEMMA PipeallocPreserves ==
    ASSUME IInv, pipealloc
    PROVE  IInv'
<1> USE DEF pipealloc, Goto, Holding, Return, MayWrite, wakeup, Announced, TakeByte
<1>1. TypeOK /\ LockOK
  BY Zenon DEF IInv
<1>2. (\A r \in Readers : ReaderOK(r)) /\ (\A w \in Writers : WriterOK(w))
  BY Zenon DEF IInv
<1>a. nread' \in 0 .. WRAP - 1 /\ nwrite' \in 0 .. WRAP - 1
  OBVIOUS
<1>3. TypeOK'
  BY Zenon, <1>1, <1>a DEF TypeOK
<1>4. LockOK'
  BY Zenon, <1>1 DEF TypeOK, LockOK
<1>5. ASSUME NEW r \in Readers PROVE ReaderOK(r)'
  BY Zenon, <1>1, <1>2, NotBoth DEF TypeOK, LockOK, ReaderOK, WriterOK, Empty
<1>6. ASSUME NEW w \in Writers PROVE WriterOK(w)'
  BY Zenon, <1>1, <1>2, NotBoth DEF TypeOK, LockOK, ReaderOK, WriterOK, Full
<1>7. QED
  BY Zenon, <1>3, <1>4, <1>5, <1>6 DEF IInv

LEMMA KillPreserves ==
    ASSUME IInv, NEW p \in Procs, kill(p)
    PROVE  IInv'
<1> USE DEF kill, Goto, Holding, Return, MayWrite, wakeup, Announced, TakeByte
<1>1. TypeOK /\ LockOK
  BY Zenon DEF IInv
<1>2. (\A r \in Readers : ReaderOK(r)) /\ (\A w \in Writers : WriterOK(w))
  BY Zenon DEF IInv
<1>3. TypeOK'
  BY Zenon, <1>1 DEF TypeOK
<1>4. LockOK'
  BY Zenon, <1>1 DEF TypeOK, LockOK
<1>5. ASSUME NEW r \in Readers PROVE ReaderOK(r)'
  BY Zenon, <1>1, <1>2, NotBoth DEF TypeOK, LockOK, ReaderOK, WriterOK, Empty
<1>6. ASSUME NEW w \in Writers PROVE WriterOK(w)'
  BY Zenon, <1>1, <1>2, NotBoth DEF TypeOK, LockOK, ReaderOK, WriterOK, Full
<1>7. QED
  BY Zenon, <1>3, <1>4, <1>5, <1>6 DEF IInv

LEMMA InitIInv == Init => IInv
<1> SUFFICES ASSUME Init PROVE IInv
  BY Zenon
<1>0. 0 \in 0 .. WRAP - 1
  OBVIOUS
<1>1. TypeOK
  <2>1. pc \in [Procs -> {"idle", "acquire", "loop", "tosleep", "sleep", "copy"}]
    BY Zenon DEF Init
  <2>2. n \in [Procs -> Nat] /\ i \in [Procs -> Nat] /\ killed \in [Procs -> BOOLEAN]
    BY Zenon DEF Init
  <2>3. QED
    BY Zenon, <1>0, <2>1, <2>2 DEF Init, TypeOK
<1>2. LockOK
  BY Zenon DEF Init, LockOK
<1>3. (\A r \in Readers : ReaderOK(r)) /\ (\A w \in Writers : WriterOK(w))
  BY Zenon DEF Init, ReaderOK, WriterOK
<1>4. QED
  BY Zenon, <1>1, <1>2, <1>3 DEF IInv

LEMMA NextIInv == IInv /\ [Next]_vars => IInv'
<1> SUFFICES ASSUME IInv, [Next]_vars PROVE IInv'
  BY Zenon
<1>1. CASE Next
  BY Zenon, <1>1, StartPreserves, AcquirePreserves, SleepPreserves, WriteFailPreserves,
     WriteFullPreserves, WriteBytePreserves, WriteDonePreserves,
     ReadFailPreserves, ReadEmptyPreserves, ReadReadyPreserves,
     ReadBytePreserves, ReadFaultPreserves, ReadDonePreserves,
     PipecloseReadPreserves, PipecloseWritePreserves, PipeallocPreserves,
     KillPreserves
  DEF Next, Step, pipewrite, piperead
<1>2. CASE UNCHANGED vars
  BY Zenon, <1>2 DEF vars, IInv, TypeOK, LockOK, ReaderOK, WriterOK, Empty, Full
<1>3. QED
  BY Zenon, <1>1, <1>2

(* The inductive invariant of the pipe.                                    *)
THEOREM Invariance == Spec => []IInv
BY InitIInv, NextIInv, PTL DEF Spec

(* The counters stay below WRAP and every field keeps its type.            *)
THEOREM TypeCorrect == Spec => []TypeOK
<1>1. IInv => TypeOK
  BY Zenon DEF IInv
<1>2. QED
  BY <1>1, Invariance, PTL

(* piperead() and pipeclose() never leave a writer asleep that has room or *)
(* no reader.                                                              *)
THEOREM WritersWoken == Spec => []WriterSleepsOnFull
<1>1. IInv => WriterSleepsOnFull
  BY Zenon DEF IInv, WriterOK, WriterSleepsOnFull
<1>2. QED
  BY <1>1, Invariance, PTL

(* pipewrite() and pipeclose() never leave a reader asleep that has data   *)
(* or no writer, except after a killed writer's partial write.             *)
THEOREM ReadersWoken == Spec => []ReaderSleepsOnEmpty
<1>1. IInv => ReaderSleepsOnEmpty
  BY Zenon DEF IInv, ReaderOK, ReaderSleepsOnEmpty
<1>2. QED
  BY <1>1, Invariance, PTL

(* Even then, a reader and a writer are never asleep together.             *)
THEOREM NoDeadlock == Spec => []NoMutualWait
<1>1. IInv => NoMutualWait
  BY Zenon DEF IInv, WriterOK, NoMutualWait
<1>2. QED
  BY <1>1, Invariance, PTL
=============================================================================
