----------------------------- MODULE SleepLock -----------------------------
(***************************************************************************)
(* One sleep-lock (kernel/sleeplock.c) on top of everything it rests on:   *)
(* sleep(), wakeup(), yield(), sched() and scheduler() of kernel/proc.c,   *)
(* the spin-locks and the interrupt nesting of kernel/spinlock.c, and the  *)
(* hand-over of p->lock across swtch().                                    *)
(*                                                                         *)
(* Spin-locks belong to CPUs.  A CPU runs its scheduler thread or the      *)
(* kernel thread of one process; swtch() moves it from one to the other.   *)
(* Lock 0 is lk->lk, lock p is the lock of process p.                      *)
(***************************************************************************)
EXTENDS Integers, FiniteSets

CONSTANTS NPROC,  \* processes 1 .. NPROC, in table order
          CPUs,
          None    \* no CPU, no process

ASSUME SleepConstants ==
    NPROC \in Nat \ {0} /\ None \notin CPUs /\ None \notin 0 .. NPROC

Procs == 1 .. NPROC
LK == 0
Locks == 0 .. NPROC

VARIABLES
    owner,   \* spin-lock -> the CPU holding it
    noff,    \* CPU -> depth of push_off()
    intena,  \* CPU -> were interrupts on before the outermost push_off()?
    intr,    \* CPU -> are interrupts on?
    run,     \* CPU -> process whose kernel thread it executes, None: scheduler
    spc, sp, \* CPU -> where its scheduler is, and its loop variable p
    state, chan,   \* process -> p->state, and whether p->chan = lk
    pc, ret,       \* process -> where it is, and where its interrupt returns
    saved,         \* process -> sched()'s local intena
    wk,            \* process -> wakeup()'s loop variable
    locked, pid    \* lk->locked, lk->pid

cpu == <<noff, intena, intr>>
sched_ == <<run, spc, sp>>
slock == <<locked, pid>>
vars == <<owner, cpu, sched_, state, chan, pc, ret, saved, wk, slock>>

Init ==
    /\ owner = [l \in Locks |-> None]
    /\ noff = [c \in CPUs |-> 0]
    /\ intena = [c \in CPUs |-> FALSE]
    /\ intr = [c \in CPUs |-> TRUE]
    /\ run = [c \in CPUs |-> None]
    /\ spc = [c \in CPUs |-> "acquire"] /\ sp = [c \in CPUs |-> 1]
    /\ state = [p \in Procs |-> "RUNNABLE"] /\ chan = [p \in Procs |-> FALSE]
    /\ pc = [p \in Procs |-> "forkret"] /\ ret = [p \in Procs |-> "user"]
    /\ saved = [p \in Procs |-> FALSE]
    /\ wk = [p \in Procs |-> 1]
    /\ locked = FALSE /\ pid = None
-----------------------------------------------------------------------------
push_off(c) ==
    /\ noff' = [noff EXCEPT ![c] = @ + 1]
    /\ intena' = IF noff[c] = 0 THEN [intena EXCEPT ![c] = intr[c]] ELSE intena
    /\ intr' = [intr EXCEPT ![c] = FALSE]

pop_off(c) ==
    /\ noff' = [noff EXCEPT ![c] = @ - 1]
    /\ intr' = IF noff[c] = 1 /\ intena[c] THEN [intr EXCEPT ![c] = TRUE] ELSE intr
    /\ UNCHANGED intena

(* push_off() and the swap that wins are one action.  While the CPU spins  *)
(* between them it does nothing else, so only the interrupts it takes in   *)
(* the model until it wins differ; in the code they come before push_off().*)
acquire(c, l) ==
    /\ owner[l] = None
    /\ owner' = [owner EXCEPT ![l] = c]
    /\ push_off(c)

(* The mutant calls pop_off() twice.                                       *)
mut_pop_twice(c, l) ==
    /\ owner' = [owner EXCEPT ![l] = None]
    /\ noff' = [noff EXCEPT ![c] = @ - 2]
    /\ intr' = IF noff[c] = 1 /\ intena[c] THEN [intr EXCEPT ![c] = TRUE] ELSE intr
    /\ UNCHANGED intena
release(c, l) ==
    /\ owner' = [owner EXCEPT ![l] = None]
    /\ pop_off(c)
-----------------------------------------------------------------------------
(* scheduler() on CPU c.                                                   *)

sched_acquire(c) ==
    /\ run[c] = None /\ spc[c] = "acquire"
    /\ acquire(c, sp[c])
    /\ spc' = [spc EXCEPT ![c] = "test"]
    /\ UNCHANGED <<run, sp, state, chan, pc, ret, saved, wk, slock>>

(* release(&p->lock) and on to the next process; the outer loop starts     *)
(* with intr_on().  The mutant starts over after running a process.        *)
mut_start_over(c) ==
    /\ owner' = [owner EXCEPT ![sp[c]] = None]
    /\ noff' = [noff EXCEPT ![c] = @ - 1]
    /\ intr' = [intr EXCEPT ![c] = TRUE]
    /\ sp' = [sp EXCEPT ![c] = IF @ = NPROC \/ spc[c] = "back" THEN 1 ELSE @ + 1]
    /\ spc' = [spc EXCEPT ![c] = "acquire"]
    /\ UNCHANGED <<intena, run, state, chan, pc, ret, saved, wk, slock>>
sched_next(c) ==
    /\ owner' = [owner EXCEPT ![sp[c]] = None]
    /\ noff' = [noff EXCEPT ![c] = @ - 1]
    /\ intr' = [intr EXCEPT ![c] = @ \/ sp[c] = NPROC \/ (noff[c] = 1 /\ intena[c])]
    /\ sp' = [sp EXCEPT ![c] = IF @ = NPROC THEN 1 ELSE @ + 1]
    /\ spc' = [spc EXCEPT ![c] = "acquire"]
    /\ UNCHANGED <<intena, run, state, chan, pc, ret, saved, wk, slock>>

sched_switch(c) ==
    /\ run[c] = None /\ spc[c] = "test" /\ state[sp[c]] = "RUNNABLE"
    /\ state' = [state EXCEPT ![sp[c]] = "RUNNING"]
    /\ run' = [run EXCEPT ![c] = sp[c]]
    /\ spc' = [spc EXCEPT ![c] = "back"]
    /\ UNCHANGED <<owner, cpu, sp, chan, pc, ret, saved, wk, slock>>

sched_skip(c) ==
    /\ run[c] = None /\ spc[c] = "test" /\ state[sp[c]] # "RUNNABLE"
    /\ sched_next(c)

sched_back(c) ==
    /\ run[c] = None /\ spc[c] = "back"
    /\ sched_next(c)

scheduler(c) == sched_acquire(c) \/ sched_switch(c) \/ sched_skip(c) \/ sched_back(c)
-----------------------------------------------------------------------------
(* Kernel threads.  p runs on c; each step moves p's pc to the label "to". *)

At(c, p, label) == run[c] = p /\ pc[p] = label
Goto(p, label) == pc' = [pc EXCEPT ![p] = label]

(* sched(): the saved intena and the switch to c's scheduler thread.       *)
sched(c, p) ==
    /\ saved' = [saved EXCEPT ![p] = intena[c]]
    /\ run' = [run EXCEPT ![c] = None]

(* Back from swtch(): sched() restores intena on the CPU p runs on now,    *)
(* and the caller releases p->lock.  The mutant leaves the CPU's intena.   *)
mut_no_restore(c, p) == release(c, p)
resume_release(c, p) ==
    /\ owner' = [owner EXCEPT ![p] = None]
    /\ intena' = [intena EXCEPT ![c] = saved[p]]
    /\ noff' = [noff EXCEPT ![c] = @ - 1]
    /\ intr' = IF noff[c] = 1 /\ saved[p] THEN [intr EXCEPT ![c] = TRUE] ELSE intr

(* A new process starts in forkret(), which releases p->lock.  It never    *)
(* went through sched(), so c's intena is whatever the last thread left;   *)
(* usertrapret() enters user mode with interrupts on all the same.  That   *)
(* the first process ever to get here also calls fsinit() is left out.     *)
forkret(c, p) ==
    /\ At(c, p, "forkret")
    /\ owner' = [owner EXCEPT ![p] = None]
    /\ noff' = [noff EXCEPT ![c] = @ - 1]
    /\ intr' = [intr EXCEPT ![c] = TRUE]
    /\ UNCHANGED intena
    /\ Goto(p, "user")
    /\ UNCHANGED <<sched_, state, chan, ret, saved, wk, slock>>

(* A timer interrupt, possible only with interrupts on, calls yield().     *)
timer(c, p) ==
    /\ run[c] = p /\ pc[p] \in {"user", "crit", "reacquire"} /\ intr[c]
    /\ intr' = [intr EXCEPT ![c] = FALSE]
    /\ ret' = [ret EXCEPT ![p] = pc[p]]
    /\ Goto(p, "yield")
    /\ UNCHANGED <<owner, noff, intena, sched_, state, chan, saved, wk, slock>>

(* yield() changes p->state under p->lock; the mutant does so without it.  *)
mut_unlocked_yield(c, p) ==
    /\ At(c, p, "yield")
    /\ state' = [state EXCEPT ![p] = "RUNNABLE"]
    /\ Goto(p, "yield_sched")
    /\ UNCHANGED <<owner, cpu, sched_, chan, ret, saved, wk, slock>>
yield_acquire(c, p) ==
    /\ At(c, p, "yield")
    /\ acquire(c, p)
    /\ state' = [state EXCEPT ![p] = "RUNNABLE"]
    /\ Goto(p, "yield_sched")
    /\ UNCHANGED <<sched_, chan, ret, saved, wk, slock>>

yield_sched(c, p) ==
    /\ At(c, p, "yield_sched")
    /\ sched(c, p)
    /\ Goto(p, "yield_back")
    /\ UNCHANGED <<owner, cpu, spc, sp, state, chan, ret, wk, slock>>

yield_release(c, p) ==
    /\ At(c, p, "yield_back")
    /\ resume_release(c, p)
    /\ Goto(p, "yield_ret")
    /\ UNCHANGED <<sched_, state, chan, ret, saved, wk, slock>>

(* Return from the interrupt, which turns interrupts on again.             *)
yield_ret(c, p) ==
    /\ At(c, p, "yield_ret")
    /\ intr' = [intr EXCEPT ![c] = TRUE]
    /\ Goto(p, ret[p])
    /\ UNCHANGED <<owner, noff, intena, sched_, state, chan, ret, saved, wk, slock>>

yield(c, p) == yield_acquire(c, p) \/ yield_sched(c, p) \/ yield_release(c, p) \/ yield_ret(c, p)

(* acquiresleep(): acquire(&lk->lk), then the test of its loop.            *)
acquiresleep_acquire(c, p) ==
    /\ run[c] = p /\ pc[p] \in {"user", "reacquire"}
    /\ acquire(c, LK)
    /\ Goto(p, "test")
    /\ UNCHANGED <<sched_, state, chan, ret, saved, wk, slock>>

(* The lock is free; the mutant does not look.                             *)
mut_untested(c, p) ==
    /\ At(c, p, "test")
    /\ locked' = TRUE /\ pid' = p
    /\ release(c, LK)
    /\ Goto(p, "crit")
    /\ UNCHANGED <<sched_, state, chan, ret, saved, wk>>
acquiresleep_take(c, p) ==
    /\ At(c, p, "test") /\ ~locked
    /\ locked' = TRUE /\ pid' = p
    /\ release(c, LK)
    /\ Goto(p, "crit")
    /\ UNCHANGED <<sched_, state, chan, ret, saved, wk>>

(* sleep(lk, &lk->lk): take p->lock before giving lk->lk up.               *)
sleep_acquire(c, p) ==
    /\ At(c, p, "test") /\ locked
    /\ acquire(c, p)
    /\ Goto(p, "sleep_release")
    /\ UNCHANGED <<sched_, state, chan, ret, saved, wk, slock>>

(* The mutant goes to sleep with lk->lk held.                              *)
mut_keep_lk(c, p) ==
    /\ At(c, p, "sleep_release")
    /\ Goto(p, "sleep_set")
    /\ UNCHANGED <<owner, cpu, sched_, state, chan, ret, saved, wk, slock>>
sleep_release(c, p) ==
    /\ At(c, p, "sleep_release")
    /\ release(c, LK)
    /\ Goto(p, "sleep_set")
    /\ UNCHANGED <<sched_, state, chan, ret, saved, wk, slock>>

sleep_set(c, p) ==
    /\ At(c, p, "sleep_set")
    /\ chan' = [chan EXCEPT ![p] = TRUE]
    /\ state' = [state EXCEPT ![p] = "SLEEPING"]
    /\ Goto(p, "sleep_sched")
    /\ UNCHANGED <<owner, cpu, sched_, ret, saved, wk, slock>>

sleep_sched(c, p) ==
    /\ At(c, p, "sleep_sched")
    /\ sched(c, p)
    /\ Goto(p, "sleep_back")
    /\ UNCHANGED <<owner, cpu, spc, sp, state, chan, ret, wk, slock>>

sleep_back(c, p) ==
    /\ At(c, p, "sleep_back")
    /\ chan' = [chan EXCEPT ![p] = FALSE]
    /\ resume_release(c, p)
    /\ Goto(p, "reacquire")
    /\ UNCHANGED <<sched_, state, ret, saved, wk, slock>>

(* The mutant gives lk->lk up before it takes p->lock.                     *)
mut_swapped_locks(c, p) ==
    \/ /\ At(c, p, "test") /\ locked
       /\ release(c, LK)
       /\ Goto(p, "sleep_release")
       /\ UNCHANGED <<sched_, state, chan, ret, saved, wk, slock>>
    \/ /\ At(c, p, "sleep_release")
       /\ acquire(c, p)
       /\ Goto(p, "sleep_set")
       /\ UNCHANGED <<sched_, state, chan, ret, saved, wk, slock>>
    \/ sleep_set(c, p) \/ sleep_sched(c, p) \/ sleep_back(c, p)
sleep(c, p) ==
    \/ sleep_acquire(c, p) \/ sleep_release(c, p) \/ sleep_set(c, p)
    \/ sleep_sched(c, p) \/ sleep_back(c, p)

(* releasesleep(); the mutant's wakeup() passes process 1 over.            *)
mut_skip_first(c, p) ==
    /\ At(c, p, "crit")
    /\ acquire(c, LK)
    /\ locked' = FALSE /\ pid' = None
    /\ wk' = [wk EXCEPT ![p] = 2]
    /\ Goto(p, "wakeup")
    /\ UNCHANGED <<sched_, state, chan, ret, saved>>
releasesleep(c, p) ==
    /\ At(c, p, "crit")
    /\ acquire(c, LK)
    /\ locked' = FALSE /\ pid' = None
    /\ wk' = [wk EXCEPT ![p] = 1]
    /\ Goto(p, "wakeup")
    /\ UNCHANGED <<sched_, state, chan, ret, saved>>

(* One turn of wakeup()'s loop, a critical section of the other process's  *)
(* lock.                                                                   *)
wakeup(c, p) ==
    /\ At(c, p, "wakeup") /\ wk[p] <= NPROC
    /\ \/ wk[p] = p /\ UNCHANGED state
       \/ LET q == wk[p]
          IN  /\ q # p /\ owner[q] = None
              /\ state' = IF state[q] = "SLEEPING" /\ chan[q]
                          THEN [state EXCEPT ![q] = "RUNNABLE"] ELSE state
    /\ wk' = [wk EXCEPT ![p] = @ + 1]
    /\ UNCHANGED <<owner, cpu, sched_, chan, pc, ret, saved, slock>>

releasesleep_end(c, p) ==
    /\ At(c, p, "wakeup") /\ wk[p] > NPROC
    /\ release(c, LK)
    /\ wk' = [wk EXCEPT ![p] = 1]
    /\ Goto(p, "user")
    /\ UNCHANGED <<sched_, state, chan, ret, saved, slock>>
-----------------------------------------------------------------------------
Thread(c, p) ==
    \/ forkret(c, p) \/ timer(c, p) \/ yield(c, p)
    \/ acquiresleep_acquire(c, p) \/ acquiresleep_take(c, p) \/ sleep(c, p)
    \/ releasesleep(c, p) \/ wakeup(c, p) \/ releasesleep_end(c, p)

Next == \E c \in CPUs : scheduler(c) \/ \E p \in Procs : Thread(c, p)

Spec == Init /\ [][Next]_vars

(* A CPU that can keep stepping does (spinning in acquire() it gets the    *)
(* lock in the end), the timer keeps ticking while a thread runs, and a    *)
(* thread executes between two ticks.                                      *)
Fairness ==
    /\ \A c \in CPUs : SF_vars(scheduler(c) \/ \E p \in Procs : Thread(c, p))
    /\ \A p \in Procs : /\ SF_vars(\E c \in CPUs : releasesleep(c, p))
                         /\ SF_vars(\E c \in CPUs : timer(c, p))
FairSpec == Spec /\ Fairness
-----------------------------------------------------------------------------
Labels == {"forkret", "user", "test", "crit", "reacquire", "wakeup",
           "yield", "yield_sched", "yield_back", "yield_ret",
           "sleep_release", "sleep_set", "sleep_sched", "sleep_back"}

(* Type invariant: push_off() and pop_off() nest within two levels, and a  *)
(* channel, a lock and a saved label are always one of those the code has. *)
TypeOK ==
    /\ owner \in [Locks -> CPUs \cup {None}]
    /\ noff \in [CPUs -> 0 .. 2]
    /\ intena \in [CPUs -> BOOLEAN] /\ intr \in [CPUs -> BOOLEAN]
    /\ run \in [CPUs -> Procs \cup {None}]
    /\ spc \in [CPUs -> {"acquire", "test", "back"}] /\ sp \in [CPUs -> Procs]
    /\ state \in [Procs -> {"RUNNABLE", "RUNNING", "SLEEPING"}]
    /\ chan \in [Procs -> BOOLEAN]
    /\ pc \in [Procs -> Labels] /\ ret \in [Procs -> {"user", "crit", "reacquire"}]
    /\ saved \in [Procs -> BOOLEAN] /\ wk \in [Procs -> 1 .. NPROC + 1]
    /\ locked \in BOOLEAN /\ pid \in Procs \cup {None}

(* The thread of p is inside the critical section of the sleep-lock.       *)
InCrit(p) == pc[p] = "crit" \/ (pc[p] \in {"yield", "yield_sched", "yield_back", "yield_ret"}
                                 /\ ret[p] = "crit")

(* Between acquiresleep() and releasesleep() a process has the lock to     *)
(* itself, however often it is preempted, migrated or others are woken.    *)
MutualExclusion == \A p \in Procs : InCrit(p) <=> (locked /\ pid = p)

(* "Once wakeup lock is acquired, there will be no missed wakeups": a      *)
(* process that is asleep on the lock, or committed to sleeping on it, has *)
(* someone to wake it: the holder, or a wakeup() that has not reached it.  *)
NoLostWakeup ==
    \A p \in Procs :
        state[p] = "SLEEPING" \/ pc[p] \in {"sleep_release", "sleep_set"} =>
            \/ locked
            \/ \E q \in Procs \ {p} : pc[q] = "wakeup" /\ wk[q] <= p

(* No kernel stack is in use on two CPUs: a process runs on at most one    *)
(* CPU, and one that may be chosen (RUNNABLE, its lock free) on none.      *)
OneCpuPerStack ==
    /\ \A c, d \in CPUs : run[c] # None /\ run[c] = run[d] => c = d
    /\ \A p \in Procs : state[p] # "RUNNING" /\ owner[p] = None =>
                           \A c \in CPUs : run[c] # p

(* The locks p's thread acquires, and those it releases, in its next step. *)
Acquires(p, l) ==
    \/ pc[p] \in {"user", "crit", "reacquire"} /\ l = LK
    \/ pc[p] = "yield" /\ l = p
    \/ pc[p] = "test" /\ locked /\ l = p
    \/ pc[p] = "wakeup" /\ l = wk[p] /\ l # p
Releases(p, l) ==
    \/ pc[p] \in {"forkret", "yield_back", "sleep_back"} /\ l = p
    \/ pc[p] = "test" /\ ~locked /\ l = LK
    \/ pc[p] = "sleep_release" /\ l = LK
    \/ pc[p] = "wakeup" /\ wk[p] > NPROC /\ l = LK

(* The panics of spinlock.c and sched() are unreachable: no CPU acquires a *)
(* lock it holds or releases one it does not hold, pop_off() finds         *)
(* interrupts off and a positive depth, and sched() is entered with        *)
(* exactly p->lock held and p not RUNNING.                                 *)
LocksNeverPanic ==
    \A c \in CPUs :
        /\ run[c] = None /\ spc[c] = "acquire" => owner[sp[c]] # c
        /\ run[c] = None /\ spc[c] # "acquire" => owner[sp[c]] = c /\ noff[c] = 1 /\ ~intr[c]
        /\ \A p \in Procs : run[c] = p =>
             /\ \A l \in Locks : Acquires(p, l) => owner[l] # c
             /\ \A l \in Locks : Releases(p, l) => owner[l] = c /\ noff[c] >= 1 /\ ~intr[c]
             /\ pc[p] \in {"yield_sched", "sleep_sched"} =>
                  owner[p] = c /\ noff[c] = 1 /\ state[p] # "RUNNING" /\ ~intr[c]

(* intena belongs to the kernel thread, not to the CPU: a thread preempted *)
(* inside an interrupt handler resumes with interrupts off, and one that   *)
(* slept in a system call resumes with interrupts on, whatever the CPU it  *)
(* resumes on did in between.                                              *)
IntenaFollowsThread ==
    \A c \in CPUs, p \in Procs : run[c] = p =>
        /\ pc[p] \in {"yield", "yield_ret"} => ~intr[c]
        /\ pc[p] \in {"user", "crit", "reacquire"} => intr[c]

(* Every process asleep on the lock is woken.                              *)
SleepersWake == \A p \in Procs : state[p] = "SLEEPING" ~> state[p] # "SLEEPING"

(* Every runnable process gets a CPU.                                      *)
RunnableRuns == \A p \in Procs : state[p] = "RUNNABLE" ~> state[p] = "RUNNING"
=============================================================================
