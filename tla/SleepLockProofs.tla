-------------------------- MODULE SleepLockProofs --------------------------
(***************************************************************************)
(* The safety of the sleep-lock for any number of processes and CPUs.      *)
(***************************************************************************)
EXTENDS SleepLock, TLAPS

(* The spin-locks a kernel thread holds, and how many, by where it is.     *)
Holds(p, l) ==
    \/ l = p /\ pc[p] \in {"forkret", "yield_sched", "yield_back", "sleep_release",
                           "sleep_set", "sleep_sched", "sleep_back"}
    \/ l = LK /\ pc[p] \in {"test", "wakeup", "sleep_release"}
Depth(p) == IF pc[p] \in {"user", "crit", "reacquire", "yield", "yield_ret"} THEN 0
            ELSE IF pc[p] = "sleep_release" THEN 2 ELSE 1

(* A CPU in its scheduler thread holds the lock of the process it looks at.*)
SchedulerOK(c) ==
    run[c] = None =>
        /\ spc[c] = "acquire" => noff[c] = 0 /\ \A l \in Locks : owner[l] # c
        /\ spc[c] # "acquire" => /\ noff[c] = 1 /\ ~intr[c]
                                 /\ \A l \in Locks : owner[l] = c <=> l = sp[c]

(* A CPU running p has p's locks, depth and interrupt state.               *)
ThreadOK(c) ==
    \A p \in Procs : run[c] = p =>
        /\ spc[c] = "back" /\ sp[c] = p
        /\ \A l \in Locks : owner[l] = c <=> Holds(p, l)
        /\ noff[c] = Depth(p)
        /\ intr[c] <=> pc[p] \in {"user", "crit", "reacquire"}
        /\ pc[p] \in {"test", "wakeup", "sleep_release", "sleep_set", "sleep_sched"} => intena[c]
        /\ pc[p] = "yield_sched" => ~intena[c]
        /\ state[p] = IF pc[p] = "yield_sched" THEN "RUNNABLE"
                      ELSE IF pc[p] = "sleep_sched" THEN "SLEEPING" ELSE "RUNNING"

(* What p's own fields say of one another, on a CPU or off.                *)
ProcOK(p) ==
    /\ state[p] = "RUNNABLE" => pc[p] \in {"forkret", "yield_back", "sleep_back", "yield_sched"}
    /\ state[p] = "SLEEPING" => pc[p] \in {"sleep_sched", "sleep_back"} /\ chan[p]
    /\ pc[p] \in {"yield_sched", "sleep_release", "sleep_set", "sleep_sched"} =>
          owner[p] \in CPUs /\ run[owner[p]] = p
    /\ pc[p] = "sleep_back" => saved[p]
    /\ pc[p] = "yield_back" => ~saved[p]

OneCpu == \A c, d \in CPUs : run[c] # None /\ run[c] = run[d] => c = d

IInv ==
    /\ TypeOK
    /\ OneCpu
    /\ \A c \in CPUs : SchedulerOK(c) /\ ThreadOK(c)
    /\ \A p \in Procs : ProcOK(p)
    /\ MutualExclusion
    /\ NoLostWakeup
-----------------------------------------------------------------------------
USE SleepConstants DEF Procs, Locks, LK

LEMMA SchedAcquirePreserves ==
    ASSUME IInv, NEW c \in CPUs, sched_acquire(c)
    PROVE  IInv'
<1> USE DEF sched_acquire, acquire, push_off, cpu, sched_, slock
<1>1. TypeOK /\ OneCpu /\ MutualExclusion /\ NoLostWakeup
  BY Zenon DEF IInv
<1>2. \A d \in CPUs : SchedulerOK(d) /\ ThreadOK(d)
  BY Zenon DEF IInv
<1>3. \A q \in Procs : ProcOK(q)
  BY Zenon DEF IInv
<1>4. TypeOK'
  BY SMTT(30), <1>1, <1>2 DEF TypeOK, Labels, SchedulerOK, ThreadOK, Depth
<1>5. OneCpu'
  BY <1>1, <1>2, <1>3 DEF TypeOK, OneCpu, SchedulerOK, ThreadOK, ProcOK, Holds
<1>6. ASSUME NEW d \in CPUs PROVE SchedulerOK(d)'
  BY <1>1, <1>2, <1>3 DEF TypeOK, OneCpu, SchedulerOK, ThreadOK, Holds, Depth
<1>7. ASSUME NEW d \in CPUs PROVE ThreadOK(d)'
  BY SMTT(30), <1>1, <1>2, <1>3 DEF TypeOK, OneCpu, SchedulerOK, ThreadOK, ProcOK, Holds, Depth
<1>8. ASSUME NEW q \in Procs PROVE ProcOK(q)'
  BY <1>1, <1>2, <1>3 DEF TypeOK, OneCpu, SchedulerOK, ThreadOK, ProcOK, Holds
<1>9. MutualExclusion'
  BY Zenon, <1>1 DEF TypeOK, MutualExclusion, InCrit
<1>10. NoLostWakeup'
  BY Zenon, <1>1, <1>2, <1>3 DEF TypeOK, NoLostWakeup, MutualExclusion, InCrit, ProcOK, ThreadOK
<1>11. QED
  BY Zenon, <1>4, <1>5, <1>6, <1>7, <1>8, <1>9, <1>10 DEF IInv

LEMMA SchedSwitchPreserves ==
    ASSUME IInv, NEW c \in CPUs, sched_switch(c)
    PROVE  IInv'
<1> USE DEF sched_switch, cpu, sched_, slock
<1>1. TypeOK /\ OneCpu /\ MutualExclusion /\ NoLostWakeup
  BY Zenon DEF IInv
<1>2. \A d \in CPUs : SchedulerOK(d) /\ ThreadOK(d)
  BY Zenon DEF IInv
<1>3. \A q \in Procs : ProcOK(q)
  BY Zenon DEF IInv
<1>4. TypeOK'
  BY SMTT(30), <1>1, <1>2 DEF TypeOK, Labels, SchedulerOK, ThreadOK, Depth
<1>typ. sp[c] \in Procs /\ sp[c] \in Locks
  BY <1>1 DEF TypeOK
<1>a. owner[sp[c]] = c /\ sp[c] \in Procs
  BY Zenon, <1>typ, <1>2 DEF SchedulerOK
<1>b. ASSUME NEW d \in CPUs, run[d] = sp[c] PROVE FALSE
  <2>1. pc[sp[c]] = "yield_sched"
    BY <1>a, <1>b, <1>2 DEF ThreadOK
  <2>2. owner[sp[c]] = d
    BY <1>a, <1>b, <1>2, <2>1 DEF ThreadOK, Holds
  <2>3. QED
    BY <1>a, <1>b, <2>2
<1>5. OneCpu'
  BY Zenon, <1>1, <1>a, <1>b DEF TypeOK, OneCpu
<1>6. ASSUME NEW d \in CPUs PROVE SchedulerOK(d)'
  BY <1>1, <1>2, <1>3 DEF TypeOK, OneCpu, SchedulerOK, ThreadOK, Holds, Depth
<1>7. ASSUME NEW d \in CPUs PROVE ThreadOK(d)'
  BY SMTT(30), <1>1, <1>2, <1>3 DEF TypeOK, OneCpu, SchedulerOK, ThreadOK, ProcOK, Holds, Depth
<1>8. ASSUME NEW q \in Procs PROVE ProcOK(q)'
  BY <1>1, <1>2, <1>3 DEF TypeOK, OneCpu, SchedulerOK, ThreadOK, ProcOK, Holds
<1>9. MutualExclusion'
  BY Zenon, <1>1 DEF TypeOK, MutualExclusion, InCrit
<1>10. NoLostWakeup'
  BY <1>1, <1>2, <1>3 DEF TypeOK, NoLostWakeup, MutualExclusion, InCrit, ProcOK, ThreadOK
<1>11. QED
  BY Zenon, <1>4, <1>5, <1>6, <1>7, <1>8, <1>9, <1>10 DEF IInv

LEMMA SchedSkipPreserves ==
    ASSUME IInv, NEW c \in CPUs, sched_skip(c)
    PROVE  IInv'
<1> USE DEF sched_skip, sched_next, cpu, sched_, slock
<1>1. TypeOK /\ OneCpu /\ MutualExclusion /\ NoLostWakeup
  BY Zenon DEF IInv
<1>2. \A d \in CPUs : SchedulerOK(d) /\ ThreadOK(d)
  BY Zenon DEF IInv
<1>3. \A q \in Procs : ProcOK(q)
  BY Zenon DEF IInv
<1>4. TypeOK'
  BY SMTT(30), <1>1, <1>2 DEF TypeOK, Labels, SchedulerOK, ThreadOK, Depth
<1>5. OneCpu'
  BY <1>1, <1>2, <1>3 DEF TypeOK, OneCpu, SchedulerOK, ThreadOK, ProcOK, Holds
<1>6. ASSUME NEW d \in CPUs PROVE SchedulerOK(d)'
  BY <1>1, <1>2, <1>3 DEF TypeOK, OneCpu, SchedulerOK, ThreadOK, Holds, Depth
<1>7. ASSUME NEW d \in CPUs PROVE ThreadOK(d)'
  BY <1>1, <1>2, <1>3 DEF TypeOK, OneCpu, SchedulerOK, ThreadOK, ProcOK, Holds, Depth
<1>8. ASSUME NEW q \in Procs PROVE ProcOK(q)'
  BY SMTT(30), <1>1, <1>2, <1>3 DEF TypeOK, OneCpu, SchedulerOK, ThreadOK, ProcOK, Holds
<1>9. MutualExclusion'
  BY Zenon, <1>1 DEF TypeOK, MutualExclusion, InCrit
<1>10. NoLostWakeup'
  BY Zenon, <1>1, <1>2, <1>3 DEF TypeOK, NoLostWakeup, MutualExclusion, InCrit, ProcOK, ThreadOK
<1>11. QED
  BY Zenon, <1>4, <1>5, <1>6, <1>7, <1>8, <1>9, <1>10 DEF IInv

LEMMA SchedBackPreserves ==
    ASSUME IInv, NEW c \in CPUs, sched_back(c)
    PROVE  IInv'
<1> USE DEF sched_back, sched_next, cpu, sched_, slock
<1>1. TypeOK /\ OneCpu /\ MutualExclusion /\ NoLostWakeup
  BY Zenon DEF IInv
<1>2. \A d \in CPUs : SchedulerOK(d) /\ ThreadOK(d)
  BY Zenon DEF IInv
<1>3. \A q \in Procs : ProcOK(q)
  BY Zenon DEF IInv
<1>4. TypeOK'
  BY <1>1, <1>2 DEF TypeOK, Labels, SchedulerOK, ThreadOK, Depth
<1>5. OneCpu'
  BY <1>1, <1>2, <1>3 DEF TypeOK, OneCpu, SchedulerOK, ThreadOK, ProcOK, Holds
<1>6. ASSUME NEW d \in CPUs PROVE SchedulerOK(d)'
  BY <1>1, <1>2, <1>3 DEF TypeOK, OneCpu, SchedulerOK, ThreadOK, Holds, Depth
<1>7. ASSUME NEW d \in CPUs PROVE ThreadOK(d)'
  BY SMTT(30), <1>1, <1>2, <1>3 DEF TypeOK, OneCpu, SchedulerOK, ThreadOK, ProcOK, Holds, Depth
<1>8. ASSUME NEW q \in Procs PROVE ProcOK(q)'
  BY SMTT(30), <1>1, <1>2, <1>3 DEF TypeOK, OneCpu, SchedulerOK, ThreadOK, ProcOK, Holds
<1>9. MutualExclusion'
  BY Zenon, <1>1 DEF TypeOK, MutualExclusion, InCrit
<1>10. NoLostWakeup'
  BY Zenon, <1>1, <1>2, <1>3 DEF TypeOK, NoLostWakeup, MutualExclusion, InCrit, ProcOK, ThreadOK
<1>11. QED
  BY Zenon, <1>4, <1>5, <1>6, <1>7, <1>8, <1>9, <1>10 DEF IInv

LEMMA ForkretPreserves ==
    ASSUME IInv, NEW c \in CPUs, NEW p \in Procs, forkret(c, p)
    PROVE  IInv'
<1> USE DEF forkret, At, Goto, cpu, sched_, slock
<1>1. TypeOK /\ OneCpu /\ MutualExclusion /\ NoLostWakeup
  BY Zenon DEF IInv
<1>2. \A d \in CPUs : SchedulerOK(d) /\ ThreadOK(d)
  BY Zenon DEF IInv
<1>3. \A q \in Procs : ProcOK(q)
  BY Zenon DEF IInv
<1>a. noff[c] = Depth(p) /\ Depth(p) = 1
  BY <1>2 DEF ThreadOK, Depth
<1>n. noff \in [CPUs -> 0 .. 2]
  BY Zenon, <1>1 DEF TypeOK
<1>4. TypeOK'
  BY SMTT(30), <1>1, <1>a, <1>n DEF TypeOK, Labels
<1>5. OneCpu'
  BY <1>1, <1>2, <1>3 DEF TypeOK, OneCpu, SchedulerOK, ThreadOK, ProcOK, Holds
<1>6. ASSUME NEW d \in CPUs PROVE SchedulerOK(d)'
  BY <1>1, <1>2, <1>3 DEF TypeOK, OneCpu, SchedulerOK, ThreadOK, Holds, Depth
<1>7. ASSUME NEW d \in CPUs PROVE ThreadOK(d)'
  BY <1>1, <1>2, <1>3 DEF TypeOK, OneCpu, SchedulerOK, ThreadOK, ProcOK, Holds, Depth
<1>8. ASSUME NEW q \in Procs PROVE ProcOK(q)'
  BY <1>1, <1>2, <1>3 DEF TypeOK, OneCpu, SchedulerOK, ThreadOK, ProcOK, Holds
<1>9. MutualExclusion'
  BY Zenon, <1>1 DEF TypeOK, MutualExclusion, InCrit
<1>10. NoLostWakeup'
  BY <1>1, <1>2, <1>3 DEF TypeOK, NoLostWakeup, MutualExclusion, InCrit, ProcOK, ThreadOK
<1>11. QED
  BY Zenon, <1>4, <1>5, <1>6, <1>7, <1>8, <1>9, <1>10 DEF IInv

LEMMA TimerPreserves ==
    ASSUME IInv, NEW c \in CPUs, NEW p \in Procs, timer(c, p)
    PROVE  IInv'
<1> USE DEF timer, At, Goto, cpu, sched_, slock
<1>1. TypeOK /\ OneCpu /\ MutualExclusion /\ NoLostWakeup
  BY Zenon DEF IInv
<1>2. \A d \in CPUs : SchedulerOK(d) /\ ThreadOK(d)
  BY Zenon DEF IInv
<1>3. \A q \in Procs : ProcOK(q)
  BY Zenon DEF IInv
<1>4. TypeOK'
  BY Zenon, <1>1 DEF TypeOK, Labels
<1>5. OneCpu'
  BY <1>1, <1>2, <1>3 DEF TypeOK, OneCpu, SchedulerOK, ThreadOK, ProcOK, Holds
<1>6. ASSUME NEW d \in CPUs PROVE SchedulerOK(d)'
  BY <1>1, <1>2, <1>3 DEF TypeOK, OneCpu, SchedulerOK, ThreadOK, Holds, Depth
<1>7. ASSUME NEW d \in CPUs PROVE ThreadOK(d)'
  BY SMTT(30), <1>1, <1>2, <1>3 DEF TypeOK, OneCpu, SchedulerOK, ThreadOK, ProcOK, Holds, Depth
<1>8. ASSUME NEW q \in Procs PROVE ProcOK(q)'
  BY <1>1, <1>2, <1>3 DEF TypeOK, OneCpu, SchedulerOK, ThreadOK, ProcOK, Holds
<1>9. MutualExclusion'
  BY Zenon, <1>1 DEF TypeOK, MutualExclusion, InCrit
<1>10. NoLostWakeup'
  BY <1>1, <1>2, <1>3 DEF TypeOK, NoLostWakeup, MutualExclusion, InCrit, ProcOK, ThreadOK
<1>11. QED
  BY Zenon, <1>4, <1>5, <1>6, <1>7, <1>8, <1>9, <1>10 DEF IInv

LEMMA YieldAcquirePreserves ==
    ASSUME IInv, NEW c \in CPUs, NEW p \in Procs, yield_acquire(c, p)
    PROVE  IInv'
<1> USE DEF yield_acquire, acquire, push_off, At, Goto, cpu, sched_, slock
<1>1. TypeOK /\ OneCpu /\ MutualExclusion /\ NoLostWakeup
  BY Zenon DEF IInv
<1>2. \A d \in CPUs : SchedulerOK(d) /\ ThreadOK(d)
  BY Zenon DEF IInv
<1>3. \A q \in Procs : ProcOK(q)
  BY Zenon DEF IInv
<1>a. noff[c] = Depth(p) /\ Depth(p) = 0
  BY Zenon, <1>2 DEF ThreadOK, Depth
<1>n. noff \in [CPUs -> 0 .. 2]
  BY Zenon, <1>1 DEF TypeOK
<1>4. TypeOK'
  BY SMTT(30), <1>1, <1>a, <1>n DEF TypeOK, Labels
<1>5. OneCpu'
  BY <1>1, <1>2, <1>3 DEF TypeOK, OneCpu, SchedulerOK, ThreadOK, ProcOK, Holds
<1>6. ASSUME NEW d \in CPUs PROVE SchedulerOK(d)'
  BY SMTT(30), <1>1, <1>2, <1>3 DEF TypeOK, OneCpu, SchedulerOK, ThreadOK, Holds, Depth
<1>7. ASSUME NEW d \in CPUs PROVE ThreadOK(d)'
  BY SMTT(30), <1>1, <1>2, <1>3 DEF TypeOK, OneCpu, SchedulerOK, ThreadOK, ProcOK, Holds, Depth
<1>8. ASSUME NEW q \in Procs PROVE ProcOK(q)'
  BY <1>1, <1>2, <1>3 DEF TypeOK, OneCpu, SchedulerOK, ThreadOK, ProcOK, Holds
<1>9. MutualExclusion'
  BY Zenon, <1>1 DEF TypeOK, MutualExclusion, InCrit
<1>10. NoLostWakeup'
  BY <1>1, <1>2, <1>3 DEF TypeOK, NoLostWakeup, MutualExclusion, InCrit, ProcOK, ThreadOK
<1>11. QED
  BY Zenon, <1>4, <1>5, <1>6, <1>7, <1>8, <1>9, <1>10 DEF IInv

LEMMA YieldSchedPreserves ==
    ASSUME IInv, NEW c \in CPUs, NEW p \in Procs, yield_sched(c, p)
    PROVE  IInv'
<1> USE DEF yield_sched, sched, At, Goto, cpu, sched_, slock
<1>1. TypeOK /\ OneCpu /\ MutualExclusion /\ NoLostWakeup
  BY Zenon DEF IInv
<1>2. \A d \in CPUs : SchedulerOK(d) /\ ThreadOK(d)
  BY Zenon DEF IInv
<1>3. \A q \in Procs : ProcOK(q)
  BY Zenon DEF IInv
<1>4. TypeOK'
  BY Zenon, <1>1 DEF TypeOK, Labels
<1>5. OneCpu'
  BY <1>1, <1>2, <1>3 DEF TypeOK, OneCpu, SchedulerOK, ThreadOK, ProcOK, Holds
<1>6. ASSUME NEW d \in CPUs PROVE SchedulerOK(d)'
  <2>1. /\ spc[c] = "back" /\ sp[c] = p /\ noff[c] = 1 /\ ~intr[c]
        /\ \A l \in Locks : owner[l] = c <=> l = p
    BY <1>2 DEF ThreadOK, Holds, Depth
  <2>2. CASE d = c
    BY Zenon, <1>1, <2>1, <2>2 DEF TypeOK, SchedulerOK
  <2>3. CASE d # c
    BY SMTT(30), <1>1, <1>2, <2>3 DEF TypeOK, SchedulerOK
  <2>4. QED
    BY Zenon, <2>2, <2>3
<1>7. ASSUME NEW d \in CPUs PROVE ThreadOK(d)'
  BY SMTT(30), <1>1, <1>2, <1>3 DEF TypeOK, OneCpu, SchedulerOK, ThreadOK, ProcOK, Holds, Depth
<1>8. ASSUME NEW q \in Procs PROVE ProcOK(q)'
  BY <1>1, <1>2, <1>3 DEF TypeOK, OneCpu, SchedulerOK, ThreadOK, ProcOK, Holds
<1>9. MutualExclusion'
  BY Zenon, <1>1 DEF TypeOK, MutualExclusion, InCrit
<1>10. NoLostWakeup'
  BY <1>1, <1>2, <1>3 DEF TypeOK, NoLostWakeup, MutualExclusion, InCrit, ProcOK, ThreadOK
<1>11. QED
  BY Zenon, <1>4, <1>5, <1>6, <1>7, <1>8, <1>9, <1>10 DEF IInv

LEMMA YieldReleasePreserves ==
    ASSUME IInv, NEW c \in CPUs, NEW p \in Procs, yield_release(c, p)
    PROVE  IInv'
<1> USE DEF yield_release, resume_release, At, Goto, cpu, sched_, slock
<1>1. TypeOK /\ OneCpu /\ MutualExclusion /\ NoLostWakeup
  BY Zenon DEF IInv
<1>2. \A d \in CPUs : SchedulerOK(d) /\ ThreadOK(d)
  BY Zenon DEF IInv
<1>3. \A q \in Procs : ProcOK(q)
  BY Zenon DEF IInv
<1>a. noff[c] = Depth(p) /\ Depth(p) = 1
  BY <1>2 DEF ThreadOK, Depth
<1>n. noff \in [CPUs -> 0 .. 2]
  BY Zenon, <1>1 DEF TypeOK
<1>4. TypeOK'
  BY SMTT(30), <1>1, <1>a, <1>n DEF TypeOK, Labels
<1>5. OneCpu'
  BY <1>1, <1>2, <1>3 DEF TypeOK, OneCpu, SchedulerOK, ThreadOK, ProcOK, Holds
<1>6. ASSUME NEW d \in CPUs PROVE SchedulerOK(d)'
  BY SMTT(30), <1>1, <1>2, <1>3 DEF TypeOK, OneCpu, SchedulerOK, ThreadOK, Holds, Depth
<1>7. ASSUME NEW d \in CPUs PROVE ThreadOK(d)'
  BY SMTT(30), <1>1, <1>2, <1>3 DEF TypeOK, OneCpu, SchedulerOK, ThreadOK, ProcOK, Holds, Depth
<1>8. ASSUME NEW q \in Procs PROVE ProcOK(q)'
  BY <1>1, <1>2, <1>3 DEF TypeOK, OneCpu, SchedulerOK, ThreadOK, ProcOK, Holds
<1>9. MutualExclusion'
  BY Zenon, <1>1 DEF TypeOK, MutualExclusion, InCrit
<1>10. NoLostWakeup'
  BY <1>1, <1>2, <1>3 DEF TypeOK, NoLostWakeup, MutualExclusion, InCrit, ProcOK, ThreadOK
<1>11. QED
  BY Zenon, <1>4, <1>5, <1>6, <1>7, <1>8, <1>9, <1>10 DEF IInv

LEMMA YieldRetPreserves ==
    ASSUME IInv, NEW c \in CPUs, NEW p \in Procs, yield_ret(c, p)
    PROVE  IInv'
<1> USE DEF yield_ret, At, Goto, cpu, sched_, slock
<1>1. TypeOK /\ OneCpu /\ MutualExclusion /\ NoLostWakeup
  BY Zenon DEF IInv
<1>2. \A d \in CPUs : SchedulerOK(d) /\ ThreadOK(d)
  BY Zenon DEF IInv
<1>3. \A q \in Procs : ProcOK(q)
  BY Zenon DEF IInv
<1>4. TypeOK'
  BY Zenon, <1>1 DEF TypeOK, Labels
<1>5. OneCpu'
  BY <1>1, <1>2, <1>3 DEF TypeOK, OneCpu, SchedulerOK, ThreadOK, ProcOK, Holds
<1>6. ASSUME NEW d \in CPUs PROVE SchedulerOK(d)'
  BY SMTT(30), <1>1, <1>2, <1>3 DEF TypeOK, OneCpu, SchedulerOK, ThreadOK, Holds, Depth
<1>7. ASSUME NEW d \in CPUs PROVE ThreadOK(d)'
  BY <1>1, <1>2, <1>3 DEF TypeOK, OneCpu, SchedulerOK, ThreadOK, ProcOK, Holds, Depth
<1>typ. ret[p] \in {"user", "crit", "reacquire"} /\ pc \in [Procs -> Labels]
  BY Zenon, <1>1 DEF TypeOK
<1>a. state[p] = "RUNNING" /\ ret[p] \in {"user", "crit", "reacquire"} /\ pc \in [Procs -> Labels]
  BY <1>2, <1>typ DEF ThreadOK
<1>8. ASSUME NEW q \in Procs PROVE ProcOK(q)'
  BY Zenon, <1>3, <1>a DEF ProcOK
<1>9. MutualExclusion'
  BY Zenon, <1>1 DEF TypeOK, MutualExclusion, InCrit
<1>10. NoLostWakeup'
  <2>1. /\ \A q \in Procs : q # p => pc'[q] = pc[q]
        /\ pc[p] = "yield_ret" /\ pc'[p] \in {"user", "crit", "reacquire"}
        /\ UNCHANGED <<state, wk, locked>>
    BY <1>a DEF Labels
  <2>2. \A q \in Procs : state'[q] = "SLEEPING" \/ pc'[q] \in {"sleep_release", "sleep_set"}
                            => state[q] = "SLEEPING" \/ pc[q] \in {"sleep_release", "sleep_set"}
    BY <2>1
  <2>3. \A q \in Procs : pc[q] = "wakeup" => pc'[q] = "wakeup"
    BY <2>1
  <2>4. NoLostWakeup
    BY Zenon, <1>1
  <2> HIDE DEF yield_ret, At, Goto
  <2> QED
    BY Zenon, <2>1, <2>2, <2>3, <2>4 DEF NoLostWakeup
<1>11. QED
  BY Zenon, <1>4, <1>5, <1>6, <1>7, <1>8, <1>9, <1>10 DEF IInv

LEMMA AcquiresleepAcquirePreserves ==
    ASSUME IInv, NEW c \in CPUs, NEW p \in Procs, acquiresleep_acquire(c, p)
    PROVE  IInv'
<1> USE DEF acquiresleep_acquire, acquire, push_off, At, Goto, cpu, sched_, slock
<1>1. TypeOK /\ OneCpu /\ MutualExclusion /\ NoLostWakeup
  BY Zenon DEF IInv
<1>2. \A d \in CPUs : SchedulerOK(d) /\ ThreadOK(d)
  BY Zenon DEF IInv
<1>3. \A q \in Procs : ProcOK(q)
  BY Zenon DEF IInv
<1>a. noff[c] = Depth(p) /\ Depth(p) = 0
  BY <1>2 DEF ThreadOK, Depth
<1>n. noff \in [CPUs -> 0 .. 2]
  BY Zenon, <1>1 DEF TypeOK
<1>4. TypeOK'
  BY SMTT(30), <1>1, <1>a, <1>n DEF TypeOK, Labels
<1>5. OneCpu'
  BY <1>1, <1>2, <1>3 DEF TypeOK, OneCpu, SchedulerOK, ThreadOK, ProcOK, Holds
<1>6. ASSUME NEW d \in CPUs PROVE SchedulerOK(d)'
  BY SMTT(30), <1>1, <1>2, <1>3 DEF TypeOK, OneCpu, SchedulerOK, ThreadOK, Holds, Depth
<1>7. ASSUME NEW d \in CPUs PROVE ThreadOK(d)'
  BY SMTT(30), <1>1, <1>2, <1>3 DEF TypeOK, OneCpu, SchedulerOK, ThreadOK, ProcOK, Holds, Depth
<1>8. ASSUME NEW q \in Procs PROVE ProcOK(q)'
  BY <1>1, <1>2, <1>3 DEF TypeOK, OneCpu, SchedulerOK, ThreadOK, ProcOK, Holds
<1>9. MutualExclusion'
  BY Zenon, <1>1 DEF TypeOK, MutualExclusion, InCrit
<1>10. NoLostWakeup'
  BY <1>1, <1>2, <1>3 DEF TypeOK, NoLostWakeup, MutualExclusion, InCrit, ProcOK, ThreadOK
<1>11. QED
  BY Zenon, <1>4, <1>5, <1>6, <1>7, <1>8, <1>9, <1>10 DEF IInv

LEMMA AcquiresleepTakePreserves ==
    ASSUME IInv, NEW c \in CPUs, NEW p \in Procs, acquiresleep_take(c, p)
    PROVE  IInv'
<1> USE DEF acquiresleep_take, release, pop_off, At, Goto, cpu, sched_, slock
<1>1. TypeOK /\ OneCpu /\ MutualExclusion /\ NoLostWakeup
  BY Zenon DEF IInv
<1>2. \A d \in CPUs : SchedulerOK(d) /\ ThreadOK(d)
  BY Zenon DEF IInv
<1>3. \A q \in Procs : ProcOK(q)
  BY Zenon DEF IInv
<1>a. noff[c] = Depth(p) /\ Depth(p) = 1
  BY <1>2 DEF ThreadOK, Depth
<1>n. noff \in [CPUs -> 0 .. 2]
  BY Zenon, <1>1 DEF TypeOK
<1>4. TypeOK'
  BY SMTT(30), <1>1, <1>a, <1>n DEF TypeOK, Labels
<1>5. OneCpu'
  BY <1>1, <1>2, <1>3 DEF TypeOK, OneCpu, SchedulerOK, ThreadOK, ProcOK, Holds
<1>6. ASSUME NEW d \in CPUs PROVE SchedulerOK(d)'
  BY <1>1, <1>2, <1>3 DEF TypeOK, OneCpu, SchedulerOK, ThreadOK, Holds, Depth
<1>7. ASSUME NEW d \in CPUs PROVE ThreadOK(d)'
  BY SMTT(30), <1>1, <1>2, <1>3 DEF TypeOK, OneCpu, SchedulerOK, ThreadOK, ProcOK, Holds, Depth
<1>8. ASSUME NEW q \in Procs PROVE ProcOK(q)'
  BY <1>1, <1>2, <1>3 DEF TypeOK, OneCpu, SchedulerOK, ThreadOK, ProcOK, Holds
<1>9. MutualExclusion'
  BY Zenon, <1>1 DEF TypeOK, MutualExclusion, InCrit
<1>10. NoLostWakeup'
  BY Zenon, <1>1, <1>2, <1>3 DEF TypeOK, NoLostWakeup, MutualExclusion, InCrit, ProcOK, ThreadOK
<1>11. QED
  BY Zenon, <1>4, <1>5, <1>6, <1>7, <1>8, <1>9, <1>10 DEF IInv

LEMMA SleepAcquirePreserves ==
    ASSUME IInv, NEW c \in CPUs, NEW p \in Procs, sleep_acquire(c, p)
    PROVE  IInv'
<1> USE DEF sleep_acquire, acquire, push_off, At, Goto, cpu, sched_, slock
<1>1. TypeOK /\ OneCpu /\ MutualExclusion /\ NoLostWakeup
  BY Zenon DEF IInv
<1>2. \A d \in CPUs : SchedulerOK(d) /\ ThreadOK(d)
  BY Zenon DEF IInv
<1>3. \A q \in Procs : ProcOK(q)
  BY Zenon DEF IInv
<1>a. noff[c] = Depth(p) /\ Depth(p) = 1
  BY <1>2 DEF ThreadOK, Depth
<1>n. noff \in [CPUs -> 0 .. 2]
  BY Zenon, <1>1 DEF TypeOK
<1>4. TypeOK'
  BY SMTT(30), <1>1, <1>a, <1>n DEF TypeOK, Labels
<1>5. OneCpu'
  BY SMTT(30), <1>1, <1>2, <1>3 DEF TypeOK, OneCpu, SchedulerOK, ThreadOK, ProcOK, Holds
<1>6. ASSUME NEW d \in CPUs PROVE SchedulerOK(d)'
  BY SMTT(30), <1>1, <1>2, <1>3 DEF TypeOK, OneCpu, SchedulerOK, ThreadOK, Holds, Depth
<1>7. ASSUME NEW d \in CPUs PROVE ThreadOK(d)'
  BY SMTT(30), <1>1, <1>2, <1>3 DEF TypeOK, OneCpu, SchedulerOK, ThreadOK, ProcOK, Holds, Depth
<1>8. ASSUME NEW q \in Procs PROVE ProcOK(q)'
  BY <1>1, <1>2, <1>3 DEF TypeOK, OneCpu, SchedulerOK, ThreadOK, ProcOK, Holds
<1>9. MutualExclusion'
  BY Zenon, <1>1 DEF TypeOK, MutualExclusion, InCrit
<1>10. NoLostWakeup'
  BY Zenon, <1>1, <1>2, <1>3 DEF TypeOK, NoLostWakeup, MutualExclusion, InCrit, ProcOK, ThreadOK
<1>11. QED
  BY Zenon, <1>4, <1>5, <1>6, <1>7, <1>8, <1>9, <1>10 DEF IInv

LEMMA SleepReleasePreserves ==
    ASSUME IInv, NEW c \in CPUs, NEW p \in Procs, sleep_release(c, p)
    PROVE  IInv'
<1> USE DEF sleep_release, release, pop_off, At, Goto, cpu, sched_, slock
<1>1. TypeOK /\ OneCpu /\ MutualExclusion /\ NoLostWakeup
  BY Zenon DEF IInv
<1>2. \A d \in CPUs : SchedulerOK(d) /\ ThreadOK(d)
  BY Zenon DEF IInv
<1>3. \A q \in Procs : ProcOK(q)
  BY Zenon DEF IInv
<1>a. noff[c] = Depth(p) /\ Depth(p) = 2
  BY <1>2 DEF ThreadOK, Depth
<1>n. noff \in [CPUs -> 0 .. 2]
  BY Zenon, <1>1 DEF TypeOK
<1>4. TypeOK'
  BY SMTT(30), <1>1, <1>a, <1>n DEF TypeOK, Labels
<1>5. OneCpu'
  BY <1>1, <1>2, <1>3 DEF TypeOK, OneCpu, SchedulerOK, ThreadOK, ProcOK, Holds
<1>6. ASSUME NEW d \in CPUs PROVE SchedulerOK(d)'
  BY SMTT(30), <1>1, <1>2, <1>3 DEF TypeOK, OneCpu, SchedulerOK, ThreadOK, Holds, Depth
<1>7. ASSUME NEW d \in CPUs PROVE ThreadOK(d)'
  BY SMTT(30), <1>1, <1>2, <1>3 DEF TypeOK, OneCpu, SchedulerOK, ThreadOK, ProcOK, Holds, Depth
<1>8. ASSUME NEW q \in Procs PROVE ProcOK(q)'
  BY <1>1, <1>2, <1>3 DEF TypeOK, OneCpu, SchedulerOK, ThreadOK, ProcOK, Holds
<1>9. MutualExclusion'
  BY Zenon, <1>1 DEF TypeOK, MutualExclusion, InCrit
<1>10. NoLostWakeup'
  BY <1>1, <1>2, <1>3 DEF TypeOK, NoLostWakeup, MutualExclusion, InCrit, ProcOK, ThreadOK
<1>11. QED
  BY Zenon, <1>4, <1>5, <1>6, <1>7, <1>8, <1>9, <1>10 DEF IInv

LEMMA SleepSetPreserves ==
    ASSUME IInv, NEW c \in CPUs, NEW p \in Procs, sleep_set(c, p)
    PROVE  IInv'
<1> USE DEF sleep_set, At, Goto, cpu, sched_, slock
<1>1. TypeOK /\ OneCpu /\ MutualExclusion /\ NoLostWakeup
  BY Zenon DEF IInv
<1>2. \A d \in CPUs : SchedulerOK(d) /\ ThreadOK(d)
  BY Zenon DEF IInv
<1>3. \A q \in Procs : ProcOK(q)
  BY Zenon DEF IInv
<1>4. TypeOK'
  BY Zenon, <1>1 DEF TypeOK, Labels
<1>5. OneCpu'
  BY SMTT(30), <1>1, <1>2, <1>3 DEF TypeOK, OneCpu, SchedulerOK, ThreadOK, ProcOK, Holds
<1>6. ASSUME NEW d \in CPUs PROVE SchedulerOK(d)'
  BY SMTT(30), <1>1, <1>2, <1>3 DEF TypeOK, OneCpu, SchedulerOK, ThreadOK, Holds, Depth
<1>7. ASSUME NEW d \in CPUs PROVE ThreadOK(d)'
  BY SMTT(30), <1>1, <1>2, <1>3 DEF TypeOK, OneCpu, SchedulerOK, ThreadOK, ProcOK, Holds, Depth
<1>8. ASSUME NEW q \in Procs PROVE ProcOK(q)'
  BY <1>1, <1>2, <1>3 DEF TypeOK, OneCpu, SchedulerOK, ThreadOK, ProcOK, Holds
<1>9. MutualExclusion'
  BY Zenon, <1>1 DEF TypeOK, MutualExclusion, InCrit
<1>10. NoLostWakeup'
  BY <1>1, <1>2, <1>3 DEF TypeOK, NoLostWakeup, MutualExclusion, InCrit, ProcOK, ThreadOK
<1>11. QED
  BY Zenon, <1>4, <1>5, <1>6, <1>7, <1>8, <1>9, <1>10 DEF IInv

LEMMA SleepSchedPreserves ==
    ASSUME IInv, NEW c \in CPUs, NEW p \in Procs, sleep_sched(c, p)
    PROVE  IInv'
<1> USE DEF sleep_sched, sched, At, Goto, cpu, sched_, slock
<1>1. TypeOK /\ OneCpu /\ MutualExclusion /\ NoLostWakeup
  BY Zenon DEF IInv
<1>2. \A d \in CPUs : SchedulerOK(d) /\ ThreadOK(d)
  BY Zenon DEF IInv
<1>3. \A q \in Procs : ProcOK(q)
  BY Zenon DEF IInv
<1>4. TypeOK'
  BY Zenon, <1>1 DEF TypeOK, Labels
<1>5. OneCpu'
  BY <1>1, <1>2, <1>3 DEF TypeOK, OneCpu, SchedulerOK, ThreadOK, ProcOK, Holds
<1>6. ASSUME NEW d \in CPUs PROVE SchedulerOK(d)'
  <2>1. /\ spc[c] = "back" /\ sp[c] = p /\ noff[c] = 1 /\ ~intr[c]
        /\ \A l \in Locks : owner[l] = c <=> l = p
    BY <1>2 DEF ThreadOK, Holds, Depth
  <2>2. CASE d = c
    BY Zenon, <1>1, <2>1, <2>2 DEF TypeOK, SchedulerOK
  <2>3. CASE d # c
    BY SMTT(30), <1>1, <1>2, <2>3 DEF TypeOK, SchedulerOK
  <2>4. QED
    BY Zenon, <2>2, <2>3
<1>7. ASSUME NEW d \in CPUs PROVE ThreadOK(d)'
  BY SMTT(30), <1>1, <1>2, <1>3 DEF TypeOK, OneCpu, SchedulerOK, ThreadOK, ProcOK, Holds, Depth
<1>8. ASSUME NEW q \in Procs PROVE ProcOK(q)'
  BY <1>1, <1>2, <1>3 DEF TypeOK, OneCpu, SchedulerOK, ThreadOK, ProcOK, Holds
<1>9. MutualExclusion'
  BY Zenon, <1>1 DEF TypeOK, MutualExclusion, InCrit
<1>10. NoLostWakeup'
  BY <1>1, <1>2, <1>3 DEF TypeOK, NoLostWakeup, MutualExclusion, InCrit, ProcOK, ThreadOK
<1>11. QED
  BY Zenon, <1>4, <1>5, <1>6, <1>7, <1>8, <1>9, <1>10 DEF IInv

LEMMA SleepBackPreserves ==
    ASSUME IInv, NEW c \in CPUs, NEW p \in Procs, sleep_back(c, p)
    PROVE  IInv'
<1> USE DEF sleep_back, resume_release, At, Goto, cpu, sched_, slock
<1>1. TypeOK /\ OneCpu /\ MutualExclusion /\ NoLostWakeup
  BY Zenon DEF IInv
<1>2. \A d \in CPUs : SchedulerOK(d) /\ ThreadOK(d)
  BY Zenon DEF IInv
<1>3. \A q \in Procs : ProcOK(q)
  BY Zenon DEF IInv
<1>a. noff[c] = Depth(p) /\ Depth(p) = 1
  BY SMTT(30), <1>2 DEF ThreadOK, Depth
<1>n. noff \in [CPUs -> 0 .. 2]
  BY Zenon, <1>1 DEF TypeOK
<1>4. TypeOK'
  BY SMTT(30), <1>1, <1>a, <1>n DEF TypeOK, Labels
<1>5. OneCpu'
  BY <1>1, <1>2, <1>3 DEF TypeOK, OneCpu, SchedulerOK, ThreadOK, ProcOK, Holds
<1>6. ASSUME NEW d \in CPUs PROVE SchedulerOK(d)'
  BY SMTT(30), <1>1, <1>2, <1>3 DEF TypeOK, OneCpu, SchedulerOK, ThreadOK, Holds, Depth
<1>7. ASSUME NEW d \in CPUs PROVE ThreadOK(d)'
  BY SMTT(30), <1>1, <1>2, <1>3 DEF TypeOK, OneCpu, SchedulerOK, ThreadOK, ProcOK, Holds, Depth
<1>8. ASSUME NEW q \in Procs PROVE ProcOK(q)'
  BY <1>1, <1>2, <1>3 DEF TypeOK, OneCpu, SchedulerOK, ThreadOK, ProcOK, Holds
<1>9. MutualExclusion'
  BY Zenon, <1>1 DEF TypeOK, MutualExclusion, InCrit
<1>10. NoLostWakeup'
  BY <1>1, <1>2, <1>3 DEF TypeOK, NoLostWakeup, MutualExclusion, InCrit, ProcOK, ThreadOK
<1>11. QED
  BY Zenon, <1>4, <1>5, <1>6, <1>7, <1>8, <1>9, <1>10 DEF IInv

LEMMA ReleasesleepPreserves ==
    ASSUME IInv, NEW c \in CPUs, NEW p \in Procs, releasesleep(c, p)
    PROVE  IInv'
<1> USE DEF releasesleep, acquire, push_off, At, Goto, cpu, sched_, slock
<1>1. TypeOK /\ OneCpu /\ MutualExclusion /\ NoLostWakeup
  BY Zenon DEF IInv
<1>2. \A d \in CPUs : SchedulerOK(d) /\ ThreadOK(d)
  BY Zenon DEF IInv
<1>3. \A q \in Procs : ProcOK(q)
  BY Zenon DEF IInv
<1>a. noff[c] = Depth(p) /\ Depth(p) = 0
  BY <1>2 DEF ThreadOK, Depth
<1>n. noff \in [CPUs -> 0 .. 2]
  BY Zenon, <1>1 DEF TypeOK
<1>4. TypeOK'
  <2>1. wk' \in [Procs -> 1 .. NPROC + 1]
    BY <1>1 DEF TypeOK
  <2>2. noff' \in [CPUs -> 0 .. 2]
    BY SMTT(30), <1>a, <1>n
  <2>3. QED
    BY Zenon, <1>1, <2>1, <2>2 DEF TypeOK, Labels
<1>5. OneCpu'
  BY SMTT(30), <1>1, <1>2, <1>3 DEF TypeOK, OneCpu, SchedulerOK, ThreadOK, ProcOK, Holds
<1>6. ASSUME NEW d \in CPUs PROVE SchedulerOK(d)'
  BY SMTT(30), <1>1, <1>2, <1>3 DEF TypeOK, OneCpu, SchedulerOK, ThreadOK, Holds, Depth
<1>7. ASSUME NEW d \in CPUs PROVE ThreadOK(d)'
  BY SMTT(30), <1>1, <1>2, <1>3 DEF TypeOK, OneCpu, SchedulerOK, ThreadOK, ProcOK, Holds, Depth
<1>8. ASSUME NEW q \in Procs PROVE ProcOK(q)'
  BY <1>1, <1>2, <1>3 DEF TypeOK, OneCpu, SchedulerOK, ThreadOK, ProcOK, Holds
<1>9. MutualExclusion'
  BY Zenon, <1>1 DEF TypeOK, MutualExclusion, InCrit
<1>10. NoLostWakeup'
  BY SMTT(30), <1>1, <1>2, <1>3 DEF TypeOK, NoLostWakeup, MutualExclusion, InCrit, ProcOK, ThreadOK
<1>11. QED
  BY Zenon, <1>4, <1>5, <1>6, <1>7, <1>8, <1>9, <1>10 DEF IInv

LEMMA WakeupPreserves ==
    ASSUME IInv, NEW c \in CPUs, NEW p \in Procs, wakeup(c, p)
    PROVE  IInv'
<1> USE DEF wakeup, At, Goto, cpu, sched_, slock
<1>1. TypeOK /\ OneCpu /\ MutualExclusion /\ NoLostWakeup
  BY Zenon DEF IInv
<1>2. \A d \in CPUs : SchedulerOK(d) /\ ThreadOK(d)
  BY Zenon DEF IInv
<1>3. \A q \in Procs : ProcOK(q)
  BY Zenon DEF IInv
<1>a. wk \in [Procs -> 1 .. NPROC + 1] /\ wk[p] \in Procs
  BY SMTT(30), <1>1 DEF TypeOK
<1>b. wk' \in [Procs -> 1 .. NPROC + 1]
  BY <1>a
<1>c. state' \in [Procs -> {"RUNNABLE", "RUNNING", "SLEEPING"}]
  <2>1. state \in [Procs -> {"RUNNABLE", "RUNNING", "SLEEPING"}]
    BY Zenon, <1>1 DEF TypeOK
  <2>2. state' = state \/ state' = [state EXCEPT ![wk[p]] = "RUNNABLE"]
    BY Zenon
  <2>3. QED
    BY Zenon, <1>a, <2>1, <2>2
<1>4. TypeOK'
  BY Zenon, <1>1, <1>b, <1>c DEF TypeOK
<1>5. OneCpu'
  BY SMTT(30), <1>1, <1>2, <1>3 DEF TypeOK, OneCpu, SchedulerOK, ThreadOK, ProcOK, Holds
<1>6. ASSUME NEW d \in CPUs PROVE SchedulerOK(d)'
  BY SMTT(30), <1>1, <1>2, <1>3 DEF TypeOK, OneCpu, SchedulerOK, ThreadOK, Holds, Depth
<1>7. ASSUME NEW d \in CPUs PROVE ThreadOK(d)'
  BY SMTT(30), <1>1, <1>2, <1>3 DEF TypeOK, OneCpu, SchedulerOK, ThreadOK, ProcOK, Holds, Depth
<1>8. ASSUME NEW q \in Procs PROVE ProcOK(q)'
  BY SMTT(30), <1>1, <1>2, <1>3 DEF TypeOK, OneCpu, SchedulerOK, ThreadOK, ProcOK, Holds
<1>9. MutualExclusion'
  BY Zenon, <1>1 DEF TypeOK, MutualExclusion, InCrit
<1>10. NoLostWakeup'
  <2> SUFFICES ASSUME NEW q \in Procs, ~locked,
                      state'[q] = "SLEEPING" \/ pc[q] \in {"sleep_release", "sleep_set"}
               PROVE  \E r \in Procs \ {q} : pc[r] = "wakeup" /\ wk'[r] <= q
    BY Zenon DEF NoLostWakeup
  <2>1. state[q] = "SLEEPING" \/ pc[q] \in {"sleep_release", "sleep_set"}
    BY Zenon, <1>1 DEF TypeOK
  <2>2. PICK r \in Procs \ {q} : pc[r] = "wakeup" /\ wk[r] <= q
    BY Zenon, <1>1, <2>1 DEF NoLostWakeup
  <2>3. CASE r # p
    BY Zenon, <1>a, <2>2, <2>3
  <2>4. CASE r = p /\ wk[p] # q
    BY <1>a, <2>2, <2>4
  <2>5. CASE r = p /\ wk[p] = q
    <3>1. owner[q] = None /\ q # p
      BY Zenon, <2>2, <2>5
    <3>2. pc[q] \notin {"sleep_release", "sleep_set", "sleep_sched"}
      BY Zenon, <1>3, <3>1 DEF ProcOK
    <3>3. state[q] = "SLEEPING" /\ chan[q]
      BY Zenon, <1>3, <2>1, <3>2 DEF ProcOK
    <3>4. state'[q] = "RUNNABLE"
      BY <1>1, <2>5, <3>1, <3>3 DEF TypeOK
    <3>5. QED
      BY Zenon, <3>2, <3>4
  <2>6. QED
    BY Zenon, <2>3, <2>4, <2>5
<1>11. QED
  BY Zenon, <1>4, <1>5, <1>6, <1>7, <1>8, <1>9, <1>10 DEF IInv

LEMMA ReleasesleepEndPreserves ==
    ASSUME IInv, NEW c \in CPUs, NEW p \in Procs, releasesleep_end(c, p)
    PROVE  IInv'
<1> USE DEF releasesleep_end, release, pop_off, At, Goto, cpu, sched_, slock
<1>1. TypeOK /\ OneCpu /\ MutualExclusion /\ NoLostWakeup
  BY Zenon DEF IInv
<1>2. \A d \in CPUs : SchedulerOK(d) /\ ThreadOK(d)
  BY Zenon DEF IInv
<1>3. \A q \in Procs : ProcOK(q)
  BY Zenon DEF IInv
<1>a. noff[c] = Depth(p) /\ Depth(p) = 1
  BY <1>2 DEF ThreadOK, Depth
<1>n. noff \in [CPUs -> 0 .. 2]
  BY Zenon, <1>1 DEF TypeOK
<1>4. TypeOK'
  BY SMTT(30), <1>1, <1>a, <1>n DEF TypeOK, Labels
<1>5. OneCpu'
  BY <1>1, <1>2, <1>3 DEF TypeOK, OneCpu, SchedulerOK, ThreadOK, ProcOK, Holds
<1>6. ASSUME NEW d \in CPUs PROVE SchedulerOK(d)'
  BY SMTT(30), <1>1, <1>2, <1>3 DEF TypeOK, OneCpu, SchedulerOK, ThreadOK, Holds, Depth
<1>7. ASSUME NEW d \in CPUs PROVE ThreadOK(d)'
  BY SMTT(30), <1>1, <1>2, <1>3 DEF TypeOK, OneCpu, SchedulerOK, ThreadOK, ProcOK, Holds, Depth
<1>8. ASSUME NEW q \in Procs PROVE ProcOK(q)'
  BY <1>1, <1>2, <1>3 DEF TypeOK, OneCpu, SchedulerOK, ThreadOK, ProcOK, Holds
<1>9. MutualExclusion'
  BY Zenon, <1>1 DEF TypeOK, MutualExclusion, InCrit
<1>10. NoLostWakeup'
  BY <1>1, <1>2, <1>3 DEF TypeOK, NoLostWakeup, MutualExclusion, InCrit, ProcOK, ThreadOK
<1>11. QED
  BY Zenon, <1>4, <1>5, <1>6, <1>7, <1>8, <1>9, <1>10 DEF IInv

LEMMA InitIInv == Init => IInv
<1> SUFFICES ASSUME Init PROVE IInv
  BY Zenon
<1>1. TypeOK
  <2>1. 1 \in Procs /\ 1 \in 1 .. NPROC + 1 /\ 0 \in 0 .. 2
    OBVIOUS
  <2>2. /\ owner \in [Locks -> CPUs \cup {None}] /\ noff \in [CPUs -> 0 .. 2]
        /\ run \in [CPUs -> Procs \cup {None}] /\ sp \in [CPUs -> Procs]
        /\ wk \in [Procs -> 1 .. NPROC + 1]
    BY Zenon, <2>1 DEF Init
  <2>3. QED
    BY Zenon, <2>2 DEF Init, TypeOK, Labels
<1>2. OneCpu /\ MutualExclusion /\ NoLostWakeup
  BY Zenon DEF Init, OneCpu, MutualExclusion, InCrit, NoLostWakeup
<1>3. ASSUME NEW c \in CPUs PROVE SchedulerOK(c) /\ ThreadOK(c)
  BY DEF Init, SchedulerOK, ThreadOK
<1>4. ASSUME NEW p \in Procs PROVE ProcOK(p)
  BY Zenon DEF Init, ProcOK
<1>5. QED
  BY Zenon, <1>1, <1>2, <1>3, <1>4 DEF IInv

LEMMA NextIInv == IInv /\ [Next]_vars => IInv'
<1> SUFFICES ASSUME IInv, [Next]_vars PROVE IInv'
  BY Zenon
<1>1. ASSUME NEW c \in CPUs, scheduler(c) PROVE IInv'
  BY Zenon, <1>1, SchedAcquirePreserves, SchedSwitchPreserves, SchedSkipPreserves,
       SchedBackPreserves
  DEF scheduler
<1>2. ASSUME NEW c \in CPUs, NEW p \in Procs, Thread(c, p) PROVE IInv'
  BY ZenonT(30), ZenonT(30), <1>2, ForkretPreserves, TimerPreserves, YieldAcquirePreserves,
       YieldSchedPreserves, YieldReleasePreserves, YieldRetPreserves,
       AcquiresleepAcquirePreserves, AcquiresleepTakePreserves,
       SleepAcquirePreserves, SleepReleasePreserves, SleepSetPreserves,
       SleepSchedPreserves, SleepBackPreserves, ReleasesleepPreserves,
       WakeupPreserves, ReleasesleepEndPreserves
  DEF Thread, yield, sleep
<1>3. CASE UNCHANGED vars
  BY <1>3 DEF vars, cpu, sched_, slock, IInv, TypeOK, OneCpu, SchedulerOK, ThreadOK, ProcOK,
     Holds, Depth, MutualExclusion, InCrit, NoLostWakeup
<1>4. QED
  BY Zenon, <1>1, <1>2, <1>3 DEF Next

(* The inductive invariant: which locks, nesting depth and interrupt state *)
(* every CPU has follows from where its thread is in the code.             *)
THEOREM Invariance == Spec => []IInv
BY InitIInv, NextIInv, PTL DEF Spec

(* Every variable keeps its type; in particular push_off() never nests     *)
(* deeper than two.                                                        *)
THEOREM TypeCorrect == Spec => []TypeOK
<1>1. IInv => TypeOK
  BY Zenon DEF IInv
<1>2. QED
  BY <1>1, Invariance, PTL

(* acquiresleep() gives the lock to one process at a time, for any number  *)
(* of processes and CPUs and any pattern of preemption.                    *)
THEOREM Exclusive == Spec => []MutualExclusion
<1>1. IInv => MutualExclusion
  BY Zenon DEF IInv
<1>2. QED
  BY <1>1, Invariance, PTL

(* sleep() takes p->lock before it drops lk->lk, so no wakeup() is missed. *)
THEOREM WakeupsReach == Spec => []NoLostWakeup
<1>1. IInv => NoLostWakeup
  BY Zenon DEF IInv
<1>2. QED
  BY <1>1, Invariance, PTL

(* No kernel stack is ever in use on two CPUs, nor can scheduler() choose  *)
(* a process whose thread is still running.                                *)
THEOREM StacksDisjoint == Spec => []OneCpuPerStack
<1>1. IInv => OneCpuPerStack
  <2> SUFFICES ASSUME IInv PROVE OneCpuPerStack
    BY Zenon
  <2>1. ASSUME NEW p \in Procs, state[p] # "RUNNING", owner[p] = None, NEW c \in CPUs, run[c] = p
        PROVE  FALSE
    BY <2>1 DEF IInv, ThreadOK, Holds
  <2>2. QED
    BY Zenon, <2>1 DEF IInv, OneCpu, OneCpuPerStack
<1>2. QED
  BY <1>1, Invariance, PTL

(* No panic of acquire(), release(), pop_off() or sched() is reachable.    *)
THEOREM PanicFree == Spec => []LocksNeverPanic
<1>1. IInv => LocksNeverPanic
  <2> SUFFICES ASSUME IInv, NEW c \in CPUs
               PROVE  /\ run[c] = None /\ spc[c] = "acquire" => owner[sp[c]] # c
                      /\ run[c] = None /\ spc[c] # "acquire" =>
                            owner[sp[c]] = c /\ noff[c] = 1 /\ ~intr[c]
                      /\ \A p \in Procs : run[c] = p =>
                           /\ \A l \in Locks : Acquires(p, l) => owner[l] # c
                           /\ \A l \in Locks : Releases(p, l) =>
                                 owner[l] = c /\ noff[c] >= 1 /\ ~intr[c]
                           /\ pc[p] \in {"yield_sched", "sleep_sched"} =>
                                owner[p] = c /\ noff[c] = 1 /\ state[p] # "RUNNING" /\ ~intr[c]
    BY Zenon DEF LocksNeverPanic
  <2>1. sp[c] \in Locks
    BY SMTT(30) DEF IInv, TypeOK
  <2>2. SchedulerOK(c) /\ ThreadOK(c)
    BY Zenon DEF IInv
  <2>3. ASSUME NEW p \in Procs, run[c] = p
        PROVE  /\ \A l \in Locks : Acquires(p, l) => owner[l] # c
               /\ \A l \in Locks : Releases(p, l) => owner[l] = c /\ noff[c] >= 1 /\ ~intr[c]
               /\ pc[p] \in {"yield_sched", "sleep_sched"} =>
                    owner[p] = c /\ noff[c] = 1 /\ state[p] # "RUNNING" /\ ~intr[c]
    <3>0. wk \in [Procs -> 1 .. NPROC + 1]
      BY Zenon DEF IInv, TypeOK
    <3>1. wk[p] # LK /\ p # LK
      BY <3>0
    <3>2. \A l \in Locks : Acquires(p, l) => ~Holds(p, l)
      BY Zenon, <3>1 DEF Acquires, Holds
    <3>3. \A l \in Locks : Releases(p, l) => Holds(p, l) /\ noff[c] >= 1 /\ ~intr[c]
      BY <2>2, <2>3 DEF ThreadOK, Holds, Depth, Releases
    <3>4. QED
      BY <2>2, <2>3, <3>2, <3>3 DEF ThreadOK, Holds, Depth
  <2>4. QED
    BY Zenon, <2>1, <2>2, <2>3 DEF SchedulerOK
<1>2. QED
  BY <1>1, Invariance, PTL

(* sched() carries intena with the kernel thread: handlers resume with     *)
(* interrupts off, system calls with interrupts on.                        *)
THEOREM IntenaRestored == Spec => []IntenaFollowsThread
<1>1. IInv => IntenaFollowsThread
  BY Zenon DEF IInv, ThreadOK, IntenaFollowsThread
<1>2. QED
  BY <1>1, Invariance, PTL
=============================================================================
