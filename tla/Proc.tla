-------------------------------- MODULE Proc --------------------------------
(***************************************************************************)
(* The life of processes in kernel/proc.c: fork(), exit(), wait(), kill()  *)
(* and reparent(), with the trace mask of the system-call lab.             *)
(*                                                                         *)
(* Grain of atomicity.  wait_lock is explicit.  A section under a single   *)
(* p->lock is one action; the one that spans a context switch, exit()'s    *)
(* last, lasts while p's pc is "sched" (module SleepLock is about sleep()  *)
(* and sched() themselves).  RUNNABLE stands for RUNNABLE and RUNNING, and *)
(* SLEEPING for sleeping in wait() on the channel p.  Where the code scans *)
(* the table taking one lock at a time, the model takes any slot that      *)
(* qualifies: slots change under the scan.                                 *)
(***************************************************************************)
EXTENDS Integers, FiniteSets

CONSTANTS Slots,     \* the process table
          initproc,  \* the slot of the first process
          None,      \* no slot
          MaxPid,    \* bound on the pids handed out
          Victims,   \* the pids that programs pass to kill()
          Faulty,    \* the pids of the processes whose programs may fault
          Masks      \* the masks that programs pass to trace()

ASSUME ProcConstants ==
    /\ initproc \in Slots /\ None \notin Slots
    /\ MaxPid \in Nat /\ Victims \subseteq Nat /\ Faulty \subseteq Nat /\ Masks \subseteq Nat

VARIABLES
    state, parent, pid, killed, mask,   \* struct proc
    nextpid, wait_lock,
    pc,       \* slot -> where its kernel thread is, "none" if it has none
    np,       \* slot -> fork()'s local np
    inherit,  \* history: slot -> the mask its parent had at fork()
    doomed    \* history: the pids kill() was called with, or whose process faulted

table == <<state, parent, pid, killed, mask>>
history == <<inherit, doomed>>
vars == <<table, nextpid, wait_lock, pc, np, history>>

(* After userinit(): only initproc exists.                                 *)
Init ==
    /\ state = [i \in Slots |-> IF i = initproc THEN "RUNNABLE" ELSE "UNUSED"]
    /\ parent = [i \in Slots |-> None]
    /\ pid = [i \in Slots |-> IF i = initproc THEN 1 ELSE 0]
    /\ killed = [i \in Slots |-> FALSE]
    /\ mask = [i \in Slots |-> 0]
    /\ nextpid = 2 /\ wait_lock = None
    /\ pc = [i \in Slots |-> IF i = initproc THEN "user" ELSE "none"]
    /\ np = [i \in Slots |-> None]
    /\ inherit = [i \in Slots |-> 0]
    /\ doomed = {}

Goto(p, l) == pc' = [pc EXCEPT ![p] = l]

(* p enters a system call: usertrap() has found it not killed.             *)
Syscall(p) == pc[p] = "user" /\ ~killed[p]

(* p->lock is free: p is not between the end of exit() and its swtch().    *)
(* The mutant does not take the lock.                                      *)
mut_no_lock(p) == TRUE
Unlocked(p) == pc[p] # "sched"

(* wakeup(p), the channel a parent sleeps on.                              *)
wakeup(p) == state' = IF p # None /\ state[p] = "SLEEPING"
                      THEN [state EXCEPT ![p] = "RUNNABLE"] ELSE state
-----------------------------------------------------------------------------
(* fork().                                                                 *)

(* allocproc(), uvmcopy() and the copying that follows, under np->lock.    *)
(* The mutant does not mark the slot USED.                                 *)
mut_not_marked(p) ==
    /\ Syscall(p) /\ nextpid <= MaxPid
    /\ \E i \in Slots :
         /\ state[i] = "UNUSED"
         /\ pid' = [pid EXCEPT ![i] = nextpid]
         /\ np' = [np EXCEPT ![p] = i]
         /\ inherit' = [inherit EXCEPT ![i] = mask[p]]
    /\ nextpid' = nextpid + 1
    /\ Goto(p, "fork_parent")
    /\ UNCHANGED <<state, parent, killed, mask, wait_lock, doomed>>
fork(p) ==
    /\ Syscall(p) /\ nextpid <= MaxPid
    /\ \E i \in Slots :
         /\ state[i] = "UNUSED"
         /\ state' = [state EXCEPT ![i] = "USED"]
         /\ pid' = [pid EXCEPT ![i] = nextpid]
         /\ np' = [np EXCEPT ![p] = i]
         /\ inherit' = [inherit EXCEPT ![i] = mask[p]]
    /\ nextpid' = nextpid + 1
    /\ Goto(p, "fork_parent")
    /\ UNCHANGED <<parent, killed, mask, wait_lock, doomed>>

(* Memory runs out in allocproc() or uvmcopy(): freeproc() and return -1.  *)
fork_fail(p) ==
    /\ Syscall(p) /\ nextpid <= MaxPid
    /\ \E i \in Slots :
         /\ state[i] = "UNUSED"
         /\ parent' = [parent EXCEPT ![i] = None]
         /\ killed' = [killed EXCEPT ![i] = FALSE]
    /\ nextpid' = nextpid + 1
    /\ UNCHANGED <<state, pid, mask, wait_lock, pc, np, history>>

fork_parent(p) ==
    /\ pc[p] = "fork_parent" /\ wait_lock = None
    /\ parent' = [parent EXCEPT ![np[p]] = p]
    /\ Goto(p, "fork_run")
    /\ UNCHANGED <<state, pid, killed, mask, nextpid, wait_lock, np, history>>

(* The child may run from here on.                                         *)
fork_run(p) ==
    /\ pc[p] = "fork_run"
    /\ state' = [state EXCEPT ![np[p]] = "RUNNABLE"]
    /\ pc' = [pc EXCEPT ![p] = "fork_mask", ![np[p]] = "user"]
    /\ UNCHANGED <<parent, pid, killed, mask, nextpid, wait_lock, np, history>>

(* np->mask = p->mask, without a lock.                                     *)
fork_mask(p) ==
    /\ pc[p] = "fork_mask"
    /\ mask' = [mask EXCEPT ![np[p]] = mask[p]]
    /\ np' = [np EXCEPT ![p] = None]
    /\ Goto(p, "user")
    /\ UNCHANGED <<state, parent, pid, killed, nextpid, wait_lock, history>>

(* sys_trace(m): the process sets its own mask; the mutant adds to it.     *)
mut_add_mask(p, m) ==
    /\ Syscall(p)
    /\ mask' = [mask EXCEPT ![p] = @ + m]
    /\ inherit' = [inherit EXCEPT ![p] = m]
    /\ UNCHANGED <<state, parent, pid, killed, nextpid, wait_lock, pc, np, doomed>>
sys_trace(p, m) ==
    /\ Syscall(p)
    /\ mask' = [mask EXCEPT ![p] = m]
    /\ inherit' = [inherit EXCEPT ![p] = m]
    /\ UNCHANGED <<state, parent, pid, killed, nextpid, wait_lock, pc, np, doomed>>
-----------------------------------------------------------------------------
(* exit(): called by the process, or by usertrap() if it has been killed.  *)
(* In the first process it is panic("init exiting").  Closing the files is *)
(* left out: it touches none of this state.                                *)
Exiting(p) == Goto(p, IF p = initproc THEN "panic" ELSE "exit")

exit(p) ==
    /\ pc[p] = "user"
    /\ Exiting(p)
    /\ UNCHANGED <<table, nextpid, wait_lock, np, history>>

(* usertrap() on an exception that is no system call: setkilled(p), which  *)
(* the test after it finds set, and exit(-1).                              *)
fault(p) ==
    /\ pc[p] = "user" /\ pid[p] \in Faulty
    /\ killed' = [killed EXCEPT ![p] = TRUE]
    /\ doomed' = doomed \cup {pid[p]}
    /\ Exiting(p)
    /\ UNCHANGED <<state, parent, pid, mask, nextpid, wait_lock, np, inherit>>

(* panic() never returns; the other harts go on.                           *)
panic(p) == pc[p] = "panic" /\ UNCHANGED vars

(* acquire(&wait_lock); reparent(p), which wakes initproc.  One mutant     *)
(* keeps the children, the other does not wake initproc.                   *)
mut_no_reparent(p) ==
    /\ pc[p] = "exit" /\ wait_lock = None
    /\ wait_lock' = p
    /\ Goto(p, "exit_wakeup")
    /\ UNCHANGED <<table, nextpid, np, history>>
mut_init_not_woken(p) ==
    /\ pc[p] = "exit" /\ wait_lock = None
    /\ wait_lock' = p
    /\ parent' = [i \in Slots |-> IF parent[i] = p THEN initproc ELSE parent[i]]
    /\ Goto(p, "exit_wakeup")
    /\ UNCHANGED <<state, pid, killed, mask, nextpid, np, history>>
exit_reparent(p) ==
    /\ pc[p] = "exit" /\ wait_lock = None
    /\ wait_lock' = p
    /\ parent' = [i \in Slots |-> IF parent[i] = p THEN initproc ELSE parent[i]]
    /\ IF \E i \in Slots : parent[i] = p THEN wakeup(initproc) ELSE UNCHANGED state
    /\ Goto(p, "exit_wakeup")
    /\ UNCHANGED <<pid, killed, mask, nextpid, np, history>>

(* wakeup(p->parent); the mutant forgets it.                               *)
mut_parent_not_woken(p) ==
    /\ pc[p] = "exit_wakeup"
    /\ Goto(p, "exit_zombie")
    /\ UNCHANGED <<table, nextpid, wait_lock, np, history>>
exit_wakeup(p) ==
    /\ pc[p] = "exit_wakeup"
    /\ wakeup(parent[p])
    /\ Goto(p, "exit_zombie")
    /\ UNCHANGED <<parent, pid, killed, mask, nextpid, wait_lock, np, history>>

(* acquire(&p->lock); ZOMBIE; release(&wait_lock).                         *)
exit_zombie(p) ==
    /\ pc[p] = "exit_zombie"
    /\ state' = [state EXCEPT ![p] = "ZOMBIE"]
    /\ wait_lock' = None
    /\ Goto(p, "sched")
    /\ UNCHANGED <<parent, pid, killed, mask, nextpid, np, history>>

(* swtch() to the scheduler, which releases p->lock.                       *)
exit_sched(p) ==
    /\ pc[p] = "sched"
    /\ Goto(p, "none")
    /\ UNCHANGED <<table, nextpid, wait_lock, np, history>>
-----------------------------------------------------------------------------
(* wait().                                                                 *)

wait(p) ==
    /\ Syscall(p) \/ (pc[p] = "wait_woken" /\ state[p] = "RUNNABLE")
    /\ wait_lock = None
    /\ wait_lock' = p
    /\ Goto(p, "wait_scan")
    /\ UNCHANGED <<table, nextpid, np, history>>

Children(p) == {i \in Slots : parent[i] = p}
ZombieChildren(p) == {i \in Children(p) : state[i] = "ZOMBIE"}

Return(p) == wait_lock' = None /\ Goto(p, "user")

(* freeproc(pp); the mutant leaves p->killed as it is.                     *)
mut_stays_killed(i) ==
    /\ state' = [state EXCEPT ![i] = "UNUSED"]
    /\ parent' = [parent EXCEPT ![i] = None]
    /\ pid' = [pid EXCEPT ![i] = 0]
    /\ UNCHANGED killed
freeproc(i) ==
    /\ state' = [state EXCEPT ![i] = "UNUSED"]
    /\ parent' = [parent EXCEPT ![i] = None]
    /\ pid' = [pid EXCEPT ![i] = 0]
    /\ killed' = [killed EXCEPT ![i] = FALSE]

wait_reap(p) ==
    /\ pc[p] = "wait_scan"
    /\ \E i \in ZombieChildren(p) : Unlocked(i) /\ freeproc(i)
    /\ Return(p)
    /\ UNCHANGED <<mask, nextpid, np, history>>

(* copyout() of the status fails: -1, and the child stays a zombie.        *)
wait_copyout_fails(p) ==
    /\ pc[p] = "wait_scan"
    /\ \E i \in ZombieChildren(p) : Unlocked(i)
    /\ Return(p)
    /\ UNCHANGED <<table, nextpid, np, history>>

(* No zombie found; !havekids || killed(p).                                *)
wait_check(p) ==
    /\ pc[p] = "wait_scan" /\ ZombieChildren(p) = {}
    /\ IF Children(p) = {} \/ killed[p]
       THEN Return(p)
       ELSE Goto(p, "wait_sleep") /\ UNCHANGED wait_lock
    /\ UNCHANGED <<table, nextpid, np, history>>

(* sleep(p, &wait_lock).                                                   *)
wait_sleep(p) ==
    /\ pc[p] = "wait_sleep"
    /\ state' = [state EXCEPT ![p] = "SLEEPING"]
    /\ wait_lock' = None
    /\ Goto(p, "wait_woken")
    /\ UNCHANGED <<parent, pid, killed, mask, nextpid, np, history>>
-----------------------------------------------------------------------------
(* kill(k), called by p.                                                   *)
kill(p, k) ==
    /\ Syscall(p)
    /\ \E i \in Slots :
         /\ pid[i] = k /\ Unlocked(i)
         /\ killed' = [killed EXCEPT ![i] = TRUE]
         /\ state' = IF state[i] = "SLEEPING" THEN [state EXCEPT ![i] = "RUNNABLE"] ELSE state
    /\ doomed' = doomed \cup {k}
    /\ UNCHANGED <<parent, pid, mask, nextpid, wait_lock, pc, np, inherit>>
-----------------------------------------------------------------------------
Kernel(p) ==
    \/ fork_parent(p) \/ fork_run(p) \/ fork_mask(p)
    \/ exit_reparent(p) \/ exit_wakeup(p) \/ exit_zombie(p) \/ exit_sched(p)
    \/ wait_reap(p) \/ wait_copyout_fails(p) \/ wait_check(p) \/ wait_sleep(p)

Next == \E p \in Slots :
    \/ fork(p) \/ fork_fail(p) \/ exit(p) \/ fault(p) \/ panic(p) \/ wait(p)
    \/ \E m \in Masks : sys_trace(p, m)
    \/ \E k \in Victims : kill(p, k)
    \/ Kernel(p)

Spec == Init /\ [][Next]_vars

(* A thread in the kernel runs on and gets wait_lock in the end; the first *)
(* process keeps calling wait(0), whose copyout() cannot fail (user/init.c)*)
Fairness ==
    /\ \A p \in Slots : SF_vars(Kernel(p) \/ (pc[p] = "wait_woken" /\ wait(p)))
    /\ SF_vars(wait(initproc)) /\ SF_vars(wait_reap(initproc))
FairSpec == Spec /\ Fairness
-----------------------------------------------------------------------------
Labels == {"none", "user", "fork_parent", "fork_run", "fork_mask", "exit", "exit_wakeup",
           "exit_zombie", "sched", "panic", "wait_scan", "wait_sleep", "wait_woken"}

(* Type invariant: every field of the table stays in its domain; trace()   *)
(* can only store a mask it was given.                                     *)
TypeOK ==
    /\ state \in [Slots -> {"UNUSED", "USED", "RUNNABLE", "SLEEPING", "ZOMBIE"}]
    /\ parent \in [Slots -> Slots \cup {None}]
    /\ pid \in [Slots -> Nat] /\ killed \in [Slots -> BOOLEAN]
    /\ mask \in [Slots -> Masks \cup {0}] /\ inherit \in [Slots -> Masks \cup {0}]
    /\ nextpid \in Nat \ {0} /\ wait_lock \in Slots \cup {None}
    /\ pc \in [Slots -> Labels] /\ np \in [Slots -> Slots \cup {None}]
    /\ doomed \subseteq Nat

(* "An exited process remains in the zombie state until its parent calls   *)
(* wait()", so it must have one: the parent of every process that can be   *)
(* or become a zombie is a live process, never a freed slot or a zombie.   *)
ParentAlive ==
    \A i \in Slots \ {initproc} : state[i] \in {"RUNNABLE", "SLEEPING", "ZOMBIE"} =>
        parent[i] \in Slots /\ state[parent[i]] \in {"RUNNABLE", "SLEEPING"}

(* No lost exit: whenever wait_lock is free, a parent asleep in wait() has *)
(* at least one child and none that is already a zombie; exit() has woken  *)
(* it before.                                                              *)
SleepingParentHasWork ==
    wait_lock = None => \A p \in Slots :
        state[p] = "SLEEPING" => Children(p) # {} /\ ZombieChildren(p) = {}

(* "make sure the child isn't still in exit() or swtch()": a slot is free  *)
(* or being set up only when no kernel thread uses its stack.              *)
FreedSlotsHaveNoThread ==
    \A i \in Slots : state[i] \in {"UNUSED", "USED"} => pc[i] = "none"

(* fork() works on a slot of its own until the child is runnable: two      *)
(* forks never share one, and nobody else frees it or makes it run.        *)
ForkOwnsSlot ==
    \A p \in Slots : pc[p] \in {"fork_parent", "fork_run"} =>
        /\ state[np[p]] = "USED"
        /\ \A q \in Slots \ {p} : np[q] # np[p] \/ pc[q] = "fork_mask"

(* A kill flag belongs to the process it was meant for: it is set only in  *)
(* a process whose pid was passed to kill(), or that itself made usertrap()*)
(* call setkilled(), even though slots are reused.                         *)
KilledOnRequest ==
    \A i \in Slots : state[i] # "UNUSED" /\ killed[i] => pid[i] \in doomed

(* Every zombie that belongs to the first process is reaped, unless that   *)
(* process panics by exiting: no slot of the table is lost to an orphan.   *)
(* MaxPid bounds the forks: wait()'s scan may pass over a zombie for ever  *)
(* if others keep appearing in the slots before it.                        *)
OrphansReaped ==
    \A i \in Slots : state[i] = "ZOMBIE" /\ parent[i] = initproc
                     ~> state[i] = "UNUSED" \/ pc[initproc] = "panic"

(* trace: a child that can run has the mask its parent had at fork().      *)
ChildInheritsMask ==
    \A i \in Slots : pc[i] = "user" => mask[i] = inherit[i]
=============================================================================
