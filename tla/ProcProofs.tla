----------------------------- MODULE ProcProofs -----------------------------
(***************************************************************************)
(* The life-cycle invariants of module Proc, for a table of any size.      *)
(***************************************************************************)
EXTENDS Proc, TLAPS

(* What p->state says of where p's kernel thread is.                       *)
StateOK(p) ==
    /\ state[p] \in {"UNUSED", "USED"} => pc[p] = "none"
    /\ state[p] = "ZOMBIE" => pc[p] \in {"sched", "none"}
    /\ state[p] = "RUNNABLE" => pc[p] \notin {"sched", "none"}
    /\ state[p] = "SLEEPING" => pc[p] = "wait_woken"

(* The first process lives for ever.                                       *)
InitLives ==
    /\ state[initproc] \in {"RUNNABLE", "SLEEPING"}
    /\ pc[initproc] \notin {"exit", "exit_wakeup", "exit_zombie", "sched", "none"}

(* Who holds wait_lock.                                                    *)
LockOK ==
    \A p \in Slots : wait_lock = p <=>
        pc[p] \in {"exit_wakeup", "exit_zombie", "wait_scan", "wait_sleep"}

(* fork() has a USED slot to itself.                                       *)
ForkOK(p) ==
    /\ pc[p] \notin {"fork_parent", "fork_run", "fork_mask"} => np[p] = None
    /\ pc[p] \in {"fork_parent", "fork_run"} =>
        /\ np[p] \in Slots /\ state[np[p]] = "USED"
        /\ parent[np[p]] = IF pc[p] = "fork_run" THEN p ELSE None
        /\ \A q \in Slots : q # p /\ pc[q] \in {"fork_parent", "fork_run"} => np[q] # np[p]

(* A parent is alive and has not given its children away.                  *)
ParentOK(i) ==
    /\ parent[i] # None => /\ state[parent[i]] \in {"RUNNABLE", "SLEEPING"}
                           /\ pc[parent[i]] \notin {"exit_wakeup", "exit_zombie"}
    /\ parent[i] = None => i = initproc \/ state[i] \in {"UNUSED", "USED"}
    /\ state[i] = "UNUSED" => parent[i] = None

(* A process asleep in wait(), or about to be, has children and no zombie  *)
(* among them; the parent of a process about to be one has been woken.     *)
WaitOK(p) ==
    /\ state[p] = "SLEEPING" \/ pc[p] = "wait_sleep" =>
         /\ \E i \in Slots : parent[i] = p
         /\ \A i \in Slots : parent[i] = p => state[i] # "ZOMBIE"
    /\ pc[p] = "exit_zombie" => \A q \in Slots : parent[p] = q => state[q] # "SLEEPING"

IInv ==
    /\ TypeOK /\ InitLives /\ LockOK
    /\ \A p \in Slots : StateOK(p)
    /\ \A p \in Slots : ForkOK(p)
    /\ \A p \in Slots : ParentOK(p)
    /\ \A p \in Slots : WaitOK(p)

(* Only while a process exists does kill() mark its slot.                  *)
KillInv ==
    /\ KilledOnRequest
    /\ \A i \in Slots : state[i] = "UNUSED" => pid[i] = 0 /\ ~killed[i]
-----------------------------------------------------------------------------
USE ProcConstants

LEMMA ForkPreserves ==
    ASSUME IInv, NEW p \in Slots, fork(p)
    PROVE  IInv'
<1> USE DEF fork, Goto, Syscall, Unlocked, table, history, Children, ZombieChildren
<1>1. TypeOK /\ InitLives /\ LockOK
  BY Zenon DEF IInv
<1>2. \A i \in Slots : StateOK(i) /\ ForkOK(i) /\ ParentOK(i) /\ WaitOK(i)
  BY Zenon DEF IInv
<1>3. TypeOK'
  BY <1>1, <1>2 DEF TypeOK, Labels, ForkOK
<1>4. InitLives'
  BY <1>1, <1>2 DEF TypeOK, InitLives, StateOK, ForkOK, ParentOK
<1>5. LockOK'
  BY <1>1, <1>2 DEF TypeOK, LockOK, StateOK, ForkOK
<1>6. ASSUME NEW i \in Slots PROVE StateOK(i)'
  BY <1>1, <1>2 DEF TypeOK, StateOK, ForkOK
<1>7. ASSUME NEW i \in Slots PROVE ForkOK(i)'
  BY <1>1, <1>2 DEF TypeOK, StateOK, ForkOK, ParentOK
<1>8. ASSUME NEW i \in Slots PROVE ParentOK(i)'
  BY <1>1, <1>2 DEF TypeOK, InitLives, LockOK, StateOK, ForkOK, ParentOK
<1>9. ASSUME NEW i \in Slots PROVE WaitOK(i)'
  BY <1>1, <1>2 DEF TypeOK, LockOK, StateOK, ForkOK, ParentOK, WaitOK
<1>10. QED
  BY Zenon, <1>3, <1>4, <1>5, <1>6, <1>7, <1>8, <1>9 DEF IInv

LEMMA ForkFailPreserves ==
    ASSUME IInv, NEW p \in Slots, fork_fail(p)
    PROVE  IInv'
<1> USE DEF fork_fail, Goto, Syscall, Unlocked, table, history, Children, ZombieChildren
<1>1. TypeOK /\ InitLives /\ LockOK
  BY Zenon DEF IInv
<1>2. \A i \in Slots : StateOK(i) /\ ForkOK(i) /\ ParentOK(i) /\ WaitOK(i)
  BY Zenon DEF IInv
<1>3. TypeOK'
  BY <1>1, <1>2 DEF TypeOK, Labels, ForkOK
<1>4. InitLives'
  BY Zenon, <1>1, <1>2 DEF TypeOK, InitLives, StateOK, ForkOK, ParentOK
<1>5. LockOK'
  BY Zenon, <1>1, <1>2 DEF TypeOK, LockOK, StateOK, ForkOK
<1>6. ASSUME NEW i \in Slots PROVE StateOK(i)'
  BY Zenon, <1>1, <1>2 DEF TypeOK, StateOK, ForkOK
<1>7. ASSUME NEW i \in Slots PROVE ForkOK(i)'
  BY <1>1, <1>2 DEF TypeOK, StateOK, ForkOK, ParentOK
<1>8. ASSUME NEW i \in Slots PROVE ParentOK(i)'
  BY <1>1, <1>2 DEF TypeOK, InitLives, LockOK, StateOK, ForkOK, ParentOK
<1>9. ASSUME NEW i \in Slots PROVE WaitOK(i)'
  BY <1>1, <1>2 DEF TypeOK, LockOK, StateOK, ForkOK, ParentOK, WaitOK
<1>10. QED
  BY Zenon, <1>3, <1>4, <1>5, <1>6, <1>7, <1>8, <1>9 DEF IInv

LEMMA ForkParentPreserves ==
    ASSUME IInv, NEW p \in Slots, fork_parent(p)
    PROVE  IInv'
<1> USE DEF fork_parent, Goto, Syscall, Unlocked, table, history, Children, ZombieChildren
<1>1. TypeOK /\ InitLives /\ LockOK
  BY Zenon DEF IInv
<1>2. \A i \in Slots : StateOK(i) /\ ForkOK(i) /\ ParentOK(i) /\ WaitOK(i)
  BY Zenon DEF IInv
<1>3. TypeOK'
  BY Zenon, <1>1, <1>2 DEF TypeOK, Labels, ForkOK
<1>4. InitLives'
  BY <1>1, <1>2 DEF TypeOK, InitLives, StateOK, ForkOK, ParentOK
<1>5. LockOK'
  BY Zenon, <1>1, <1>2 DEF TypeOK, LockOK, StateOK, ForkOK
<1>6. ASSUME NEW i \in Slots PROVE StateOK(i)'
  BY Zenon, <1>1, <1>2 DEF TypeOK, StateOK, ForkOK
<1>7. ASSUME NEW i \in Slots PROVE ForkOK(i)'
  BY <1>1, <1>2 DEF TypeOK, StateOK, ForkOK, ParentOK
<1>8. ASSUME NEW i \in Slots PROVE ParentOK(i)'
  BY <1>1, <1>2 DEF TypeOK, InitLives, LockOK, StateOK, ForkOK, ParentOK
<1>9. ASSUME NEW i \in Slots PROVE WaitOK(i)'
  BY <1>1, <1>2 DEF TypeOK, LockOK, StateOK, ForkOK, ParentOK, WaitOK
<1>10. QED
  BY Zenon, <1>3, <1>4, <1>5, <1>6, <1>7, <1>8, <1>9 DEF IInv

LEMMA ForkRunPreserves ==
    ASSUME IInv, NEW p \in Slots, fork_run(p)
    PROVE  IInv'
<1> USE DEF fork_run, Goto, Syscall, Unlocked, table, history, Children, ZombieChildren
<1>1. TypeOK /\ InitLives /\ LockOK
  BY Zenon DEF IInv
<1>2. \A i \in Slots : StateOK(i) /\ ForkOK(i) /\ ParentOK(i) /\ WaitOK(i)
  BY Zenon DEF IInv
<1>3. TypeOK'
  BY Zenon, <1>1, <1>2 DEF TypeOK, Labels, ForkOK
<1>4. InitLives'
  BY <1>1, <1>2 DEF TypeOK, InitLives, StateOK, ForkOK, ParentOK
<1>5. LockOK'
  BY <1>1, <1>2 DEF TypeOK, LockOK, StateOK, ForkOK
<1>6. ASSUME NEW i \in Slots PROVE StateOK(i)'
  BY ZenonT(30), ZenonT(30), <1>1, <1>2 DEF TypeOK, StateOK, ForkOK
<1>7. ASSUME NEW i \in Slots PROVE ForkOK(i)'
  BY <1>1, <1>2 DEF TypeOK, StateOK, ForkOK, ParentOK
<1>8. ASSUME NEW i \in Slots PROVE ParentOK(i)'
  BY <1>1, <1>2 DEF TypeOK, InitLives, LockOK, StateOK, ForkOK, ParentOK
<1>9. ASSUME NEW i \in Slots PROVE WaitOK(i)'
  BY <1>1, <1>2 DEF TypeOK, LockOK, StateOK, ForkOK, ParentOK, WaitOK
<1>10. QED
  BY Zenon, <1>3, <1>4, <1>5, <1>6, <1>7, <1>8, <1>9 DEF IInv

LEMMA ForkMaskPreserves ==
    ASSUME IInv, NEW p \in Slots, fork_mask(p)
    PROVE  IInv'
<1> USE DEF fork_mask, Goto, Syscall, Unlocked, table, history, Children, ZombieChildren
<1>1. TypeOK /\ InitLives /\ LockOK
  BY Zenon DEF IInv
<1>2. \A i \in Slots : StateOK(i) /\ ForkOK(i) /\ ParentOK(i) /\ WaitOK(i)
  BY Zenon DEF IInv
<1>3. TypeOK'
  BY Zenon, <1>1, <1>2 DEF TypeOK, Labels, ForkOK
<1>4. InitLives'
  BY <1>1, <1>2 DEF TypeOK, InitLives, StateOK, ForkOK, ParentOK
<1>5. LockOK'
  BY <1>1, <1>2 DEF TypeOK, LockOK, StateOK, ForkOK
<1>6. ASSUME NEW i \in Slots PROVE StateOK(i)'
  BY Zenon, <1>1, <1>2 DEF TypeOK, StateOK, ForkOK
<1>7. ASSUME NEW i \in Slots PROVE ForkOK(i)'
  BY <1>1, <1>2 DEF TypeOK, StateOK, ForkOK, ParentOK
<1>8. ASSUME NEW i \in Slots PROVE ParentOK(i)'
  BY <1>1, <1>2 DEF TypeOK, InitLives, LockOK, StateOK, ForkOK, ParentOK
<1>9. ASSUME NEW i \in Slots PROVE WaitOK(i)'
  BY <1>1, <1>2 DEF TypeOK, LockOK, StateOK, ForkOK, ParentOK, WaitOK
<1>10. QED
  BY Zenon, <1>3, <1>4, <1>5, <1>6, <1>7, <1>8, <1>9 DEF IInv

LEMMA SysTracePreserves ==
    ASSUME IInv, NEW p \in Slots, NEW m \in Masks, sys_trace(p, m)
    PROVE  IInv'
<1> USE DEF sys_trace, Goto, Syscall, Unlocked, table, history, Children, ZombieChildren
<1>1. TypeOK /\ InitLives /\ LockOK
  BY Zenon DEF IInv
<1>2. \A i \in Slots : StateOK(i) /\ ForkOK(i) /\ ParentOK(i) /\ WaitOK(i)
  BY Zenon DEF IInv
<1>3. TypeOK'
  BY Zenon, <1>1, <1>2 DEF TypeOK, Labels, ForkOK
<1>4. InitLives'
  BY Zenon, <1>1, <1>2 DEF TypeOK, InitLives, StateOK, ForkOK, ParentOK
<1>5. LockOK'
  BY Zenon, <1>1, <1>2 DEF TypeOK, LockOK, StateOK, ForkOK
<1>6. ASSUME NEW i \in Slots PROVE StateOK(i)'
  BY Zenon, <1>1, <1>2 DEF TypeOK, StateOK, ForkOK
<1>7. ASSUME NEW i \in Slots PROVE ForkOK(i)'
  BY <1>1, <1>2 DEF TypeOK, StateOK, ForkOK, ParentOK
<1>8. ASSUME NEW i \in Slots PROVE ParentOK(i)'
  BY Zenon, <1>1, <1>2 DEF TypeOK, InitLives, LockOK, StateOK, ForkOK, ParentOK
<1>9. ASSUME NEW i \in Slots PROVE WaitOK(i)'
  BY SMTT(30), <1>1, <1>2 DEF TypeOK, LockOK, StateOK, ForkOK, ParentOK, WaitOK
<1>10. QED
  BY Zenon, <1>3, <1>4, <1>5, <1>6, <1>7, <1>8, <1>9 DEF IInv

LEMMA ExitPreserves ==
    ASSUME IInv, NEW p \in Slots, exit(p)
    PROVE  IInv'
<1> USE DEF exit, Exiting, Goto, Syscall, Unlocked, table, history, Children, ZombieChildren
<1>1. TypeOK /\ InitLives /\ LockOK
  BY Zenon DEF IInv
<1>2. \A i \in Slots : StateOK(i) /\ ForkOK(i) /\ ParentOK(i) /\ WaitOK(i)
  BY Zenon DEF IInv
<1>3. TypeOK'
  BY Zenon, <1>1, <1>2 DEF TypeOK, Labels, ForkOK
<1>4. InitLives'
  BY <1>1, <1>2 DEF TypeOK, InitLives, StateOK, ForkOK, ParentOK
<1>5. LockOK'
  BY <1>1, <1>2 DEF TypeOK, LockOK, StateOK, ForkOK
<1>6. ASSUME NEW i \in Slots PROVE StateOK(i)'
  BY Zenon, <1>1, <1>2 DEF TypeOK, StateOK, ForkOK
<1>7. ASSUME NEW i \in Slots PROVE ForkOK(i)'
  BY <1>1, <1>2 DEF TypeOK, StateOK, ForkOK, ParentOK
<1>8. ASSUME NEW i \in Slots PROVE ParentOK(i)'
  BY <1>1, <1>2 DEF TypeOK, InitLives, LockOK, StateOK, ForkOK, ParentOK
<1>9. ASSUME NEW i \in Slots PROVE WaitOK(i)'
  BY <1>1, <1>2 DEF TypeOK, LockOK, StateOK, ForkOK, ParentOK, WaitOK
<1>10. QED
  BY Zenon, <1>3, <1>4, <1>5, <1>6, <1>7, <1>8, <1>9 DEF IInv

LEMMA FaultPreserves ==
    ASSUME IInv, NEW p \in Slots, fault(p)
    PROVE  IInv'
<1> USE DEF fault, Exiting, Goto, Syscall, Unlocked, table, history, Children, ZombieChildren
<1>1. TypeOK /\ InitLives /\ LockOK
  BY Zenon DEF IInv
<1>2. \A i \in Slots : StateOK(i) /\ ForkOK(i) /\ ParentOK(i) /\ WaitOK(i)
  BY Zenon DEF IInv
<1>3. TypeOK'
  BY <1>1, <1>2 DEF TypeOK, Labels, ForkOK
<1>4. InitLives'
  BY <1>1, <1>2 DEF TypeOK, InitLives, StateOK, ForkOK, ParentOK
<1>5. LockOK'
  BY <1>1, <1>2 DEF TypeOK, LockOK, StateOK, ForkOK
<1>6. ASSUME NEW i \in Slots PROVE StateOK(i)'
  BY Zenon, <1>1, <1>2 DEF TypeOK, StateOK, ForkOK
<1>7. ASSUME NEW i \in Slots PROVE ForkOK(i)'
  BY <1>1, <1>2 DEF TypeOK, StateOK, ForkOK, ParentOK
<1>8. ASSUME NEW i \in Slots PROVE ParentOK(i)'
  BY <1>1, <1>2 DEF TypeOK, InitLives, LockOK, StateOK, ForkOK, ParentOK
<1>9. ASSUME NEW i \in Slots PROVE WaitOK(i)'
  BY <1>1, <1>2 DEF TypeOK, LockOK, StateOK, ForkOK, ParentOK, WaitOK
<1>10. QED
  BY Zenon, <1>3, <1>4, <1>5, <1>6, <1>7, <1>8, <1>9 DEF IInv

LEMMA ExitReparentPreserves ==
    ASSUME IInv, NEW p \in Slots, exit_reparent(p)
    PROVE  IInv'
<1> USE DEF exit_reparent, wakeup, Goto, Syscall, Unlocked, table, history, Children, ZombieChildren
<1>1. TypeOK /\ InitLives /\ LockOK
  BY Zenon DEF IInv
<1>2. \A i \in Slots : StateOK(i) /\ ForkOK(i) /\ ParentOK(i) /\ WaitOK(i)
  BY Zenon DEF IInv
<1>3. TypeOK'
  BY ZenonT(30), ZenonT(30), <1>1, <1>2 DEF TypeOK, Labels, ForkOK
<1>4. InitLives'
  BY <1>1, <1>2 DEF TypeOK, InitLives, StateOK, ForkOK, ParentOK
<1>5. LockOK'
  BY <1>1, <1>2 DEF TypeOK, LockOK, StateOK, ForkOK
<1>6. ASSUME NEW i \in Slots PROVE StateOK(i)'
  BY <1>1, <1>2 DEF TypeOK, StateOK, ForkOK
<1>7. ASSUME NEW i \in Slots PROVE ForkOK(i)'
  BY <1>1, <1>2 DEF TypeOK, StateOK, ForkOK, ParentOK
<1>8. ASSUME NEW i \in Slots PROVE ParentOK(i)'
  BY <1>1, <1>2 DEF TypeOK, InitLives, LockOK, StateOK, ForkOK, ParentOK
<1>9. ASSUME NEW i \in Slots PROVE WaitOK(i)'
  BY <1>1, <1>2 DEF TypeOK, LockOK, StateOK, ForkOK, ParentOK, WaitOK
<1>10. QED
  BY Zenon, <1>3, <1>4, <1>5, <1>6, <1>7, <1>8, <1>9 DEF IInv

LEMMA ExitWakeupPreserves ==
    ASSUME IInv, NEW p \in Slots, exit_wakeup(p)
    PROVE  IInv'
<1> USE DEF exit_wakeup, wakeup, Goto, Syscall, Unlocked, table, history, Children, ZombieChildren
<1>1. TypeOK /\ InitLives /\ LockOK
  BY Zenon DEF IInv
<1>2. \A i \in Slots : StateOK(i) /\ ForkOK(i) /\ ParentOK(i) /\ WaitOK(i)
  BY Zenon DEF IInv
<1>3. TypeOK'
  BY Zenon, <1>1, <1>2 DEF TypeOK, Labels, ForkOK
<1>4. InitLives'
  BY <1>1, <1>2 DEF TypeOK, InitLives, StateOK, ForkOK, ParentOK
<1>5. LockOK'
  BY <1>1, <1>2 DEF TypeOK, LockOK, StateOK, ForkOK
<1>6. ASSUME NEW i \in Slots PROVE StateOK(i)'
  BY Zenon, <1>1, <1>2 DEF TypeOK, StateOK, ForkOK
<1>7. ASSUME NEW i \in Slots PROVE ForkOK(i)'
  BY <1>1, <1>2 DEF TypeOK, StateOK, ForkOK, ParentOK
<1>8. ASSUME NEW i \in Slots PROVE ParentOK(i)'
  BY <1>1, <1>2 DEF TypeOK, InitLives, LockOK, StateOK, ForkOK, ParentOK
<1>9. ASSUME NEW i \in Slots PROVE WaitOK(i)'
  BY <1>1, <1>2 DEF TypeOK, LockOK, StateOK, ForkOK, ParentOK, WaitOK
<1>10. QED
  BY Zenon, <1>3, <1>4, <1>5, <1>6, <1>7, <1>8, <1>9 DEF IInv

LEMMA ExitZombiePreserves ==
    ASSUME IInv, NEW p \in Slots, exit_zombie(p)
    PROVE  IInv'
<1> USE DEF exit_zombie, Goto, Syscall, Unlocked, table, history, Children, ZombieChildren
<1>1. TypeOK /\ InitLives /\ LockOK
  BY Zenon DEF IInv
<1>2. \A i \in Slots : StateOK(i) /\ ForkOK(i) /\ ParentOK(i) /\ WaitOK(i)
  BY Zenon DEF IInv
<1>3. TypeOK'
  BY Zenon, <1>1, <1>2 DEF TypeOK, Labels, ForkOK
<1>4. InitLives'
  BY <1>1, <1>2 DEF TypeOK, InitLives, StateOK, ForkOK, ParentOK
<1>5. LockOK'
  BY <1>1, <1>2 DEF TypeOK, LockOK, StateOK, ForkOK
<1>6. ASSUME NEW i \in Slots PROVE StateOK(i)'
  BY Zenon, <1>1, <1>2 DEF TypeOK, StateOK, ForkOK
<1>7. ASSUME NEW i \in Slots PROVE ForkOK(i)'
  BY <1>1, <1>2 DEF TypeOK, StateOK, ForkOK, ParentOK
<1>8. ASSUME NEW i \in Slots PROVE ParentOK(i)'
  BY <1>1, <1>2 DEF TypeOK, InitLives, LockOK, StateOK, ForkOK, ParentOK
<1>9. ASSUME NEW i \in Slots PROVE WaitOK(i)'
  BY <1>1, <1>2 DEF TypeOK, LockOK, StateOK, ForkOK, ParentOK, WaitOK
<1>10. QED
  BY Zenon, <1>3, <1>4, <1>5, <1>6, <1>7, <1>8, <1>9 DEF IInv

LEMMA ExitSchedPreserves ==
    ASSUME IInv, NEW p \in Slots, exit_sched(p)
    PROVE  IInv'
<1> USE DEF exit_sched, Goto, Syscall, Unlocked, table, history, Children, ZombieChildren
<1>1. TypeOK /\ InitLives /\ LockOK
  BY Zenon DEF IInv
<1>2. \A i \in Slots : StateOK(i) /\ ForkOK(i) /\ ParentOK(i) /\ WaitOK(i)
  BY Zenon DEF IInv
<1>3. TypeOK'
  BY Zenon, <1>1, <1>2 DEF TypeOK, Labels, ForkOK
<1>4. InitLives'
  BY <1>1, <1>2 DEF TypeOK, InitLives, StateOK, ForkOK, ParentOK
<1>5. LockOK'
  BY <1>1, <1>2 DEF TypeOK, LockOK, StateOK, ForkOK
<1>6. ASSUME NEW i \in Slots PROVE StateOK(i)'
  BY Zenon, <1>1, <1>2 DEF TypeOK, StateOK, ForkOK
<1>7. ASSUME NEW i \in Slots PROVE ForkOK(i)'
  BY <1>1, <1>2 DEF TypeOK, StateOK, ForkOK, ParentOK
<1>8. ASSUME NEW i \in Slots PROVE ParentOK(i)'
  BY <1>1, <1>2 DEF TypeOK, InitLives, LockOK, StateOK, ForkOK, ParentOK
<1>9. ASSUME NEW i \in Slots PROVE WaitOK(i)'
  BY <1>1, <1>2 DEF TypeOK, LockOK, StateOK, ForkOK, ParentOK, WaitOK
<1>10. QED
  BY Zenon, <1>3, <1>4, <1>5, <1>6, <1>7, <1>8, <1>9 DEF IInv

LEMMA WaitPreserves ==
    ASSUME IInv, NEW p \in Slots, wait(p)
    PROVE  IInv'
<1> USE DEF wait, Goto, Syscall, Unlocked, table, history, Children, ZombieChildren
<1>1. TypeOK /\ InitLives /\ LockOK
  BY Zenon DEF IInv
<1>2. \A i \in Slots : StateOK(i) /\ ForkOK(i) /\ ParentOK(i) /\ WaitOK(i)
  BY Zenon DEF IInv
<1>3. TypeOK'
  BY Zenon, <1>1, <1>2 DEF TypeOK, Labels, ForkOK
<1>4. InitLives'
  BY <1>1, <1>2 DEF TypeOK, InitLives, StateOK, ForkOK, ParentOK
<1>5. LockOK'
  BY Zenon, <1>1, <1>2 DEF TypeOK, LockOK, StateOK, ForkOK
<1>6. ASSUME NEW i \in Slots PROVE StateOK(i)'
  BY Zenon, <1>1, <1>2 DEF TypeOK, StateOK, ForkOK
<1>7. ASSUME NEW i \in Slots PROVE ForkOK(i)'
  BY <1>1, <1>2 DEF TypeOK, StateOK, ForkOK, ParentOK
<1>8. ASSUME NEW i \in Slots PROVE ParentOK(i)'
  BY <1>1, <1>2 DEF TypeOK, InitLives, LockOK, StateOK, ForkOK, ParentOK
<1>9. ASSUME NEW i \in Slots PROVE WaitOK(i)'
  BY <1>1, <1>2 DEF TypeOK, LockOK, StateOK, ForkOK, ParentOK, WaitOK
<1>10. QED
  BY Zenon, <1>3, <1>4, <1>5, <1>6, <1>7, <1>8, <1>9 DEF IInv

LEMMA WaitReapPreserves ==
    ASSUME IInv, NEW p \in Slots, wait_reap(p)
    PROVE  IInv'
<1> USE DEF wait_reap, Return, freeproc, Goto, Syscall, Unlocked, table, history, Children, ZombieChildren
<1>1. TypeOK /\ InitLives /\ LockOK
  BY Zenon DEF IInv
<1>2. \A i \in Slots : StateOK(i) /\ ForkOK(i) /\ ParentOK(i) /\ WaitOK(i)
  BY Zenon DEF IInv
<1>3. TypeOK'
  BY <1>1, <1>2 DEF TypeOK, Labels, ForkOK
<1>4. InitLives'
  BY <1>1, <1>2 DEF TypeOK, InitLives, StateOK, ForkOK, ParentOK
<1>5. LockOK'
  BY <1>1, <1>2 DEF TypeOK, LockOK, StateOK, ForkOK
<1>6. ASSUME NEW i \in Slots PROVE StateOK(i)'
  BY <1>1, <1>2 DEF TypeOK, StateOK, ForkOK
<1>7. ASSUME NEW i \in Slots PROVE ForkOK(i)'
  BY <1>1, <1>2 DEF TypeOK, StateOK, ForkOK, ParentOK
<1>8. ASSUME NEW i \in Slots PROVE ParentOK(i)'
  BY <1>1, <1>2 DEF TypeOK, InitLives, LockOK, StateOK, ForkOK, ParentOK
<1>9. ASSUME NEW i \in Slots PROVE WaitOK(i)'
  BY <1>1, <1>2 DEF TypeOK, LockOK, StateOK, ForkOK, ParentOK, WaitOK
<1>10. QED
  BY Zenon, <1>3, <1>4, <1>5, <1>6, <1>7, <1>8, <1>9 DEF IInv

LEMMA WaitCopyoutFailsPreserves ==
    ASSUME IInv, NEW p \in Slots, wait_copyout_fails(p)
    PROVE  IInv'
<1> USE DEF wait_copyout_fails, Return, Goto, Syscall, Unlocked, table, history, Children, ZombieChildren
<1>1. TypeOK /\ InitLives /\ LockOK
  BY Zenon DEF IInv
<1>2. \A i \in Slots : StateOK(i) /\ ForkOK(i) /\ ParentOK(i) /\ WaitOK(i)
  BY Zenon DEF IInv
<1>3. TypeOK'
  BY Zenon, <1>1, <1>2 DEF TypeOK, Labels, ForkOK
<1>4. InitLives'
  BY <1>1, <1>2 DEF TypeOK, InitLives, StateOK, ForkOK, ParentOK
<1>5. LockOK'
  BY <1>1, <1>2 DEF TypeOK, LockOK, StateOK, ForkOK
<1>6. ASSUME NEW i \in Slots PROVE StateOK(i)'
  BY Zenon, <1>1, <1>2 DEF TypeOK, StateOK, ForkOK
<1>7. ASSUME NEW i \in Slots PROVE ForkOK(i)'
  BY <1>1, <1>2 DEF TypeOK, StateOK, ForkOK, ParentOK
<1>8. ASSUME NEW i \in Slots PROVE ParentOK(i)'
  BY <1>1, <1>2 DEF TypeOK, InitLives, LockOK, StateOK, ForkOK, ParentOK
<1>9. ASSUME NEW i \in Slots PROVE WaitOK(i)'
  BY <1>1, <1>2 DEF TypeOK, LockOK, StateOK, ForkOK, ParentOK, WaitOK
<1>10. QED
  BY Zenon, <1>3, <1>4, <1>5, <1>6, <1>7, <1>8, <1>9 DEF IInv

LEMMA WaitCheckPreserves ==
    ASSUME IInv, NEW p \in Slots, wait_check(p)
    PROVE  IInv'
<1> USE DEF wait_check, Return, Goto, Syscall, Unlocked, table, history, Children, ZombieChildren
<1>1. TypeOK /\ InitLives /\ LockOK
  BY Zenon DEF IInv
<1>2. \A i \in Slots : StateOK(i) /\ ForkOK(i) /\ ParentOK(i) /\ WaitOK(i)
  BY Zenon DEF IInv
<1>3. TypeOK'
  BY <1>1, <1>2 DEF TypeOK, Labels, ForkOK
<1>4. InitLives'
  BY <1>1, <1>2 DEF TypeOK, InitLives, StateOK, ForkOK, ParentOK
<1>5. LockOK'
  BY <1>1, <1>2 DEF TypeOK, LockOK, StateOK, ForkOK
<1>6. ASSUME NEW i \in Slots PROVE StateOK(i)'
  BY <1>1, <1>2 DEF TypeOK, StateOK, ForkOK
<1>7. ASSUME NEW i \in Slots PROVE ForkOK(i)'
  BY <1>1, <1>2 DEF TypeOK, StateOK, ForkOK, ParentOK
<1>8. ASSUME NEW i \in Slots PROVE ParentOK(i)'
  BY <1>1, <1>2 DEF TypeOK, InitLives, LockOK, StateOK, ForkOK, ParentOK
<1>9. ASSUME NEW i \in Slots PROVE WaitOK(i)'
  BY <1>1, <1>2 DEF TypeOK, LockOK, StateOK, ForkOK, ParentOK, WaitOK
<1>10. QED
  BY Zenon, <1>3, <1>4, <1>5, <1>6, <1>7, <1>8, <1>9 DEF IInv

LEMMA WaitSleepPreserves ==
    ASSUME IInv, NEW p \in Slots, wait_sleep(p)
    PROVE  IInv'
<1> USE DEF wait_sleep, Goto, Syscall, Unlocked, table, history, Children, ZombieChildren
<1>1. TypeOK /\ InitLives /\ LockOK
  BY Zenon DEF IInv
<1>2. \A i \in Slots : StateOK(i) /\ ForkOK(i) /\ ParentOK(i) /\ WaitOK(i)
  BY Zenon DEF IInv
<1>3. TypeOK'
  BY Zenon, <1>1, <1>2 DEF TypeOK, Labels, ForkOK
<1>4. InitLives'
  BY <1>1, <1>2 DEF TypeOK, InitLives, StateOK, ForkOK, ParentOK
<1>5. LockOK'
  BY <1>1, <1>2 DEF TypeOK, LockOK, StateOK, ForkOK
<1>6. ASSUME NEW i \in Slots PROVE StateOK(i)'
  BY ZenonT(30), ZenonT(30), <1>1, <1>2 DEF TypeOK, StateOK, ForkOK
<1>7. ASSUME NEW i \in Slots PROVE ForkOK(i)'
  BY <1>1, <1>2 DEF TypeOK, StateOK, ForkOK, ParentOK
<1>8. ASSUME NEW i \in Slots PROVE ParentOK(i)'
  BY <1>1, <1>2 DEF TypeOK, InitLives, LockOK, StateOK, ForkOK, ParentOK
<1>9. ASSUME NEW i \in Slots PROVE WaitOK(i)'
  BY <1>1, <1>2 DEF TypeOK, LockOK, StateOK, ForkOK, ParentOK, WaitOK
<1>10. QED
  BY Zenon, <1>3, <1>4, <1>5, <1>6, <1>7, <1>8, <1>9 DEF IInv

LEMMA KillPreserves ==
    ASSUME IInv, NEW p \in Slots, NEW k \in Victims, kill(p, k)
    PROVE  IInv'
<1> USE DEF kill, Goto, Syscall, Unlocked, table, history, Children, ZombieChildren
<1>1. TypeOK /\ InitLives /\ LockOK
  BY Zenon DEF IInv
<1>2. \A i \in Slots : StateOK(i) /\ ForkOK(i) /\ ParentOK(i) /\ WaitOK(i)
  BY Zenon DEF IInv
<1>3. TypeOK'
  BY <1>1, <1>2 DEF TypeOK, Labels, ForkOK
<1>4. InitLives'
  BY <1>1, <1>2 DEF TypeOK, InitLives, StateOK, ForkOK, ParentOK
<1>5. LockOK'
  BY Zenon, <1>1, <1>2 DEF TypeOK, LockOK, StateOK, ForkOK
<1>6. ASSUME NEW i \in Slots PROVE StateOK(i)'
  BY <1>1, <1>2 DEF TypeOK, StateOK, ForkOK
<1>7. ASSUME NEW i \in Slots PROVE ForkOK(i)'
  BY <1>1, <1>2 DEF TypeOK, StateOK, ForkOK, ParentOK
<1>8. ASSUME NEW i \in Slots PROVE ParentOK(i)'
  BY <1>1, <1>2 DEF TypeOK, InitLives, LockOK, StateOK, ForkOK, ParentOK
<1>9. ASSUME NEW i \in Slots PROVE WaitOK(i)'
  BY <1>1, <1>2 DEF TypeOK, LockOK, StateOK, ForkOK, ParentOK, WaitOK
<1>10. QED
  BY Zenon, <1>3, <1>4, <1>5, <1>6, <1>7, <1>8, <1>9 DEF IInv

LEMMA InitIInv == Init => IInv
<1> SUFFICES ASSUME Init PROVE IInv
  BY Zenon
<1>1. TypeOK
  BY DEF Init, TypeOK, Labels
<1>2. InitLives /\ LockOK
  BY Zenon DEF Init, InitLives, LockOK
<1>3. ASSUME NEW p \in Slots PROVE StateOK(p) /\ ForkOK(p) /\ ParentOK(p) /\ WaitOK(p)
  BY Zenon DEF Init, StateOK, ForkOK, ParentOK, WaitOK
<1>4. QED
  BY Zenon, <1>1, <1>2, <1>3 DEF IInv

LEMMA NextIInv == IInv /\ [Next]_vars => IInv'
<1> SUFFICES ASSUME IInv, [Next]_vars PROVE IInv'
  BY Zenon
<1>1. CASE UNCHANGED vars
  BY <1>1 DEF vars, table, history, IInv, TypeOK, InitLives, LockOK, StateOK, ForkOK, ParentOK, WaitOK
<1>2. CASE Next
  BY Zenon, <1>1, <1>2, ForkPreserves, ForkFailPreserves, ForkParentPreserves, ForkRunPreserves,
     ForkMaskPreserves, SysTracePreserves, ExitPreserves, FaultPreserves,
     ExitReparentPreserves, ExitWakeupPreserves, ExitZombiePreserves,
     ExitSchedPreserves, WaitPreserves, WaitReapPreserves,
     WaitCopyoutFailsPreserves, WaitCheckPreserves, WaitSleepPreserves,
     KillPreserves
  DEF Next, Kernel, panic
<1>3. QED
  BY Zenon, <1>1, <1>2

(* The inductive invariant of the process table.                           *)
THEOREM Invariance == Spec => []IInv
BY InitIInv, NextIInv, PTL DEF Spec

(* Every field of the table keeps its type.                                *)
THEOREM TypeCorrect == Spec => []TypeOK
<1>1. IInv => TypeOK
  BY Zenon DEF IInv
<1>2. QED
  BY <1>1, Invariance, PTL

(* exit() gives the children away and becomes a zombie under one hold of   *)
(* wait_lock, so no process is ever left with a dead parent.               *)
THEOREM ParentsLive == Spec => []ParentAlive
<1>1. IInv => ParentAlive
  BY DEF IInv, TypeOK, ParentOK, ParentAlive
<1>2. QED
  BY <1>1, Invariance, PTL

(* wait() never sleeps through the exit of a child, its own or an adopted  *)
(* one.                                                                    *)
THEOREM ExitsNotMissed == Spec => []SleepingParentHasWork
<1>1. IInv => SleepingParentHasWork
  BY Zenon DEF IInv, WaitOK, SleepingParentHasWork, Children, ZombieChildren
<1>2. QED
  BY <1>1, Invariance, PTL

(* wait() frees a slot only after the child has left its kernel stack.     *)
THEOREM StacksLeft == Spec => []FreedSlotsHaveNoThread
<1>1. IInv => FreedSlotsHaveNoThread
  BY Zenon DEF IInv, StateOK, FreedSlotsHaveNoThread
<1>2. QED
  BY <1>1, Invariance, PTL

(* allocproc() never hands one slot to two calls of fork().                *)
THEOREM ForksDisjoint == Spec => []ForkOwnsSlot
<1>1. IInv => ForkOwnsSlot
  BY Zenon DEF IInv, ForkOK, ForkOwnsSlot
<1>2. QED
  BY <1>1, Invariance, PTL

LEMMA NextKillInv == ASSUME 0 \notin Victims PROVE IInv /\ KillInv /\ [Next]_vars => KillInv'
<1> SUFFICES ASSUME IInv, KillInv, [Next]_vars PROVE KillInv'
  BY Zenon
<1> USE DEF Goto, Syscall, Unlocked, table, history, KillInv, KilledOnRequest
<1>0. TypeOK
  BY Zenon DEF IInv
<1>1. ASSUME NEW p \in Slots, fork(p) PROVE KillInv'
  BY Zenon, <1>0, <1>1 DEF TypeOK, fork
<1>2. ASSUME NEW p \in Slots, fork_fail(p) PROVE KillInv'
  BY ZenonT(30), ZenonT(30), <1>0, <1>2 DEF TypeOK, fork_fail
<1>3. ASSUME NEW p \in Slots, fork_parent(p) \/ fork_mask(p) PROVE KillInv'
  BY Zenon, <1>3 DEF fork_parent, fork_mask
<1>4. ASSUME NEW p \in Slots, fork_run(p) PROVE KillInv'
  BY <1>0, <1>4 DEF TypeOK, fork_run, IInv, ForkOK
<1>5. ASSUME NEW p \in Slots, exit(p) \/ exit_sched(p) PROVE KillInv'
  BY Zenon, <1>5 DEF exit, Exiting, exit_sched
<1>6. ASSUME NEW p \in Slots, exit_reparent(p) \/ exit_wakeup(p) PROVE KillInv'
  BY <1>0, <1>6 DEF TypeOK, exit_reparent, exit_wakeup, wakeup
<1>7. ASSUME NEW p \in Slots, exit_zombie(p) \/ wait_sleep(p) PROVE KillInv'
  <2>1. state[p] # "UNUSED"
    BY Zenon, <1>7 DEF IInv, StateOK, exit_zombie, wait_sleep
  <2>2. QED
    BY <1>0, <1>7, <2>1 DEF TypeOK, exit_zombie, wait_sleep
<1>8. ASSUME NEW p \in Slots, wait(p) \/ wait_copyout_fails(p) \/ wait_check(p) PROVE KillInv'
  BY Zenon, <1>8 DEF wait, wait_copyout_fails, wait_check, Return
<1>9. ASSUME NEW p \in Slots, wait_reap(p) PROVE KillInv'
  BY <1>0, <1>9 DEF TypeOK, wait_reap, freeproc, Return, ZombieChildren, Children
<1>10. ASSUME NEW p \in Slots, NEW m \in Masks, sys_trace(p, m) PROVE KillInv'
  BY Zenon, <1>10 DEF sys_trace
<1>11. ASSUME NEW p \in Slots, NEW k \in Victims, kill(p, k) PROVE KillInv'
  BY Zenon, <1>0, <1>11 DEF TypeOK, kill
<1>12. ASSUME NEW p \in Slots, fault(p) PROVE KillInv'
  BY <1>0, <1>12 DEF TypeOK, fault, Exiting, IInv, StateOK
<1>13. CASE UNCHANGED vars
  BY Zenon, <1>13 DEF vars
<1>14. QED
  BY Zenon, <1>1, <1>2, <1>3, <1>4, <1>5, <1>6, <1>7, <1>8, <1>9, <1>10, <1>11, <1>12, <1>13
  DEF Next, Kernel, panic

(* If no program calls kill(0), a kill flag is only ever set in a process  *)
(* whose pid was passed to kill() or that made usertrap() call setkilled() *)
(* on it, however often slots are reused: freeproc() clears the flag of    *)
(* whoever had the slot before.                                            *)
THEOREM KillsHitTheirTarget == ASSUME 0 \notin Victims PROVE Spec => []KilledOnRequest
<1>1. Init => KillInv
  BY DEF Init, KillInv, KilledOnRequest
<1>2. IInv /\ KillInv /\ [Next]_vars => KillInv'
  BY Zenon, NextKillInv
<1>3. KillInv => KilledOnRequest
  BY Zenon DEF KillInv
<1>4. QED
  BY <1>1, <1>2, <1>3, Invariance, PTL DEF Spec
=============================================================================
