-------------------------------- MODULE Log --------------------------------
(***************************************************************************)
(* kernel/log.c: the write-ahead log under concurrent file-system calls,   *)
(* with a crash possible between any two disk writes and during recovery.  *)
(*                                                                         *)
(* Grain of atomicity.  A section under log.lock is one action (sleep()    *)
(* gives the lock up, so begin_op() is one action per turn of its loop).   *)
(* A block write reaches the disk whole or not at all.  The log's own      *)
(* blocks and the header are written through (every change to their        *)
(* buffers is followed by bwrite() under the buffer's lock), so the model  *)
(* keeps only their disk copies; home blocks have a disk copy and a cached *)
(* copy, and the cache may drop a buffer nobody references at any time.    *)
(***************************************************************************)
EXTENDS Integers, Sequences, FiniteSets, Functions

CONSTANTS Procs,        \* processes
          Blocks,       \* home block numbers
          Data,         \* contents of a block
          InitData,     \* contents of every block in the image mkfs makes
          NotCached,    \* no buffer holds the block
          None,         \* no process
          MAXOPBLOCKS,  \* reservation of one call
          LOGSIZE,      \* capacity of the header's block array
          LogBlocks,    \* log.size = sb->nlog, header block included
          OpBlocks      \* how many distinct blocks one call really writes

ASSUME LogConstants ==
    /\ IsFiniteSet(Procs) /\ None \notin Procs
    /\ InitData \in Data /\ NotCached \notin Data
    /\ MAXOPBLOCKS \in Nat \ {0} /\ LOGSIZE \in Nat \ {0}
    /\ LogBlocks \in Nat \ {0} /\ OpBlocks \in Nat

VARIABLES
    home,         \* disk: the blocks at their home locations
    logged,       \* disk: the log's data blocks, 1 .. LogBlocks - 1
    head,         \* disk: header, the sequence block[0 .. n-1]
    buf,          \* cache: contents of the buffer of a home block
    holder,       \* cache: who holds the buffer's sleep-lock
    pin,          \* cache: references taken by bpin()
    lh,           \* log.lh, as the sequence block[0 .. n-1]
    outstanding,  \* log.outstanding
    committing,   \* log.committing
    mode,         \* "read_head", "recover", "run" or "panic"
    rtail,        \* install_trans()'s tail during recovery
    pc, tail,     \* per process: where it is, and the tail of its commit()
    wrote         \* per process: the blocks its current call has logged

disk == <<home, logged, head>>
cache == <<buf, holder, pin>>
log == <<lh, outstanding, committing>>
local == <<pc, tail, wrote>>
vars == <<disk, cache, log, mode, rtail, local>>

InOp == {"op", "dirty", "clean"}
InCommit == {"write_log", "write_head", "install", "erase", "done"}

Init ==
    /\ home = [b \in Blocks |-> InitData]
    /\ logged = [i \in 1 .. LogBlocks - 1 |-> InitData]
    /\ head = <<>>
    /\ buf = [b \in Blocks |-> NotCached]
    /\ holder = [b \in Blocks |-> None]
    /\ pin = [b \in Blocks |-> 0]
    /\ lh = <<>> /\ outstanding = 0 /\ committing = FALSE
    /\ mode = "read_head" /\ rtail = 0
    /\ pc = [p \in Procs |-> "idle"]
    /\ tail = [p \in Procs |-> 0]
    /\ wrote = [p \in Procs |-> {}]

(* What bread() returns for a home block.                                  *)
bread(b) == IF buf[b] = NotCached THEN home[b] ELSE buf[b]
-----------------------------------------------------------------------------
(* Start-up: initlog() runs recover_from_log() in the first process,       *)
(* before any other process can make a file-system call.                   *)

read_head ==
    /\ mode = "read_head"
    /\ lh' = head /\ mode' = "recover" /\ rtail' = 0
    /\ UNCHANGED <<disk, cache, outstanding, committing, local>>

(* install_trans(1): one turn of its loop, which ends in one disk write.   *)
install_recover ==
    /\ mode = "recover" /\ rtail < Len(lh)
    /\ LET b == lh[rtail + 1]
           d == logged[rtail + 1]
       IN  /\ home' = [home EXCEPT ![b] = d]
           /\ buf' = [buf EXCEPT ![b] = d]
    /\ rtail' = rtail + 1
    /\ UNCHANGED <<logged, head, holder, pin, log, mode, local>>

(* log.lh.n = 0; write_head(): the log is cleared.  The mutant does so     *)
(* before the installation is complete.                                    *)
mut_clear_early ==
    /\ mode = "recover"
    /\ lh' = <<>> /\ head' = <<>> /\ mode' = "run"
    /\ UNCHANGED <<home, logged, cache, outstanding, committing, rtail, local>>
clear_log ==
    /\ mode = "recover" /\ rtail = Len(lh)
    /\ lh' = <<>> /\ head' = <<>> /\ mode' = "run"
    /\ UNCHANGED <<home, logged, cache, outstanding, committing, rtail, local>>

recover_from_log == read_head \/ install_recover \/ clear_log
-----------------------------------------------------------------------------
(* File-system calls.                                                      *)

(* A new call must wait for a running commit, and for log space in the     *)
(* worst case.  One mutant forgets the commit, the other the reservation   *)
(* of the new call.                                                        *)
mut_no_committing == Len(lh) + (outstanding + 1) * MAXOPBLOCKS > LOGSIZE
mut_no_reservation == committing \/ Len(lh) + outstanding * MAXOPBLOCKS > LOGSIZE
must_wait == committing \/ Len(lh) + (outstanding + 1) * MAXOPBLOCKS > LOGSIZE

begin_op(p) ==
    /\ mode = "run" /\ pc[p] \in {"idle", "woken"}
    /\ IF must_wait
       THEN /\ pc' = [pc EXCEPT ![p] = "sleep"]
            /\ UNCHANGED outstanding
       ELSE /\ outstanding' = outstanding + 1
            /\ pc' = [pc EXCEPT ![p] = "op"]
    /\ UNCHANGED <<disk, cache, lh, committing, mode, rtail, tail, wrote>>

(* bp = bread(b); modify bp->data.  A call writes at most OpBlocks blocks. *)
modify(p, b, d) ==
    /\ mode = "run" /\ pc[p] = "op" /\ holder[b] = None
    /\ Cardinality(wrote[p] \cup {b}) <= OpBlocks
    /\ holder' = [holder EXCEPT ![b] = p]
    /\ buf' = [buf EXCEPT ![b] = d]
    /\ pc' = [pc EXCEPT ![p] = "dirty"]
    /\ UNCHANGED <<disk, pin, log, mode, rtail, tail, wrote>>

(* bpin(b), when the block joins the log; the mutant forgets it.           *)
mut_no_bpin(b) == pin
bpin(b) == [pin EXCEPT ![b] = @ + 1]

(* The mutant logs a block again that is in the log already.               *)
mut_no_absorption(p, b) ==
    /\ mode = "run" /\ pc[p] = "dirty" /\ holder[b] = p
    /\ IF Len(lh) >= LOGSIZE \/ Len(lh) >= LogBlocks - 1 \/ outstanding < 1
       THEN mode' = "panic" /\ UNCHANGED <<lh, pin, pc, wrote>>
       ELSE /\ lh' = Append(lh, b) /\ pin' = bpin(b)
            /\ wrote' = [wrote EXCEPT ![p] = @ \cup {b}]
            /\ pc' = [pc EXCEPT ![p] = "clean"]
            /\ UNCHANGED mode
    /\ UNCHANGED <<disk, buf, holder, outstanding, committing, rtail, tail>>
log_write(p, b) ==
    /\ mode = "run" /\ pc[p] = "dirty" /\ holder[b] = p
    /\ IF Len(lh) >= LOGSIZE \/ Len(lh) >= LogBlocks - 1 \/ outstanding < 1
       THEN mode' = "panic" /\ UNCHANGED <<lh, pin, pc, wrote>>
       ELSE /\ IF b \in Range(lh)
               THEN UNCHANGED <<lh, pin>>
               ELSE lh' = Append(lh, b) /\ pin' = bpin(b)
            /\ wrote' = [wrote EXCEPT ![p] = @ \cup {b}]
            /\ pc' = [pc EXCEPT ![p] = "clean"]
            /\ UNCHANGED mode
    /\ UNCHANGED <<disk, buf, holder, outstanding, committing, rtail, tail>>

brelse(p, b) ==
    /\ mode = "run" /\ pc[p] = "clean" /\ holder[b] = p
    /\ holder' = [holder EXCEPT ![b] = None]
    /\ pc' = [pc EXCEPT ![p] = "op"]
    /\ UNCHANGED <<disk, buf, pin, log, mode, rtail, tail, wrote>>

(* pc after wakeup(&log), with process p moving on to q; the mutant wakes  *)
(* nobody.                                                                 *)
mut_no_wakeup(p, q) == [pc EXCEPT ![p] = q]
wakeup(p, q) == [r \in Procs |-> IF r = p THEN q
                                 ELSE IF pc[r] = "sleep" THEN "woken" ELSE pc[r]]

(* end_op() up to its first release(): the last call out goes on to        *)
(* commit(), which does nothing to the disk if the log is empty.           *)
end_op(p) ==
    /\ mode = "run" /\ pc[p] = "op"
    /\ outstanding' = outstanding - 1
    /\ wrote' = [wrote EXCEPT ![p] = {}]
    /\ IF committing
       THEN mode' = "panic" /\ UNCHANGED <<committing, pc, tail>>
       ELSE IF outstanding = 1
       THEN /\ committing' = TRUE
            /\ pc' = [pc EXCEPT ![p] = IF lh = <<>> THEN "done" ELSE "write_log"]
            /\ tail' = [tail EXCEPT ![p] = 0]
            /\ UNCHANGED mode
       ELSE /\ pc' = wakeup(p, "idle")
            /\ UNCHANGED <<committing, mode, tail>>
    /\ UNCHANGED <<disk, cache, lh, rtail>>
-----------------------------------------------------------------------------
(* commit(), run by the last call out, one disk write per action.          *)

Committer(p, at) == mode = "run" /\ pc[p] = at

(* The mutant does not advance its loop.                                   *)
mut_stuck_tail(p) ==
    /\ Committer(p, "write_log") /\ holder[lh[tail[p] + 1]] = None
    /\ logged' = [logged EXCEPT ![tail[p] + 1] = bread(lh[tail[p] + 1])]
    /\ pc' = IF tail[p] + 1 = Len(lh) THEN [pc EXCEPT ![p] = "write_head"] ELSE pc
    /\ UNCHANGED <<home, head, cache, tail, log, mode, rtail, wrote>>
write_log(p) ==
    /\ Committer(p, "write_log")
    /\ LET b == lh[tail[p] + 1]
       IN  /\ holder[b] = None
           /\ buf' = [buf EXCEPT ![b] = bread(b)]
           /\ logged' = [logged EXCEPT ![tail[p] + 1] = bread(b)]
    /\ tail' = [tail EXCEPT ![p] = @ + 1]
    /\ pc' = IF tail[p] + 1 = Len(lh) THEN [pc EXCEPT ![p] = "write_head"] ELSE pc
    /\ UNCHANGED <<home, head, holder, pin, log, mode, rtail, wrote>>

(* The real commit.                                                        *)
write_head(p) ==
    /\ Committer(p, "write_head")
    /\ head' = lh
    /\ tail' = [tail EXCEPT ![p] = 0]
    /\ pc' = [pc EXCEPT ![p] = "install"]
    /\ UNCHANGED <<home, logged, cache, log, mode, rtail, wrote>>

install_trans(p) ==
    /\ Committer(p, "install")
    /\ LET b == lh[tail[p] + 1]
           d == logged[tail[p] + 1]
       IN  /\ holder[b] = None
           /\ home' = [home EXCEPT ![b] = d]
           /\ buf' = [buf EXCEPT ![b] = d]
           /\ pin' = [pin EXCEPT ![b] = @ - 1]
    /\ tail' = [tail EXCEPT ![p] = @ + 1]
    /\ pc' = IF tail[p] + 1 = Len(lh) THEN [pc EXCEPT ![p] = "erase"] ELSE pc
    /\ UNCHANGED <<logged, head, holder, log, mode, rtail, wrote>>

(* The mutant clears log.lh but not the header on disk.                    *)
mut_header_kept(p) ==
    /\ Committer(p, "erase")
    /\ lh' = <<>>
    /\ pc' = [pc EXCEPT ![p] = "done"]
    /\ UNCHANGED <<disk, cache, outstanding, committing, mode, rtail, tail, wrote>>
erase(p) ==
    /\ Committer(p, "erase")
    /\ lh' = <<>> /\ head' = <<>>
    /\ pc' = [pc EXCEPT ![p] = "done"]
    /\ UNCHANGED <<home, logged, cache, outstanding, committing, mode, rtail,
                   tail, wrote>>

commit(p) == write_log(p) \/ write_head(p) \/ install_trans(p) \/ erase(p)

(* The rest of end_op(), after commit() has returned.                      *)
end_commit(p) ==
    /\ Committer(p, "done")
    /\ committing' = FALSE
    /\ pc' = wakeup(p, "idle")
    /\ tail' = [tail EXCEPT ![p] = 0]
    /\ UNCHANGED <<disk, cache, lh, outstanding, mode, rtail, wrote>>
-----------------------------------------------------------------------------
(* The buffer cache, as far as the log depends on it.                      *)

(* bread() by a reader, which need not be inside a transaction.            *)
read(b) ==
    /\ mode = "run" /\ buf[b] = NotCached /\ holder[b] = None
    /\ buf' = [buf EXCEPT ![b] = home[b]]
    /\ UNCHANGED <<disk, holder, pin, log, mode, rtail, local>>

(* bget() reuses the buffer of a block nobody refers to.                   *)
bget_recycle(b) ==
    /\ mode = "run" /\ buf[b] # NotCached /\ holder[b] = None /\ pin[b] = 0
    /\ buf' = [buf EXCEPT ![b] = NotCached]
    /\ UNCHANGED <<disk, holder, pin, log, mode, rtail, local>>

(* Power failure or a reboot after a panic: memory is lost, the disk stays.*)
crash ==
    /\ buf' = [b \in Blocks |-> NotCached]
    /\ holder' = [b \in Blocks |-> None]
    /\ pin' = [b \in Blocks |-> 0]
    /\ lh' = <<>> /\ outstanding' = 0 /\ committing' = FALSE
    /\ mode' = "read_head" /\ rtail' = 0
    /\ pc' = [p \in Procs |-> "idle"]
    /\ tail' = [p \in Procs |-> 0]
    /\ wrote' = [p \in Procs |-> {}]
    /\ UNCHANGED disk
-----------------------------------------------------------------------------
Step(p) ==
    \/ begin_op(p) \/ end_op(p) \/ commit(p) \/ end_commit(p)
    \/ \E b \in Blocks : log_write(p, b) \/ brelse(p, b)
    \/ \E b \in Blocks, d \in Data : modify(p, b, d)

Next == \/ recover_from_log
        \/ \E p \in Procs : Step(p)
        \/ \E b \in Blocks : read(b) \/ bget_recycle(b)
        \/ crash

Spec == Init /\ [][Next]_vars

(* A process inside the log keeps running; a call makes finitely many      *)
(* updates, so one that is repeatedly able to end does end.  Starting a    *)
(* call, reading and crashing are never forced.                            *)
Fairness ==
    /\ WF_vars(recover_from_log)
    /\ \A p \in Procs :
         /\ WF_vars(pc[p] = "woken" /\ begin_op(p))
         /\ WF_vars(commit(p) \/ end_commit(p))
         /\ WF_vars(\E b \in Blocks : log_write(p, b) \/ brelse(p, b))
         /\ SF_vars(end_op(p))

FairSpec == Spec /\ Fairness
-----------------------------------------------------------------------------
Types ==
    /\ home \in [Blocks -> Data]
    /\ logged \in [1 .. LogBlocks - 1 -> Data]
    /\ head \in Seq(Blocks) /\ lh \in Seq(Blocks)
    /\ buf \in [Blocks -> Data \cup {NotCached}]
    /\ holder \in [Blocks -> Procs \cup {None}]
    /\ pin \in [Blocks -> Nat]
    /\ outstanding \in Nat /\ committing \in BOOLEAN
    /\ mode \in {"read_head", "recover", "run", "panic"}
    /\ rtail \in Nat
    /\ pc \in [Procs -> {"idle", "sleep", "woken"} \cup InOp \cup InCommit]
    /\ tail \in [Procs -> Nat]
    /\ wrote \in [Procs -> SUBSET Blocks]

NoDup(s) == \A i, j \in 1 .. Len(s) : s[i] = s[j] => i = j

(* Type invariant: every variable has its type, and log.lh and the header  *)
(* on disk never name a block twice: log_write() absorbs.                  *)
TypeOK == Types /\ NoDup(lh) /\ NoDup(head)

(* What recovery would make of the disk as it is now.                      *)
Recovered ==
    [b \in Blocks |-> IF \E i \in 1 .. Len(head) : head[i] = b
                      THEN logged[CHOOSE i \in 1 .. Len(head) : head[i] = b]
                      ELSE home[b]]

Active == {p \in Procs : pc[p] \in InOp}

View == IF mode \in {"read_head", "recover"} THEN Recovered
        ELSE [b \in Blocks |-> bread(b)]

(* Crash atomicity, over commit(), install_trans() and recover_from_log(): *)
(* whatever the moment of a crash, and of further crashes during recovery, *)
(* the restarted system sees the blocks exactly as they stood at the last  *)
(* commit, and a commit happens only with no call between begin_op() and   *)
(* end_op(); apart from crashes bread() always returns the latest update.  *)
GC == INSTANCE GroupCommit WITH mem <- View, durable <- Recovered, active <- Active
CrashAtomic == GC!Spec

(* None of the panics of log.c ("too big a transaction", "log_write        *)
(* outside of trans", "log.committing") is reached.                        *)
LogNeverPanics == mode # "panic"

(* end_op()'s promise to the last caller: once no call is active and no    *)
(* commit is running, everything written so far is on disk, no pin is left *)
(* behind and the log is empty.                                            *)
IdleIsDurable ==
    mode = "run" /\ outstanding = 0 /\ ~committing =>
        /\ View = Recovered
        /\ lh = <<>> /\ head = <<>>
        /\ \A b \in Blocks : pin[b] = 0

(* log_write()'s bpin() and install_trans()'s bunpin(): a block whose      *)
(* latest contents are not yet at home is in the cache and pinned, exactly *)
(* once however often it was logged.                                       *)
UninstalledArePinned ==
    mode = "run" =>
        \A b \in Blocks :
            /\ pin[b] <= 1
            /\ pin[b] = 1 => b \in Range(lh)
            /\ bread(b) # home[b] => pin[b] = 1 \/ holder[b] # None

(* A commit runs alone: log.committing keeps every call out, so no block   *)
(* can change between write_log() and the end of install_trans().          *)
CommitAlone ==
    mode = "run" =>
        \A p \in Procs :
            pc[p] \in InCommit =>
                /\ committing /\ outstanding = 0
                /\ \A q \in Procs \ {p} : pc[q] \notin InOp \cup InCommit

(* No lost wakeup: a call that sleeps in begin_op() waits for something    *)
(* that will happen, a running commit or a call still outstanding, and is  *)
(* woken by it.                                                            *)
WaitersWake == \A p \in Procs : pc[p] = "sleep" ~> pc[p] # "sleep"

(* Once no more crashes come, recovery ends, and so does every commit, the *)
(* one a crash has cut short included: the system runs and the committer   *)
(* is back from end_op().                                                  *)
CommitEnds ==
    <>[][~crash]_vars =>
        /\ mode \in {"read_head", "recover"} ~> mode = "run"
        /\ \A p \in Procs : pc[p] \in InCommit ~> mode = "run" /\ pc[p] = "idle"
=============================================================================
