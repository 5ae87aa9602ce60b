--------------------------- MODULE LogRefinement ---------------------------
(***************************************************************************)
(* Proof that Log implements GroupCommit: every disk write of commit() and *)
(* of recovery other than the header write of write_head() leaves both the *)
(* view and the recovered contents as they are, and that header write      *)
(* makes the whole view durable at once.                                   *)
(***************************************************************************)
EXTENDS LogProofs

USE LogConstants DEF disk, cache, log, local, InOp, InCommit, must_wait, bpin

LEMMA InitRefines == Init => GC!Init
<1> SUFFICES ASSUME Init PROVE GC!Init
  BY Zenon
<1>1. Recovered = [b \in Blocks |-> InitData]
  BY Zenon, EmptyHeader DEF Init
<1>2. View = Recovered
  BY Zenon DEF Init, View
<1>3. Active = {}
  BY Zenon DEF Init, Active
<1> QED
  BY Zenon, <1>1, <1>2, <1>3 DEF GC!Init

(* The calls.                                                              *)
LEMMA CallRefines ==
    ASSUME IInv, NEW p \in Procs, begin_op(p) \/ end_op(p)
    PROVE  GC!Next \/ UNCHANGED GC!vars
<1>0. mode = "run" /\ Types /\ Control
  BY Zenon DEF begin_op, end_op, IInv, Running
<1>1. UNCHANGED <<View, Recovered>>
  <2>1. UNCHANGED <<disk, buf>> /\ mode' \in {"run", "panic"}
    BY Zenon, <1>0 DEF begin_op, end_op
  <2>2. \A b \in Blocks : bread(b)' = bread(b)
    BY Zenon, <2>1 DEF bread
  <2> QED
    BY Zenon, <1>0, <2>1, <2>2, SameDisk, SameView
<1>2. CASE begin_op(p)
  <2>1. Active' = Active \/ (p \notin Active /\ Active' = Active \cup {p})
    BY <1>0, <1>2 DEF begin_op, Types, Active
  <2> QED
    BY Zenon, <1>1, <2>1 DEF GC!Next, GC!Begin, GC!vars
<1>3. CASE end_op(p)
  <2>1. ~committing /\ p \in Active
    BY Zenon, <1>0, <1>3 DEF end_op, Control, Active
  <2>2. \A q \in Procs : IF q = p THEN pc'[q] \notin InOp
                         ELSE pc'[q] \in InOp <=> pc[q] \in InOp
    <3>1. CASE outstanding = 1
      BY SMTT(30), <1>0, <1>3, <2>1, <3>1 DEF end_op, Types
    <3>2. CASE outstanding # 1
      BY SMTT(30), <1>0, <1>3, <2>1, <3>2 DEF end_op, Types, wakeup
    <3> QED
      BY Zenon, <3>1, <3>2
  <2>3. Active' = Active \ {p}
    BY Zenon, <2>2 DEF Active
  <2> QED
    BY Zenon, <1>1, <2>1, <2>3 DEF GC!Next, GC!End
<1> QED
  BY Zenon, <1>2, <1>3

LEMMA ModifyRefines ==
    ASSUME IInv, NEW p \in Procs, NEW b \in Blocks, NEW d \in Data, modify(p, b, d)
    PROVE  GC!Next
<1>0. mode = "run" /\ mode' = "run" /\ Types
  BY Zenon DEF modify, IInv
<1>1. Active' = Active /\ p \in Active
  BY Zenon, <1>0 DEF modify, Types, Active
<1>2. Recovered' = Recovered
  BY Zenon, SameDisk DEF modify
<1>3. \A c \in Blocks : bread(c)' = IF c = b THEN d ELSE bread(c)
  BY Zenon, <1>0 DEF modify, bread, Types
<1>4. View' = [View EXCEPT ![b] = d]
  BY Zenon, <1>0, <1>3 DEF View
<1> QED
  BY Zenon, <1>1, <1>2, <1>4 DEF GC!Next, GC!Write

(* Steps that touch neither the disk nor what bread() returns.             *)
LEMMA BufferRefines ==
    ASSUME IInv,
           \/ \E p \in Procs : end_commit(p)
           \/ \E p \in Procs, b \in Blocks : log_write(p, b) \/ brelse(p, b)
           \/ \E b \in Blocks : read(b) \/ bget_recycle(b)
    PROVE  UNCHANGED GC!vars
<1>0. /\ mode = "run" /\ mode' \in {"run", "panic"}
      /\ Types /\ Control /\ Buffers /\ UNCHANGED disk
  BY Zenon DEF log_write, brelse, end_commit, read, bget_recycle, Committer, IInv, Running
<1>1. Recovered' = Recovered
  BY Zenon, <1>0, SameDisk
<1>2. \A c \in Blocks : bread(c)' = bread(c)
  <2>1. CASE UNCHANGED buf
    BY Zenon, <1>0, <2>1 DEF bread
  <2>2. ASSUME NEW b \in Blocks, read(b) PROVE \A c \in Blocks : bread(c)' = bread(c)
    BY Zenon, <1>0, <2>2 DEF read, bread, Types
  <2>3. ASSUME NEW b \in Blocks, bget_recycle(b)
        PROVE  \A c \in Blocks : bread(c)' = bread(c)
    <3>1. buf[b] = home[b]
      BY <1>0, <2>3 DEF bget_recycle, Buffers
    <3> QED
      BY Zenon, <1>0, <2>3, <3>1 DEF bget_recycle, bread, Types
  <2> QED
    BY Zenon, <2>1, <2>2, <2>3 DEF log_write, brelse, end_commit
<1>3. View' = View
  BY Zenon, <1>0, <1>2, SameView
<1>4. \A q \in Procs : pc'[q] \in InOp <=> pc[q] \in InOp
  <2>1. CASE \E p \in Procs, b \in Blocks : log_write(p, b)
    BY <1>0, <2>1 DEF log_write, Types
  <2>2. CASE \E p \in Procs, b \in Blocks : brelse(p, b)
    BY ZenonT(30), ZenonT(30), <1>0, <2>2 DEF brelse, Types
  <2>3. CASE \E p \in Procs : end_commit(p)
    BY <1>0, <2>3 DEF end_commit, Committer, wakeup, Types
  <2>4. CASE \E b \in Blocks : read(b) \/ bget_recycle(b)
    BY Zenon, <2>4 DEF read, bget_recycle
  <2> QED
    BY Zenon, <2>1, <2>2, <2>3, <2>4
<1>5. Active' = Active
  BY Zenon, <1>4 DEF Active
<1> QED
  BY Zenon, <1>1, <1>3, <1>5 DEF GC!vars

(* commit(): its steps never change who is in a call.                      *)
LEMMA CommitActive ==
    ASSUME IInv, NEW p \in Procs, commit(p)
    PROVE  /\ Active = {} /\ Active' = {}
           /\ mode = "run" /\ mode' = "run"
           /\ Types /\ HeaderOK /\ Control /\ Buffers /\ Committing
           /\ \A b \in Blocks : holder[b] = None
           /\ \A q \in Procs : q # p => pc[q] \notin InCommit
<1>1. mode = "run" /\ mode' = "run" /\ pc[p] \in InCommit
  BY Zenon DEF commit, write_log, write_head, install_trans, erase, Committer
<1>2. Types /\ HeaderOK /\ Control /\ Buffers /\ Committing
  BY Zenon, <1>1 DEF IInv, Running
<1>3. /\ Active = {} /\ \A b \in Blocks : holder[b] = None
      /\ \A q \in Procs : q # p => pc[q] \notin InOp \cup InCommit
  BY Zenon, <1>1, <1>2, CommitterAlone
<1>4. \A q \in Procs : pc'[q] \notin InOp
  BY SMTT(30), <1>1, <1>2, <1>3 DEF commit, write_log, write_head, install_trans, erase, Types
<1> QED
  BY Zenon, <1>1, <1>2, <1>3, <1>4 DEF Active

LEMMA WriteLogRefines ==
    ASSUME IInv, NEW p \in Procs, write_log(p)
    PROVE  UNCHANGED GC!vars
<1>0. /\ Active = {} /\ Active' = {} /\ mode = "run" /\ mode' = "run"
      /\ Types /\ HeaderOK /\ Committing
      /\ \A q \in Procs : q # p => pc[q] \notin InCommit
  BY Zenon, CommitActive DEF commit
<1>1. head = <<>> /\ head' = <<>> /\ home' = home
  BY Zenon, <1>0 DEF write_log, Committer, Committing
<1>2. Recovered' = Recovered
  <2>1. Recovered = [b \in Blocks |-> home[b]]
    BY Zenon, <1>1, EmptyHeader
  <2>2. 1 .. Len(head') = {}
    BY <1>1
  <2>3. Recovered' = [b \in Blocks |-> home[b]]
    BY Zenon, <1>1, <2>2 DEF Recovered
  <2> QED
    BY Zenon, <2>1, <2>3
<1>3. \A c \in Blocks : bread(c)' = bread(c)
  BY Zenon, <1>0, <1>1 DEF write_log, bread, Types
<1> QED
  BY Zenon, <1>0, <1>2, <1>3, SameView DEF GC!vars

(* The commit point.                                                       *)
LEMMA WriteHeadRefines ==
    ASSUME IInv, NEW p \in Procs, write_head(p)
    PROVE  GC!Next
<1>0. /\ Active = {} /\ Active' = {} /\ mode = "run" /\ mode' = "run"
      /\ Types /\ HeaderOK /\ Buffers /\ Committing
      /\ \A b \in Blocks : holder[b] = None
      /\ \A q \in Procs : q # p => pc[q] \notin InCommit
  BY Zenon, CommitActive DEF commit
<1>1. /\ pc[p] = "write_head" /\ head' = lh /\ UNCHANGED <<home, logged, buf>>
  BY Zenon DEF write_head, Committer
<1>2. View' = View
  <2>1. \A c \in Blocks : bread(c)' = bread(c)
    BY Zenon, <1>1 DEF bread
  <2> QED
    BY Zenon, <1>0, <2>1, SameView
<1>3. ASSUME NEW b \in Blocks PROVE Recovered'[b] = bread(b)
  <2>1. CASE \E i \in 1 .. Len(lh) : lh[i] = b
    <3>1. PICK i \in 1 .. Len(lh) : lh[i] = b
      BY Zenon, <2>1
    <3>2. Recovered'[b] = logged'[i]
      <4>1. (CHOOSE j \in 1 .. Len(lh) : lh[j] = b) = i
        BY Zenon, <1>0, <3>1 DEF HeaderOK, NoDup
      <4> QED
        BY Zenon, <1>1, <3>1, <4>1 DEF Recovered
    <3>3. Pinned(b)
      BY Zenon, <1>0, <1>1, <3>1 DEF Pinned, Pending
    <3>4. buf[b] # NotCached /\ logged[i] = buf[b]
      BY Zenon, <1>0, <1>1, <3>1, <3>3 DEF Buffers, Committing
    <3> QED
      BY Zenon, <1>1, <3>1, <3>2, <3>4 DEF bread
  <2>2. CASE \A i \in 1 .. Len(lh) : lh[i] # b
    <3>1. Recovered'[b] = home'[b]
      BY Zenon, <1>1, <2>2 DEF Recovered
    <3>2. ~Pinned(b)
      BY Zenon, <2>2 DEF Pinned
    <3> QED
      BY Zenon, <1>0, <1>1, <3>1, <3>2 DEF Buffers, bread
  <2> QED
    BY Zenon, <2>1, <2>2
<1>4. Recovered' = View
  <2>1. View = [b \in Blocks |-> bread(b)]
    BY Zenon, <1>0 DEF View
  <2>2. Recovered' = [b \in Blocks |-> Recovered'[b]]
    BY Zenon DEF Recovered
  <2> QED
    BY Zenon, <1>3, <2>1, <2>2
<1> QED
  BY Zenon, <1>0, <1>2, <1>4 DEF GC!Next, GC!Commit

(* Once committed, copying a block home changes neither side: the block is *)
(* in the header, and the copy is what the cache already holds.            *)
LEMMA InstallRefines ==
    ASSUME IInv, NEW p \in Procs, install_trans(p)
    PROVE  UNCHANGED GC!vars
<1>0. /\ Active = {} /\ Active' = {} /\ mode = "run" /\ mode' = "run"
      /\ Types /\ HeaderOK /\ Committing
  BY Zenon, CommitActive DEF commit
<1>a. PICK i : i = tail[p] + 1
  BY Zenon
<1>1. /\ i \in 1 .. Len(lh) /\ lh[i] \in Blocks /\ head = lh
      /\ logged[i] = buf[lh[i]] /\ i \in 1 .. LogBlocks - 1 /\ logged[i] \in Data
  <2>1. pc[p] = "install" /\ tail[p] \in Nat /\ Len(lh) \in Nat /\ lh \in Seq(Blocks)
    BY SMTT(30), <1>0 DEF install_trans, Committer, Types
  <2>2. i \in 1 .. Len(lh) /\ i \in 1 .. LogBlocks - 1 /\ head = lh
    BY <1>0, <1>a, <2>1 DEF HeaderOK, Committing
  <2>3. lh[i] \in Blocks /\ logged[i] \in Data
    BY SMTT(30), <1>0, <2>1, <2>2 DEF Types
  <2>4. logged[i] = buf[lh[i]]
    BY SMTT(30), <1>0, <1>a, <2>1, <2>2 DEF Committing
  <2> QED
    BY Zenon, <2>2, <2>3, <2>4
<1>2. PICK b \in Blocks : b = lh[i]
  BY Zenon, <1>1
<1>3. /\ home' = [home EXCEPT ![b] = logged[i]]
      /\ buf' = [buf EXCEPT ![b] = logged[i]]
      /\ UNCHANGED <<logged, head>>
  BY Zenon, <1>a, <1>2 DEF install_trans
<1>4. Recovered' = Recovered
  <2>1. \A c \in Blocks : (\A j \in 1 .. Len(head) : head[j] # c) => home'[c] = home[c]
    BY Zenon, <1>0, <1>1, <1>2, <1>3 DEF Types
  <2> QED
    BY <1>3, <2>1 DEF Recovered
<1>5. \A c \in Blocks : bread(c)' = bread(c)
  BY Zenon, <1>0, <1>1, <1>2, <1>3 DEF bread, Types
<1> QED
  BY Zenon, <1>0, <1>4, <1>5, SameView DEF GC!vars

(* The log is cleared only when every block of the header is at home.      *)
LEMMA EraseRefines ==
    ASSUME IInv, NEW p \in Procs, erase(p)
    PROVE  UNCHANGED GC!vars
<1>0. /\ Active = {} /\ Active' = {} /\ mode = "run" /\ mode' = "run"
      /\ Types /\ HeaderOK /\ Committing
  BY Zenon, CommitActive DEF commit
<1>1. /\ head = lh /\ \A i \in 1 .. Len(lh) : logged[i] = home[lh[i]]
      /\ head' = <<>> /\ UNCHANGED <<home, logged, buf>>
  BY Zenon, <1>0 DEF erase, Committer, Committing
<1>2. ASSUME NEW b \in Blocks PROVE Recovered[b] = home[b]
  <2>1. CASE \E i \in 1 .. Len(head) : head[i] = b
    BY <1>0, <1>1, <2>1, RecoveredIn DEF HeaderOK
  <2>2. CASE \A i \in 1 .. Len(head) : head[i] # b
    BY Zenon, <2>2, RecoveredOut
  <2> QED
    BY Zenon, <2>1, <2>2
<1>3. Recovered' = Recovered
  <2>1. 1 .. Len(head') = {}
    BY <1>1
  <2>2. Recovered' = [b \in Blocks |-> home[b]]
    BY Zenon, <1>1, <2>1 DEF Recovered
  <2>3. Recovered = [b \in Blocks |-> Recovered[b]]
    BY Zenon DEF Recovered
  <2> QED
    BY Zenon, <1>2, <2>2, <2>3
<1>4. \A c \in Blocks : bread(c)' = bread(c)
  BY Zenon, <1>1 DEF bread
<1> QED
  BY Zenon, <1>0, <1>3, <1>4, SameView DEF GC!vars

(* Recovery, which a crash may cut short anywhere, never changes what is   *)
(* recovered; when it ends, that is what bread() returns.                  *)
LEMMA RecoveryRefines ==
    ASSUME IInv, recover_from_log
    PROVE  UNCHANGED GC!vars
<1>0. /\ Types /\ HeaderOK /\ Starting /\ mode \in {"read_head", "recover"}
      /\ pc' = pc
  BY Zenon DEF IInv, recover_from_log, read_head, install_recover, clear_log
<1>1. Active' = Active
  BY Zenon, <1>0 DEF Active
<1>2. CASE read_head
  <2>1. Recovered' = Recovered
    BY Zenon, <1>2, SameDisk DEF read_head
  <2> QED
    BY Zenon, <1>0, <1>1, <1>2, <2>1 DEF read_head, View, GC!vars
<1>3. CASE install_recover
  <2>1. /\ mode = "recover" /\ mode' = "recover" /\ head = lh
        /\ UNCHANGED <<logged, head>> /\ rtail + 1 \in 1 .. Len(lh)
        /\ home' = [home EXCEPT ![lh[rtail + 1]] = logged[rtail + 1]]
    BY <1>0, <1>3 DEF install_recover, Starting, Types
  <2>2. \A c \in Blocks : (\A j \in 1 .. Len(head) : head[j] # c) => home'[c] = home[c]
    BY Zenon, <1>0, <2>1 DEF Types
  <2>3. Recovered' = Recovered
    BY <2>1, <2>2 DEF Recovered
  <2> QED
    BY Zenon, <1>1, <2>1, <2>3 DEF View, GC!vars
<1>4. CASE clear_log
  <2>1. /\ head = lh /\ \A i \in 1 .. Len(head) : home[head[i]] = logged[i]
        /\ \A b \in Blocks : buf[b] \in {NotCached, home[b]}
        /\ head' = <<>> /\ UNCHANGED <<home, logged, buf>>
        /\ mode = "recover" /\ mode' = "run"
    BY Zenon, <1>0, <1>4 DEF clear_log, Starting
  <2>2. ASSUME NEW b \in Blocks PROVE Recovered[b] = home[b]
    <3>1. CASE \E i \in 1 .. Len(head) : head[i] = b
      BY SMTT(30), <1>0, <2>1, <3>1, RecoveredIn DEF HeaderOK
    <3>2. CASE \A i \in 1 .. Len(head) : head[i] # b
      BY Zenon, <3>2, RecoveredOut
    <3> QED
      BY Zenon, <3>1, <3>2
  <2>3. 1 .. Len(head') = {}
    BY <2>1
  <2>4. Recovered' = [b \in Blocks |-> home[b]]
    BY Zenon, <2>1, <2>3 DEF Recovered
  <2>5. Recovered = [b \in Blocks |-> Recovered[b]]
    BY Zenon DEF Recovered
  <2>6. \A b \in Blocks : bread(b)' = home[b]
    BY Zenon, <2>1 DEF bread
  <2>7. View' = [b \in Blocks |-> home[b]]
    BY Zenon, <2>1, <2>6 DEF View
  <2>8. View = Recovered
    BY Zenon, <2>1 DEF View
  <2> QED
    BY Zenon, <1>1, <2>2, <2>4, <2>5, <2>7, <2>8 DEF GC!vars
<1> QED
  BY Zenon, <1>2, <1>3, <1>4 DEF recover_from_log

LEMMA CrashRefines == IInv /\ crash => GC!Next
<1> SUFFICES ASSUME crash PROVE GC!Next
  BY Zenon
<1>1. Recovered' = Recovered
  BY Zenon, SameDisk DEF crash
<1>2. View' = Recovered'
  BY Zenon DEF crash, View
<1>3. Active' = {}
  BY Zenon DEF crash, Active
<1> QED
  BY Zenon, <1>1, <1>2, <1>3 DEF GC!Next, GC!Crash
-----------------------------------------------------------------------------
LEMMA NextRefines == IInv /\ [Next]_vars => [GC!Next]_(GC!vars)
<1> SUFFICES ASSUME IInv, [Next]_vars PROVE GC!Next \/ UNCHANGED GC!vars
  BY Zenon
<1>1. CASE recover_from_log
  BY Zenon, <1>1, RecoveryRefines
<1>2. ASSUME NEW p \in Procs, Step(p) PROVE GC!Next \/ UNCHANGED GC!vars
  <2>1. CASE begin_op(p) \/ end_op(p)
    BY Zenon, <2>1, CallRefines
  <2>2. CASE commit(p)
    BY Zenon, <2>2, WriteLogRefines, WriteHeadRefines, InstallRefines, EraseRefines DEF commit
  <2>3. CASE end_commit(p)
    BY Zenon, <2>3, BufferRefines
  <2>4. CASE \E b \in Blocks : log_write(p, b) \/ brelse(p, b)
    BY Zenon, <2>4, BufferRefines
  <2>5. CASE \E b \in Blocks, d \in Data : modify(p, b, d)
    BY Zenon, <2>5, ModifyRefines
  <2> QED
    BY Zenon, <1>2, <2>1, <2>2, <2>3, <2>4, <2>5 DEF Step
<1>3. CASE \E b \in Blocks : read(b) \/ bget_recycle(b)
  BY Zenon, <1>3, BufferRefines
<1>4. CASE crash
  BY Zenon, <1>4, CrashRefines
<1>5. CASE UNCHANGED vars
  BY Zenon, <1>5 DEF vars, View, Recovered, Active, bread, GC!vars
<1> QED
  BY Zenon, <1>1, <1>2, <1>3, <1>4, <1>5 DEF Next

(* Crash atomicity for every instance: Log implements GroupCommit.         *)
THEOREM Refinement == Spec => CrashAtomic
<1>1. Init => GC!Init
  BY Zenon, InitRefines
<1>2. IInv /\ [Next]_vars => [GC!Next]_(GC!vars)
  BY Zenon, NextRefines
<1> QED
  BY <1>1, <1>2, Invariance, PTL DEF Spec, GC!Spec, CrashAtomic
=============================================================================
