----------------------------- MODULE LogProofs -----------------------------
(***************************************************************************)
(* Proofs about Log for every set of processes and blocks and every size   *)
(* of the log: the inductive invariant, the invariants the runs check, and *)
(* the refinement of GroupCommit, that is crash atomicity.                 *)
(***************************************************************************)
EXTENDS Log, TLAPS, FiniteSetTheorems

(* A header fits in the log area and names no block twice.                 *)
HeaderOK ==
    /\ Len(head) <= LogBlocks - 1 /\ NoDup(head)
    /\ Len(lh) <= LogBlocks - 1 /\ NoDup(lh)

(* The i-th logged block has not been copied home yet.                     *)
Pending(i) == \A p \in Procs : pc[p] \in {"install", "erase"} => tail[p] < i

Pinned(b) == \E i \in 1 .. Len(lh) : lh[i] = b /\ Pending(i)

(* Before the system calls start nothing is held, pinned or dirty, and     *)
(* recovery has copied the first rtail blocks of the header home.          *)
Starting ==
    mode \in {"read_head", "recover"} =>
        /\ pc = [p \in Procs |-> "idle"]
        /\ outstanding = 0 /\ ~committing
        /\ \A b \in Blocks : holder[b] = None /\ pin[b] = 0
        /\ \A b \in Blocks : buf[b] \in {NotCached, home[b]}
        /\ mode = "recover" =>
              /\ lh = head /\ rtail <= Len(lh)
              /\ \A i \in 1 .. rtail : home[lh[i]] = logged[i]

(* Who may be where: calls are counted, a commit is alone.                 *)
Control ==
    /\ outstanding = Cardinality(Active)
    /\ committing => Active = {}
    /\ \A p \in Procs : pc[p] \in InCommit => committing
    /\ \A p, q \in Procs : pc[p] \in InCommit /\ pc[q] \in InCommit => p = q
    /\ Active = {} /\ ~committing => lh = <<>>

(* Buffers: a call holds one at a time; a cached block differs from its    *)
(* home copy only while it is being modified or is logged and pinned.      *)
Buffers ==
    /\ \A b \in Blocks : holder[b] # None => pc[holder[b]] \in {"dirty", "clean"}
    /\ \A b, c \in Blocks : holder[b] # None /\ holder[b] = holder[c] => b = c
    /\ \A b \in Blocks : pin[b] = IF Pinned(b) THEN 1 ELSE 0
    /\ \A b \in Blocks : Pinned(b) \/ holder[b] # None => buf[b] # NotCached
    /\ \A b \in Blocks : \/ buf[b] \in {NotCached, home[b]}
                         \/ Pinned(b)
                         \/ holder[b] # None /\ pc[holder[b]] = "dirty"

(* How far a commit has come, and what is then on disk.                    *)
Committing ==
    /\ (\A p \in Procs : pc[p] \notin {"install", "erase"}) => head = <<>>
    /\ \A p \in Procs :
        /\ pc[p] = "write_log" =>
              /\ tail[p] < Len(lh)
              /\ \A i \in 1 .. tail[p] : logged[i] = buf[lh[i]]
        /\ pc[p] = "write_head" =>
              \A i \in 1 .. Len(lh) : logged[i] = buf[lh[i]]
        /\ pc[p] = "write_head" => Len(lh) > 0
        /\ pc[p] = "install" =>
              /\ head = lh /\ tail[p] < Len(lh)
              /\ \A i \in 1 .. tail[p] : logged[i] = home[lh[i]]
              /\ \A i \in tail[p] + 1 .. Len(lh) : logged[i] = buf[lh[i]]
        /\ pc[p] = "erase" =>
              /\ head = lh /\ tail[p] = Len(lh)
              /\ \A i \in 1 .. Len(lh) : logged[i] = home[lh[i]]
        /\ pc[p] = "done" => lh = <<>>

Running == mode = "run" => Control /\ Buffers /\ Committing

IInv == Types /\ HeaderOK /\ Starting /\ Running
-----------------------------------------------------------------------------
USE LogConstants DEF disk, cache, log, local, InOp, InCommit, must_wait, bpin

LEMMA InitIInv == Init => IInv
<1> SUFFICES ASSUME Init PROVE IInv
  BY Zenon
<1>1. Types
  <2>1. <<>> \in Seq(Blocks)
    OBVIOUS
  <2>2. [i \in 1 .. LogBlocks - 1 |-> InitData] \in [1 .. LogBlocks - 1 -> Data]
    BY Zenon
  <2> QED
    BY Zenon, <2>1, <2>2 DEF Init, Types
<1>2. HeaderOK
  BY DEF Init, HeaderOK, NoDup
<1>3. Starting
  BY Zenon DEF Init, Starting
<1>4. Running
  BY Zenon DEF Init, Running
<1> QED
  BY Zenon, <1>1, <1>2, <1>3, <1>4 DEF IInv

(* Which blocks are pinned depends only on the header in memory and on the *)
(* progress of install_trans().                                            *)
LEMMA PinnedFrame ==
    ASSUME lh' = lh,
           \A q \in Procs : /\ pc'[q] \in {"install", "erase"} <=> pc[q] \in {"install", "erase"}
                            /\ pc[q] \in {"install", "erase"} => tail'[q] = tail[q]
    PROVE  \A c : Pinned(c)' <=> Pinned(c)
<1>1. \A i : Pending(i)' <=> Pending(i)
  BY Zenon DEF Pending
<1> QED
  BY Zenon, <1>1 DEF Pinned

LEMMA HolderInOp ==
    ASSUME Types, Buffers, NEW b \in Blocks, holder[b] # None
    PROVE  holder[b] \in Procs /\ pc[holder[b]] \in {"dirty", "clean"}
BY DEF Types, Buffers

LEMMA modify_IInv ==
    ASSUME IInv, NEW p \in Procs, NEW b \in Blocks, NEW d \in Data, modify(p, b, d)
    PROVE  IInv'
<1> USE DEF IInv
<1>0. mode = "run" /\ Control /\ Buffers /\ Committing
  BY Zenon DEF modify, Running
<1>1. Types'
  BY Zenon DEF modify, Types
<1>2. HeaderOK'
  BY Zenon DEF modify, HeaderOK, NoDup
<1>3. Starting'
  BY Zenon, <1>0 DEF modify, Starting
<1>4. Active' = Active /\ p \in Active
  BY Zenon DEF modify, Types, Active
<1>5. Control'
  BY <1>0, <1>4 DEF modify, Types, Control
<1>6. /\ \A q \in Procs : q # p => pc'[q] = pc[q]
      /\ pc'[p] = "dirty" /\ pc[p] = "op"
  BY Zenon DEF modify, Types
<1>7. Buffers'
  <2>1. \A c : Pinned(c)' <=> Pinned(c)
    BY Zenon, <1>6, PinnedFrame DEF modify
  <2>2. \A c \in Blocks : holder[c] # None => holder[c] # p /\ pc'[holder[c]] = pc[holder[c]]
    BY Zenon, <1>0, <1>6, HolderInOp
  <2>3. \A c \in Blocks : c # b => /\ holder'[c] = holder[c] /\ buf'[c] = buf[c]
                                   /\ home'[c] = home[c] /\ pin'[c] = pin[c]
    BY Zenon DEF modify, Types
  <2>4. /\ holder'[b] = p /\ buf'[b] = d /\ pin'[b] = pin[b] /\ d # NotCached
        /\ p # None /\ holder[b] = None
    BY Zenon DEF modify, Types
  <2> QED
    BY <1>0, <1>6, <2>1, <2>2, <2>3, <2>4 DEF Buffers
<1>8. Committing'
  <2>1. \A q \in Procs : pc[q] \notin InCommit /\ pc'[q] \notin InCommit
    BY Zenon, <1>0, <1>4, <1>6 DEF Control
  <2> QED
    BY Zenon, <1>0, <2>1 DEF modify, Committing
<1> QED
  BY Zenon, <1>1, <1>2, <1>3, <1>5, <1>7, <1>8 DEF Running

LEMMA log_write_IInv ==
    ASSUME IInv, NEW p \in Procs, NEW b \in Blocks, log_write(p, b)
    PROVE  IInv'
<1> USE DEF IInv
<1>0. mode = "run" /\ Control /\ Buffers /\ Committing
  BY Zenon DEF log_write, Running
<1>1. CASE mode' = "panic" /\ UNCHANGED <<lh, pin, pc, wrote>>
  BY ZenonT(30), ZenonT(30), <1>1 DEF log_write, Types, HeaderOK, NoDup, Starting, Running
<1>2. CASE /\ Len(lh) < LOGSIZE /\ Len(lh) < LogBlocks - 1
           /\ mode' = "run" /\ pc' = [pc EXCEPT ![p] = "clean"]
           /\ wrote' = [wrote EXCEPT ![p] = @ \cup {b}]
           /\ IF b \in Range(lh) THEN UNCHANGED <<lh, pin>>
              ELSE lh' = Append(lh, b) /\ pin' = [pin EXCEPT ![b] = @ + 1]
  <2>0. /\ pc[p] = "dirty" /\ holder[b] = p
        /\ UNCHANGED <<disk, buf, holder, outstanding, committing, rtail, tail>>
    BY Zenon DEF log_write
  <2>1. /\ \A q \in Procs : q # p => pc'[q] = pc[q]
        /\ pc'[p] = "clean"
    BY Zenon, <1>2 DEF Types
  <2>2. Types'
    <3>0. lh \in Seq(Blocks) /\ pin \in [Blocks -> Nat]
      BY Zenon DEF Types
    <3>1. lh' \in Seq(Blocks) /\ pin' \in [Blocks -> Nat]
      <4>0. lh' = lh \/ lh' = Append(lh, b)
        BY Zenon, <1>2
      <4>1. lh' \in Seq(Blocks)
        BY SMTT(30), <3>0, <4>0
      <4>2. pin[b] + 1 \in Nat
        BY <3>0
      <4>3. pin' \in [Blocks -> Nat]
        BY Zenon, <1>2, <3>0, <4>2
      <4> QED
        BY Zenon, <4>1, <4>3
    <3>2. pc' \in [Procs -> {"idle", "sleep", "woken"} \cup InOp \cup InCommit]
      BY Zenon, <1>2 DEF Types
    <3>3. wrote' \in [Procs -> SUBSET Blocks]
      BY Zenon, <1>2 DEF Types
    <3> QED
      BY Zenon, <1>2, <2>0, <3>1, <3>2, <3>3 DEF Types
  <2>3. Active' = Active /\ p \in Active
    BY Zenon, <2>0, <2>1 DEF Active
  <2>4. \A q \in Procs : pc[q] \notin InCommit /\ pc'[q] \notin InCommit
    BY Zenon, <1>0, <2>1, <2>3 DEF Control
  <2>5. Control'
    BY Zenon, <1>0, <2>0, <2>3, <2>4 DEF Control
  <2>6. Starting'
    BY Zenon, <1>2 DEF Starting
  <2>7. Committing'
    BY Zenon, <1>0, <2>0, <2>4 DEF Committing
  <2>8. \A i : Pending(i) /\ Pending(i)'
    BY Zenon, <2>4 DEF Pending
  <2>9. lh \in Seq(Blocks) /\ Len(lh) \in Nat
    BY DEF Types
  <2>10. CASE b \in Range(lh)
    <3>1. UNCHANGED <<lh, pin>>
      BY Zenon, <1>2, <2>10
    <3>2. HeaderOK'
      BY Zenon, <2>0, <3>1 DEF HeaderOK, NoDup
    <3>3. Pinned(b)
      BY <2>8, <2>9, <2>10 DEF Pinned, Range
    <3>4. \A c : Pinned(c)' <=> Pinned(c)
      BY Zenon, <2>8, <3>1 DEF Pinned
    <3>5. \A c \in Blocks : holder[c] # None /\ c # b => pc'[holder[c]] = pc[holder[c]]
      BY Zenon, <1>0, <2>0, <2>1, HolderInOp DEF Buffers
    <3>6. Buffers'
      BY SMTT(30), <1>0, <2>0, <2>1, <3>1, <3>3, <3>4, <3>5 DEF Buffers
    <3> QED
      BY Zenon, <2>2, <2>5, <2>6, <2>7, <3>2, <3>6 DEF Running
  <2>11. CASE b \notin Range(lh)
    <3>1. lh' = Append(lh, b) /\ pin' = [pin EXCEPT ![b] = @ + 1]
      BY Zenon, <1>2, <2>11
    <3>2. /\ Len(lh') = Len(lh) + 1 /\ lh'[Len(lh) + 1] = b
          /\ \A i \in 1 .. Len(lh) : lh'[i] = lh[i] /\ lh[i] # b
      BY <2>9, <2>11, <3>1 DEF Range
    <3>3. HeaderOK'
      <4>1. NoDup(lh')
        BY <2>9, <3>2 DEF HeaderOK, NoDup
      <4>2. Len(lh') <= LogBlocks - 1
        BY <1>2, <2>9, <3>2
      <4>3. (Len(head) <= LogBlocks - 1 /\ NoDup(head))'
        BY Zenon, <2>0 DEF HeaderOK, NoDup
      <4> QED
        BY Zenon, <4>1, <4>2, <4>3 DEF HeaderOK, NoDup
    <3>4. ~Pinned(b) /\ Pinned(b)' /\ \A c : c # b => (Pinned(c)' <=> Pinned(c))
      BY SMTT(30), <2>8, <2>9, <3>2 DEF Pinned
    <3>5. \A c \in Blocks : holder[c] # None /\ c # b => pc'[holder[c]] = pc[holder[c]]
      BY <1>0, <2>0, <2>1, HolderInOp DEF Buffers
    <3>6. pin'[b] = pin[b] + 1 /\ \A c \in Blocks : c # b => pin'[c] = pin[c]
      BY Zenon, <3>1 DEF Types
    <3>7. buf[b] # NotCached
      BY Zenon, <1>0, <2>0 DEF Buffers
    <3>8. Buffers'
      BY SMTT(30), <1>0, <2>0, <2>1, <3>4, <3>5, <3>6, <3>7 DEF Buffers
    <3> QED
      BY SMTT(30), <2>2, <2>5, <2>6, <2>7, <3>3, <3>8 DEF Running
  <2> QED
    BY Zenon, <2>10, <2>11
<1>3. Len(lh) \in Nat
  BY DEF Types
<1> QED
  BY <1>0, <1>1, <1>2, <1>3 DEF log_write

LEMMA brelse_IInv ==
    ASSUME IInv, NEW p \in Procs, NEW b \in Blocks, brelse(p, b)
    PROVE  IInv'
<1> USE DEF IInv
<1>0. mode = "run" /\ Control /\ Buffers /\ Committing
  BY Zenon DEF brelse, Running
<1>1. Types'
  BY Zenon DEF brelse, Types
<1>2. HeaderOK'
  BY Zenon DEF brelse, HeaderOK, NoDup
<1>3. Starting'
  BY Zenon, <1>0 DEF brelse, Starting
<1>4. Active' = Active /\ p \in Active
  BY Zenon DEF brelse, Types, Active
<1>5. Control'
  BY <1>0, <1>4 DEF brelse, Types, Control
<1>6. /\ \A q \in Procs : q # p => pc'[q] = pc[q]
      /\ pc'[p] = "op" /\ pc[p] = "clean" /\ holder[b] = p
  BY Zenon DEF brelse, Types
<1>7. Buffers'
  <2>1. \A c : Pinned(c)' <=> Pinned(c)
    BY Zenon, <1>6, PinnedFrame DEF brelse
  <2>2. /\ holder'[b] = None
        /\ \A c \in Blocks : c # b => holder'[c] = holder[c]
    BY Zenon DEF brelse, Types
  <2>3. \A c \in Blocks : c # b /\ holder[c] # None => pc'[holder[c]] = pc[holder[c]]
    BY Zenon, <1>0, <1>6, HolderInOp DEF Buffers
  <2> QED
    BY <1>0, <1>6, <2>1, <2>2, <2>3 DEF brelse, Buffers
<1>8. Committing'
  <2>1. \A q \in Procs : pc[q] \notin InCommit /\ pc'[q] \notin InCommit
    BY Zenon, <1>0, <1>4, <1>6 DEF Control
  <2> QED
    BY Zenon, <1>0, <2>1 DEF brelse, Committing
<1> QED
  BY Zenon, <1>1, <1>2, <1>3, <1>5, <1>7, <1>8 DEF Running

(* While some process is in commit() no other is in a call or in commit(), *)
(* and no buffer is held.                                                  *)
LEMMA CommitterAlone ==
    ASSUME Types, Control, Buffers, NEW p \in Procs, pc[p] \in InCommit
    PROVE  /\ \A q \in Procs : q # p => pc[q] \notin InOp \cup InCommit
           /\ \A b \in Blocks : holder[b] = None
           /\ Active = {} /\ committing
<1>1. Active = {} /\ committing
  BY Zenon DEF Control
<1>2. \A q \in Procs : q # p => pc[q] \notin InOp \cup InCommit
  BY Zenon, <1>1 DEF Control, Active
<1>3. \A b \in Blocks : holder[b] = None
  BY Zenon, <1>1, HolderInOp DEF Active
<1> QED
  BY Zenon, <1>1, <1>2, <1>3

LEMMA write_log_IInv ==
    ASSUME IInv, NEW p \in Procs, write_log(p)
    PROVE  IInv'
<1> USE DEF IInv
<1>0. mode = "run" /\ Control /\ Buffers /\ Committing
  BY Zenon DEF write_log, Committer, Running
<1> DEFINE i == tail[p] + 1
           b == lh[i]
<1>1. /\ pc[p] = "write_log" /\ tail[p] \in Nat /\ Len(lh) \in Nat
      /\ i \in 1 .. Len(lh) /\ i \in 1 .. LogBlocks - 1 /\ b \in Blocks
  BY SMTT(30), <1>0 DEF write_log, Committer, Types, HeaderOK, Committing
<1>2. /\ \A q \in Procs : q # p => pc[q] \notin InOp \cup InCommit
      /\ Active = {} /\ committing
  BY Zenon, <1>0, <1>1, CommitterAlone
<1>3. Pinned(b) /\ buf[b] \in Data /\ bread(b) = buf[b]
  <2>1. Pinned(b)
    BY Zenon, <1>1, <1>2 DEF Pinned, Pending
  <2> QED
    BY <1>0, <1>1, <2>1 DEF Buffers, Types, bread
<1>4. /\ buf' = buf
      /\ logged' = [logged EXCEPT ![i] = buf[b]]
      /\ tail' = [tail EXCEPT ![p] = i]
      /\ UNCHANGED <<home, head, holder, pin, log, mode, rtail, wrote>>
  <2>1. [buf EXCEPT ![b] = buf[b]] = buf
    BY Zenon, <1>1 DEF Types
  <2> QED
    BY Zenon, <1>3, <2>1 DEF write_log
<1>5. /\ \A q \in Procs : q # p => pc'[q] = pc[q]
      /\ pc'[p] = IF i = Len(lh) THEN "write_head" ELSE "write_log"
      /\ pc' \in [Procs -> {"idle", "sleep", "woken"} \cup InOp \cup InCommit]
  BY Zenon, <1>1 DEF write_log, Types
<1>6. Types'
  <2>1. logged' \in [1 .. LogBlocks - 1 -> Data]
    BY Zenon, <1>1, <1>3, <1>4 DEF Types
  <2>2. tail' \in [Procs -> Nat]
    <3>1. tail \in [Procs -> Nat] /\ i \in Nat
      BY <1>1 DEF Types
    <3> QED
      BY Zenon, <1>4, <3>1
  <2> QED
    BY Zenon, <1>4, <1>5, <2>1, <2>2 DEF Types
<1>7. HeaderOK'
  BY Zenon, <1>4 DEF HeaderOK, NoDup
<1>8. Starting'
  BY Zenon, <1>0, <1>4 DEF Starting
<1>9. Control'
  <2>1. Active' = Active
    BY Zenon, <1>1, <1>2, <1>5 DEF Active
  <2> QED
    BY Zenon, <1>0, <1>1, <1>2, <1>4, <1>5, <2>1 DEF Control
<1>10. Buffers'
  <2>1. \A c : Pinned(c)' <=> Pinned(c)
    BY Zenon, <1>1, <1>2, <1>4, <1>5, PinnedFrame
  <2>2. \A c \in Blocks : holder[c] = None
    BY Zenon, <1>0, <1>1, CommitterAlone
  <2> QED
    BY Zenon, <1>0, <1>4, <2>1, <2>2 DEF Buffers
<1>11. Committing'
  <2>1. /\ logged'[i] = buf[b]
        /\ \A j \in 1 .. i - 1 : logged'[j] = logged[j]
    BY SMTT(30), <1>1, <1>4 DEF Types
  <2>2. \A j \in 1 .. i : logged'[j] = buf'[lh'[j]]
    BY SMTT(30), <1>0, <1>1, <1>4, <2>1 DEF Committing
  <2>3. tail'[p] = i
    BY Zenon, <1>4 DEF Types
  <2>4. \A q \in Procs : pc[q] \notin {"install", "erase"} /\ pc'[q] \notin {"install", "erase", "done"}
    BY Zenon, <1>1, <1>2, <1>5
  <2>5. \A q \in Procs : q # p => pc'[q] \notin InCommit
    BY Zenon, <1>2, <1>5
  <2>6. head' = <<>>
    BY Zenon, <1>0, <1>4, <2>4 DEF Committing
  <2>7. i < Len(lh') \/ (i = Len(lh') /\ pc'[p] = "write_head")
    BY <1>1, <1>4, <1>5
  <2> QED
    <3>1. CASE i = Len(lh')
      <4>1. pc'[p] = "write_head" /\ Len(lh') > 0
        BY <1>1, <1>4, <1>5, <3>1
      <4> QED
        BY Zenon, <2>2, <2>4, <2>5, <2>6, <3>1, <4>1 DEF Committing
    <3>2. CASE i < Len(lh')
      <4>1. pc'[p] = "write_log"
        BY SMTT(30), <1>1, <1>4, <1>5, <3>2
      <4> QED
        BY Zenon, <2>2, <2>3, <2>4, <2>5, <2>6, <3>2, <4>1 DEF Committing
    <3> QED
      BY Zenon, <2>7, <3>1, <3>2
<1> QED
  BY Zenon, <1>6, <1>7, <1>8, <1>9, <1>10, <1>11 DEF Running

LEMMA write_head_IInv ==
    ASSUME IInv, NEW p \in Procs, write_head(p)
    PROVE  IInv'
<1> USE DEF IInv
<1>0. mode = "run" /\ Control /\ Buffers /\ Committing
  BY Zenon DEF write_head, Committer, Running
<1>1. pc[p] = "write_head" /\ Len(lh) \in Nat \ {0}
  BY <1>0 DEF write_head, Committer, Types, Committing
<1>2. /\ \A q \in Procs : q # p => pc[q] \notin InOp \cup InCommit
      /\ \A c \in Blocks : holder[c] = None
      /\ Active = {} /\ committing
  BY Zenon, <1>0, <1>1, CommitterAlone
<1>3. /\ \A q \in Procs : q # p => pc'[q] = pc[q]
      /\ pc'[p] = "install" /\ tail'[p] = 0 /\ head' = lh
      /\ UNCHANGED <<home, logged, cache, log, mode, rtail, wrote>>
  BY Zenon DEF write_head, Types
<1>4. Types'
  <2>1. tail' \in [Procs -> Nat]
    BY Zenon DEF write_head, Types
  <2>2. pc' \in [Procs -> {"idle", "sleep", "woken"} \cup InOp \cup InCommit]
    BY Zenon DEF write_head, Types
  <2> QED
    BY Zenon, <1>3, <2>1, <2>2 DEF Types
<1>5. HeaderOK'
  BY <1>3 DEF HeaderOK, NoDup
<1>6. Starting'
  BY Zenon, <1>0, <1>3 DEF Starting
<1>7. Control'
  <2>1. Active' = Active
    BY Zenon, <1>1, <1>2, <1>3 DEF Active
  <2> QED
    BY Zenon, <1>0, <1>2, <1>3, <2>1 DEF Control
<1>8. Buffers'
  <2>1. \A i \in 1 .. Len(lh) : Pending(i) /\ Pending(i)'
    BY <1>1, <1>2, <1>3 DEF Pending
  <2>2. \A c : Pinned(c)' <=> Pinned(c)
    BY Zenon, <1>3, <2>1 DEF Pinned
  <2> QED
    BY Zenon, <1>0, <1>2, <1>3, <2>2 DEF Buffers
<1>9. Committing'
  <2>1. \A i \in 1 .. Len(lh) : logged'[i] = buf'[lh'[i]]
    BY Zenon, <1>0, <1>1, <1>3 DEF Committing
  <2>2. \A q \in Procs : q # p => pc'[q] \notin InCommit
    BY Zenon, <1>2, <1>3
  <2> QED
    BY <1>1, <1>3, <2>1, <2>2 DEF Committing
<1> QED
  BY SMTT(30), <1>4, <1>5, <1>6, <1>7, <1>8, <1>9 DEF Running

LEMMA install_trans_IInv ==
    ASSUME IInv, NEW p \in Procs, install_trans(p)
    PROVE  IInv'
<1> USE DEF IInv
<1>0. mode = "run" /\ Control /\ Buffers /\ Committing
  BY Zenon DEF install_trans, Committer, Running
<1>a. PICK i : i = tail[p] + 1
  BY Zenon
<1>b. PICK b : b = lh[i]
  BY Zenon
<1>1. /\ pc[p] = "install" /\ tail[p] \in Nat /\ Len(lh) \in Nat
      /\ i \in 1 .. Len(lh) /\ i \in 1 .. LogBlocks - 1 /\ b \in Blocks
      /\ logged[i] \in Data /\ logged[i] = buf[b]
  <2>1. pc[p] = "install" /\ tail[p] \in Nat /\ Len(lh) \in Nat /\ lh \in Seq(Blocks)
    BY SMTT(30) DEF install_trans, Committer, Types
  <2>2. i \in 1 .. Len(lh) /\ i \in 1 .. LogBlocks - 1
    BY SMTT(30), <1>0, <1>a, <2>1 DEF HeaderOK, Committing
  <2>3. b \in Blocks /\ logged[i] \in Data
    BY SMTT(30), <1>b, <2>1, <2>2 DEF Types
  <2>4. logged[i] = buf[b]
    BY SMTT(30), <1>0, <1>a, <1>b, <2>1, <2>2 DEF Committing
  <2> QED
    BY Zenon, <2>1, <2>2, <2>3, <2>4
<1>2. /\ \A q \in Procs : q # p => pc[q] \notin InOp \cup InCommit
      /\ \A c \in Blocks : holder[c] = None
      /\ Active = {} /\ committing
  BY Zenon, <1>0, <1>1, CommitterAlone
<1>3. /\ home' = [home EXCEPT ![b] = buf[b]]
      /\ buf' = buf
      /\ pin' = [pin EXCEPT ![b] = @ - 1]
      /\ tail' = [tail EXCEPT ![p] = i]
      /\ UNCHANGED <<logged, head, holder, log, mode, rtail, wrote>>
  <2>1. [buf EXCEPT ![b] = buf[b]] = buf
    BY Zenon, <1>1 DEF Types
  <2> QED
    BY Zenon, <1>a, <1>b, <1>1, <2>1 DEF install_trans
<1>4. /\ \A q \in Procs : q # p => pc'[q] = pc[q] /\ tail'[q] = tail[q]
      /\ pc'[p] = IF i = Len(lh) THEN "erase" ELSE "install"
      /\ tail'[p] = i
      /\ pc' \in [Procs -> {"idle", "sleep", "woken"} \cup InOp \cup InCommit]
  BY SMTT(30), <1>a, <1>1, <1>3 DEF install_trans, Types
<1>5. /\ \A j \in 1 .. Len(lh) : Pending(j) <=> j >= i
      /\ \A j \in 1 .. Len(lh) : Pending(j)' <=> j > i
  BY <1>a, <1>1, <1>2, <1>4 DEF Pending
<1>6. Pinned(b) /\ ~Pinned(b)' /\ \A c : c # b => (Pinned(c)' <=> Pinned(c))
  <2>1. \A j \in 1 .. Len(lh) : lh[j] = b => j = i
    BY Zenon, <1>b, <1>1 DEF HeaderOK, NoDup
  <2>2. Pinned(b)
    BY <1>b, <1>1, <1>5 DEF Pinned
  <2>3. \A c : Pinned(c)' <=> \E j \in 1 .. Len(lh) : lh[j] = c /\ Pending(j)'
    BY Zenon, <1>3 DEF Pinned
  <2>4. ~Pinned(b)'
    BY SMTT(30), <1>1, <1>5, <2>1, <2>3
  <2>5. \A j \in 1 .. Len(lh) : j # i => (Pending(j)' <=> Pending(j))
    BY SMTT(30), <1>1, <1>5
  <2> QED
    BY Zenon, <1>b, <2>2, <2>3, <2>4, <2>5 DEF Pinned
<1>7. /\ pin[b] = 1 /\ pin'[b] = 0 /\ home'[b] = buf[b]
      /\ \A c \in Blocks : c # b => pin'[c] = pin[c] /\ home'[c] = home[c]
  BY <1>0, <1>1, <1>3, <1>6 DEF Buffers, Types
<1>8. Types'
  <2>1. home' \in [Blocks -> Data]
    BY Zenon, <1>1, <1>3 DEF Types
  <2>2. pin' \in [Blocks -> Nat]
    BY <1>3, <1>7 DEF Types
  <2>3. tail' \in [Procs -> Nat]
    <3>1. tail \in [Procs -> Nat] /\ i \in Nat
      BY <1>1 DEF Types
    <3> QED
      BY Zenon, <1>3, <3>1
  <2> QED
    BY Zenon, <1>3, <1>4, <2>1, <2>2, <2>3 DEF Types
<1>9. HeaderOK'
  BY Zenon, <1>3 DEF HeaderOK, NoDup
<1>10. Starting'
  BY Zenon, <1>0, <1>3 DEF Starting
<1>11. Control'
  <2>1. Active' = Active
    BY Zenon, <1>1, <1>2, <1>4 DEF Active
  <2> QED
    BY Zenon, <1>0, <1>1, <1>2, <1>3, <1>4, <2>1 DEF Control
<1>12. Buffers'
  <2>1. ASSUME NEW c \in Blocks
        PROVE  /\ pin'[c] = IF Pinned(c)' THEN 1 ELSE 0
               /\ Pinned(c)' => buf'[c] # NotCached
               /\ buf'[c] \in {NotCached, home'[c]} \/ Pinned(c)'
    <3>1. CASE c = b
      BY ZenonT(30), ZenonT(30), <1>3, <1>6, <1>7, <3>1
    <3>2. CASE c # b
      BY SMTT(30), <1>0, <1>2, <1>3, <1>6, <1>7, <3>2 DEF Buffers
    <3> QED
      BY Zenon, <3>1, <3>2
  <2>2. \A c \in Blocks : holder'[c] = None
    BY ZenonT(30), ZenonT(30), <1>2, <1>3
  <2> QED
    BY Zenon, <2>1, <2>2 DEF Buffers
<1>13. Committing'
  <2>1. \A j \in 1 .. i : logged'[j] = home'[lh'[j]]
    <3>1. \A j \in 1 .. i - 1 : lh[j] # b /\ lh[j] \in Blocks /\ logged[j] = home[lh[j]]
      <4>1. tail[p] = i - 1 /\ lh \in Seq(Blocks)
        BY <1>a, <1>1 DEF Types
      <4>2. \A j \in 1 .. i - 1 : j \in 1 .. Len(lh) /\ j # i
        BY SMTT(30), <1>1
      <4>3. \A j \in 1 .. i - 1 : logged[j] = home[lh[j]]
        BY <1>0, <1>1, <4>1 DEF Committing
      <4>4. \A j \in 1 .. i - 1 : lh[j] # b
        BY ZenonT(30), ZenonT(30), <1>b, <1>1, <4>2 DEF HeaderOK, NoDup
      <4> QED
        BY SMTT(30), <4>1, <4>2, <4>3, <4>4
    <3> QED
      BY SMTT(30), <1>b, <1>1, <1>3, <1>7, <3>1
  <2>2. \A j \in i + 1 .. Len(lh') : logged'[j] = buf'[lh'[j]]
    BY SMTT(30), <1>0, <1>a, <1>1, <1>3 DEF Committing
  <2>3. head' = lh'
    BY Zenon, <1>0, <1>1, <1>3 DEF Committing
  <2>4. \A q \in Procs : q # p => pc'[q] \notin InCommit
    BY Zenon, <1>2, <1>4
  <2>5. CASE i = Len(lh')
    <3>1. pc'[p] = "erase"
      BY ZenonT(30), ZenonT(30), <1>3, <1>4, <2>5
    <3> QED
      BY Zenon, <1>4, <2>1, <2>3, <2>4, <2>5, <3>1 DEF Committing
  <2>6. CASE i < Len(lh')
    <3>1. pc'[p] = "install"
      BY SMTT(30), <1>1, <1>3, <1>4, <2>6
    <3> QED
      BY SMTT(30), <1>4, <2>1, <2>2, <2>3, <2>4, <2>6, <3>1 DEF Committing
  <2> QED
    BY SMTT(30), <1>1, <1>3, <2>5, <2>6
<1> QED
  BY <1>8, <1>9, <1>10, <1>11, <1>12, <1>13 DEF Running

LEMMA erase_IInv ==
    ASSUME IInv, NEW p \in Procs, erase(p)
    PROVE  IInv'
<1> USE DEF IInv
<1>0. mode = "run" /\ Control /\ Buffers /\ Committing
  BY Zenon DEF erase, Committer, Running
<1>1. /\ pc[p] = "erase" /\ tail[p] = Len(lh) /\ Len(lh) \in Nat
      /\ pc' = [pc EXCEPT ![p] = "done"] /\ lh' = <<>> /\ head' = <<>>
      /\ UNCHANGED <<home, logged, cache, outstanding, committing, mode, rtail, tail, wrote>>
  BY <1>0 DEF erase, Committer, Types, Committing
<1>2. /\ \A q \in Procs : q # p => pc[q] \notin InOp \cup InCommit
      /\ \A c \in Blocks : holder[c] = None
      /\ Active = {} /\ committing
  BY Zenon, <1>0, <1>1, CommitterAlone
<1>3. pc'[p] = "done" /\ \A q \in Procs : q # p => pc'[q] = pc[q]
  BY Zenon, <1>1 DEF Types
<1>4. Types'
  <2>1. <<>> \in Seq(Blocks)
    OBVIOUS
  <2>2. pc' \in [Procs -> {"idle", "sleep", "woken"} \cup InOp \cup InCommit]
    BY Zenon, <1>1 DEF Types
  <2> QED
    BY Zenon, <1>1, <2>1, <2>2 DEF Types
<1>5. HeaderOK'
  BY <1>1 DEF HeaderOK, NoDup
<1>6. Starting'
  BY Zenon, <1>0, <1>1 DEF Starting
<1>7. Control'
  <2>1. Active' = Active
    BY Zenon, <1>1, <1>2, <1>3 DEF Active
  <2> QED
    BY Zenon, <1>0, <1>1, <1>2, <1>3, <2>1 DEF Control
<1>8. Buffers'
  <2>1. \A c : ~Pinned(c) /\ ~Pinned(c)'
    BY SMTT(30), <1>1 DEF Pinned, Pending
  <2> QED
    BY Zenon, <1>0, <1>1, <1>2, <2>1 DEF Buffers
<1>9. Committing'
  BY SMTT(30), <1>1, <1>2, <1>3 DEF Committing
<1> QED
  BY <1>4, <1>5, <1>6, <1>7, <1>8, <1>9 DEF Running

LEMMA end_commit_IInv ==
    ASSUME IInv, NEW p \in Procs, end_commit(p)
    PROVE  IInv'
<1> USE DEF IInv
<1>0. mode = "run" /\ Control /\ Buffers /\ Committing
  BY Zenon DEF end_commit, Committer, Running
<1>1. /\ pc[p] = "done" /\ lh = <<>> /\ committing' = FALSE
      /\ UNCHANGED <<disk, cache, lh, outstanding, mode, rtail, wrote>>
  BY Zenon, <1>0 DEF end_commit, Committer, Committing
<1>2. /\ \A q \in Procs : q # p => pc[q] \notin InOp \cup InCommit
      /\ \A c \in Blocks : holder[c] = None
      /\ Active = {} /\ committing
  BY Zenon, <1>0, <1>1, CommitterAlone
<1>3. /\ pc'[p] = "idle"
      /\ \A q \in Procs : q # p => pc'[q] \notin InOp \cup InCommit
      /\ pc' \in [Procs -> {"idle", "sleep", "woken"} \cup InOp \cup InCommit]
  BY Zenon, <1>2 DEF end_commit, wakeup, Types
<1>4. Types'
  <2>1. tail' \in [Procs -> Nat]
    BY Zenon DEF end_commit, Types
  <2> QED
    BY Zenon, <1>1, <1>3, <2>1 DEF Types
<1>5. HeaderOK'
  BY <1>1 DEF HeaderOK, NoDup
<1>6. Starting'
  BY Zenon, <1>0, <1>1 DEF Starting
<1>7. Control'
  <2>1. Active' = Active
    BY Zenon, <1>2, <1>3 DEF Active
  <2> QED
    BY Zenon, <1>0, <1>1, <1>2, <1>3, <2>1 DEF Control
<1>8. Buffers'
  <2>1. \A c : ~Pinned(c) /\ ~Pinned(c)'
    BY <1>1 DEF Pinned
  <2> QED
    BY Zenon, <1>0, <1>1, <1>2, <2>1 DEF Buffers
<1>9. Committing'
  <2>1. head = <<>>
    BY Zenon, <1>0, <1>1, <1>2 DEF Committing
  <2>2. \A q \in Procs : pc'[q] \notin InCommit
    BY Zenon, <1>3
  <2> QED
    BY Zenon, <1>1, <2>1, <2>2 DEF Committing
<1> QED
  BY <1>4, <1>5, <1>6, <1>7, <1>8, <1>9 DEF Running

LEMMA read_IInv ==
    ASSUME IInv, NEW b \in Blocks, read(b)
    PROVE  IInv'
<1> USE DEF IInv
<1>0. mode = "run" /\ Control /\ Buffers /\ Committing
  BY Zenon DEF read, Running
<1>1. /\ ~Pinned(b) /\ holder[b] = None /\ buf[b] = NotCached
      /\ buf'[b] = home[b] /\ \A c \in Blocks : c # b => buf'[c] = buf[c]
      /\ UNCHANGED <<disk, holder, pin, log, mode, rtail, local>>
  BY ZenonT(30), ZenonT(30), <1>0 DEF read, Buffers, Types
<1>2. Types'
  BY Zenon DEF read, Types
<1>3. HeaderOK' /\ Starting'
  BY SMTT(30), <1>0, <1>1 DEF HeaderOK, NoDup, Starting
<1>4. Control'
  BY Zenon, <1>0, <1>1 DEF Control, Active
<1>5. \A c : Pinned(c)' <=> Pinned(c)
  BY Zenon, <1>1, PinnedFrame
<1>6. Buffers'
  <2>1. home'[b] # NotCached
    BY ZenonT(30), ZenonT(30), <1>1 DEF Types
  <2> QED
    BY <1>0, <1>1, <1>5, <2>1 DEF Buffers
<1>7. Committing'
  <2>1. ASSUME NEW j \in 1 .. Len(lh), Pending(j)
        PROVE  buf'[lh[j]] = buf[lh[j]]
    <3>1. lh[j] \in Blocks
      BY DEF Types
    <3>2. Pinned(lh[j])
      BY Zenon, <2>1 DEF Pinned
    <3> QED
      BY Zenon, <1>1, <3>1, <3>2
  <2>2. ASSUME NEW q \in Procs, pc[q] \in {"write_log", "write_head"},
               NEW j \in 1 .. Len(lh)
        PROVE  buf'[lh[j]] = buf[lh[j]]
    <3>1. Pending(j)
      BY Zenon, <1>0, <2>2 DEF Pending, Control
    <3> QED
      BY Zenon, <2>1, <3>1
  <2>3. ASSUME NEW q \in Procs, pc[q] = "install", NEW j \in tail[q] + 1 .. Len(lh)
        PROVE  buf'[lh[j]] = buf[lh[j]]
    <3>1. j \in 1 .. Len(lh) /\ j > tail[q] /\ tail[q] \in Nat
      BY DEF Types
    <3>2. Pending(j)
      BY Zenon, <1>0, <2>3, <3>1 DEF Pending, Control
    <3> QED
      BY Zenon, <2>1, <3>1, <3>2
  <2>4. \A q \in Procs : tail[q] \in Nat /\ Len(lh) \in Nat
    BY DEF Types
  <2>5. ASSUME NEW q \in Procs, pc[q] = "write_log", NEW j \in 1 .. tail[q]
        PROVE  logged[j] = buf'[lh[j]]
    <3>1. j \in 1 .. Len(lh) /\ logged[j] = buf[lh[j]]
      BY SMTT(30), <1>0, <2>4, <2>5 DEF Committing
    <3> QED
      BY Zenon, <2>2, <2>5, <3>1
  <2> QED
    BY SMTT(30), <1>0, <1>1, <2>2, <2>3, <2>5 DEF Committing
<1> QED
  BY Zenon, <1>2, <1>3, <1>4, <1>6, <1>7 DEF Running

LEMMA bget_recycle_IInv ==
    ASSUME IInv, NEW b \in Blocks, bget_recycle(b)
    PROVE  IInv'
<1> USE DEF IInv
<1>0. mode = "run" /\ Control /\ Buffers /\ Committing
  BY Zenon DEF bget_recycle, Running
<1>1. /\ ~Pinned(b) /\ holder[b] = None
      /\ buf'[b] = NotCached /\ \A c \in Blocks : c # b => buf'[c] = buf[c]
      /\ UNCHANGED <<disk, holder, pin, log, mode, rtail, local>>
  BY <1>0 DEF bget_recycle, Buffers, Types
<1>2. Types'
  BY Zenon DEF bget_recycle, Types
<1>3. HeaderOK' /\ Starting'
  BY <1>0, <1>1 DEF HeaderOK, NoDup, Starting
<1>4. Control'
  BY Zenon, <1>0, <1>1 DEF Control, Active
<1>5. \A c : Pinned(c)' <=> Pinned(c)
  BY Zenon, <1>1, PinnedFrame
<1>6. Buffers'
  BY ZenonT(30), ZenonT(30), <1>0, <1>1, <1>5 DEF Buffers
<1>7. Committing'
  <2>1. ASSUME NEW j \in 1 .. Len(lh), Pending(j)
        PROVE  buf'[lh[j]] = buf[lh[j]]
    <3>1. lh[j] \in Blocks
      BY DEF Types
    <3>2. Pinned(lh[j])
      BY <2>1 DEF Pinned
    <3> QED
      BY Zenon, <1>1, <3>1, <3>2
  <2>2. ASSUME NEW q \in Procs, pc[q] \in {"write_log", "write_head"},
               NEW j \in 1 .. Len(lh)
        PROVE  buf'[lh[j]] = buf[lh[j]]
    <3>1. Pending(j)
      BY SMTT(30), <1>0, <2>2 DEF Pending, Control
    <3> QED
      BY SMTT(30), <2>1, <3>1
  <2>3. ASSUME NEW q \in Procs, pc[q] = "install", NEW j \in tail[q] + 1 .. Len(lh)
        PROVE  buf'[lh[j]] = buf[lh[j]]
    <3>1. j \in 1 .. Len(lh) /\ j > tail[q] /\ tail[q] \in Nat
      BY DEF Types
    <3>2. Pending(j)
      BY SMTT(30), <1>0, <2>3, <3>1 DEF Pending, Control
    <3> QED
      BY SMTT(30), <2>1, <3>1, <3>2
  <2>4. \A q \in Procs : tail[q] \in Nat /\ Len(lh) \in Nat
    BY DEF Types
  <2>5. ASSUME NEW q \in Procs, pc[q] = "write_log", NEW j \in 1 .. tail[q]
        PROVE  logged[j] = buf'[lh[j]]
    <3>1. j \in 1 .. Len(lh) /\ logged[j] = buf[lh[j]]
      BY <1>0, <2>4, <2>5 DEF Committing
    <3> QED
      BY SMTT(30), <2>2, <2>5, <3>1
  <2> QED
    BY SMTT(30), <1>0, <1>1, <2>2, <2>3, <2>5 DEF Committing
<1> QED
  BY SMTT(30), <1>2, <1>3, <1>4, <1>6, <1>7 DEF Running

LEMMA crash_IInv == IInv /\ crash => IInv'
<1> SUFFICES ASSUME IInv, crash PROVE IInv'
  BY Zenon
<1>1. Types'
  <2>1. <<>> \in Seq(Blocks)
    OBVIOUS
  <2> QED
    BY Zenon, <2>1 DEF IInv, Types, crash
<1>2. HeaderOK'
  BY DEF IInv, HeaderOK, NoDup, crash
<1>3. Starting' /\ Running'
  BY Zenon DEF Starting, Running, crash
<1> QED
  BY Zenon, <1>1, <1>2, <1>3 DEF IInv
-----------------------------------------------------------------------------
-----------------------------------------------------------------------------
(* The actions that change the number of active calls.                     *)
LEMMA ActiveFinite == IsFiniteSet(Active) /\ Cardinality(Active) \in Nat
<1>1. IsFiniteSet(Active)
  BY Zenon, FS_Subset DEF Active
<1> QED
  BY Zenon, <1>1, FS_CardinalityType

LEMMA begin_op_IInv ==
    ASSUME IInv, NEW p \in Procs, begin_op(p)
    PROVE  IInv'
<1> USE DEF IInv
<1>0. mode = "run" /\ Control /\ Buffers /\ Committing
  BY Zenon DEF begin_op, Running
<1>1. Types'
  <2>1. pc' \in [Procs -> {"idle", "sleep", "woken"} \cup InOp \cup InCommit]
    BY Zenon DEF begin_op, Types
  <2>2. outstanding' \in Nat
    BY DEF begin_op, Types
  <2> QED
    BY Zenon, <2>1, <2>2 DEF begin_op, Types
<1>2. HeaderOK'
  BY Zenon DEF begin_op, HeaderOK, NoDup
<1>3. Starting'
  BY Zenon, <1>0 DEF begin_op, Starting
<1>4. Control'
  <2>1. CASE pc' = [pc EXCEPT ![p] = "sleep"] /\ UNCHANGED outstanding
    <3>1. Active' = Active
      BY Zenon, <2>1 DEF begin_op, Types, Active
    <3> QED
      BY <1>0, <2>1, <3>1 DEF begin_op, Types, Control
  <2>2. CASE /\ ~committing /\ outstanding' = outstanding + 1
             /\ pc' = [pc EXCEPT ![p] = "op"]
    <3>1. Active' = Active \cup {p} /\ p \notin Active
      BY <2>2 DEF begin_op, Types, Active
    <3>2. Cardinality(Active') = Cardinality(Active) + 1
      BY Zenon, <3>1, ActiveFinite, FS_AddElement
    <3> QED
      BY SMTT(30), <1>0, <2>2, <3>1, <3>2 DEF begin_op, Types, Control
  <2> QED
    BY Zenon, <2>1, <2>2 DEF begin_op
<1>5. Buffers'
  <2>1. \A c : Pinned(c)' <=> Pinned(c)
    BY Zenon, PinnedFrame DEF begin_op, Types
  <2>2. \A b \in Blocks : holder[b] # None => pc'[holder[b]] = pc[holder[b]]
    <3>1. \A q \in Procs : q # p => pc'[q] = pc[q]
      BY Zenon DEF begin_op, Types
    <3> QED
      BY Zenon, <1>0, <3>1, HolderInOp DEF begin_op
  <2> QED
    BY Zenon, <1>0, <2>1, <2>2 DEF begin_op, Buffers
<1>6. Committing'
  BY SMTT(30), <1>0 DEF begin_op, Types, Committing
<1> QED
  BY <1>1, <1>2, <1>3, <1>4, <1>5, <1>6 DEF Running

LEMMA end_op_IInv ==
    ASSUME IInv, NEW p \in Procs, end_op(p)
    PROVE  IInv'
<1> USE DEF IInv
<1>0. mode = "run" /\ Control /\ Buffers /\ Committing
  BY Zenon DEF end_op, Running
<1>1. p \in Active /\ ~committing /\ Cardinality(Active) \in Nat \ {0}
  <2>1. p \in Active /\ ~committing
    BY Zenon, <1>0 DEF end_op, Control, Active
  <2> QED
    BY Zenon, <2>1, ActiveFinite, FS_EmptySet
<1>2. mode' = "run" /\ outstanding' = outstanding - 1 /\ outstanding \in Nat \ {0}
  BY Zenon, <1>0, <1>1 DEF end_op, Types, Control
<1>3. /\ \A q \in Procs : q # p => \/ pc'[q] = pc[q]
                                   \/ pc[q] = "sleep" /\ pc'[q] = "woken"
      /\ pc'[p] = IF outstanding = 1 THEN IF lh = <<>> THEN "done" ELSE "write_log"
                                     ELSE "idle"
      /\ pc' \in [Procs -> {"idle", "sleep", "woken"} \cup InOp \cup InCommit]
  <2>1. CASE outstanding = 1
    BY Zenon, <1>1, <2>1 DEF end_op, Types
  <2>2. CASE outstanding # 1
    BY SMTT(30), <1>1, <2>2 DEF end_op, Types, wakeup
  <2> QED
    BY Zenon, <2>1, <2>2
<1>4. Types'
  <2>1. wrote' \in [Procs -> SUBSET Blocks]
    BY Zenon DEF end_op, Types
  <2>2. tail' \in [Procs -> Nat]
    <3>1. tail' = tail \/ tail' = [tail EXCEPT ![p] = 0]
      BY Zenon DEF end_op
    <3>2. tail \in [Procs -> Nat]
      BY Zenon DEF Types
    <3> QED
      BY <3>1, <3>2
  <2>3. committing' \in BOOLEAN
    BY Zenon, <1>1 DEF end_op, Types
  <2> QED
    BY SMTT(30), <1>2, <1>3, <2>1, <2>2, <2>3 DEF end_op, Types
<1>5. HeaderOK'
  BY Zenon DEF end_op, HeaderOK, NoDup
<1>6. Starting'
  BY Zenon, <1>2 DEF Starting
<1>7. Control'
  <2>1. Active' = Active \ {p}
    BY Zenon, <1>1, <1>3 DEF Types, Active
  <2>2. Cardinality(Active') = Cardinality(Active) - 1 /\ IsFiniteSet(Active')
    BY Zenon, <1>1, <2>1, ActiveFinite, FS_RemoveElement
  <2>3. outstanding' = Cardinality(Active')
    BY Zenon, <1>0, <1>2, <2>2 DEF Control
  <2>4. CASE outstanding = 1
    <3>1. Active' = {} /\ committing'
      BY SMTT(30), <1>1, <2>2, <2>3, <2>4, <1>2, FS_EmptySet DEF end_op
    <3> QED
      BY Zenon, <1>0, <1>1, <1>3, <2>3, <3>1 DEF Control
  <2>5. CASE outstanding # 1
    <3>1. Active' # {}
      <4>1. Cardinality(Active') # 0
        BY <2>3, <2>5, <1>2
      <4> QED
        BY Zenon, <4>1, FS_EmptySet
    <3>2. ~committing'
      BY Zenon, <1>1, <2>5 DEF end_op
    <3> QED
      BY Zenon, <1>0, <1>1, <1>3, <2>3, <2>5, <3>1, <3>2 DEF Control
  <2> QED
    BY Zenon, <2>4, <2>5
<1>8. Buffers'
  <2>1. \A q \in Procs : /\ pc'[q] \in {"install", "erase"} <=> pc[q] \in {"install", "erase"}
                         /\ pc[q] \in {"install", "erase"} => tail'[q] = tail[q]
    BY Zenon, <1>1, <1>3 DEF end_op, Types, Active
  <2>2. \A c : Pinned(c)' <=> Pinned(c)
    BY Zenon, <2>1, PinnedFrame DEF end_op
  <2>3. \A b \in Blocks : holder[b] # None => pc'[holder[b]] = pc[holder[b]]
    BY Zenon, <1>0, <1>3, HolderInOp DEF end_op
  <2> QED
    BY Zenon, <1>0, <2>2, <2>3 DEF end_op, Buffers
<1>9. Committing'
  <2>1. \A q \in Procs : pc[q] \notin InCommit
    BY Zenon, <1>0, <1>1 DEF Control
  <2>2. head' = <<>> /\ UNCHANGED <<lh, head>>
    BY Zenon, <1>0, <2>1 DEF Committing, end_op
  <2>3. pc'[p] = "write_log" => tail'[p] = 0 /\ Len(lh) > 0
    BY <1>1, <1>3 DEF end_op, Types
  <2>4. \A q \in Procs : q # p => pc'[q] \notin InCommit
    BY Zenon, <1>3, <2>1
  <2>5. pc'[p] \in {"done", "write_log", "idle"} /\ (pc'[p] = "done" => lh = <<>>)
    BY Zenon, <1>3
  <2>6. \A q \in Procs : pc'[q] \notin {"install", "erase", "write_head"}
    BY Zenon, <2>4, <2>5
  <2> QED
    BY SMTT(30), <2>2, <2>3, <2>4, <2>5, <2>6 DEF Committing
<1> QED
  BY <1>4, <1>5, <1>6, <1>7, <1>8, <1>9 DEF Running

LEMMA recover_IInv ==
    ASSUME IInv, recover_from_log
    PROVE  IInv'
<1> USE DEF IInv
<1>1. CASE read_head
  BY <1>1 DEF read_head, Types, HeaderOK, NoDup, Starting, Running
<1>2. CASE install_recover
  <2> DEFINE i == rtail + 1
             b == lh[i]
  <2>1. /\ i \in 1 .. Len(lh) /\ i \in 1 .. LogBlocks - 1 /\ b \in Blocks
        /\ logged[i] \in Data /\ mode = "recover" /\ rtail \in Nat
    BY SMTT(30), <1>2 DEF install_recover, Types, HeaderOK
  <2>2. Types'
    BY <1>2, <2>1 DEF install_recover, Types
  <2>3. HeaderOK'
    BY Zenon, <1>2 DEF install_recover, HeaderOK, NoDup
  <2>4. /\ home'[b] = logged[i] /\ buf'[b] = logged[i]
        /\ \A c \in Blocks : c # b => home'[c] = home[c] /\ buf'[c] = buf[c]
    BY Zenon, <1>2, <2>1 DEF install_recover, Types
  <2>5. \A j \in 1 .. i : home'[lh[j]] = logged[j]
    <3>1. \A j \in 1 .. rtail : lh[j] # b /\ lh[j] \in Blocks /\ home[lh[j]] = logged[j]
      BY SMTT(30), <2>1 DEF Types, HeaderOK, NoDup, Starting
    <3> QED
      BY SMTT(30), <2>1, <2>4, <3>1
  <2>6. Starting'
    BY <1>2, <2>1, <2>4, <2>5 DEF install_recover, Starting, Types
  <2> QED
    BY Zenon, <1>2, <2>1, <2>2, <2>3, <2>6 DEF install_recover, Running
<1>3. CASE clear_log
  <2>1. /\ \A q \in Procs : pc'[q] = "idle"
        /\ lh' = <<>> /\ head' = <<>> /\ mode' = "run"
        /\ UNCHANGED <<home, logged, cache, outstanding, committing, rtail, local>>
        /\ outstanding = 0 /\ ~committing
        /\ \A b \in Blocks : holder[b] = None /\ pin[b] = 0 /\ buf[b] \in {NotCached, home[b]}
    BY Zenon, <1>3 DEF clear_log, Starting
  <2>2. Types'
    <3>1. <<>> \in Seq(Blocks)
      OBVIOUS
    <3> QED
      BY Zenon, <2>1, <3>1 DEF Types
  <2>3. HeaderOK' /\ Starting'
    BY <2>1 DEF HeaderOK, NoDup, Starting
  <2>4. Active' = {}
    BY Zenon, <2>1 DEF Active
  <2>5. Control'
    BY Zenon, <2>1, <2>4, FS_EmptySet DEF Control
  <2>6. Buffers'
    <3>1. \A c : ~Pinned(c)'
      BY <2>1 DEF Pinned
    <3> QED
      BY Zenon, <2>1, <3>1 DEF Buffers
  <2>7. Committing'
    BY Zenon, <2>1 DEF Committing
  <2> QED
    BY Zenon, <2>2, <2>3, <2>5, <2>6, <2>7 DEF Running
<1> QED
  BY ZenonT(30), ZenonT(30), <1>1, <1>2, <1>3 DEF recover_from_log

THEOREM NextIInv == IInv /\ [Next]_vars => IInv'
<1> SUFFICES ASSUME IInv, [Next]_vars PROVE IInv'
  BY Zenon
<1>1. CASE recover_from_log
  BY Zenon, <1>1, recover_IInv
<1>2. ASSUME NEW p \in Procs, Step(p) PROVE IInv'
  <2>1. CASE begin_op(p)
    BY Zenon, <2>1, begin_op_IInv
  <2>2. CASE end_op(p)
    BY <2>2, end_op_IInv
  <2>3. CASE commit(p)
    BY Zenon, <2>3, write_log_IInv, write_head_IInv, install_trans_IInv, erase_IInv DEF commit
  <2>4. CASE end_commit(p)
    BY <2>4, end_commit_IInv
  <2>5. CASE \E b \in Blocks : log_write(p, b) \/ brelse(p, b)
    BY Zenon, <2>5, log_write_IInv, brelse_IInv
  <2>6. CASE \E b \in Blocks, d \in Data : modify(p, b, d)
    BY Zenon, <2>6, modify_IInv
  <2> QED
    BY Zenon, <1>2, <2>1, <2>2, <2>3, <2>4, <2>5, <2>6 DEF Step
<1>3. CASE \E b \in Blocks : read(b) \/ bget_recycle(b)
  BY Zenon, <1>3, read_IInv, bget_recycle_IInv
<1>4. CASE crash
  BY Zenon, <1>4, crash_IInv
<1>5. CASE UNCHANGED vars
  <2>1. Types' /\ HeaderOK' /\ Starting'
    BY SMTT(30), <1>5 DEF vars, IInv, Types, HeaderOK, NoDup, Starting
  <2>2. (Control' <=> Control) /\ (Committing' <=> Committing)
    BY <1>5 DEF vars, Control, Active, Committing
  <2>3. \A c : Pinned(c)' <=> Pinned(c)
    BY Zenon, <1>5 DEF vars, Pinned, Pending
  <2>4. Buffers => Buffers'
    BY Zenon, <1>5, <2>3 DEF vars, Buffers
  <2> QED
    BY ZenonT(30), ZenonT(30), <1>5, <2>1, <2>2, <2>4 DEF vars, IInv, Running
<1> QED
  BY Zenon, <1>1, <1>2, <1>3, <1>4, <1>5 DEF Next

THEOREM Invariance == Spec => []IInv
BY InitIInv, NextIInv, PTL DEF Spec
(* Every invariant of the run LogAtomic but the absence of panics follows. *)
THEOREM TypeCorrect == Spec => []TypeOK
<1>1. IInv => TypeOK
  BY DEF IInv, HeaderOK, TypeOK
<1> QED
  BY <1>1, Invariance, PTL

LEMMA IInvCommitAlone == IInv => CommitAlone
<1> SUFFICES ASSUME IInv, mode = "run", NEW p \in Procs, pc[p] \in InCommit
             PROVE  /\ committing /\ outstanding = 0
                    /\ \A q \in Procs \ {p} : pc[q] \notin InOp \cup InCommit
  BY Zenon DEF CommitAlone
<1>1. Types /\ Control /\ Buffers
  BY Zenon DEF IInv, Running
<1>2. /\ \A q \in Procs : q # p => pc[q] \notin InOp \cup InCommit
      /\ Active = {} /\ committing
  BY Zenon, <1>1, CommitterAlone
<1> QED
  BY Zenon, <1>1, <1>2, FS_EmptySet DEF Control

(* A commit runs alone, whatever the number of processes.                  *)
THEOREM CommitsAlone == Spec => []CommitAlone
BY Invariance, IInvCommitAlone, PTL

LEMMA IInvPinned == IInv => UninstalledArePinned
<1> SUFFICES ASSUME IInv, mode = "run", NEW b \in Blocks
             PROVE  /\ pin[b] <= 1
                    /\ pin[b] = 1 => b \in Range(lh)
                    /\ bread(b) # home[b] => pin[b] = 1 \/ holder[b] # None
  BY Zenon DEF UninstalledArePinned
<1>1. Types /\ Buffers
  BY Zenon DEF IInv, Running
<1>2. Pinned(b) => b \in Range(lh)
  BY <1>1 DEF Pinned, Range, Types
<1> QED
  BY <1>1, <1>2 DEF Buffers, bread

(* No update is ever only in an unpinned buffer.                           *)
THEOREM UpdatesPinned == Spec => []UninstalledArePinned
BY Invariance, IInvPinned, PTL
-----------------------------------------------------------------------------
(* What Recovered says of a block, in and out of the header.               *)
LEMMA RecoveredIn ==
    ASSUME Types, NoDup(head), NEW i \in 1 .. Len(head)
    PROVE  Recovered[head[i]] = logged[i]
<1>1. head[i] \in Blocks
  BY DEF Types
<1>2. (CHOOSE j \in 1 .. Len(head) : head[j] = head[i]) = i
  BY Zenon DEF NoDup
<1> QED
  BY Zenon, <1>1, <1>2 DEF Recovered

LEMMA RecoveredOut ==
    ASSUME NEW b \in Blocks, \A i \in 1 .. Len(head) : head[i] # b
    PROVE  Recovered[b] = home[b]
BY Zenon DEF Recovered

LEMMA EmptyHeader == head = <<>> => Recovered = [b \in Blocks |-> home[b]]
<1> SUFFICES ASSUME head = <<>> PROVE Recovered = [b \in Blocks |-> home[b]]
  BY Zenon
<1>1. 1 .. Len(head) = {}
  OBVIOUS
<1> QED
  BY Zenon, <1>1 DEF Recovered

LEMMA SameDisk == UNCHANGED disk => Recovered' = Recovered
BY Zenon DEF Recovered

LEMMA SameView ==
    ASSUME mode = "run", mode' \in {"run", "panic"},
           \A b \in Blocks : bread(b)' = bread(b)
    PROVE  View' = View
BY Zenon DEF View

LEMMA IInvIdle == IInv => IdleIsDurable
<1> SUFFICES ASSUME IInv, mode = "run", outstanding = 0, ~committing
             PROVE  /\ View = Recovered
                    /\ lh = <<>> /\ head = <<>>
                    /\ \A b \in Blocks : pin[b] = 0
  BY Zenon DEF IdleIsDurable
<1>1. Types /\ Control /\ Buffers /\ Committing
  BY Zenon DEF IInv, Running
<1>2. Active = {} /\ lh = <<>>
  BY Zenon, <1>1, ActiveFinite, FS_EmptySet DEF Control
<1>3. head = <<>>
  BY Zenon, <1>1 DEF Control, Committing
<1>4. \A b \in Blocks : holder[b] = None /\ ~Pinned(b)
  BY <1>1, <1>2, HolderInOp DEF Active, Pinned
<1>5. \A b \in Blocks : pin[b] = 0 /\ bread(b) = home[b]
  BY Zenon, <1>1, <1>4 DEF Buffers, bread
<1>6. View = [b \in Blocks |-> home[b]]
  BY Zenon, <1>5 DEF View
<1> QED
  BY Zenon, <1>2, <1>3, <1>5, <1>6, EmptyHeader

(* When no call is active and no commit is running, the disk alone holds   *)
(* everything written so far.                                              *)
THEOREM IdleDurable == Spec => []IdleIsDurable
BY Invariance, IInvIdle, PTL
=============================================================================
