------------------------------ MODULE LogSpace ------------------------------
(***************************************************************************)
(* Proof that the reservation of begin_op() keeps log_write() from its     *)
(* panics, provided the calls leave enough of their MAXOPBLOCKS unused.    *)
(***************************************************************************)
EXTENDS LogProofs

USE LogConstants DEF disk, cache, log, local, InOp, InCommit, must_wait, bpin

(* A call that wrote w blocks still owns the reservations w+1..MAXOPBLOCKS.*)
Reserved == {r \in Active \X (1 .. MAXOPBLOCKS) : r[2] > Cardinality(wrote[r[1]])}

Space ==
    /\ \A p \in Procs : IsFiniteSet(wrote[p]) /\ Cardinality(wrote[p]) <= OpBlocks
    /\ \A p \in Procs : p \notin Active => wrote[p] = {}
    /\ \A p \in Procs : wrote[p] \subseteq Range(lh)
    /\ \A p \in Procs, b \in Blocks :
          pc[p] = "dirty" /\ holder[b] = p => Cardinality(wrote[p] \cup {b}) <= OpBlocks
    /\ Len(lh) + Cardinality(Reserved) <= LOGSIZE

SInv == /\ IInv /\ LogNeverPanics
        /\ mode = "run" => Space
        /\ mode \in {"read_head", "recover"} => wrote = [p \in Procs |-> {}]

(* What the callers must leave of their reservation: one block, and one    *)
(* more for each block by which the log area is short of LOGSIZE.          *)
Slack == OpBlocks < MAXOPBLOCKS /\ LOGSIZE - (MAXOPBLOCKS - OpBlocks) < LogBlocks - 1

LEMMA ReservedFinite ==
    /\ IsFiniteSet(Reserved) /\ Cardinality(Reserved) \in Nat
    /\ Cardinality(Reserved) <= Cardinality(Active) * MAXOPBLOCKS
<1>1. IsFiniteSet(1 .. MAXOPBLOCKS) /\ Cardinality(1 .. MAXOPBLOCKS) = MAXOPBLOCKS
  BY FS_Interval
<1>2. /\ IsFiniteSet(Active \X (1 .. MAXOPBLOCKS))
      /\ Cardinality(Active \X (1 .. MAXOPBLOCKS)) = Cardinality(Active) * MAXOPBLOCKS
  BY Zenon, <1>1, ActiveFinite, FS_Product
<1>3. Reserved \in SUBSET (Active \X (1 .. MAXOPBLOCKS))
  BY Zenon DEF Reserved
<1> QED
  BY <1>2, <1>3, FS_Subset, FS_CardinalityType

(* A call in progress still owns what it has not used.                     *)
LEMMA ReservedOwn ==
    ASSUME Space, Slack, NEW p \in Procs, p \in Active
    PROVE  Cardinality(Reserved) >= MAXOPBLOCKS - OpBlocks
<1>1. OpBlocks + 1 \in 1 .. MAXOPBLOCKS /\ Cardinality(wrote[p]) <= OpBlocks
  BY DEF Slack, Space
<1>a. Cardinality(wrote[p]) \in Nat
  BY Zenon, FS_CardinalityType DEF Space
<1> DEFINE R == {p} \X (OpBlocks + 1 .. MAXOPBLOCKS)
<1>2. IsFiniteSet(R) /\ Cardinality(R) = MAXOPBLOCKS - OpBlocks
  <2>1. /\ IsFiniteSet(OpBlocks + 1 .. MAXOPBLOCKS)
        /\ Cardinality(OpBlocks + 1 .. MAXOPBLOCKS) = MAXOPBLOCKS - OpBlocks
    BY <1>1, FS_Interval
  <2>2. IsFiniteSet({p}) /\ Cardinality({p}) = 1
    BY Zenon, FS_Singleton
  <2>3. IsFiniteSet(R) /\ Cardinality(R) = 1 * Cardinality(OpBlocks + 1 .. MAXOPBLOCKS)
    BY Zenon, <2>1, <2>2, FS_Product
  <2> QED
    BY <2>1, <2>3
<1>3. R \in SUBSET Reserved
  BY <1>1, <1>a DEF Reserved
<1> QED
  BY <1>2, <1>3, ReservedFinite, FS_Subset

LEMMA NoPanicStep ==
    ASSUME SInv, Slack, NEW p \in Procs,
           end_op(p) \/ \E b \in Blocks : log_write(p, b)
    PROVE  mode' = "run" /\ committing = FALSE
<1>0. mode = "run" /\ Space /\ Control /\ Types /\ p \in Active
  BY Zenon DEF end_op, log_write, SInv, IInv, Running, Types, Active
<1>1. committing = FALSE /\ outstanding >= 1
  <2>1. Cardinality(Active) # 0 /\ Cardinality(Active) \in Nat
    BY Zenon, <1>0, ActiveFinite, FS_EmptySet
  <2>2. ~committing /\ committing \in BOOLEAN
    BY Zenon, <1>0 DEF Control, Types
  <2> QED
    BY <1>0, <2>1, <2>2 DEF Control
<1>2. Len(lh) < LOGSIZE /\ Len(lh) < LogBlocks - 1 /\ Len(lh) \in Nat
  <2>1. Len(lh) \in Nat
    BY <1>0 DEF Types
  <2>2. Len(lh) <= LOGSIZE - (MAXOPBLOCKS - OpBlocks)
    BY <1>0, <2>1, ReservedOwn, ReservedFinite DEF Space
  <2> QED
    BY <2>1, <2>2 DEF Slack
<1>3. CASE end_op(p)
  BY Zenon, <1>0, <1>1, <1>3 DEF end_op
<1>4. CASE \E b \in Blocks : log_write(p, b)
  <2>1. ~(Len(lh) >= LOGSIZE \/ Len(lh) >= LogBlocks - 1 \/ outstanding < 1)
    BY <1>0, <1>1, <1>2 DEF Types
  <2> QED
    BY Zenon, <1>0, <1>1, <1>4, <2>1 DEF log_write
<1> QED
  BY Zenon, <1>3, <1>4
-----------------------------------------------------------------------------
(* Steps that neither log a block nor start or end a call.                 *)
LEMMA SpaceFrame ==
    ASSUME Space, UNCHANGED <<lh, wrote>>, Active' = Active,
           \A q \in Procs, c \in Blocks :
               pc'[q] = "dirty" /\ holder'[c] = q => pc[q] = "dirty" /\ holder[c] = q
    PROVE  Space'
<1>1. Reserved' = Reserved
  BY Zenon DEF Reserved
<1> QED
  BY Zenon, <1>1 DEF Space

LEMMA begin_op_Space ==
    ASSUME Types, Types', Control', Buffers, Space, NEW p \in Procs, begin_op(p)
    PROVE  Space'
<1>1. UNCHANGED <<lh, wrote, holder>>
  BY Zenon DEF begin_op
<1>2. \A q \in Procs, c \in Blocks : pc'[q] = "dirty" => pc[q] = "dirty"
  BY Zenon DEF begin_op, Types
<1>3. CASE pc' = [pc EXCEPT ![p] = "sleep"]
  <2>1. Active' = Active
    BY Zenon, <1>3 DEF begin_op, Types, Active
  <2> QED
    BY Zenon, <1>1, <1>2, <2>1, SpaceFrame
<1>4. CASE /\ Len(lh) + (outstanding + 1) * MAXOPBLOCKS <= LOGSIZE
           /\ outstanding' = outstanding + 1 /\ pc' = [pc EXCEPT ![p] = "op"]
  <2>1. \A q \in Procs : q \notin Active' => q \notin Active
    BY Zenon, <1>4 DEF Types, Active
  <2>2. Cardinality(Reserved') <= outstanding' * MAXOPBLOCKS /\ Cardinality(Reserved') \in Nat
    <3>1. (/\ Cardinality(Reserved) \in Nat
           /\ Cardinality(Reserved) <= Cardinality(Active) * MAXOPBLOCKS)'
      BY ReservedFinite, PTL
    <3> QED
      BY Zenon, <3>1 DEF Control
  <2>3. Len(lh') + Cardinality(Reserved') <= LOGSIZE
    <3>1. Len(lh) \in Nat /\ outstanding \in Nat
      BY DEF Types
    <3>2. (outstanding + 1) * MAXOPBLOCKS \in Nat
      BY <3>1
    <3> QED
      BY SMTT(30), <1>1, <1>4, <2>2, <3>1, <3>2
  <2> QED
    BY Zenon, <1>1, <1>2, <2>1, <2>3 DEF Space
<1>5. /\ Len(lh) \in Nat /\ (outstanding + 1) * MAXOPBLOCKS \in Nat
  BY DEF Types
<1> QED
  BY <1>3, <1>4, <1>5 DEF begin_op

LEMMA end_op_Space ==
    ASSUME Types, Space, NEW p \in Procs, end_op(p), committing = FALSE
    PROVE  Space'
<1>1. UNCHANGED <<lh, holder>> /\ wrote' = [wrote EXCEPT ![p] = {}]
  BY Zenon DEF end_op
<1>2. \A q \in Procs : IF q = p THEN pc'[q] \notin InOp
                       ELSE pc'[q] = pc[q] \/ (pc[q] = "sleep" /\ pc'[q] = "woken")
  <2>1. CASE outstanding = 1
    BY Zenon, <2>1 DEF end_op, Types
  <2>2. CASE outstanding # 1
    BY <2>2 DEF end_op, Types, wakeup
  <2> QED
    BY Zenon, <2>1, <2>2
<1>3. Active' = Active \ {p}
  BY Zenon, <1>2 DEF Active
<1>4. wrote'[p] = {} /\ \A q \in Procs : q # p => wrote'[q] = wrote[q]
  BY Zenon, <1>1 DEF Types
<1>5. Reserved' \in SUBSET Reserved
  <2>1. \A q \in Active' : q \in Active /\ wrote'[q] = wrote[q]
    BY Zenon, <1>3, <1>4 DEF Active
  <2> QED
    BY Zenon, <2>1 DEF Reserved
<1>6. Cardinality(Reserved') <= Cardinality(Reserved) /\ Cardinality(Reserved') \in Nat
  BY Zenon, <1>5, ReservedFinite, FS_Subset, FS_CardinalityType
<1>7. Len(lh') + Cardinality(Reserved') <= LOGSIZE
  BY SMTT(30), <1>1, <1>6, ReservedFinite DEF Space, Types
<1>8. IsFiniteSet({}) /\ Cardinality({}) = 0
  BY Zenon, FS_EmptySet
<1> QED
  BY SMTT(30), <1>1, <1>2, <1>3, <1>4, <1>7, <1>8 DEF Space

LEMMA modify_Space ==
    ASSUME Types, Buffers, Space, NEW p \in Procs, NEW b \in Blocks, NEW d \in Data,
           modify(p, b, d)
    PROVE  Space'
<1>1. /\ UNCHANGED <<lh, wrote>> /\ Cardinality(wrote[p] \cup {b}) <= OpBlocks
      /\ holder'[b] = p /\ \A c \in Blocks : c # b => holder'[c] = holder[c]
      /\ pc[p] = "op" /\ \A q \in Procs : q # p => pc'[q] = pc[q]
  BY Zenon DEF modify, Types
<1>2. Active' = Active
  BY Zenon DEF modify, Types, Active
<1>3. Reserved' = Reserved
  BY Zenon, <1>1, <1>2 DEF Reserved
<1>4. \A c \in Blocks : holder[c] # p
  BY Zenon, <1>1 DEF Buffers
<1> QED
  BY Zenon, <1>1, <1>2, <1>3, <1>4 DEF Space

LEMMA log_write_Space ==
    ASSUME Types, Types', Space, Slack, NEW p \in Procs, NEW b \in Blocks,
           log_write(p, b), mode' = "run"
    PROVE  Space'
<1>1. /\ pc[p] = "dirty" /\ holder[b] = p /\ UNCHANGED holder
      /\ pc' = [pc EXCEPT ![p] = "clean"]
      /\ wrote' = [wrote EXCEPT ![p] = @ \cup {b}]
      /\ lh' = IF b \in Range(lh) THEN lh ELSE Append(lh, b)
  BY Zenon DEF log_write
<1>2. \A q \in Procs : q # p => pc'[q] = pc[q] /\ wrote'[q] = wrote[q]
  BY Zenon, <1>1 DEF Types
<1>3. pc'[p] = "clean" /\ wrote'[p] = wrote[p] \cup {b}
  BY Zenon, <1>1 DEF Types
<1>4. Active' = Active /\ p \in Active
  BY Zenon, <1>1, <1>2, <1>3 DEF Active
<1>5. /\ IsFiniteSet(wrote[p]) /\ IsFiniteSet(wrote'[p])
      /\ Cardinality(wrote[p]) \in Nat /\ Cardinality(wrote'[p]) <= OpBlocks
      /\ Cardinality(wrote'[p]) = Cardinality(wrote[p]) + IF b \in wrote[p] THEN 0 ELSE 1
  BY SMTT(30), <1>1, <1>3, FS_AddElement, FS_CardinalityType DEF Space
<1>6. lh \in Seq(Blocks) /\ Len(lh) \in Nat
  BY DEF Types
<1>7. Range(lh') = Range(lh) \cup {b}
  <2>1. CASE b \in Range(lh)
    BY Zenon, <1>1, <2>1
  <2>2. CASE b \notin Range(lh)
    <3>1. /\ lh' \in Seq(Blocks) /\ Len(lh') = Len(lh) + 1 /\ lh'[Len(lh) + 1] = b
          /\ \A i \in 1 .. Len(lh) : lh'[i] = lh[i]
      BY <1>1, <1>6, <2>2
    <3> QED
      BY <1>6, <3>1 DEF Range
  <2> QED
    BY Zenon, <2>1, <2>2
<1>8. Reserved' \in SUBSET Reserved
  <2>1. \A q \in Procs : IsFiniteSet(wrote[q]) /\ Cardinality(wrote[q]) \in Nat
    BY Zenon, FS_CardinalityType DEF Space
  <2>2. \A q \in Procs : Cardinality(wrote[q]) <= Cardinality(wrote'[q])
    BY <1>2, <1>5, <2>1
  <2>3. \A q \in Procs : Cardinality(wrote'[q]) \in Nat
    BY <1>2, <1>5, <2>1
  <2>4. \A q \in Active : q \in Procs
    BY Zenon DEF Active
  <2> QED
    BY <1>4, <2>1, <2>2, <2>3, <2>4 DEF Reserved
<1>9. Len(lh') + Cardinality(Reserved') <= LOGSIZE
  <2>1. CASE b \in Range(lh)
    <3>1. lh' = lh
      BY Zenon, <1>1, <2>1
    <3>2. Cardinality(Reserved') <= Cardinality(Reserved) /\ Cardinality(Reserved') \in Nat
      BY Zenon, <1>8, ReservedFinite, FS_Subset, FS_CardinalityType
    <3> QED
      BY <1>6, <3>1, <3>2, ReservedFinite DEF Space
  <2>2. CASE b \notin Range(lh)
    <3>1. Len(lh') = Len(lh) + 1 /\ b \notin wrote[p]
      BY SMTT(30), <1>1, <1>6, <2>2 DEF Space
    <3> DEFINE r == <<p, Cardinality(wrote[p]) + 1>>
    <3>2. r \in Reserved
      BY <1>4, <1>5, <3>1 DEF Reserved, Slack
    <3>3. r \notin Reserved'
      BY <1>5, <3>1 DEF Reserved
    <3>4. /\ Reserved \ {r} \in SUBSET Reserved /\ Reserved' \in SUBSET (Reserved \ {r})
      BY Zenon, <1>8, <3>3
    <3>5. /\ IsFiniteSet(Reserved \ {r})
          /\ Cardinality(Reserved \ {r}) = Cardinality(Reserved) - 1
      BY <3>2, ReservedFinite, FS_RemoveElement
    <3>6. Cardinality(Reserved') <= Cardinality(Reserved) - 1 /\ Cardinality(Reserved') \in Nat
      BY <3>4, <3>5, FS_Subset, FS_CardinalityType
    <3> QED
      BY SMTT(30), <1>6, <3>1, <3>6, ReservedFinite DEF Space
  <2> QED
    BY Zenon, <2>1, <2>2
<1> QED
  BY ZenonT(30), ZenonT(30), <1>1, <1>2, <1>3, <1>4, <1>5, <1>7, <1>9 DEF Space

(* erase() and recovery empty the log while no call is active.             *)
LEMMA EmptySpace ==
    ASSUME Active' = {}, lh' = <<>>, \A p \in Procs : wrote'[p] = {} /\ pc'[p] # "dirty"
    PROVE  Space'
<1>1. Reserved' = {}
  BY Zenon DEF Reserved
<1>2. IsFiniteSet({}) /\ Cardinality({}) = 0
  BY Zenon, FS_EmptySet
<1>3. Len(lh') + Cardinality(Reserved') <= LOGSIZE
  BY <1>1, <1>2
<1>4. ASSUME NEW p \in Procs
      PROVE  /\ IsFiniteSet(wrote'[p]) /\ Cardinality(wrote'[p]) <= OpBlocks
             /\ wrote'[p] \subseteq Range(lh')
  <2>1. wrote'[p] = {} /\ 0 <= OpBlocks
    OBVIOUS
  <2> QED
    BY Zenon, <1>2, <2>1
<1> QED
  BY Zenon, <1>3, <1>4 DEF Space

LEMMA commit_Space ==
    ASSUME IInv, Space, NEW p \in Procs, commit(p) \/ end_commit(p)
    PROVE  Space'
<1>0. mode = "run" /\ Types /\ Control /\ Buffers /\ pc[p] \in InCommit
  BY Zenon DEF IInv, Running, commit, write_log, write_head, install_trans, erase, end_commit, Committer
<1>1. /\ \A q \in Procs : q # p => pc[q] \notin InOp \cup InCommit
      /\ Active = {}
  BY Zenon, <1>0, CommitterAlone
<1>2. \A q \in Procs : pc'[q] \notin InOp
  <2>1. CASE commit(p)
    BY ZenonT(30), ZenonT(30), <1>0, <1>1, <2>1 DEF commit, write_log, write_head, install_trans, erase, Types
  <2>2. CASE end_commit(p)
    BY Zenon, <1>0, <1>1, <2>2 DEF end_commit, wakeup, Types
  <2> QED
    BY ZenonT(30), ZenonT(30), <2>1, <2>2
<1>3. Active' = {}
  BY Zenon, <1>2 DEF Active
<1>4. CASE erase(p)
  <2>1. lh' = <<>> /\ wrote' = wrote
    BY Zenon, <1>4 DEF erase
  <2>2. \A q \in Procs : wrote'[q] = {} /\ pc'[q] # "dirty"
    BY Zenon, <1>1, <1>2, <2>1 DEF Space
  <2> QED
    BY Zenon, <1>3, <2>1, <2>2, EmptySpace
<1>5. CASE ~erase(p)
  <2>1. UNCHANGED <<lh, wrote>>
    BY Zenon, <1>5 DEF commit, write_log, write_head, install_trans, end_commit
  <2> QED
    BY Zenon, <1>1, <1>2, <1>3, <2>1, SpaceFrame
<1> QED
  BY Zenon, <1>4, <1>5

LEMMA NextSInv == SInv /\ Slack /\ [Next]_vars => SInv'
<1> SUFFICES ASSUME SInv, Slack, [Next]_vars PROVE LogNeverPanics' /\ (mode' = "run" => Space')
  <2>1. SInv /\ [Next]_vars /\ mode' \in {"read_head", "recover"}
           => wrote' = [p \in Procs |-> {}]
    <3> SUFFICES ASSUME SInv, [Next]_vars, mode' \in {"read_head", "recover"}
                 PROVE  wrote' = [p \in Procs |-> {}]
      BY Zenon
    <3>1. CASE recover_from_log
      BY Zenon, <3>1 DEF SInv, recover_from_log, read_head, install_recover, clear_log
    <3>2. ASSUME NEW p \in Procs, Step(p) PROVE FALSE
      <4>1. CASE begin_op(p) \/ end_op(p) \/ end_commit(p)
        BY Zenon, <4>1 DEF begin_op, end_op, end_commit, Committer
      <4>2. CASE commit(p)
        BY Zenon, <4>2 DEF commit, write_log, write_head, install_trans, erase, Committer
      <4>3. CASE (\E b \in Blocks : log_write(p, b) \/ brelse(p, b))
                 \/ (\E b \in Blocks, d \in Data : modify(p, b, d))
        BY Zenon, <4>3 DEF log_write, brelse, modify
      <4>4. QED
        BY Zenon, <3>2, <4>1, <4>2, <4>3 DEF Step
    <3>3. CASE \E b \in Blocks : read(b) \/ bget_recycle(b)
      BY Zenon, <3>3 DEF SInv, read, bget_recycle
    <3>4. CASE crash
      BY Zenon, <3>4 DEF crash
    <3>5. CASE UNCHANGED vars
      BY Zenon, <3>5 DEF SInv, vars
    <3>6. QED
      BY Zenon, <3>1, <3>2, <3>3, <3>4, <3>5 DEF Next
  <2> QED
    BY Zenon, <2>1, NextIInv DEF SInv
<1>0. IInv /\ IInv' /\ LogNeverPanics
  BY Zenon, NextIInv DEF SInv
<1>1. CASE recover_from_log
  <2>1. CASE clear_log
    <3>1. mode' = "run" /\ lh' = <<>> /\ UNCHANGED local /\ pc = [q \in Procs |-> "idle"]
      BY Zenon, <1>0, <2>1 DEF clear_log, IInv, Starting
    <3>2. Active' = {}
      BY Zenon, <3>1 DEF Active
    <3>3. \A q \in Procs : wrote'[q] = {} /\ pc'[q] # "dirty"
      BY SMTT(30), <2>1, <3>1 DEF SInv, clear_log
    <3> QED
      BY Zenon, <3>1, <3>2, <3>3, EmptySpace DEF LogNeverPanics
  <2>2. CASE read_head \/ install_recover
    BY <2>2 DEF read_head, install_recover, LogNeverPanics
  <2> QED
    BY Zenon, <1>1, <2>1, <2>2 DEF recover_from_log
<1>2. ASSUME NEW p \in Procs, Step(p) PROVE LogNeverPanics' /\ (mode' = "run" => Space')
  <2>0. mode = "run" /\ Space /\ Types /\ Types' /\ Buffers
    BY ZenonT(30), ZenonT(30), <1>0, <1>2 DEF Step, begin_op, end_op, commit, write_log, write_head, install_trans,
                      erase, end_commit, log_write, brelse, modify, Committer, SInv, IInv, Running
  <2>1. CASE begin_op(p)
    <3>1. mode' = "run" /\ Control'
      BY Zenon, <1>0, <2>0, <2>1 DEF begin_op, IInv, Running
    <3> QED
      BY Zenon, <2>0, <2>1, <3>1, begin_op_Space DEF LogNeverPanics
  <2>2. CASE end_op(p)
    BY ZenonT(30), ZenonT(30), <2>0, <2>2, NoPanicStep, end_op_Space DEF LogNeverPanics
  <2>3. CASE commit(p) \/ end_commit(p)
    <3>1. mode' = mode
      BY Zenon, <2>3 DEF commit, write_log, write_head, install_trans, erase, end_commit
    <3> QED
      BY Zenon, <1>0, <2>0, <2>3, <3>1, commit_Space DEF LogNeverPanics
  <2>4. CASE \E b \in Blocks : log_write(p, b)
    BY ZenonT(30), ZenonT(30), <2>0, <2>4, NoPanicStep, log_write_Space DEF LogNeverPanics
  <2>5. ASSUME NEW b \in Blocks, brelse(p, b) PROVE LogNeverPanics' /\ (mode' = "run" => Space')
    <3>1. mode' = mode /\ UNCHANGED <<lh, wrote>>
      BY Zenon, <2>5 DEF brelse
    <3>2. Active' = Active
      BY SMTT(30), <2>0, <2>5 DEF brelse, Types, Active
    <3>3. \A q \in Procs, c \in Blocks :
              pc'[q] = "dirty" /\ holder'[c] = q => pc[q] = "dirty" /\ holder[c] = q
      BY <2>0, <2>5 DEF brelse, Types
    <3> QED
      BY Zenon, <2>0, <3>1, <3>2, <3>3, SpaceFrame DEF LogNeverPanics
  <2>6. CASE \E b \in Blocks, d \in Data : modify(p, b, d)
    BY Zenon, <2>0, <2>6, modify_Space DEF modify, LogNeverPanics
  <2> QED
    BY ZenonT(30), ZenonT(30), <1>2, <2>1, <2>2, <2>3, <2>4, <2>5, <2>6 DEF Step
<1>3. CASE (\E b \in Blocks : read(b) \/ bget_recycle(b)) \/ UNCHANGED vars
  <2>1. UNCHANGED <<mode, lh, wrote, pc, holder>>
    BY Zenon, <1>3 DEF read, bget_recycle, vars
  <2>2. Active' = Active
    BY Zenon, <2>1 DEF Active
  <2>3. Space => Space'
    BY Zenon, <2>1, <2>2, SpaceFrame
  <2> QED
    BY Zenon, <2>1, <2>3 DEF SInv, LogNeverPanics
<1>4. CASE crash
  BY Zenon, <1>4 DEF crash, LogNeverPanics
<1> QED
  BY Zenon, <1>1, <1>2, <1>3, <1>4 DEF Next

(* log.c never panics if every call leaves Slack blocks of its reservation *)
(* unused: with the sizes of param.h and mkfs.c (MAXOPBLOCKS 10, LOGSIZE   *)
(* 30, nlog 30) that is at most 8 blocks per call.                         *)
THEOREM ReservationSuffices == Slack => (Spec => []LogNeverPanics)
<1> SUFFICES ASSUME Slack PROVE Spec => []LogNeverPanics
  BY Zenon
<1>1. Init => SInv
  BY Zenon, InitIInv DEF Init, SInv, LogNeverPanics
<1>2. SInv /\ [Next]_vars => SInv'
  BY Zenon, NextSInv
<1>3. SInv => LogNeverPanics
  BY Zenon DEF SInv
<1> QED
  BY <1>1, <1>2, <1>3, PTL DEF Spec
=============================================================================
