----------------------------- MODULE WALProofs ------------------------------
(***************************************************************************)
(* Group commit for any threads, any number of calls, any ring size, any   *)
(* retry limit and any faults: the locks and leadership, the requests of   *)
(* the ring, and what a close leaves behind; and, where failing            *)
(* submissions and cancellations do not occur together (FaultsApart), that *)
(* a call that returns has its records stable.                             *)
(***************************************************************************)
EXTENDS WAL, FiniteSetTheorems, TLAPS

(* Calls made so far bound the log, and a call that is refilling the ring  *)
(* still has its own record to write.                                      *)
Bounds ==
  /\ writeOffset <= calls
  /\ \A t \in Threads : pc[t] = "refill" => calls < MaxCalls

(* Each lock has one holder and there is one leader.                       *)
Exclusion ==
  \A t, u \in Threads : t # u =>
    /\ ~(pc[t] \in MuPcs /\ pc[u] \in MuPcs)
    /\ ~(pc[t] \in SyncMuPcs /\ pc[u] \in SyncMuPcs)
    /\ ~(pc[t] \in EnginePcs /\ pc[u] \in EnginePcs)
    /\ ~(pc[t] \in LeaderPcs /\ pc[u] \in LeaderPcs)
    /\ ~(pc[t] = "close" /\ pc[u] # "idle")

(* sync_in_progress_ is set while there is a leader; clear() past its wait *)
(* excludes one, and keeps the durable prefix empty.                       *)
Leadership ==
  \A t \in Threads :
    /\ pc[t] \in LeaderPcs => syncInProgress /\ leadEpoch[t] = epoch
    /\ pc[t] \in {"clearlock", "cleardrain"} => ~syncInProgress /\ durableEnd = 0
    /\ pc[t] \in MuPcs \cup {"fsync", "fsyncing"} => ringReady

(* What the locks and the two flags guarantee.                             *)
LockInv == TypeOK /\ Bounds /\ Exclusion /\ Leadership

-----------------------------------------------------------------------------
(* The sets of requests counted by Cardinality are finite.                 *)
LEMMA OffsetsFinite ==
  ASSUME NEW S \in SUBSET Offsets
  PROVE  IsFiniteSet(S) /\ Cardinality(S) \in Nat
<1>1. IsFiniteSet(Offsets)
  BY WALAssumption, FS_Interval DEF Offsets
<1>2. QED
  BY <1>1, FS_Subset, FS_CardinalityType, Zenon

(* The number of requests still in the submission queue is a number.       *)
LEMMA QueuedFinite == Cardinality(Queued) \in Nat
  BY OffsetsFinite, Zenon DEF Queued

-----------------------------------------------------------------------------
(* A step keeps every variable within its type: offsets stay within the    *)
(* log because each append is a call, retries stop at kMaxWriteAttempts.   *)
LEMMA TypeStep ==
  ASSUME TypeOK, Bounds, [Next]_vars
  PROVE  TypeOK'
<1> USE WALAssumption
<1>1. ASSUME NEW t \in Threads, Reap(t) PROVE TypeOK'
  <2> PICK o \in Offsets : /\ req[o] \in Completed
                           /\ ReapUntagged(o) \/ Resubmit(o) \/ ReapFinal(o)
    BY <1>1, Zenon DEF Reap
  <2>1. pending' \in Nat
    BY DEF ReapUntagged, Resubmit, ReapFinal, Decrement, TypeOK
  <2>2. req' \in [Offsets -> ReqStates]
    BY Zenon DEF ReapUntagged, Resubmit, ReapFinal, SubmitAll, ReqStates,
       TypeOK
  <2>3. tagged' \subseteq Offsets /\ freed' \subseteq Offsets
    BY Zenon DEF ReapUntagged, Resubmit, ReapFinal, TypeOK
  <2>4. failure' \in BOOLEAN
    BY Zenon DEF ReapUntagged, Resubmit, ReapFinal, TypeOK
  <2>5. attempts' \in [Offsets -> 0 .. kMaxWriteAttempts]
    <3>1. CASE Resubmit(o)
      BY <3>1 DEF Resubmit, TypeOK
    <3>2. CASE ReapUntagged(o) \/ ReapFinal(o)
      BY <3>2, Zenon DEF ReapUntagged, ReapFinal, TypeOK
    <3>3. QED BY <3>1, <3>2, Zenon
  <2>6. QED
    BY <1>1, <2>1, <2>2, <2>3, <2>4, <2>5, Zenon
    DEF Reap, TypeOK, callVars, syncVars, logVars, fileVars, ghostVars
<1>2. ASSUME NEW t \in Threads, QueueFull(t) PROVE TypeOK'
  <2>1. calls' \in 0 .. MaxCalls
    BY <1>2 DEF QueueFull, TypeOK, Bounds
  <2>2. pc' \in [Threads -> Pcs]
    BY <1>2, Zenon DEF QueueFull, Goto, Pcs, TypeOK
  <2>3. QED
    BY <1>2, <2>1, <2>2, Zenon DEF QueueFull, TypeOK, callVars, syncVars,
       ringVars,
                            logVars, fileVars
<1>3. ASSUME NEW t \in Threads, WriteEntry(t) PROVE TypeOK'
  <2>1. calls < MaxCalls /\ writeOffset \in Offsets
    BY <1>3, SMTT(30) DEF WriteEntry, MayAppend, TypeOK, Bounds, Offsets
  <2>2. calls' \in 0 .. MaxCalls /\ writeOffset' \in 0 .. MaxCalls
    BY <1>3, <2>1 DEF WriteEntry, TypeOK, Offsets
  <2>3. pc' \in [Threads -> Pcs]
    BY <1>3, Zenon DEF WriteEntry, Goto, Pcs, EnginePcs, AppendPcs, TypeOK
  <2>4. req' \in [Offsets -> ReqStates]
    BY <1>3, Zenon DEF WriteEntry, SubmitAll, ReqStates, TypeOK
  <2>5. pending' \in Nat
    BY <1>3, QueuedFinite DEF WriteEntry, TypeOK
  <2>6. /\ tagged' \subseteq Offsets
        /\ attempts' \in [Offsets -> 0 .. kMaxWriteAttempts]
    BY <1>3, <2>1 DEF WriteEntry, TypeOK
  <2>7. ticket' \in [Threads -> [epoch : Nat, end : Nat]]
    BY <1>3 DEF WriteEntry, TypeOK
  <2>8. promise' \in [Threads -> SUBSET Offsets]
    BY <1>3, <2>1, Zenon DEF WriteEntry, TypeOK
  <2>9. QED
    BY <1>3, <2>2, <2>3, <2>4, <2>5, <2>6, <2>7, <2>8, Zenon
    DEF WriteEntry, TypeOK, syncVars, fileVars
<1>4. ASSUME NEW t \in Threads, WriteEntryThrows(t) PROVE TypeOK'
  <2>1. calls < MaxCalls /\ writeOffset \in Offsets
    BY <1>4 DEF WriteEntryThrows, MayAppend, TypeOK, Bounds, Offsets
  <2>2. calls' \in 0 .. MaxCalls /\ writeOffset' \in 0 .. MaxCalls
    BY <1>4, <2>1 DEF WriteEntryThrows, TypeOK, Offsets
  <2>3. pc' \in [Threads -> Pcs]
    BY <1>4, Zenon DEF WriteEntryThrows, Goto, Pcs, TypeOK
  <2>4. req' \in [Offsets -> ReqStates]
    BY <1>4, Zenon DEF WriteEntryThrows, ReqStates, TypeOK
  <2>5. QED
    BY <1>4, <2>2, <2>3, <2>4, Zenon
    DEF WriteEntryThrows, TypeOK, callVars, syncVars, fileVars
<1>5. ASSUME NEW t \in Threads,
             WriteEntryReturns(t) \/ PutFlushes(t) \/ PutUnlocks(t)
      PROVE TypeOK'
  BY <1>5, Zenon DEF WriteEntryReturns, PutFlushes, PutUnlocks, Goto, Pcs,
     EnginePcs,
              ClearPcs, TypeOK, callVars, syncVars, ringVars, logVars,
              fileVars, ghostVars
<1>6. ASSUME NEW t \in Threads,
             WaitReturns(t) \/ WaitSleeps(t) \/ BecomeLeader(t) \/ LeaderDrains(t)
      PROVE TypeOK'
  <2>1. pc' \in [Threads -> Pcs]
    BY <1>6, Zenon DEF WaitReturns, WaitSleeps, BecomeLeader, LeaderDrains,
       Goto, Pcs,
                LeaderPcs, TypeOK
  <2>2. CASE WaitReturns(t)
    BY <2>1, <2>2, Zenon DEF WaitReturns, TypeOK, callVars, syncVars,
       ringVars, logVars, fileVars
  <2>3. CASE WaitSleeps(t) \/ LeaderDrains(t)
    BY <2>1, <2>3, Zenon DEF WaitSleeps, LeaderDrains, TypeOK, callVars,
       syncVars,
                      ringVars, logVars, fileVars, ghostVars
  <2>4. CASE BecomeLeader(t)
    BY <2>1, <2>4, Zenon DEF BecomeLeader, TypeOK, ringVars, logVars,
       fileVars, ghostVars
  <2>5. QED BY <1>6, <2>2, <2>3, <2>4, Zenon
<1>7. ASSUME NEW t \in Threads, LeaderTakesTarget(t) PROVE TypeOK'
  <2>1. failure' \in BOOLEAN
    BY <1>7, Zenon DEF LeaderTakesTarget, TypeOK
  <2>2. failed' \in [Threads -> BOOLEAN]
    BY <1>7, <2>1, Zenon DEF LeaderTakesTarget, TypeOK
  <2>3. target' \in [Threads -> Nat]
    BY <1>7 DEF LeaderTakesTarget, TypeOK
  <2>4. pc' \in [Threads -> Pcs]
    BY <1>7, Zenon DEF LeaderTakesTarget, Goto, Pcs, LeaderPcs, TypeOK
  <2>5. QED
    BY <1>7, <2>1, <2>2, <2>3, <2>4, Zenon
    DEF LeaderTakesTarget, TypeOK, syncVars, logVars, fileVars, ghostVars
<1>8. ASSUME NEW t \in Threads, FdatasyncStarts(t) \/ FdatasyncReturns(t)
      PROVE TypeOK'
  <2>1. pc' \in [Threads -> Pcs]
    BY <1>8, Zenon DEF FdatasyncStarts, FdatasyncReturns, Goto, Pcs,
       LeaderPcs, TypeOK
  <2>2. CASE FdatasyncStarts(t)
    BY <2>1, <2>2, Zenon DEF FdatasyncStarts, TypeOK, syncVars, ringVars,
       logVars,
                      fileVars, ghostVars
  <2>3. CASE FdatasyncReturns(t)
    <3>1. stable' \subseteq Offsets /\ covered' \in [Threads -> SUBSET Offsets]
      BY <2>3, Zenon DEF FdatasyncReturns, TypeOK
    <3>2. failed' \in [Threads -> BOOLEAN]
      BY <2>3, Zenon DEF FdatasyncReturns, TypeOK
    <3>3. QED
      BY <2>1, <2>3, <3>1, <3>2, Zenon DEF FdatasyncReturns, TypeOK, syncVars,
         ringVars,
                                    logVars, ghostVars
  <2>4. QED BY <1>8, <2>2, <2>3, Zenon
<1>9. ASSUME NEW t \in Threads, LeaderPublishes(t) PROVE TypeOK'
  BY <1>9, Zenon DEF LeaderPublishes, GotoNotifyAll, Pcs, SyncMuPcs, EnginePcs,
              ClearPcs, TypeOK, ringVars, logVars, fileVars, ghostVars
<1>10. ASSUME NEW t \in Threads, ClearSleeps(t) \/ ClearLocks(t) PROVE TypeOK'
  BY <1>10, SMTT(30) DEF ClearSleeps, ClearLocks, Goto, Pcs, EnginePcs, ClearPcs, TypeOK,
               callVars, syncVars, ringVars, logVars, fileVars, ghostVars
<1>11. ASSUME NEW t \in Threads, ClearBumpsEpoch(t) PROVE TypeOK'
  <2>1. pc' \in [Threads -> Pcs]
    BY <1>11, Zenon DEF ClearBumpsEpoch, GotoNotifyAll, Pcs, EnginePcs,
       ClearPcs, TypeOK
  <2>2. epoch' \in Nat
    BY <1>11 DEF ClearBumpsEpoch, TypeOK
  <2>3. QED
    BY <1>11, <2>1, <2>2, Zenon
    DEF ClearBumpsEpoch, TypeOK, callVars, syncVars, ringVars, fileVars
<1>12. ASSUME NEW t \in Threads, ClearReplacesLog(t) \/ ClearThrows(t)
       PROVE TypeOK'
  <2>1. pc' \in [Threads -> Pcs]
    BY <1>12, Zenon DEF ClearReplacesLog, ClearThrows, Goto, Pcs, TypeOK
  <2>2. writeOffset' \in 0 .. MaxCalls /\ pending' \in Nat
    BY <1>12 DEF ClearReplacesLog, ClearThrows, FreshLog, TypeOK
  <2>3. failure' \in BOOLEAN /\ ringReady' \in BOOLEAN
    BY <1>12, Zenon DEF ClearReplacesLog, ClearThrows, TypeOK
  <2>4. /\ req' \in [Offsets -> ReqStates]
        /\ attempts' \in [Offsets -> 0 .. kMaxWriteAttempts]
    BY <1>12 DEF ClearReplacesLog, ClearThrows, FreshLog, ReqStates, TypeOK
  <2>5. QED
    BY <1>12, <2>1, <2>2, <2>3, <2>4, Zenon
    DEF ClearReplacesLog, ClearThrows, FreshLog, TypeOK, callVars, syncVars,
        fileVars, ghostVars
<1>13. ASSUME NEW t \in Threads,
              Destroy(t) \/ Destroyed(t) \/ UseExitedRing(t)
       PROVE TypeOK'
  BY <1>13, Zenon DEF Destroy, Destroyed, UseExitedRing, Goto, Pcs, EnginePcs,
     StopPcs,
               TypeOK, callVars, syncVars, ringVars, logVars, fileVars,
               ghostVars
<1>14. ASSUME NEW t \in Threads, FlushQueue(t) PROVE TypeOK'
  <2>1. pc' \in [Threads -> Pcs]
    BY <1>14, Zenon DEF FlushQueue, Goto, Pcs, EnginePcs, AppendPcs, TypeOK
  <2>2. pending' \in Nat
    BY <1>14, QueuedFinite DEF FlushQueue, TypeOK
  <2>3. req' \in [Offsets -> ReqStates]
    BY <1>14, Zenon DEF FlushQueue, ReqStates, TypeOK
  <2>4. QED
    BY <1>14, <2>1, <2>2, <2>3, Zenon
    DEF FlushQueue, TypeOK, callVars, syncVars, logVars, fileVars
<1>15. ASSUME NEW t \in Threads, Sync(t) \/ Flush(t) PROVE TypeOK'
  <2>1. calls' \in 0 .. MaxCalls
    BY <1>15 DEF Sync, Flush, TypeOK
  <2>2. ticket' \in [Threads -> [epoch : Nat, end : Nat]]
    <3>1. CASE Sync(t)
      BY <3>1 DEF Sync, TypeOK
    <3>2. CASE Flush(t)
      BY <3>2, Zenon DEF Flush, TypeOK
    <3>3. QED BY <1>15, <3>1, <3>2, Zenon
  <2>3. promise' \in [Threads -> SUBSET Offsets]
    <3>1. CASE Sync(t)
      BY <3>1, Zenon DEF Sync, TypeOK
    <3>2. CASE Flush(t)
      BY <3>2, Zenon DEF Flush, TypeOK
    <3>3. QED BY <1>15, <3>1, <3>2, Zenon
  <2>4. pc' \in [Threads -> Pcs]
    BY <1>15, Zenon DEF Sync, Flush, Goto, Pcs, EnginePcs, ClearPcs, TypeOK
  <2>5. QED
    BY <1>15, <2>1, <2>2, <2>3, <2>4, Zenon
    DEF Sync, Flush, TypeOK, syncVars, ringVars, logVars, fileVars
<1>16. ASSUME NEW o \in Offsets, Complete(o) PROVE TypeOK'
  BY <1>16, Zenon DEF Complete, ReqStates, Completed, TypeOK, callVars,
     syncVars,
               logVars, ghostVars
<1>17. CASE UNCHANGED vars
  BY <1>17, Zenon DEF vars, TypeOK, callVars, syncVars, ringVars, logVars,
     fileVars,
               ghostVars
<1>18. QED
  BY <1>1, <1>2, <1>3, <1>4, <1>5, <1>6, <1>7, <1>8, <1>9, <1>10, <1>11, <1>12,
     <1>13, <1>14, <1>15, <1>16, <1>17, Zenon
  DEF Next, Step, Call, Stopped

(* A thread refilling the ring holds both the engine lock and mu_, so no    *)
(* other call can start and use up its place in the log.                   *)
LEMMA BoundsStep ==
  ASSUME TypeOK, Bounds, Exclusion, [Next]_vars
  PROVE  Bounds'
<1> DEFINE Idle == /\ writeOffset' \in {writeOffset, 0} /\ calls' = calls
                   /\ \A u \in Threads : pc'[u] = "refill" => pc[u] = "refill"
           Called == /\ calls' = calls + 1 /\ writeOffset' \in {writeOffset, writeOffset + 1}
                     /\ \A u \in Threads : pc'[u] # "refill"
<1>0. /\ pc \in [Threads -> Pcs] /\ MaxCalls \in Nat
      /\ calls \in Nat /\ writeOffset \in Nat
  BY WALAssumption DEF TypeOK
<1>1. Idle \/ Called => Bounds'
  BY <1>0 DEF Bounds
<1> HIDE DEF Idle, Called
<1>2. ASSUME NEW t \in Threads,
             \/ Reap(t) \/ WriteEntryReturns(t) \/ PutFlushes(t) \/ PutUnlocks(t)
             \/ WaitReturns(t) \/ WaitSleeps(t) \/ BecomeLeader(t) \/ LeaderDrains(t)
      PROVE  Idle
  BY <1>0, <1>2, Zenon DEF Idle, Reap, WriteEntryReturns, PutFlushes,
     PutUnlocks,
    WaitReturns, WaitSleeps, BecomeLeader, LeaderDrains, Goto, logVars,
    ghostVars
<1>3. ASSUME NEW t \in Threads,
             \/ LeaderTakesTarget(t) \/ FdatasyncStarts(t) \/ FdatasyncReturns(t)
             \/ LeaderPublishes(t) \/ ClearSleeps(t) \/ ClearLocks(t)
      PROVE  Idle
  BY <1>0, <1>3, Zenon DEF Idle, LeaderTakesTarget, FdatasyncStarts,
     FdatasyncReturns,
    LeaderPublishes, ClearSleeps, ClearLocks, Goto, GotoNotifyAll, logVars,
    ghostVars
<1>4. ASSUME NEW t \in Threads,
             \/ ClearBumpsEpoch(t) \/ ClearReplacesLog(t) \/ ClearThrows(t)
             \/ Destroy(t) \/ Destroyed(t) \/ UseExitedRing(t)
      PROVE  Idle
  BY <1>0, <1>4, Zenon DEF Idle, ClearBumpsEpoch, ClearReplacesLog,
     ClearThrows, FreshLog,
    Destroy, Destroyed, UseExitedRing, Goto, GotoNotifyAll, logVars, ghostVars
<1>5. (\E o \in Offsets : Complete(o)) \/ UNCHANGED vars => Idle
  BY Zenon DEF Idle, Complete, vars, logVars, ghostVars
<1>6. ASSUME NEW t \in Threads, QueueFull(t) \/ WriteEntry(t) \/ WriteEntryThrows(t)
      PROVE  Called
  <2>1. calls' = calls + 1 /\ writeOffset' \in {writeOffset, writeOffset + 1}
    BY <1>0, <1>6, Zenon DEF QueueFull, WriteEntry, WriteEntryThrows, logVars
  <2>2. \A u \in Threads \ {t} : pc[u] # "refill"
    BY <1>6, Zenon DEF QueueFull, WriteEntry, WriteEntryThrows, MayAppend,
       MuFree,
      Exclusion, MuPcs, AppendPcs
  <2>3. pc'[t] # "refill" /\ \A u \in Threads \ {t} : pc'[u] = pc[u]
    BY <1>0, <1>6, Zenon DEF QueueFull, WriteEntry, WriteEntryThrows, Goto
  <2>4. QED BY <2>1, <2>2, <2>3, Zenon DEF Called
<1>7. ASSUME NEW t \in Threads, Sync(t) \/ Flush(t) PROVE Called
  BY <1>0, <1>7, Zenon DEF Called, Sync, Flush, Goto, logVars, MuFree, MuPcs,
     EngineFree,
    EnginePcs, AppendPcs
<1>8. ASSUME NEW t \in Threads, FlushQueue(t) PROVE Bounds'
  BY <1>0, <1>8, Zenon DEF Bounds, FlushQueue, MayAppend, Goto, logVars
<1>9. QED
  BY <1>1, <1>2, <1>3, <1>4, <1>5, <1>6, <1>7, <1>8, Zenon DEF Next, Step,
     Call, Stopped

(* No step gives a lock, or the lead of a group commit, to a second thread. *)
LEMMA ExclusionStep ==
  ASSUME TypeOK, Exclusion, Leadership, [Next]_vars
  PROVE  Exclusion'
<1>t. pc \in [Threads -> Pcs]
  BY Zenon DEF TypeOK
<1> USE DEF Exclusion, Leadership, EnginePcs, MuPcs, SyncMuPcs, LeaderPcs,
  ClearPcs, AppendPcs, EngineFree, MuFree, SyncMuFree, Goto
<1>1. ASSUME NEW t \in Threads, Reap(t) PROVE Exclusion'
  BY <1>1, <1>t, Zenon DEF Reap
<1>2. ASSUME NEW t \in Threads, QueueFull(t) PROVE Exclusion'
  BY <1>2, <1>t, Zenon DEF QueueFull
<1>3. ASSUME NEW t \in Threads, WriteEntry(t) PROVE Exclusion'
  BY <1>3, <1>t DEF WriteEntry, MayAppend
<1>4. ASSUME NEW t \in Threads, WriteEntryThrows(t) PROVE Exclusion'
  BY <1>4, <1>t, Zenon DEF WriteEntryThrows, MayAppend
<1>5. ASSUME NEW t \in Threads, WriteEntryReturns(t) PROVE Exclusion'
  BY <1>5, <1>t DEF WriteEntryReturns
<1>6. ASSUME NEW t \in Threads, PutFlushes(t) PROVE Exclusion'
  BY <1>6, <1>t, ZenonT(30) DEF PutFlushes
<1>7. ASSUME NEW t \in Threads, PutUnlocks(t) PROVE Exclusion'
  BY <1>7, <1>t DEF PutUnlocks
<1>8. ASSUME NEW t \in Threads, WaitReturns(t) PROVE Exclusion'
  BY <1>8, <1>t, ZenonT(30) DEF WaitReturns, AtLoopHead
<1>9. ASSUME NEW t \in Threads, WaitSleeps(t) PROVE Exclusion'
  BY <1>9, <1>t, ZenonT(30) DEF WaitSleeps, AtLoopHead
<1>10. ASSUME NEW t \in Threads, BecomeLeader(t) PROVE Exclusion'
  BY <1>10, <1>t DEF BecomeLeader, AtLoopHead
<1>11. ASSUME NEW t \in Threads, LeaderDrains(t) PROVE Exclusion'
  BY <1>11, <1>t DEF LeaderDrains
<1>12. ASSUME NEW t \in Threads, LeaderTakesTarget(t) PROVE Exclusion'
  BY <1>12, <1>t DEF LeaderTakesTarget
<1>13. ASSUME NEW t \in Threads, FdatasyncStarts(t) PROVE Exclusion'
  BY <1>13, <1>t DEF FdatasyncStarts
<1>14. ASSUME NEW t \in Threads, FdatasyncReturns(t) PROVE Exclusion'
  BY <1>14, <1>t DEF FdatasyncReturns
<1>15. ASSUME NEW t \in Threads, LeaderPublishes(t) PROVE Exclusion'
  BY <1>15, <1>t DEF LeaderPublishes, GotoNotifyAll
<1>16. ASSUME NEW t \in Threads, ClearSleeps(t) PROVE Exclusion'
  BY <1>16, <1>t DEF ClearSleeps
<1>17. ASSUME NEW t \in Threads, ClearLocks(t) PROVE Exclusion'
  BY <1>17, <1>t, ZenonT(30) DEF ClearLocks
<1>18. ASSUME NEW t \in Threads, ClearBumpsEpoch(t) PROVE Exclusion'
  BY <1>18, <1>t DEF ClearBumpsEpoch, GotoNotifyAll
<1>19. ASSUME NEW t \in Threads, ClearReplacesLog(t) PROVE Exclusion'
  BY <1>19, <1>t DEF ClearReplacesLog
<1>20. ASSUME NEW t \in Threads, ClearThrows(t) PROVE Exclusion'
  BY <1>20, <1>t, Zenon DEF ClearThrows
<1>21. ASSUME NEW t \in Threads, Destroyed(t) PROVE Exclusion'
  BY <1>21, <1>t, Zenon DEF Destroyed
<1>22. ASSUME NEW t \in Threads, UseExitedRing(t) PROVE Exclusion'
  BY <1>22, <1>t, Zenon DEF UseExitedRing, MayAppend
<1>23. ASSUME NEW t \in Threads, FlushQueue(t) PROVE Exclusion'
  BY <1>23, <1>t DEF FlushQueue, MayAppend
<1>24. ASSUME NEW t \in Threads, Sync(t) PROVE Exclusion'
  BY <1>24, <1>t, ZenonT(30) DEF Sync
<1>25. ASSUME NEW t \in Threads, Flush(t) PROVE Exclusion'
  BY <1>25, <1>t, ZenonT(30) DEF Flush
<1>26. ASSUME NEW t \in Threads, Destroy(t) PROVE Exclusion'
  BY <1>26, <1>t DEF Destroy
<1>27. CASE (\E o \in Offsets : Complete(o)) \/ UNCHANGED vars
  BY <1>27 DEF Complete, vars
<1> HIDE DEF Exclusion, Leadership, EnginePcs, MuPcs, SyncMuPcs, LeaderPcs,
  ClearPcs, AppendPcs, EngineFree, MuFree, SyncMuFree, Goto
<1>28. QED
  BY <1>1, <1>2, <1>3, <1>4, <1>5, <1>6, <1>7, <1>8, <1>9, <1>10, <1>11,
    <1>12, <1>13, <1>14, <1>15, <1>16, <1>17, <1>18, <1>19, <1>20, <1>21,
    <1>22, <1>23, <1>24, <1>25, <1>26, <1>27, Zenon DEF Next, Step, Call,
    Stopped

(* A leader keeps its epoch and its ring: clear() moves past its wait only  *)
(* when there is no leader, and keeps others from leading while it holds   *)
(* sync_mu_.                                                               *)
LEMMA LeadershipStep ==
  ASSUME TypeOK, Exclusion, Leadership, [Next]_vars
  PROVE  Leadership'
<1>t. pc \in [Threads -> Pcs] /\ leadEpoch \in [Threads -> Nat]
  BY Zenon DEF TypeOK
<1> USE DEF Exclusion, Leadership, EnginePcs, MuPcs, SyncMuPcs, LeaderPcs,
  ClearPcs, AppendPcs, MuFree, SyncMuFree, Goto, callVars, syncVars, logVars
<1>1. ASSUME NEW t \in Threads, Reap(t) PROVE Leadership'
  BY <1>1, <1>t, Zenon DEF Reap
<1>2. ASSUME NEW t \in Threads, QueueFull(t) PROVE Leadership'
  BY <1>2, <1>t, Zenon DEF QueueFull
<1>3. ASSUME NEW t \in Threads, WriteEntry(t) PROVE Leadership'
  BY <1>3, <1>t, Zenon DEF WriteEntry, MayAppend
<1>4. ASSUME NEW t \in Threads, WriteEntryThrows(t) PROVE Leadership'
  BY <1>4, <1>t, Zenon DEF WriteEntryThrows, MayAppend
<1>5. ASSUME NEW t \in Threads, WriteEntryReturns(t) PROVE Leadership'
  BY <1>5, <1>t, Zenon DEF WriteEntryReturns
<1>6. ASSUME NEW t \in Threads, PutFlushes(t) PROVE Leadership'
  BY <1>6, <1>t, Zenon DEF PutFlushes
<1>7. ASSUME NEW t \in Threads, PutUnlocks(t) PROVE Leadership'
  BY <1>7, <1>t, Zenon DEF PutUnlocks
<1>8. ASSUME NEW t \in Threads, WaitReturns(t) PROVE Leadership'
  BY <1>8, <1>t, Zenon DEF WaitReturns, AtLoopHead
<1>9. ASSUME NEW t \in Threads, WaitSleeps(t) PROVE Leadership'
  BY <1>9, <1>t, Zenon DEF WaitSleeps, AtLoopHead
<1>10. ASSUME NEW t \in Threads, BecomeLeader(t) PROVE Leadership'
  BY <1>10, <1>t, Zenon DEF BecomeLeader, AtLoopHead
<1>11. ASSUME NEW t \in Threads, LeaderDrains(t) PROVE Leadership'
  BY <1>11, <1>t, Zenon DEF LeaderDrains
<1>12. ASSUME NEW t \in Threads, LeaderTakesTarget(t) PROVE Leadership'
  BY <1>12, <1>t, Zenon DEF LeaderTakesTarget
<1>13. ASSUME NEW t \in Threads, FdatasyncStarts(t) PROVE Leadership'
  BY <1>13, <1>t, Zenon DEF FdatasyncStarts
<1>14. ASSUME NEW t \in Threads, FdatasyncReturns(t) PROVE Leadership'
  BY <1>14, <1>t, Zenon DEF FdatasyncReturns
<1>15. ASSUME NEW t \in Threads, LeaderPublishes(t) PROVE Leadership'
  BY <1>15, <1>t, Zenon DEF LeaderPublishes, GotoNotifyAll
<1>16. ASSUME NEW t \in Threads, ClearSleeps(t) PROVE Leadership'
  BY <1>16, <1>t, Zenon DEF ClearSleeps
<1>17. ASSUME NEW t \in Threads, ClearLocks(t) PROVE Leadership'
  BY <1>17, <1>t, Zenon DEF ClearLocks
<1>18. ASSUME NEW t \in Threads, ClearBumpsEpoch(t) PROVE Leadership'
  BY <1>18, <1>t, Zenon DEF ClearBumpsEpoch, GotoNotifyAll
<1>19. ASSUME NEW t \in Threads, ClearReplacesLog(t) PROVE Leadership'
  BY <1>19, <1>t, Zenon DEF ClearReplacesLog
<1>20. ASSUME NEW t \in Threads, ClearThrows(t) PROVE Leadership'
  BY <1>20, <1>t, Zenon DEF ClearThrows
<1>21. ASSUME NEW t \in Threads, Destroyed(t) PROVE Leadership'
  BY <1>21, <1>t, Zenon DEF Destroyed
<1>22. ASSUME NEW t \in Threads, UseExitedRing(t) PROVE Leadership'
  BY <1>22, <1>t, Zenon DEF UseExitedRing, MayAppend
<1>23. ASSUME NEW t \in Threads, FlushQueue(t) PROVE Leadership'
  BY <1>23, <1>t, Zenon DEF FlushQueue, MayAppend
<1>24. ASSUME NEW t \in Threads, Sync(t) PROVE Leadership'
  BY <1>24, <1>t, Zenon DEF Sync
<1>25. ASSUME NEW t \in Threads, Flush(t) PROVE Leadership'
  BY <1>25, <1>t, Zenon DEF Flush
<1>26. ASSUME NEW t \in Threads, Destroy(t) PROVE Leadership'
  BY <1>26, <1>t, Zenon DEF Destroy
<1>27. CASE (\E o \in Offsets : Complete(o)) \/ UNCHANGED vars
  BY <1>27 DEF Complete, vars
<1> HIDE DEF Exclusion, Leadership, EnginePcs, MuPcs, SyncMuPcs, LeaderPcs,
  ClearPcs, AppendPcs, MuFree, SyncMuFree, Goto, callVars, syncVars, logVars
<1>28. QED
  BY <1>1, <1>2, <1>3, <1>4, <1>5, <1>6, <1>7, <1>8, <1>9, <1>10, <1>11,
    <1>12, <1>13, <1>14, <1>15, <1>16, <1>17, <1>18, <1>19, <1>20, <1>21,
    <1>22, <1>23, <1>24, <1>25, <1>26, <1>27, Zenon DEF Next, Step, Call,
    Stopped

-----------------------------------------------------------------------------
(* The WAL constructor establishes the invariant.                          *)
LEMMA LockInit == ASSUME Init PROVE LockInv
<1>1. TypeOK
  <2>1. pc \in [Threads -> Pcs] /\ ticket \in [Threads -> [epoch : Nat, end : Nat]]
    BY Zenon DEF Init, Pcs
  <2>2. /\ promise \in [Threads -> SUBSET Offsets]
        /\ covered \in [Threads -> SUBSET Offsets]
    BY Zenon DEF Init
  <2>3. /\ leadEpoch \in [Threads -> Nat] /\ target \in [Threads -> Nat]
        /\ failed \in [Threads -> BOOLEAN]
    BY Zenon DEF Init
  <2>4. req \in [Offsets -> ReqStates] /\ attempts \in [Offsets -> 0 .. kMaxWriteAttempts]
    BY WALAssumption DEF Init, ReqStates
  <2>5. /\ epoch \in Nat /\ durableEnd \in Nat /\ pending \in Nat
        /\ writeOffset \in 0 .. MaxCalls /\ calls \in 0 .. MaxCalls
    BY WALAssumption DEF Init
  <2>6. /\ syncInProgress \in BOOLEAN /\ ringReady \in BOOLEAN /\ failure \in BOOLEAN
        /\ tagged \subseteq Offsets /\ freed \subseteq Offsets
        /\ landed \subseteq Offsets /\ stable \subseteq Offsets
        /\ returned \subseteq Offsets /\ acked \subseteq Offsets
    BY Zenon DEF Init
  <2>7. QED
    BY <2>1, <2>2, <2>3, <2>4, <2>5, <2>6, Zenon DEF TypeOK
<1>2. \A t \in Threads : pc[t] = "idle"
  BY Zenon DEF Init
<1>3. Bounds
  BY <1>2 DEF Init, Bounds
<1>4. Exclusion
  BY <1>2, Zenon DEF Exclusion, MuPcs, AppendPcs, SyncMuPcs, EnginePcs,
     LeaderPcs, ClearPcs
<1>5. Leadership
  BY <1>2, Zenon DEF Leadership, MuPcs, AppendPcs, LeaderPcs
<1>6. QED
  BY <1>1, <1>3, <1>4, <1>5, Zenon DEF LockInv

(* LockInv is inductive, whatever faults the environment may produce.      *)
THEOREM LockInvariance == Spec => []LockInv
<1>1. Init => LockInv
  BY LockInit, Zenon
<1>2. LockInv /\ [Next]_vars => LockInv'
  BY TypeStep, BoundsStep, ExclusionStep, LeadershipStep, Zenon DEF LockInv
<1>3. QED BY <1>1, <1>2, PTL DEF Spec

(* Every variable keeps its type in every reachable state: in particular   *)
(* no request is submitted more than kMaxWriteAttempts times.              *)
THEOREM TypeCorrect == Spec => []TypeOK
<1>1. LockInv => TypeOK
  BY Zenon DEF LockInv
<1>2. QED BY <1>1, LockInvariance, PTL

(* clear() never replaces the log under a leader's fdatasync().            *)
THEOREM DescriptorKept == Spec => []LeaderKeepsDescriptor
<1>1. LockInv => LeaderKeepsDescriptor
  BY Zenon DEF LockInv, Leadership, LeaderKeepsDescriptor, LeaderPcs
<1>2. QED BY <1>1, LockInvariance, PTL

-----------------------------------------------------------------------------
(* The requests: what a finished, freed or pending one implies.            *)

(* The fault model under which group commit is safe: submissions may fail, *)
(* or the kernel may cancel requests, but not both.                        *)
FaultsApart == ~({"submit", "cancel"} \subseteq Faults)

(* The requests of the ring.                                               *)
Requests ==
  /\ \A o \in Offsets : o >= writeOffset => req[o] = "none" /\ attempts[o] = 0
  /\ tagged \subseteq Issued
  /\ \A o \in tagged : req[o] \in {"inflight", "final"} \cup Completed
  /\ ~failure => Issued \subseteq tagged
  /\ ~failure => \A o \in Issued : req[o] \in {"ok", "final"} => o \in landed
  /\ "submit" \notin Faults => Queued = {}
  /\ "cancel" \notin Faults => \A o \in Offsets : req[o] # "cancelled"

(* A freed buffer's request is finished for good.                          *)
Buffers == \A o \in freed : req[o] = "final"

(* What holds of the requests whatever the faults.                         *)
RequestInv == LockInv /\ Requests /\ Buffers

-----------------------------------------------------------------------------
(* A reaped completion changes no record's standing: only records already  *)
(* issued are resubmitted.                                                 *)
LEMMA ReapKeepsIssued ==
  ASSUME TypeOK, Requests, NEW t \in Threads, Reap(t)
  PROVE  Issued' = Issued
<1> PICK o \in Offsets : ReapUntagged(o) \/ Resubmit(o) \/ ReapFinal(o)
  BY Zenon DEF Reap
<1>1. CASE Resubmit(o)
  <2>1. attempts[o] \in Nat /\ attempts[o] > 0
    BY <1>1, WALAssumption DEF Resubmit, Requests, Issued, TypeOK
  <2>2. \A p \in Offsets : attempts'[p] > 0 <=> attempts[p] > 0
    BY <1>1, <2>1 DEF Resubmit, TypeOK
  <2>3. QED BY <2>2, Zenon DEF Issued
<1>2. CASE ReapUntagged(o) \/ ReapFinal(o)
  BY <1>2, Zenon DEF ReapUntagged, ReapFinal, Issued
<1>3. QED BY <1>1, <1>2, Zenon

(* An append issues the record at the end of the log, and no other.        *)
LEMMA AppendIssues ==
  ASSUME TypeOK, Bounds, Requests, NEW t \in Threads, WriteEntry(t)
  PROVE  /\ writeOffset \in Offsets
         /\ Issued' = Issued \cup {writeOffset}
         /\ \A o \in Issued : o < writeOffset
<1>1. writeOffset \in Offsets
  BY WALAssumption, SMTT(30) DEF WriteEntry, MayAppend, TypeOK, Bounds, Offsets
<1>2. Issued' = Issued \cup {writeOffset}
  BY <1>1, WALAssumption DEF WriteEntry, Issued, TypeOK
<1>3. \A o \in Issued : o < writeOffset
  BY WALAssumption DEF Issued, Requests, TypeOK, Offsets
<1>4. QED BY <1>1, <1>2, <1>3, Zenon

(* A failed append takes the offset at the end of the log and issues        *)
(* nothing.                                                                *)
LEMMA ThrowIssuesNothing ==
  ASSUME TypeOK, Bounds, Requests, NEW t \in Threads, WriteEntryThrows(t)
  PROVE  /\ writeOffset \in Offsets /\ req[writeOffset] = "none"
         /\ writeOffset \notin Issued /\ Issued' = Issued
<1>1. writeOffset \in Offsets
  BY WALAssumption DEF WriteEntryThrows, MayAppend, TypeOK, Bounds, Offsets
<1>2. req[writeOffset] = "none" /\ attempts[writeOffset] = 0
  BY <1>1, WALAssumption DEF Requests, TypeOK
<1>3. QED
  BY <1>1, <1>2 DEF WriteEntryThrows, Issued

(* Steps that touch the requests, the log's length or the file.            *)
RingStep(t) ==
  \/ Reap(t) \/ WriteEntry(t) \/ WriteEntryThrows(t) \/ FlushQueue(t)
  \/ LeaderTakesTarget(t) \/ ClearReplacesLog(t) \/ ClearThrows(t) \/ Destroyed(t)

RingIdle == UNCHANGED <<ringVars, writeOffset, ringReady, landed>>

(* All other steps leave them alone.                                       *)
LEMMA RingSplit ==
  ASSUME [Next]_vars
  PROVE  \/ RingIdle
         \/ \E t \in Threads : RingStep(t)
         \/ \E o \in Offsets : Complete(o)
<1> USE DEF RingIdle, logVars, fileVars
<1>1. ASSUME NEW t \in Threads,
             \/ QueueFull(t) \/ WriteEntryReturns(t) \/ PutFlushes(t) \/ PutUnlocks(t)
             \/ WaitReturns(t) \/ WaitSleeps(t) \/ BecomeLeader(t) \/ LeaderDrains(t)
      PROVE  RingIdle
  BY <1>1, Zenon DEF QueueFull, WriteEntryReturns, PutFlushes, PutUnlocks,
     WaitReturns,
    WaitSleeps, BecomeLeader, LeaderDrains
<1>2. ASSUME NEW t \in Threads,
             \/ FdatasyncStarts(t) \/ FdatasyncReturns(t) \/ LeaderPublishes(t)
             \/ ClearSleeps(t) \/ ClearLocks(t) \/ ClearBumpsEpoch(t)
             \/ Sync(t) \/ Flush(t) \/ Destroy(t) \/ UseExitedRing(t)
      PROVE  RingIdle
  BY <1>2, Zenon DEF FdatasyncStarts, FdatasyncReturns, LeaderPublishes,
     ClearSleeps,
    ClearLocks, ClearBumpsEpoch, Sync, Flush, Destroy, UseExitedRing
<1>3. CASE UNCHANGED vars
  BY <1>3, Zenon DEF vars
<1> HIDE DEF RingIdle
<1>4. QED
  BY <1>1, <1>2, <1>3, Zenon DEF RingStep, Next, Step, Call, Stopped

(* A record that was issued keeps its tag, and has reached the file when   *)
(* its request is over, unless a failure has been recorded.                *)
LEMMA RequestsStep ==
  ASSUME TypeOK, Bounds, Requests, [Next]_vars
  PROVE  Requests'
<1> USE WALAssumption DEF Requests, Completed, Queued
<1>1. ASSUME NEW t \in Threads, Reap(t) PROVE Requests'
  <2> PICK o \in Offsets : /\ req[o] \in Completed
                           /\ ReapUntagged(o) \/ Resubmit(o) \/ ReapFinal(o)
    BY <1>1, Zenon DEF Reap
  <2>0. req \in [Offsets -> ReqStates] /\ UNCHANGED <<writeOffset, landed>>
    BY <1>1, Zenon DEF Reap, TypeOK, logVars, fileVars
  <2>1. CASE ReapUntagged(o)
    BY <1>1, <2>0, <2>1, ReapKeepsIssued DEF ReapUntagged
  <2>2. CASE Resubmit(o)
    <3>0. o \in Issued /\ Issued' = Issued
      BY <1>1, <2>2, ReapKeepsIssued, Zenon DEF Resubmit
    <3>1. o < writeOffset
      BY <3>0 DEF Issued, Offsets, TypeOK
    <3>2. UNCHANGED <<writeOffset, landed>> /\ tagged' \subseteq tagged
      BY <2>0, <2>2, Zenon DEF Resubmit
    <3>3. CASE req' = SubmitAll(o) /\ UNCHANGED <<tagged, failure>>
      BY <2>0, <2>2, <3>0, <3>1, <3>2, <3>3, Zenon DEF Resubmit, SubmitAll,
         TypeOK
    <3>4. CASE "submit" \in Faults /\ req' = [req EXCEPT ![o] = "queued"]
                 /\ tagged' = tagged \ {o} /\ failure'
      BY <2>0, <2>2, <3>0, <3>1, <3>2, <3>4, Zenon DEF Resubmit, TypeOK
    <3>5. QED BY <2>2, <3>3, <3>4, Zenon DEF Resubmit
  <2>3. CASE ReapFinal(o)
    <3>1. Issued' = Issued /\ UNCHANGED <<writeOffset, landed, tagged, attempts>>
      BY <1>1, <2>0, <2>3, ReapKeepsIssued, Zenon DEF ReapFinal
    <3>2. req' = [req EXCEPT ![o] = "final"] /\ o \in tagged
      BY <2>3, Zenon DEF ReapFinal
    <3>3. ~failure' => ~failure /\ req[o] = "ok"
      BY <2>3, Zenon DEF ReapFinal, TypeOK
    <3>4. QED BY <2>0, <3>1, <3>2, <3>3, Zenon DEF Issued
  <2>4. QED BY <2>1, <2>2, <2>3, Zenon
<1>2. ASSUME NEW t \in Threads, WriteEntry(t) PROVE Requests'
  <2> DEFINE w == writeOffset
  <2>1. w \in Offsets /\ Issued' = Issued \cup {w} /\ \A o \in Issued : o < w
    BY <1>2, AppendIssues, Zenon
  <2>0. /\ req \in [Offsets -> ReqStates] /\ w \in Nat
        /\ tagged \subseteq Offsets /\ Issued \subseteq Offsets
    BY <2>1, SMTT(30) DEF TypeOK, Offsets, Issued
  <2>2. /\ writeOffset' = w + 1 /\ tagged' = tagged \cup {w}
        /\ attempts' = [attempts EXCEPT ![w] = 1]
        /\ req' = SubmitAll(w) /\ UNCHANGED <<landed, failure>>
    BY <1>2, Zenon DEF WriteEntry, fileVars
  <2>3. \A o \in Offsets : o >= w + 1 => req'[o] = "none" /\ attempts'[o] = 0
    BY <2>0, <2>1, <2>2, SMTT(30) DEF SubmitAll, Offsets, TypeOK
  <2>4. \A o \in tagged' : req'[o] \in {"inflight", "final"} \cup Completed
    BY <2>0, <2>1, <2>2, Zenon DEF SubmitAll
  <2>5. ~failure' => \A o \in Issued' : req'[o] \in {"ok", "final"} => o \in landed'
    BY <2>0, <2>1, <2>2, Zenon DEF SubmitAll
  <2>6. /\ "submit" \notin Faults => Queued' = {}
        /\ "cancel" \notin Faults => \A o \in Offsets : req'[o] # "cancelled"
    BY <2>2, Zenon DEF SubmitAll
  <2>7. QED BY <2>1, <2>2, <2>3, <2>4, <2>5, <2>6, Zenon
<1>3. ASSUME NEW t \in Threads, WriteEntryThrows(t) PROVE Requests'
  <2>1. /\ writeOffset \in Offsets /\ req[writeOffset] = "none"
        /\ writeOffset \notin Issued /\ Issued' = Issued
    BY <1>3, ThrowIssuesNothing, Zenon
  <2>2. /\ req \in [Offsets -> ReqStates] /\ writeOffset \in Nat
        /\ Issued \subseteq Offsets
    BY DEF TypeOK, Issued
  <2>3. /\ writeOffset' = writeOffset + 1 /\ req' = [req EXCEPT ![writeOffset] = "queued"]
        /\ UNCHANGED <<tagged, attempts, failure, landed>> /\ "submit" \in Faults
    BY <1>3, Zenon DEF WriteEntryThrows, fileVars
  <2>4. \A o \in Offsets : o >= writeOffset' => req'[o] = "none" /\ attempts'[o] = 0
    BY <2>1, <2>2, <2>3 DEF Offsets
  <2>5. QED BY <2>1, <2>2, <2>3, <2>4, Zenon
<1>4. ASSUME NEW t \in Threads, FlushQueue(t) PROVE Requests'
  BY <1>4, Zenon DEF FlushQueue, Issued, TypeOK, logVars, fileVars
<1>5. ASSUME NEW t \in Threads, LeaderTakesTarget(t) \/ Destroyed(t) PROVE Requests'
  <2>1. failure' = (failure \/ pending > 0)
    BY <1>5, Zenon DEF LeaderTakesTarget, Destroyed
  <2>2. UNCHANGED <<writeOffset, req, attempts, tagged, landed>>
    BY <1>5, Zenon DEF LeaderTakesTarget, Destroyed, logVars, fileVars
  <2>3. QED BY <2>1, <2>2, Zenon DEF Issued, TypeOK
<1>6. ASSUME NEW t \in Threads, ClearReplacesLog(t) \/ ClearThrows(t) PROVE Requests'
  <2>1. /\ req' = [o \in Offsets |-> "none"] /\ attempts' = [o \in Offsets |-> 0]
        /\ tagged' = {}
    BY <1>6, Zenon DEF ClearReplacesLog, FreshLog, ClearThrows
  <2>2. Issued' = {}
    BY <2>1 DEF Issued
  <2>3. QED BY <2>1, <2>2, Zenon
<1>7. ASSUME NEW o \in Offsets, Complete(o) PROVE Requests'
  <2>1. /\ req \in [Offsets -> ReqStates] /\ Issued' = Issued
        /\ tagged \subseteq Offsets /\ Issued \subseteq Offsets
    BY <1>7, Zenon DEF TypeOK, Complete, Issued
  <2>2. UNCHANGED <<writeOffset, tagged, attempts, failure>>
    BY <1>7, Zenon DEF Complete, logVars
  <2>3. /\ req' = [req EXCEPT ![o] = req'[o]] /\ req'[o] \in Completed
        /\ req'[o] = "ok" => o \in landed'
        /\ landed \subseteq landed'
        /\ "cancel" \notin Faults => req'[o] # "cancelled"
    BY <1>7, <2>1, Zenon DEF Complete
  <2>4. o < writeOffset
    BY <1>7 DEF Complete, Offsets, TypeOK
  <2>5. \A p \in Offsets : p # o => req'[p] = req[p]
    BY <2>1, <2>3, Zenon
  <2>6. /\ "submit" \notin Faults => Queued' = {}
        /\ "cancel" \notin Faults => \A p \in Offsets : req'[p] # "cancelled"
    BY <2>3, <2>5, Zenon
  <2>7. ~failure' => \A p \in Issued' : req'[p] \in {"ok", "final"} => p \in landed'
    BY <2>1, <2>2, <2>3, <2>5, Zenon
  <2>8. QED BY <1>7, <2>1, <2>2, <2>3, <2>4, <2>5, <2>6, <2>7 DEF Complete
<1>8. CASE RingIdle
  BY <1>8, Zenon DEF RingIdle, ringVars, Issued
<1> HIDE DEF Requests
<1>9. QED
  BY <1>1, <1>2, <1>3, <1>4, <1>5, <1>6, <1>7, <1>8, RingSplit, Zenon
     DEF RingStep

(* reap() frees a buffer only with the last completion of its request.     *)
LEMMA BuffersStep ==
  ASSUME TypeOK, Bounds, Requests, Buffers, [Next]_vars
  PROVE  Buffers'
<1>0. req \in [Offsets -> ReqStates] /\ freed \subseteq Offsets
  BY Zenon DEF TypeOK
<1>1. ASSUME NEW t \in Threads, Reap(t) PROVE Buffers'
  BY <1>0, <1>1 DEF Buffers, Reap, ReapUntagged, Resubmit, ReapFinal,
     SubmitAll,
    Completed
<1>2. ASSUME NEW t \in Threads, WriteEntry(t) PROVE Buffers'
  <2>1. writeOffset \in Offsets /\ req[writeOffset] = "none"
    BY <1>2, AppendIssues DEF Requests, TypeOK
  <2>2. QED
    BY <1>0, <1>2, <2>1, Zenon DEF Buffers, WriteEntry, SubmitAll
<1>3. ASSUME NEW t \in Threads, WriteEntryThrows(t) PROVE Buffers'
  BY <1>0, <1>3, ThrowIssuesNothing, Zenon DEF Buffers, WriteEntryThrows
<1>4. ASSUME NEW t \in Threads, FlushQueue(t) PROVE Buffers'
  BY <1>0, <1>4, Zenon DEF Buffers, FlushQueue, Queued
<1>5. ASSUME NEW t \in Threads,
             \/ LeaderTakesTarget(t) \/ Destroyed(t)
             \/ ClearReplacesLog(t) \/ ClearThrows(t)
      PROVE  Buffers'
  BY <1>5, Zenon DEF Buffers, LeaderTakesTarget, Destroyed, ClearReplacesLog,
     FreshLog,
    ClearThrows
<1>6. ASSUME NEW o \in Offsets, Complete(o) PROVE Buffers'
  BY <1>0, <1>6, Zenon DEF Buffers, Complete
<1>7. CASE RingIdle
  BY <1>7, Zenon DEF Buffers, RingIdle, ringVars
<1>8. QED
  BY <1>1, <1>2, <1>3, <1>4, <1>5, <1>6, <1>7, RingSplit, Zenon DEF RingStep

-----------------------------------------------------------------------------
(* Giving S to the kernel on top of what is outstanding adds up.           *)
LEMMA CountUnion ==
  ASSUME NEW S \in SUBSET Offsets, NEW T \in SUBSET Offsets, S \cap T = {}
  PROVE  Cardinality(S \cup T) = Cardinality(S) + Cardinality(T)
<1>1. IsFiniteSet(S) /\ IsFiniteSet(T)
  BY OffsetsFinite, Zenon
<1>2. Cardinality(S \cap T) = 0
  BY FS_EmptySet, Zenon
<1>3. Cardinality(S) \in Nat /\ Cardinality(T) \in Nat
  BY OffsetsFinite, Zenon
<1>4. Cardinality(S \cup T) = Cardinality(S) + Cardinality(T) - Cardinality(S \cap T)
  BY <1>1, FS_Union, Zenon
<1>5. QED BY <1>2, <1>3, <1>4

(* One request fewer is counted by one decrement, which is never vacuous.  *)
LEMMA CountRemove ==
  ASSUME NEW S \in SUBSET Offsets, NEW o \in S
  PROVE  Decrement(Cardinality(S)) = Cardinality(S \ {o})
<1>1. IsFiniteSet(S) /\ Cardinality(S) \in Nat
  BY OffsetsFinite, Zenon
<1>2. Cardinality(S) # 0
  BY <1>1, FS_EmptySet, Zenon
<1>3. Cardinality(S \ {o}) = Cardinality(S) - 1
  BY <1>1, FS_RemoveElement, Zenon
<1>4. QED BY <1>1, <1>2, <1>3 DEF Decrement

(* A step that resubmits a request has nothing else in the queue to take   *)
(* along.                                                                  *)
NothingCarried ==
  \A t \in Threads, o \in Offsets : Reap(t) /\ Resubmit(o) => Queued = {}

(* That is so when failing submissions and cancellations are kept apart.   *)
LEMMA ApartCarriesNothing == ASSUME FaultsApart, Requests PROVE NothingCarried
  BY Zenon DEF NothingCarried, FaultsApart, Requests, Resubmit

(* pending_cqes_ stays exact.  A resubmission is where it could go wrong:  *)
(* with nothing stale in the submission ring, resubmitting one request     *)
(* puts one request in flight, or none and is counted down.                *)
LEMMA PendingStep ==
  ASSUME NothingCarried, TypeOK, Bounds, Requests, PendingExact, [Next]_vars
  PROVE  PendingExact'
<1> USE DEF PendingExact, Outstanding
<1>1. ASSUME NEW t \in Threads, Reap(t) PROVE PendingExact'
  <2> PICK o \in Offsets : /\ req[o] \in Completed
                           /\ ReapUntagged(o) \/ Resubmit(o) \/ ReapFinal(o)
    BY <1>1, Zenon DEF Reap
  <2>0. ringReady' = ringReady /\ o \in Outstanding /\ Outstanding \subseteq Offsets
    BY <1>1, Zenon DEF Reap, logVars
  <2>1. CASE ReapUntagged(o) \/ ReapFinal(o)
    <3>1. Outstanding' = Outstanding \ {o}
      BY <2>1, Zenon DEF ReapUntagged, ReapFinal, TypeOK, Completed
    <3>2. pending' = Decrement(pending)
      BY <2>1, Zenon DEF ReapUntagged, ReapFinal
    <3>3. QED BY <2>0, <3>1, <3>2, CountRemove, Zenon
  <2>2. CASE Resubmit(o)
    <3>1. Queued = {}
      BY <1>1, <2>2, Zenon DEF NothingCarried
    <3>2. CASE req' = SubmitAll(o) /\ pending' = pending
      <4>1. req' = [req EXCEPT ![o] = "inflight"]
        BY <3>1, <3>2, Zenon DEF SubmitAll, Queued, TypeOK
      <4>2. Outstanding' = Outstanding
        BY <2>0, <4>1, Zenon DEF TypeOK
      <4>3. QED BY <2>0, <3>2, <4>2, Zenon
    <3>3. CASE req' = [req EXCEPT ![o] = "queued"] /\ pending' = Decrement(pending)
      <4>1. Outstanding' = Outstanding \ {o}
        BY <3>3, Zenon DEF TypeOK, Completed
      <4>2. QED BY <2>0, <3>3, <4>1, CountRemove, Zenon
    <3>4. QED BY <2>2, <3>2, <3>3, Zenon DEF Resubmit
  <2>3. QED BY <2>1, <2>2, Zenon
<1>2. ASSUME NEW t \in Threads, WriteEntry(t) PROVE PendingExact'
  <2> DEFINE w == writeOffset
  <2>1. w \in Offsets /\ req[w] = "none"
    BY <1>2, AppendIssues DEF Requests, TypeOK
  <2>2. Outstanding' = (Outstanding \cup Queued) \cup {w}
    BY <1>2, <2>1, Zenon DEF WriteEntry, SubmitAll, Queued, TypeOK
  <2>3. Outstanding \cap Queued = {} /\ w \notin Outstanding \cup Queued
    BY <2>1, Zenon DEF Queued, Completed
  <2>4. Cardinality(Outstanding') = Cardinality(Outstanding \cup Queued) + 1
    BY <2>2, <2>3, OffsetsFinite, FS_AddElement, Zenon DEF Queued
  <2>5. Cardinality(Outstanding \cup Queued) = Cardinality(Outstanding) + Cardinality(Queued)
    BY <2>3, CountUnion, Zenon DEF Queued
  <2>6. ringReady' = ringReady /\ pending' = pending + Cardinality(Queued) + 1
    BY <1>2, Zenon DEF WriteEntry
  <2>7. Cardinality(Outstanding) \in Nat /\ Cardinality(Queued) \in Nat
    BY OffsetsFinite, Zenon DEF Queued
  <2>8. QED BY <2>4, <2>5, <2>6, <2>7, Zenon
<1>3. ASSUME NEW t \in Threads, WriteEntryThrows(t) PROVE PendingExact'
  <2>1. Outstanding' = Outstanding
    BY <1>3, ThrowIssuesNothing, Zenon DEF WriteEntryThrows, TypeOK, Completed
  <2>2. ringReady' = ringReady /\ pending' = pending
    BY <1>3, Zenon DEF WriteEntryThrows
  <2>3. QED BY <2>1, <2>2, Zenon
<1>4. ASSUME NEW t \in Threads, FlushQueue(t) PROVE PendingExact'
  <2>1. Outstanding' = Outstanding \cup Queued
    BY <1>4, Zenon DEF FlushQueue, Queued, TypeOK
  <2>2. Cardinality(Outstanding \cup Queued) = Cardinality(Outstanding) + Cardinality(Queued)
    BY CountUnion, Zenon DEF Queued, Completed
  <2>3. ringReady' = ringReady /\ pending' = pending + Cardinality(Queued)
    BY <1>4, Zenon DEF FlushQueue, logVars
  <2>4. QED BY <2>1, <2>2, <2>3, Zenon
<1>5. ASSUME NEW t \in Threads, LeaderTakesTarget(t) PROVE PendingExact'
  BY <1>5, Zenon DEF LeaderTakesTarget, logVars
<1>6. ASSUME NEW t \in Threads, ClearReplacesLog(t) PROVE PendingExact'
  <2>1. Outstanding' = {}
    BY <1>6, Zenon DEF ClearReplacesLog, FreshLog, Completed
  <2>2. QED BY <1>6, <2>1, FS_EmptySet, Zenon DEF ClearReplacesLog
<1>7. ASSUME NEW t \in Threads, ClearThrows(t) \/ Destroyed(t) PROVE PendingExact'
  BY <1>7, Zenon DEF ClearThrows, Destroyed
<1>8. ASSUME NEW o \in Offsets, Complete(o) PROVE PendingExact'
  <2>1. Outstanding' = Outstanding
    BY <1>8, Zenon DEF Complete, TypeOK, Completed
  <2>2. QED BY <1>8, <2>1, Zenon DEF Complete, logVars
<1>9. CASE RingIdle
  BY <1>9, Zenon DEF RingIdle, ringVars
<1>10. QED
  BY <1>1, <1>2, <1>3, <1>4, <1>5, <1>6, <1>7, <1>8, <1>9, RingSplit, Zenon
     DEF RingStep

-----------------------------------------------------------------------------
(* The new log has no requests.                                            *)
LEMMA RequestInit == ASSUME Init PROVE RequestInv /\ PendingExact
<1>1. Issued = {} /\ Queued = {} /\ Outstanding = {}
  BY DEF Init, Issued, Queued, Outstanding, Completed
<1>2. Requests /\ Buffers
  BY <1>1, Zenon DEF Init, Requests, Buffers
<1>3. PendingExact
  BY <1>1, FS_EmptySet, Zenon DEF Init, PendingExact
<1>4. QED
  BY <1>2, <1>3, LockInit, Zenon DEF RequestInv

(* A step preserves what holds of the requests.                            *)
LEMMA RequestStep == ASSUME RequestInv, [Next]_vars PROVE RequestInv'
  BY TypeStep, BoundsStep, ExclusionStep, LeadershipStep, RequestsStep,
     BuffersStep, Zenon
  DEF RequestInv, LockInv

(* RequestInv is inductive, whatever faults the environment may produce.   *)
THEOREM RequestInvariance == Spec => []RequestInv
<1>1. Init => RequestInv
  BY RequestInit, Zenon
<1>2. RequestInv /\ [Next]_vars => RequestInv'
  BY RequestStep, Zenon
<1>3. QED BY <1>1, <1>2, PTL DEF Spec

(* reap() and writeEntry() never free a buffer the kernel may still read.  *)
THEOREM BuffersSafe == Spec => []BuffersOutliveRequests
<1>1. RequestInv => BuffersOutliveRequests
  BY Zenon DEF RequestInv, Buffers, BuffersOutliveRequests
<1>2. QED BY <1>1, RequestInvariance, PTL

(* A lost record is always recorded in failure_.                           *)
THEOREM LossRecorded == Spec => []NoSilentLoss
<1>1. RequestInv => NoSilentLoss
  BY Zenon DEF RequestInv, Requests, NoSilentLoss
<1>2. QED BY <1>1, RequestInvariance, PTL

(* With failing submissions and cancellations kept apart, pending_cqes_ is *)
(* exact.                                                                  *)
THEOREM PendingIsExact == ASSUME FaultsApart PROVE Spec => []PendingExact
<1>1. Init => PendingExact
  BY RequestInit, Zenon
<1>2. RequestInv /\ PendingExact /\ [Next]_vars => PendingExact'
  BY FaultsApart, ApartCarriesNothing, PendingStep, Zenon DEF RequestInv, LockInv
<1>3. QED BY <1>1, <1>2, RequestInvariance, PTL DEF Spec

-----------------------------------------------------------------------------
(* Group commit.                                                           *)

(* Threads inside waitDurable(), or on the way to it.                      *)
HasTicket(t) ==
  pc[t] \in {"reap", "logged", "wait", "asleep", "recheck"} \cup LeaderPcs \cup ClearPcs

(* A ticket of the current epoch lies beyond the records it promises.      *)
Tickets ==
  /\ returned \subseteq Issued
  /\ \A t \in Threads :
       /\ ticket[t].epoch <= epoch
       /\ pc[t] \in {"reap", "logged"} => ticket[t].epoch = epoch
       /\ HasTicket(t) /\ ticket[t].epoch = epoch =>
            promise[t] \subseteq Issued /\ \A o \in promise[t] : o < ticket[t].end
       /\ pc[t] = "cleardrain" =>
            /\ returned = {} /\ acked = {}
            /\ \A u \in Threads : ticket[u].epoch < epoch

(* How far the leader, and the published prefix, have got.                 *)
Durability ==
  /\ durableEnd <= writeOffset
  /\ \A o \in Issued : o < durableEnd => o \in stable
  /\ \A t \in Threads :
       /\ pc[t] \in {"fsync", "fsyncing", "publish"} => target[t] <= writeOffset
       /\ pc[t] = "fsync" => \A o \in Issued : o < target[t] => o \in landed
       /\ pc[t] = "fsyncing" => \A o \in Issued : o < target[t] => o \in covered[t]
       /\ pc[t] = "publish" /\ ~failed[t] =>
            \A o \in Issued : o < target[t] => o \in stable

(* The inductive invariant of group commit.                                *)
IInv == RequestInv /\ Tickets /\ PendingExact /\ Durability /\ AckedStable

-----------------------------------------------------------------------------
(* Steps that leave the tickets, and what they promise, alone.             *)
TicketsIdle ==
  /\ UNCHANGED <<ticket, promise, epoch, returned, acked>> /\ Issued' = Issued
  /\ \A u \in Threads :
       /\ HasTicket(u)' => HasTicket(u)
       /\ pc'[u] \in {"reap", "logged"} => pc[u] \in {"reap", "logged"}
       /\ pc'[u] = "cleardrain" => pc[u] = "cleardrain"

(* Nothing is promised or taken back by such a step.                       *)
LEMMA TicketsFrame == ASSUME Tickets, TicketsIdle PROVE Tickets'
  BY Zenon DEF Tickets, TicketsIdle

(* A ticket stays ahead of the records it promises until its epoch ends.   *)
LEMMA TicketsStep ==
  ASSUME TypeOK, Bounds, Exclusion, Requests, Tickets, [Next]_vars
  PROVE  Tickets'
<1>0. /\ pc \in [Threads -> Pcs] /\ ticket \in [Threads -> [epoch : Nat, end : Nat]]
      /\ promise \in [Threads -> SUBSET Offsets] /\ epoch \in Nat /\ writeOffset \in Nat
  BY WALAssumption DEF TypeOK
<1> USE DEF HasTicket, LeaderPcs, ClearPcs, Goto
<1>1. ASSUME NEW t \in Threads,
             \/ Reap(t) \/ QueueFull(t) \/ FlushQueue(t) \/ WriteEntryThrows(t)
      PROVE  TicketsIdle
  <2>1. Issued' = Issued
    <3>1. CASE Reap(t)
      BY <3>1, ReapKeepsIssued, Zenon
    <3>2. CASE ~Reap(t)
      BY <1>1, <3>2, Zenon DEF QueueFull, FlushQueue, WriteEntryThrows,
         ringVars, Issued
    <3>3. QED BY <3>1, <3>2, Zenon
  <2>2. QED
    BY <1>0, <1>1, <2>1, Zenon DEF TicketsIdle, Reap, QueueFull, FlushQueue,
      WriteEntryThrows, callVars, logVars, ghostVars
<1>2. ASSUME NEW t \in Threads,
             \/ WriteEntryReturns(t) \/ PutFlushes(t) \/ WaitSleeps(t)
             \/ BecomeLeader(t) \/ LeaderDrains(t) \/ LeaderTakesTarget(t)
      PROVE  TicketsIdle
  <2>1. CASE WriteEntryReturns(t) \/ PutFlushes(t) \/ WaitSleeps(t)
    BY <1>0, <2>1, Zenon DEF TicketsIdle, WriteEntryReturns, PutFlushes,
       WaitSleeps,
      AtLoopHead, callVars, ringVars, logVars, ghostVars, Issued
  <2>2. CASE BecomeLeader(t) \/ LeaderDrains(t) \/ LeaderTakesTarget(t)
    BY <1>0, <2>2, Zenon DEF TicketsIdle, BecomeLeader, LeaderDrains,
       LeaderTakesTarget,
      AtLoopHead, callVars, ringVars, logVars, ghostVars, Issued
  <2>3. QED BY <1>2, <2>1, <2>2, Zenon
<1>3. ASSUME NEW t \in Threads,
             \/ FdatasyncStarts(t) \/ FdatasyncReturns(t) \/ LeaderPublishes(t)
             \/ ClearSleeps(t) \/ ClearLocks(t)
             \/ Destroy(t) \/ Destroyed(t) \/ UseExitedRing(t)
      PROVE  TicketsIdle
  <2>1. CASE FdatasyncStarts(t) \/ FdatasyncReturns(t) \/ LeaderPublishes(t)
    BY <1>0, <2>1, ZenonT(30) DEF TicketsIdle, FdatasyncStarts, FdatasyncReturns,
      LeaderPublishes, GotoNotifyAll, ringVars, logVars, ghostVars, Issued
  <2>2. CASE ClearSleeps(t) \/ ClearLocks(t) \/ Destroy(t)
    BY <1>0, <2>2, Zenon DEF TicketsIdle, ClearSleeps, ClearLocks, Destroy,
       callVars,
      ringVars, logVars, ghostVars, Issued
  <2>3. CASE Destroyed(t) \/ UseExitedRing(t)
    BY <2>3, Zenon DEF TicketsIdle, Destroyed, UseExitedRing, callVars,
       ringVars, logVars,
      ghostVars, Issued
  <2>4. QED BY <1>3, <2>1, <2>2, <2>3, Zenon
<1>4. (\E o \in Offsets : Complete(o)) \/ UNCHANGED vars => TicketsIdle
  BY Zenon DEF TicketsIdle, Complete, vars, callVars, ringVars, logVars,
     ghostVars, Issued
<1>5. ASSUME NEW t \in Threads, WriteEntry(t) PROVE Tickets'
  <2>1. \A u \in Threads : pc[u] # "cleardrain"
    BY <1>5, Zenon DEF WriteEntry, MayAppend, MuFree, Exclusion, MuPcs,
       AppendPcs
  <2>2. /\ ticket'[t] = [epoch |-> epoch, end |-> writeOffset + 1]
        /\ promise'[t] = {writeOffset} /\ pc'[t] = "reap"
        /\ \A u \in Threads \ {t} :
             ticket'[u] = ticket[u] /\ promise'[u] = promise[u] /\ pc'[u] = pc[u]
        /\ returned' = returned /\ acked' = acked /\ epoch' = epoch
    BY <1>0, <1>5, Zenon DEF WriteEntry
  <2>3. Issued' = Issued \cup {writeOffset}
    BY <1>5, AppendIssues, Zenon
  <2>4. writeOffset < writeOffset + 1
    BY <1>0
  <2>5. returned' \subseteq Issued' /\ \A u \in Threads : pc'[u] # "cleardrain"
    BY <2>1, <2>2, <2>3, Zenon DEF Tickets
  <2>6. ASSUME NEW u \in Threads
        PROVE  /\ ticket'[u].epoch <= epoch'
               /\ pc'[u] \in {"reap", "logged"} => ticket'[u].epoch = epoch'
               /\ HasTicket(u)' /\ ticket'[u].epoch = epoch' =>
                    promise'[u] \subseteq Issued' /\ \A o \in promise'[u] : o < ticket'[u].end
    <3>1. CASE u = t
      BY <1>0, <2>2, <2>3, <2>4, <3>1
    <3>2. CASE u # t
      BY <2>2, <2>3, <3>2, Zenon DEF Tickets
    <3>3. QED BY <3>1, <3>2, Zenon
  <2>7. QED
    BY <2>5, <2>6, Zenon DEF Tickets
<1>6. ASSUME NEW t \in Threads, PutUnlocks(t) \/ WaitReturns(t) PROVE Tickets'
  <2>1. /\ UNCHANGED <<ticket, promise, epoch>> /\ Issued' = Issued
        /\ \A u \in Threads :
             /\ HasTicket(u)' => HasTicket(u)
             /\ pc'[u] \in {"reap", "logged"} => pc[u] \in {"reap", "logged"}
    BY <1>0, <1>6, Zenon DEF PutUnlocks, WaitReturns, AtLoopHead, callVars,
       ringVars,
      logVars, Issued
  <2>2. returned' \subseteq Issued
    <3>1. HasTicket(t) /\ (ticket[t].epoch = epoch => promise[t] \subseteq Issued)
      BY <1>6, Zenon DEF PutUnlocks, WaitReturns, AtLoopHead, Tickets
    <3>2. CASE PutUnlocks(t)
      BY <3>1, <3>2, Zenon DEF PutUnlocks, Tickets
    <3>3. CASE WaitReturns(t)
      BY <3>1, <3>3, Zenon DEF WaitReturns, Tickets
    <3>4. QED BY <1>6, <3>2, <3>3, Zenon
  <2>3. \A u \in Threads : pc'[u] # "cleardrain" \/ (returned' = {} /\ acked' = {})
    <3>1. CASE PutUnlocks(t)
      BY <1>0, <3>1, Zenon DEF PutUnlocks, Tickets, Exclusion, EnginePcs
    <3>2. CASE WaitReturns(t)
      BY <1>0, <3>2, Zenon DEF WaitReturns, AtLoopHead, SyncMuFree, SyncMuPcs,
         Tickets, Exclusion
    <3>3. QED BY <1>6, <3>1, <3>2, Zenon
  <2>4. \A u \in Threads : pc'[u] = "cleardrain" => pc[u] = "cleardrain"
    BY <1>0, <1>6, Zenon DEF PutUnlocks, WaitReturns
  <2>5. QED BY <2>1, <2>2, <2>3, <2>4, Zenon DEF Tickets
<1>7. ASSUME NEW t \in Threads, Sync(t) \/ Flush(t) PROVE Tickets'
  <2>1. \A u \in Threads : pc[u] # "cleardrain"
    BY <1>7, Zenon DEF Sync, Flush, MuFree, MuPcs, EngineFree, EnginePcs
  <2>2. \A o \in returned : o < writeOffset
    BY WALAssumption, SMTT(30) DEF Tickets, Requests, Issued, Offsets, TypeOK
  <2>3. /\ ticket'[t].epoch = epoch /\ pc'[t] \in {"wait", "clear"}
        /\ promise'[t] = {} \/ (promise'[t] = returned /\ ticket'[t].end = writeOffset)
        /\ \A u \in Threads \ {t} :
             ticket'[u] = ticket[u] /\ promise'[u] = promise[u] /\ pc'[u] = pc[u]
    BY <1>0, <1>7 DEF Sync, Flush
  <2>4. UNCHANGED <<epoch, returned, acked>> /\ Issued' = Issued
    BY <1>7, Zenon DEF Sync, Flush, logVars, ringVars, Issued
  <2>5. ASSUME NEW u \in Threads
        PROVE  /\ ticket'[u].epoch <= epoch' /\ pc'[u] # "cleardrain"
               /\ pc'[u] \in {"reap", "logged"} => ticket'[u].epoch = epoch'
               /\ HasTicket(u)' /\ ticket'[u].epoch = epoch' =>
                    promise'[u] \subseteq Issued' /\ \A o \in promise'[u] : o < ticket'[u].end
    <3>1. CASE u = t
      BY <1>0, <2>2, <2>3, <2>4, <3>1 DEF Tickets
    <3>2. CASE u # t
      BY <2>1, <2>3, <2>4, <3>2, Zenon DEF Tickets
    <3>3. QED BY <3>1, <3>2, Zenon
  <2>6. QED BY <2>4, <2>5, Zenon DEF Tickets
<1>8. ASSUME NEW t \in Threads, ClearBumpsEpoch(t) PROVE Tickets'
  <2>1. /\ UNCHANGED <<ticket, promise>> /\ epoch' = epoch + 1
        /\ returned' = {} /\ acked' = {}
    BY <1>8, Zenon DEF ClearBumpsEpoch, callVars
  <2>2. \A u \in Threads : ticket'[u].epoch < epoch'
    BY <1>0, <2>1 DEF Tickets
  <2>3. \A u \in Threads : pc'[u] \notin {"reap", "logged"}
    BY <1>0, <1>8, Zenon DEF ClearBumpsEpoch, GotoNotifyAll, Exclusion,
       EnginePcs, AppendPcs
  <2>4. \A u \in Threads : ticket'[u].epoch <= epoch' /\ ticket'[u].epoch # epoch'
    BY <1>0, <2>1, <2>2
  <2>5. QED BY <2>1, <2>2, <2>3, <2>4, Zenon DEF Tickets
<1>9. ASSUME NEW t \in Threads, ClearReplacesLog(t) \/ ClearThrows(t) PROVE Tickets'
  <2>1. UNCHANGED <<ticket, promise, epoch, returned, acked>>
    BY <1>9, Zenon DEF ClearReplacesLog, ClearThrows, callVars, ghostVars
  <2>2. returned = {} /\ \A u \in Threads : ticket[u].epoch < epoch
    BY <1>9, Zenon DEF ClearReplacesLog, ClearThrows, Tickets
  <2>3. \A u \in Threads : ticket[u].epoch <= epoch /\ ticket[u].epoch # epoch
    BY <1>0, <2>2
  <2>4. \A u \in Threads : pc'[u] \notin {"reap", "logged", "cleardrain"}
    BY <1>0, <1>9, Zenon DEF ClearReplacesLog, ClearThrows, Exclusion,
       EnginePcs, AppendPcs
  <2>5. QED BY <2>1, <2>2, <2>3, <2>4, Zenon DEF Tickets
<1>10. QED
  BY <1>1, <1>2, <1>3, <1>4, <1>5, <1>6, <1>7, <1>8, <1>9, TicketsFrame, Zenon
  DEF Next, Step, Call, Stopped

-----------------------------------------------------------------------------
(* What drain() establishes when it ends without a failure: no request is  *)
(* left anywhere, so every record of the log is in the file.               *)
LEMMA DrainLands ==
  ASSUME TypeOK, Requests, PendingExact, ringReady, pending = 0, ~failure
  PROVE  Issued \subseteq landed
<1>1. Outstanding = {}
  <2>1. IsFiniteSet(Outstanding) /\ Cardinality(Outstanding) = 0
    BY OffsetsFinite, Zenon DEF Outstanding, PendingExact
  <2>2. QED BY <2>1, FS_EmptySet, Zenon
<1>2. \A o \in Issued : o \in tagged /\ req[o] = "final"
  BY <1>1, Zenon DEF Requests, Outstanding, Issued
<1>3. QED BY <1>2, Zenon DEF Requests

(* Steps other than those of a leader and of clear(): the log grows at its *)
(* end, and what is in the file or stable stays so.                        *)
CommitIdle ==
  /\ writeOffset' \in {writeOffset, writeOffset + 1}
  /\ Issued' \subseteq Issued \cup {writeOffset}
  /\ UNCHANGED <<durableEnd, target, failed, covered>>
  /\ landed \subseteq landed' /\ stable \subseteq stable'
  /\ \A u \in Threads : pc'[u] \in {"fsync", "fsyncing", "publish"} => pc'[u] = pc[u]

(* A record issued by such a step lies beyond every target.                *)
LEMMA CommitFrame == ASSUME TypeOK, Durability, CommitIdle PROVE Durability'
<1>0. /\ writeOffset \in Nat /\ durableEnd \in Nat
      /\ \A u \in Threads : target[u] \in Nat
  BY WALAssumption DEF TypeOK
<1>1. durableEnd' <= writeOffset'
  BY <1>0 DEF CommitIdle, Durability
<1>2. ASSUME NEW n \in Nat, n <= writeOffset, NEW o \in Issued', o < n PROVE o \in Issued
  BY <1>0, <1>2 DEF CommitIdle
<1>3. \A o \in Issued' : o < durableEnd' => o \in stable'
  BY <1>0, <1>2, Zenon DEF CommitIdle, Durability
<1>4. ASSUME NEW u \in Threads, pc'[u] \in {"fsync", "fsyncing", "publish"}
      PROVE  /\ target'[u] <= writeOffset'
             /\ pc'[u] = "fsync" => \A o \in Issued' : o < target'[u] => o \in landed'
             /\ pc'[u] = "fsyncing" => \A o \in Issued' : o < target'[u] => o \in covered'[u]
             /\ pc'[u] = "publish" /\ ~failed'[u] =>
                  \A o \in Issued' : o < target'[u] => o \in stable'
  <2>1. pc'[u] = pc[u] /\ target'[u] = target[u] /\ failed'[u] = failed[u]
          /\ covered'[u] = covered[u] /\ landed \subseteq landed' /\ stable \subseteq stable'
    BY <1>4, Zenon DEF CommitIdle
  <2>2. target[u] <= writeOffset
    BY <1>4, <2>1, Zenon DEF Durability
  <2>3. target'[u] <= writeOffset'
    BY <1>0, <2>1, <2>2 DEF CommitIdle
  <2>4. \A o \in Issued' : o < target'[u] => o \in Issued
    BY <1>0, <1>2, <2>1, <2>2, Zenon
  <2>5. QED BY <1>4, <2>1, <2>3, <2>4, Zenon DEF Durability
<1>5. QED BY <1>1, <1>3, <1>4, Zenon DEF Durability

(* Every step is a step of a leader, of clear(), or one of these.          *)
LEMMA CommitSplit ==
  ASSUME TypeOK, Bounds, Requests, [Next]_vars
  PROVE  \/ CommitIdle
         \/ \E t \in Threads : \/ LeaderTakesTarget(t) \/ FdatasyncStarts(t)
                               \/ FdatasyncReturns(t) \/ LeaderPublishes(t)
                               \/ ClearLocks(t) \/ ClearReplacesLog(t) \/ ClearThrows(t)
<1>0. pc \in [Threads -> Pcs]
  BY Zenon DEF TypeOK
<1>1. ASSUME NEW t \in Threads, Reap(t) \/ WriteEntry(t) \/ WriteEntryThrows(t)
      PROVE  CommitIdle
  <2>1. Issued' \subseteq Issued \cup {writeOffset}
    BY <1>1, ReapKeepsIssued, AppendIssues, ThrowIssuesNothing, Zenon
  <2>2. QED
    BY <1>0, <1>1, <2>1, Zenon DEF CommitIdle, Reap, WriteEntry,
       WriteEntryThrows, Goto,
      callVars, syncVars, logVars, fileVars
<1>2. ASSUME NEW t \in Threads,
             \/ QueueFull(t) \/ FlushQueue(t) \/ WriteEntryReturns(t) \/ PutFlushes(t)
             \/ PutUnlocks(t) \/ Sync(t) \/ Flush(t)
      PROVE  CommitIdle
  <2>1. CASE QueueFull(t) \/ FlushQueue(t) \/ Sync(t) \/ Flush(t)
    BY <1>0, <2>1, Zenon DEF CommitIdle, QueueFull, FlushQueue, Sync, Flush,
       Goto, callVars,
      syncVars, ringVars, logVars, fileVars, Issued
  <2>2. CASE WriteEntryReturns(t) \/ PutFlushes(t)
    BY <1>0, <2>2, Zenon DEF CommitIdle, WriteEntryReturns, PutFlushes, Goto,
       callVars,
      syncVars, ringVars, logVars, fileVars, Issued
  <2>3. CASE PutUnlocks(t)
    BY <1>0, <2>3, Zenon DEF CommitIdle, PutUnlocks, Goto, callVars, syncVars,
       ringVars,
      logVars, fileVars, Issued
  <2>4. QED BY <1>2, <2>1, <2>2, <2>3, Zenon
<1>3. ASSUME NEW t \in Threads,
             \/ WaitReturns(t) \/ WaitSleeps(t) \/ BecomeLeader(t) \/ LeaderDrains(t)
             \/ ClearSleeps(t)
      PROVE  CommitIdle
  <2>1. CASE WaitReturns(t) \/ WaitSleeps(t)
    BY <1>0, <2>1, Zenon DEF CommitIdle, WaitReturns, WaitSleeps, Goto,
       callVars, syncVars,
      ringVars, logVars, fileVars, Issued
  <2>2. CASE BecomeLeader(t) \/ LeaderDrains(t) \/ ClearSleeps(t)
    BY <1>0, <2>2, Zenon DEF CommitIdle, BecomeLeader, LeaderDrains,
       ClearSleeps, Goto,
      callVars, syncVars, ringVars, logVars, fileVars, Issued
  <2>3. QED BY <1>3, <2>1, <2>2, Zenon
<1>4. ASSUME NEW t \in Threads,
             ClearBumpsEpoch(t) \/ Destroy(t) \/ Destroyed(t) \/ UseExitedRing(t)
      PROVE  CommitIdle
  BY <1>0, <1>4, Zenon DEF CommitIdle, ClearBumpsEpoch, GotoNotifyAll,
     Destroy, Destroyed,
    UseExitedRing, Goto, callVars, syncVars, ringVars, logVars, fileVars,
    Issued
<1>5. (\E o \in Offsets : Complete(o)) \/ UNCHANGED vars => CommitIdle
  BY Zenon DEF CommitIdle, Complete, vars, callVars, syncVars, ringVars,
     logVars, fileVars,
    Issued
<1>6. QED
  BY <1>1, <1>2, <1>3, <1>4, <1>5, Zenon DEF Next, Step, Call, Stopped

(* The published prefix, and the one a leader is about to publish, hold    *)
(* stable records only: the leader's target is read with the ring drained, *)
(* the fdatasync follows, and no record below the target is issued later.  *)
LEMMA DurabilityStep ==
  ASSUME TypeOK, Bounds, Exclusion, Leadership, Requests, PendingExact,
    Durability, [Next]_vars
  PROVE  Durability'
<1>0. /\ pc \in [Threads -> Pcs] /\ target \in [Threads -> Nat]
      /\ failed \in [Threads -> BOOLEAN] /\ covered \in [Threads -> SUBSET Offsets]
      /\ writeOffset \in Nat /\ durableEnd \in Nat
  BY WALAssumption DEF TypeOK
<1> USE DEF Goto
<1>1. ASSUME NEW t \in Threads, LeaderTakesTarget(t) PROVE Durability'
  <2>1. Issued' = Issued /\ UNCHANGED <<writeOffset, durableEnd, covered, landed, stable>>
    BY <1>1, Zenon DEF LeaderTakesTarget, Issued, syncVars, logVars, fileVars
  <2>2. pc'[t] = "fsync" => Issued \subseteq landed
    <3>1. pc'[t] = "fsync" => ~failure'
      BY <1>0, <1>1, Zenon DEF LeaderTakesTarget
    <3>2. ~failure' => ~failure /\ ~(pending > 0)
      BY <1>1, Zenon DEF LeaderTakesTarget
    <3>3. ~(pending > 0) => pending = 0
      BY DEF TypeOK
    <3>4. ringReady
      BY <1>1, Zenon DEF LeaderTakesTarget, Leadership, MuPcs
    <3>5. QED BY <3>1, <3>2, <3>3, <3>4, DrainLands, Zenon
  <2>3. /\ pc'[t] \in {"fsync", "publish"} /\ target'[t] = writeOffset
        /\ pc'[t] = "publish" => failed'[t]
    BY <1>0, <1>1, Zenon DEF LeaderTakesTarget
  <2>4. \A u \in Threads \ {t} :
          pc'[u] = pc[u] /\ target'[u] = target[u] /\ failed'[u] = failed[u]
    BY <1>0, <1>1, Zenon DEF LeaderTakesTarget
  <2>5. ASSUME NEW u \in Threads
        PROVE  /\ pc'[u] \in {"fsync", "fsyncing", "publish"} => target'[u] <= writeOffset'
               /\ pc'[u] = "fsync" => \A o \in Issued' : o < target'[u] => o \in landed'
               /\ pc'[u] = "fsyncing" =>
                    \A o \in Issued' : o < target'[u] => o \in covered'[u]
               /\ pc'[u] = "publish" /\ ~failed'[u] =>
                    \A o \in Issued' : o < target'[u] => o \in stable'
    <3>1. CASE u = t
      BY <1>0, <2>1, <2>2, <2>3, <3>1
    <3>2. CASE u # t
      BY <2>1, <2>4, <3>2, Zenon DEF Durability
    <3>3. QED BY <3>1, <3>2, Zenon
  <2>6. QED BY <2>1, <2>5, Zenon DEF Durability
<1>2. ASSUME NEW t \in Threads, FdatasyncStarts(t) PROVE Durability'
  BY <1>0, <1>2, Zenon DEF Durability, FdatasyncStarts, syncVars, ringVars,
     logVars,
    fileVars, Issued
<1>3. ASSUME NEW t \in Threads, FdatasyncReturns(t) PROVE Durability'
  <2>1. /\ Issued' = Issued /\ UNCHANGED <<writeOffset, durableEnd, target, landed>>
        /\ stable \subseteq stable'
    BY <1>3, Zenon DEF FdatasyncReturns, Issued, syncVars, ringVars, logVars
  <2>2. /\ pc[t] = "fsyncing" /\ pc'[t] = "publish"
        /\ ~failed'[t] => covered[t] \subseteq stable'
    BY <1>0, <1>3, Zenon DEF FdatasyncReturns
  <2>3. \A u \in Threads \ {t} :
          pc'[u] = pc[u] /\ covered'[u] = covered[u] /\ failed'[u] = failed[u]
    BY <1>0, <1>3, Zenon DEF FdatasyncReturns
  <2>4. QED BY <2>1, <2>2, <2>3, Zenon DEF Durability
<1>4. ASSUME NEW t \in Threads, LeaderPublishes(t) PROVE Durability'
  <2>1. Issued' = Issued /\ UNCHANGED <<writeOffset, covered, landed, stable>>
    BY <1>4, Zenon DEF LeaderPublishes, Issued, ringVars, logVars, fileVars
  <2>2. \/ durableEnd' = durableEnd
        \/ durableEnd' = target[t] /\ ~failed[t]
    BY <1>4, Zenon DEF LeaderPublishes
  <2>3. durableEnd' <= writeOffset /\ \A o \in Issued : o < durableEnd' => o \in stable
    BY <1>4, <2>2, Zenon DEF LeaderPublishes, Durability
  <2>4. \A u \in Threads : pc'[u] \in {"fsync", "fsyncing", "publish"} =>
          pc'[u] = pc[u] /\ target'[u] = target[u] /\ failed'[u] = failed[u]
    BY <1>0, <1>4, Zenon DEF LeaderPublishes, GotoNotifyAll
  <2>5. QED BY <2>1, <2>3, <2>4, Zenon DEF Durability
<1>5. ASSUME NEW t \in Threads, ClearLocks(t) PROVE Durability'
  <2>1. \A o \in Issued : ~(o < 0)
    BY WALAssumption DEF Issued, Offsets
  <2>2. /\ Issued' = Issued /\ durableEnd' = 0
        /\ UNCHANGED <<writeOffset, target, failed, covered, landed, stable>>
    BY <1>5, Zenon DEF ClearLocks, Issued, callVars, ringVars, logVars,
       fileVars
  <2>3. \A u \in Threads : pc'[u] \in {"fsync", "fsyncing", "publish"} => pc'[u] = pc[u]
    BY <1>0, <1>5, ZenonT(30) DEF ClearLocks
  <2>4. QED BY <1>0, <2>1, <2>2, <2>3 DEF Durability
<1>6. ASSUME NEW t \in Threads, ClearReplacesLog(t) \/ ClearThrows(t) PROVE Durability'
  <2>0. pc[t] = "cleardrain" /\ durableEnd' = durableEnd
    BY <1>6, Zenon DEF ClearReplacesLog, ClearThrows, syncVars
  <2>1. durableEnd' = 0 /\ \A u \in Threads : pc[u] \notin LeaderPcs
    BY <2>0, Zenon DEF Leadership
  <2>2. \A u \in Threads : pc'[u] \notin {"fsync", "fsyncing", "publish"}
    <3>1. pc'[t] \in {"wait", "idle"} /\ \A u \in Threads \ {t} : pc'[u] = pc[u]
      BY <1>0, <1>6, ZenonT(30) DEF ClearReplacesLog, ClearThrows
    <3>2. QED BY <2>1, <3>1, Zenon DEF LeaderPcs
  <2>3. Issued' = {}
    <3>1. attempts' = [o \in Offsets |-> 0]
      BY <1>6, Zenon DEF ClearReplacesLog, FreshLog, ClearThrows
    <3>2. \A o \in Offsets : ~(attempts'[o] > 0)
      BY <3>1
    <3>3. QED BY <3>2, Zenon DEF Issued
  <2>4. writeOffset' \in Nat
    <3>1. writeOffset' \in {writeOffset, 0}
      BY <1>6, Zenon DEF ClearReplacesLog, FreshLog, ClearThrows
    <3>2. QED BY <1>0, <3>1
  <2>5. QED BY <2>1, <2>2, <2>3, <2>4 DEF Durability
<1>7. QED
  BY <1>1, <1>2, <1>3, <1>4, <1>5, <1>6, CommitFrame, CommitSplit, Zenon

-----------------------------------------------------------------------------
(* A call that returns promises stable records only, and what was promised *)
(* stays stable until the log is replaced.                                 *)
LEMMA AckedStep ==
  ASSUME TypeOK, Tickets, Durability, AckedStable, [Next]_vars
  PROVE  AckedStable'
<1> DEFINE Idle == acked' = acked /\ stable \subseteq stable'
<1>1. ASSUME NEW t \in Threads,
             \/ Reap(t) \/ QueueFull(t) \/ WriteEntry(t) \/ WriteEntryThrows(t)
             \/ WriteEntryReturns(t) \/ PutFlushes(t) \/ PutUnlocks(t)
             \/ Sync(t) \/ Flush(t) \/ FlushQueue(t)
      PROVE  Idle
  <2>1. CASE Reap(t) \/ QueueFull(t) \/ WriteEntry(t) \/ WriteEntryThrows(t)
    BY <2>1, Zenon DEF Reap, QueueFull, WriteEntry, WriteEntryThrows,
       fileVars, ghostVars
  <2>2. CASE WriteEntryReturns(t) \/ PutFlushes(t) \/ PutUnlocks(t)
    BY <2>2, Zenon DEF WriteEntryReturns, PutFlushes, PutUnlocks, fileVars,
       ghostVars
  <2>3. CASE Sync(t) \/ Flush(t) \/ FlushQueue(t)
    BY <2>3, Zenon DEF Sync, Flush, FlushQueue, fileVars, ghostVars
  <2>4. QED BY <1>1, <2>1, <2>2, <2>3, Zenon
<1>2. ASSUME NEW t \in Threads,
             \/ WaitSleeps(t) \/ BecomeLeader(t) \/ LeaderDrains(t)
             \/ LeaderTakesTarget(t) \/ FdatasyncStarts(t) \/ FdatasyncReturns(t)
             \/ LeaderPublishes(t)
      PROVE  Idle
  <2>1. CASE WaitSleeps(t) \/ BecomeLeader(t) \/ LeaderDrains(t) \/ LeaderTakesTarget(t)
    BY <2>1, Zenon DEF WaitSleeps, BecomeLeader, LeaderDrains,
       LeaderTakesTarget, fileVars,
      ghostVars
  <2>2. CASE FdatasyncStarts(t) \/ FdatasyncReturns(t) \/ LeaderPublishes(t)
    BY <2>2, Zenon DEF FdatasyncStarts, FdatasyncReturns, LeaderPublishes,
       fileVars, ghostVars
  <2>3. QED BY <1>2, <2>1, <2>2, Zenon
<1>3. ASSUME NEW t \in Threads,
             \/ ClearSleeps(t) \/ ClearLocks(t) \/ ClearThrows(t)
             \/ Destroy(t) \/ Destroyed(t) \/ UseExitedRing(t)
      PROVE  Idle
  BY <1>3, Zenon DEF ClearSleeps, ClearLocks, ClearThrows, Destroy, Destroyed,
    UseExitedRing, fileVars, ghostVars
<1>4. (\E o \in Offsets : Complete(o)) \/ UNCHANGED vars => Idle
  BY Zenon DEF Complete, vars, fileVars, ghostVars
<1>5. Idle => AckedStable'
  BY Zenon DEF AckedStable
<1> HIDE DEF Idle
<1>6. ASSUME NEW t \in Threads, WaitReturns(t) PROVE AckedStable'
  <2>1. CASE ticket[t].epoch = epoch
    <3>1. HasTicket(t) /\ durableEnd >= ticket[t].end
      BY <1>6, <2>1, Zenon DEF WaitReturns, AtLoopHead, Satisfied, HasTicket
    <3>2. \A o \in promise[t] : o \in Issued /\ o < ticket[t].end
      BY <2>1, <3>1, Zenon DEF Tickets
    <3>3. \A o \in promise[t] : o < durableEnd
      <4>1. SUFFICES ASSUME NEW o \in promise[t] PROVE o < durableEnd
        BY Zenon
      <4>2. o \in Nat /\ durableEnd \in Nat /\ ticket[t].end \in Nat
        BY WALAssumption DEF TypeOK, Offsets
      <4>3. QED BY <3>1, <3>2, <4>2
    <3>4. promise[t] \subseteq stable
      BY <3>2, <3>3, Zenon DEF Durability
    <3>5. QED BY <1>6, <2>1, <3>4, Zenon DEF WaitReturns, fileVars, AckedStable
  <2>2. CASE ticket[t].epoch # epoch
    BY <1>6, <2>2, Zenon DEF WaitReturns, fileVars, AckedStable
  <2>3. QED BY <2>1, <2>2, Zenon
<1>7. ASSUME NEW t \in Threads, ClearBumpsEpoch(t) \/ ClearReplacesLog(t)
      PROVE  AckedStable'
  <2>1. acked' = {}
    BY <1>7, Zenon DEF ClearBumpsEpoch, ClearReplacesLog, ghostVars, Tickets
  <2>2. QED BY <2>1, Zenon DEF AckedStable
<1>8. QED
  BY <1>1, <1>2, <1>3, <1>4, <1>5, <1>6, <1>7, Zenon DEF Next, Step, Call,
     Stopped

-----------------------------------------------------------------------------
(* The WAL constructor establishes the invariant.                          *)
LEMMA InitInv == ASSUME Init PROVE IInv
<1>1. Issued = {}
  BY DEF Init, Issued
<1>2. Tickets
  BY <1>1 DEF Init, Tickets
<1>3. Durability
  BY <1>1 DEF Init, Durability
<1>4. AckedStable
  BY <1>1, Zenon DEF Init, AckedStable
<1>5. QED
  BY <1>2, <1>3, <1>4, RequestInit, Zenon DEF IInv

(* With failing submissions and cancellations kept apart, the whole        *)
(* invariant is inductive.                                                 *)
THEOREM Invariance == ASSUME FaultsApart PROVE Spec => []IInv
<1>1. Init => IInv
  BY InitInv, Zenon
<1>2. IInv /\ [Next]_vars => IInv'
  <2>1. SUFFICES ASSUME IInv, [Next]_vars PROVE IInv'
    BY Zenon
  <2>2. /\ RequestInv /\ Tickets /\ PendingExact /\ Durability /\ AckedStable
        /\ TypeOK /\ Bounds /\ Exclusion /\ Leadership /\ Requests
    BY <2>1, Zenon DEF IInv, RequestInv, LockInv
  <2>3. RequestInv' /\ Tickets'
    BY <2>1, <2>2, RequestStep, TicketsStep, Zenon
  <2>4. PendingExact' /\ Durability'
    BY <2>1, <2>2, FaultsApart, ApartCarriesNothing, PendingStep,
       DurabilityStep, Zenon
  <2>5. AckedStable'
    BY <2>1, <2>2, AckedStep, Zenon
  <2>6. QED BY <2>3, <2>4, <2>5, Zenon DEF IInv
<1>3. QED BY <1>1, <1>2, PTL DEF Spec

(* The durability promise of put(), del() and sync(): when a call returns, *)
(* its records are stable.                                                 *)
THEOREM AckedIsStable == ASSUME FaultsApart PROVE Spec => []AckedStable
<1>1. IInv => AckedStable
  BY Zenon DEF IInv
<1>2. QED BY <1>1, Invariance, PTL

-----------------------------------------------------------------------------
(* Closing the log, for every set of faults.                               *)

(* The count is exact for as long as no resubmission has met a stale       *)
(* request.                                                                *)
CleanPending ==
  ringReady /\ ~failure /\ RetriesUnmixed => pending = Cardinality(Outstanding)

(* Only clear() makes the log clean again: a failure stays recorded, a     *)
(* resubmission counted in attempts, and a failed append a hole.           *)
LEMMA CleanBefore ==
  ASSUME TypeOK, Bounds, Requests, [Next]_vars,
         ringReady', ~failure', RetriesUnmixed',
         \A t \in Threads : ~ClearReplacesLog(t)
  PROVE  ringReady /\ ~failure /\ RetriesUnmixed
<1>0. /\ writeOffset \in Nat /\ attempts \in [Offsets -> Nat]
      /\ Offsets \subseteq Nat
  BY WALAssumption DEF TypeOK, Offsets
<1> DEFINE Once == \A o \in Offsets : attempts[o] <= 1
           Sent == \A o \in Offsets : o < writeOffset => o \in Issued
<1>1. ASSUME NEW t \in Threads, Reap(t)
      PROVE  ringReady /\ ~failure /\ RetriesUnmixed
  <2> PICK o \in Offsets : ReapUntagged(o) \/ Resubmit(o) \/ ReapFinal(o)
    BY <1>1, Zenon DEF Reap
  <2>1. Issued' = Issued /\ writeOffset' = writeOffset /\ ringReady' = ringReady
    BY <1>1, ReapKeepsIssued, Zenon DEF Reap, logVars
  <2>2. ~failure
    BY Zenon DEF ReapUntagged, Resubmit, ReapFinal
  <2>3. attempts' = attempts \/ attempts' = [attempts EXCEPT ![o] = @ + 1]
    BY Zenon DEF ReapUntagged, Resubmit, ReapFinal
  <2>4. Once' => Once
    <3>1. \A p \in Offsets : attempts[p] <= attempts'[p]
      BY <1>0, <2>3
    <3>2. \A p \in Offsets : attempts[p] \in Nat /\ attempts'[p] \in Nat
      BY <1>0, <2>3
    <3>3. QED BY <3>1, <3>2
  <2>5. Sent' => Sent
    BY <2>1, Zenon
  <2>6. QED BY <2>1, <2>2, <2>4, <2>5, Zenon DEF RetriesUnmixed
<1>2. ASSUME NEW t \in Threads, WriteEntry(t)
      PROVE  ringReady /\ ~failure /\ RetriesUnmixed
  <2>1. /\ writeOffset \in Offsets /\ Issued' = Issued \cup {writeOffset}
    BY <1>2, AppendIssues, Zenon
  <2>2. /\ writeOffset' = writeOffset + 1 /\ ringReady' = ringReady
        /\ failure' = failure /\ attempts' = [attempts EXCEPT ![writeOffset] = 1]
    BY <1>2, Zenon DEF WriteEntry
  <2>3. attempts[writeOffset] = 0
    BY <1>0, <2>1 DEF Requests
  <2>4. Once' => Once
    <3>1. \A p \in Offsets : p # writeOffset => attempts'[p] = attempts[p]
      BY <1>0, <2>1, <2>2, Zenon
    <3>2. attempts[writeOffset] <= 1
      BY <2>3
    <3>3. QED BY <3>1, <3>2, Zenon
  <2>5. Sent' => Sent
    <3> SUFFICES ASSUME Sent', NEW o \in Offsets, o < writeOffset PROVE o \in Issued
      OBVIOUS
    <3>1. o < writeOffset' /\ o # writeOffset
      BY <1>0, <2>2
    <3>2. QED BY <2>1, <3>1, Zenon
  <2>6. QED BY <2>2, <2>4, <2>5, Zenon DEF RetriesUnmixed
<1>3. ASSUME NEW t \in Threads, WriteEntryThrows(t)
      PROVE  ringReady /\ ~failure /\ RetriesUnmixed
  <2>1. writeOffset \in Offsets /\ writeOffset \notin Issued'
    BY <1>3, ThrowIssuesNothing, Zenon
  <2>2. /\ writeOffset' = writeOffset + 1 /\ ringReady' = ringReady
        /\ failure' = failure /\ attempts' = attempts
    BY <1>3, Zenon DEF WriteEntryThrows
  <2>3. writeOffset < writeOffset'
    BY <1>0, <2>2
  <2>4. ~Sent'
    BY <2>1, <2>3, Zenon
  <2>5. QED BY <2>2, <2>4, Zenon DEF RetriesUnmixed
<1>4. ASSUME NEW t \in Threads,
             FlushQueue(t) \/ LeaderTakesTarget(t) \/ ClearThrows(t) \/ Destroyed(t)
      PROVE  ringReady /\ ~failure /\ RetriesUnmixed
  <2>1. FlushQueue(t) \/ LeaderTakesTarget(t)
    BY <1>4, Zenon DEF ClearThrows, Destroyed
  <2>2. ringReady' = ringReady /\ writeOffset' = writeOffset /\ attempts' = attempts
    BY <2>1, Zenon DEF FlushQueue, LeaderTakesTarget, logVars
  <2>3. ~failure
    <3>1. CASE FlushQueue(t)
      BY <3>1, Zenon DEF FlushQueue
    <3>2. CASE LeaderTakesTarget(t)
      BY <3>2, Zenon DEF LeaderTakesTarget
    <3>3. QED BY <2>1, <3>1, <3>2, Zenon
  <2>4. QED BY <2>2, <2>3, Zenon DEF RetriesUnmixed, Issued
<1>5. ASSUME NEW o \in Offsets, Complete(o)
      PROVE  ringReady /\ ~failure /\ RetriesUnmixed
  BY <1>5, Zenon DEF Complete, logVars, RetriesUnmixed, Issued
<1>6. CASE RingIdle
  BY <1>6, Zenon DEF RingIdle, ringVars, RetriesUnmixed, Issued
<1>7. QED
  BY <1>1, <1>2, <1>3, <1>4, <1>5, <1>6, RingSplit, Zenon DEF RingStep

(* A log that stays clean through a resubmission had nothing in its queue: *)
(* what is queued was never submitted, or its failure is on record.        *)
LEMMA CleanCarriesNothing ==
  ASSUME TypeOK, Bounds, Requests, ~failure, RetriesUnmixed'
  PROVE  NothingCarried
<1> SUFFICES ASSUME NEW t \in Threads, NEW o \in Offsets, Reap(t), Resubmit(o)
             PROVE  Queued = {}
  BY Zenon DEF NothingCarried
<1>1. Issued' = Issued /\ writeOffset' = writeOffset
  BY ReapKeepsIssued, Zenon DEF Reap, logVars
<1>2. ~(attempts'[o] <= 1)
  <2>1. o \in Issued /\ attempts' = [attempts EXCEPT ![o] = @ + 1]
    BY Zenon DEF Resubmit, Requests
  <2>2. attempts[o] > 0 /\ attempts[o] \in Nat /\ attempts'[o] = attempts[o] + 1
    BY <2>1, WALAssumption DEF Issued, TypeOK
  <2>3. QED BY <2>2
<1>3. \A p \in Offsets : p < writeOffset => p \in Issued
  BY <1>1, <1>2, Zenon DEF RetriesUnmixed
<1>4. \A p \in Queued : p < writeOffset
  BY WALAssumption DEF Queued, Requests, TypeOK, Offsets
<1>5. QED BY <1>3, <1>4, Zenon DEF Queued, Requests, Completed

(* So the count of a clean log stays exact, whatever the faults.           *)
LEMMA CleanStep ==
  ASSUME TypeOK, Bounds, Requests, CleanPending, [Next]_vars
  PROVE  CleanPending'
<1> SUFFICES ASSUME ringReady', ~failure', RetriesUnmixed'
             PROVE  pending' = Cardinality(Outstanding')
  BY Zenon DEF CleanPending
<1>1. CASE \E t \in Threads : ClearReplacesLog(t)
  <2>1. Outstanding' = {} /\ pending' = 0
    BY <1>1, Zenon DEF ClearReplacesLog, FreshLog, Outstanding, Completed
  <2>2. QED BY <2>1, FS_EmptySet, Zenon
<1>2. CASE ~\E t \in Threads : ClearReplacesLog(t)
  <2>1. ringReady /\ ~failure /\ RetriesUnmixed
    BY <1>2, CleanBefore, Zenon
  <2>2. PendingExact /\ NothingCarried
    BY <2>1, CleanCarriesNothing, Zenon DEF CleanPending, PendingExact
  <2>3. PendingExact'
    BY <2>2, PendingStep, Zenon
  <2>4. QED BY <2>3, Zenon DEF PendingExact
<1>3. QED BY <1>1, <1>2, Zenon

(* Only ~WAL() closes the log, and it drains the ring first.               *)
LEMMA CloseStep ==
  ASSUME TypeOK, Leadership, Requests, CleanPending, CloseDrains, [Next]_vars
  PROVE  CloseDrains'
<1>0. pc \in [Threads -> Pcs]
  BY Zenon DEF TypeOK
<1> DEFINE Open(t) == pc'[t] # "closed"
<1> USE DEF Goto
<1>1. ASSUME NEW t \in Threads,
             \/ QueueFull(t) \/ WriteEntry(t) \/ WriteEntryThrows(t)
             \/ WriteEntryReturns(t) \/ PutFlushes(t) \/ PutUnlocks(t)
             \/ Sync(t) \/ Flush(t) \/ FlushQueue(t)
      PROVE  Open(t)
  <2>1. CASE QueueFull(t) \/ WriteEntry(t) \/ WriteEntryThrows(t) \/ FlushQueue(t)
    BY <1>0, <2>1, Zenon DEF QueueFull, WriteEntry, WriteEntryThrows,
       FlushQueue
  <2>2. CASE WriteEntryReturns(t) \/ PutFlushes(t) \/ PutUnlocks(t) \/ Sync(t) \/ Flush(t)
    BY <1>0, <2>2, Zenon DEF WriteEntryReturns, PutFlushes, PutUnlocks, Sync,
       Flush
  <2>3. QED BY <1>1, <2>1, <2>2, Zenon
<1>2. ASSUME NEW t \in Threads,
             \/ WaitReturns(t) \/ WaitSleeps(t) \/ BecomeLeader(t) \/ LeaderDrains(t)
             \/ LeaderTakesTarget(t) \/ FdatasyncStarts(t) \/ FdatasyncReturns(t)
             \/ LeaderPublishes(t)
      PROVE  Open(t)
  <2>1. CASE WaitReturns(t) \/ WaitSleeps(t) \/ BecomeLeader(t) \/ LeaderDrains(t)
    BY <1>0, <2>1, Zenon DEF WaitReturns, WaitSleeps, BecomeLeader,
       LeaderDrains
  <2>2. CASE LeaderTakesTarget(t) \/ FdatasyncStarts(t) \/ FdatasyncReturns(t)
    BY <1>0, <2>2, Zenon DEF LeaderTakesTarget, FdatasyncStarts,
       FdatasyncReturns
  <2>3. CASE LeaderPublishes(t)
    BY <1>0, <2>3, Zenon DEF LeaderPublishes, GotoNotifyAll
  <2>4. QED BY <1>2, <2>1, <2>2, <2>3, Zenon
<1>3. ASSUME NEW t \in Threads,
             \/ ClearSleeps(t) \/ ClearLocks(t) \/ ClearBumpsEpoch(t)
             \/ ClearReplacesLog(t) \/ ClearThrows(t) \/ Destroy(t) \/ UseExitedRing(t)
      PROVE  Open(t)
  <2>1. CASE ClearSleeps(t) \/ ClearLocks(t) \/ ClearBumpsEpoch(t)
    BY <1>0, <2>1, Zenon DEF ClearSleeps, ClearLocks, ClearBumpsEpoch,
       GotoNotifyAll
  <2>2. CASE ClearReplacesLog(t) \/ ClearThrows(t) \/ Destroy(t) \/ UseExitedRing(t)
    BY <1>0, <2>2, Zenon DEF ClearReplacesLog, ClearThrows, Destroy,
       UseExitedRing
  <2>3. QED BY <1>3, <2>1, <2>2, Zenon
<1>4. ASSUME NEW t \in Threads, Reap(t) PROVE Open(t)
  BY <1>4, Zenon DEF Reap, MuPcs, AppendPcs
<1>5. ASSUME NEW t \in Threads, Open(t) PROVE CloseDrains'
  BY <1>5, Zenon DEF CloseDrains
<1> HIDE DEF Open
<1>6. ASSUME NEW t \in Threads, Destroyed(t) PROVE CloseDrains'
  <2>1. ~failure' => ~failure /\ ~(pending > 0)
    BY <1>6, Zenon DEF Destroyed
  <2>2. ~(pending > 0) => pending = 0
    BY DEF TypeOK
  <2>3. ringReady
    BY <1>6, Zenon DEF Destroyed, Leadership, MuPcs
  <2>4. Issued' = Issued /\ landed' = landed /\ (RetriesUnmixed' => RetriesUnmixed)
    BY <1>6, Zenon DEF Destroyed, Issued, RetriesUnmixed
  <2>5. ~failure' /\ RetriesUnmixed' => PendingExact
    BY <2>1, <2>4, Zenon DEF CleanPending, PendingExact
  <2>6. ~failure' /\ RetriesUnmixed' => Issued \subseteq landed
    BY <2>1, <2>2, <2>3, <2>5, DrainLands, Zenon
  <2>7. QED BY <2>4, <2>6, Zenon DEF CloseDrains
<1>7. CASE (\E o \in Offsets : Complete(o)) \/ UNCHANGED vars
  <2>1. /\ UNCHANGED <<pc, failure>> /\ Issued' = Issued /\ landed \subseteq landed'
        /\ RetriesUnmixed' => RetriesUnmixed
    BY <1>7, Zenon DEF Complete, vars, ringVars, logVars, fileVars, Issued,
       RetriesUnmixed
  <2>2. QED BY <2>1, Zenon DEF CloseDrains
<1>8. QED
  BY <1>1, <1>2, <1>3, <1>4, <1>5, <1>6, <1>7, Zenon DEF Next, Step, Call,
     Stopped

(* For every set of faults and every ring size: unless this log has met    *)
(* both a failed submission and a cancellation, ~WAL() leaves no accepted  *)
(* record behind without recording a failure.                              *)
THEOREM CloseIsClean == Spec => []CloseDrains
<1>1. Init => CleanPending /\ CloseDrains
  <2>1. ASSUME Init PROVE PendingExact /\ Issued = {}
    <3>1. PendingExact
      BY <2>1, RequestInit, Zenon
    <3>2. Issued = {}
      BY <2>1 DEF Init, Issued
    <3>3. QED BY <3>1, <3>2
  <2>2. QED BY <2>1, Zenon DEF CleanPending, PendingExact, CloseDrains
<1>2. RequestInv /\ CleanPending /\ CloseDrains /\ [Next]_vars =>
        CleanPending' /\ CloseDrains'
  BY CleanStep, CloseStep, Zenon DEF RequestInv, LockInv
<1>3. QED BY <1>1, <1>2, RequestInvariance, PTL DEF Spec

=============================================================================
