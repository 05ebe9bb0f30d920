-------------------------------- MODULE WAL --------------------------------
(***************************************************************************)
(* The write-ahead log of src/src/wal/: appends submitted to an io_uring,  *)
(* completions reaped by whichever thread next holds mu_, retries of       *)
(* cancelled requests, group commit (waitDurable) and log replacement      *)
(* (clear).  One record occupies one unit of the log, so a record is named *)
(* by its offset and Ticket.end is the offset plus one.                    *)
(*                                                                         *)
(* A mutex is held by the thread whose pc says so: MuPcs, SyncMuPcs and    *)
(* EnginePcs are the control points at which mu_, sync_mu_ and the         *)
(* engine's own lock are held.  Offsets, the ring and the file are those   *)
(* of the current epoch; clear() starts them afresh.                       *)
(***************************************************************************)
EXTENDS Naturals, FiniteSets

CONSTANTS
  Threads,            \* client threads of the engine
  Durable,            \* TRUE for Durability::Durable, FALSE for Async
  kMaxWriteAttempts,  \* submissions of one record before it is given up
  RingSize,           \* submission-queue slots (8 in the code)
  Faults,             \* which environment faults may occur: see FaultKinds
  MaxCalls            \* bound: API calls made in one behaviour

FaultKinds ==
  {"write",    \* a completion reports an error or a short write
   "cancel",   \* a completion reports -ECANCELED
   "submit",   \* io_uring_submit() returns a negative errno
   "timeout",  \* drain() waits five seconds in vain
   "sync",     \* fdatasync() fails
   "clear"}    \* clear() cannot remove or reopen the log or rebuild the ring

ASSUME WALAssumption ==
  /\ Threads # {}
  /\ Durable \in BOOLEAN
  /\ kMaxWriteAttempts \in Nat \ {0}
  /\ RingSize \in Nat \ {0}
  /\ Faults \subseteq FaultKinds
  /\ MaxCalls \in Nat

Offsets == 0 .. MaxCalls - 1

VARIABLES
  pc,             \* where each thread is
  ticket,         \* WAL::Ticket of each thread's call
  promise,        \* records that the thread's call covers if it returns
  leadEpoch,      \* waitDurable's locals of a leader: epoch, target,
  target,         \*   and whether `error` is non-empty
  failed,
  covered,        \* what the leader's running fdatasync will make stable
  epoch,          \* epoch_
  writeOffset,    \* write_offset_
  durableEnd,     \* durable_end_
  syncInProgress, \* sync_in_progress_
  ringReady,      \* ring_ready_
  failure,        \* failure_ is non-empty
  pending,        \* pending_cqes_
  req,            \* where the request of each offset is
  tagged,         \* offsets whose request still carries its PendingWrite
  attempts,       \* PendingWrite::attempts, 0 if the append itself failed
  freed,          \* offsets whose buffer has been freed
  landed,         \* records completely written to the file
  stable,         \* records an fdatasync has made stable
  returned,       \* records whose put has returned to its caller
  acked,          \* records some returned call promised to be durable
  calls           \* number of API calls made

callVars  == <<ticket, promise, leadEpoch, target, failed, covered>>
syncVars  == <<durableEnd, syncInProgress>>
ringVars  == <<pending, req, tagged, attempts, freed, failure>>
logVars   == <<epoch, writeOffset, ringReady>>
fileVars  == <<landed, stable>>
ghostVars == <<returned, acked, calls>>
vars == <<pc, callVars, syncVars, ringVars, logVars, fileVars, ghostVars>>

-----------------------------------------------------------------------------
(* Control points and locks.                                               *)

AppendPcs == {"refill", "reap"}          \* inside writeEntry()
LeaderPcs == {"lead", "drain", "fsync", "fsyncing", "publish"}
ClearPcs  == {"clear", "clearasleep", "clearlock", "cleardrain"}
EnginePcs == AppendPcs \cup {"logged", "close"} \cup ClearPcs
MuPcs     == AppendPcs \cup {"drain", "cleardrain", "close"}
SyncMuPcs == {"recheck", "clearlock", "cleardrain"}
StopPcs   == {"closed", "dead"}
Pcs == {"idle", "wait", "asleep"} \cup EnginePcs \cup MuPcs \cup SyncMuPcs
         \cup LeaderPcs \cup StopPcs

EngineFree == \A u \in Threads : pc[u] \notin EnginePcs
MuFree     == \A u \in Threads : pc[u] \notin MuPcs
SyncMuFree == \A u \in Threads : pc[u] \notin SyncMuPcs

Goto(t, label) == pc' = [pc EXCEPT ![t] = label]

(* sync_cv_.notify_all() while t moves to label: every thread asleep on    *)
(* the condition variable goes back to re-acquire sync_mu_.                *)
GotoNotifyAll(t, label) ==
  pc' = [u \in Threads |-> IF u = t THEN label
                           ELSE IF pc[u] = "asleep" THEN "wait"
                           ELSE IF pc[u] = "clearasleep" THEN "clear"
                           ELSE pc[u]]

-----------------------------------------------------------------------------
(* The ring.  A request is queued in the submission ring, in flight in     *)
(* the kernel, completed in the completion ring, or finished.              *)

Completed == {"ok", "bad", "cancelled"}
ReqStates == {"none", "queued", "inflight", "final"} \cup Completed

Queued == {o \in Offsets : req[o] = "queued"}
NoCqe  == \A o \in Offsets : req[o] \notin Completed
Issued == {o \in Offsets : attempts[o] > 0}

(* io_uring_submit(): everything queued, and o, goes to the kernel.        *)
SubmitAll(o) ==
  [p \in Offsets |-> IF p = o \/ req[p] = "queued" THEN "inflight" ELSE req[p]]

Decrement(n) == IF n > 0 THEN n - 1 ELSE 0

Init ==
  /\ pc = [t \in Threads |-> "idle"]
  /\ ticket = [t \in Threads |-> [epoch |-> 0, end |-> 0]]
  /\ promise = [t \in Threads |-> {}]
  /\ leadEpoch = [t \in Threads |-> 0]
  /\ target = [t \in Threads |-> 0]
  /\ failed = [t \in Threads |-> FALSE]
  /\ covered = [t \in Threads |-> {}]
  /\ epoch = 0 /\ writeOffset = 0 /\ durableEnd = 0
  /\ syncInProgress = FALSE /\ ringReady = TRUE /\ failure = FALSE
  /\ pending = 0
  /\ req = [o \in Offsets |-> "none"]
  /\ attempts = [o \in Offsets |-> 0]
  /\ tagged = {} /\ freed = {}
  /\ landed = {} /\ stable = {} /\ returned = {} /\ acked = {}
  /\ calls = 0

(* The kernel completes the request at o.  A cancelled request may or may  *)
(* not have reached the file; a bad one has not reached it whole.          *)
Complete(o) ==
  /\ req[o] = "inflight"
  /\ \/ /\ req' = [req EXCEPT ![o] = "ok"]
        /\ landed' = landed \cup {o}
     \/ /\ "write" \in Faults
        /\ req' = [req EXCEPT ![o] = "bad"]
        /\ UNCHANGED landed
     \/ /\ "cancel" \in Faults
        /\ req' = [req EXCEPT ![o] = "cancelled"]
        /\ landed' \in {landed, landed \cup {o}}
  /\ UNCHANGED <<pc, callVars, syncVars, pending, tagged, attempts, freed,
                 failure, logVars, stable, ghostVars>>

-----------------------------------------------------------------------------
(* reap(): one iteration of its loop, for the completion of offset o.      *)

(* Mutants: a resubmission that is counted, one that frees its buffer, one *)
(* without a limit, a result that is not looked at.                        *)
ResubmitCounted(o) ==
  /\ o \in tagged /\ req[o] = "cancelled" /\ attempts[o] < kMaxWriteAttempts
  /\ attempts' = [attempts EXCEPT ![o] = @ + 1]
  /\ req' = SubmitAll(o)
  /\ pending' = pending + 1
  /\ UNCHANGED <<tagged, failure, freed>>

ResubmitFrees(o) ==
  /\ o \in tagged /\ req[o] = "cancelled" /\ attempts[o] < kMaxWriteAttempts
  /\ attempts' = [attempts EXCEPT ![o] = @ + 1]
  /\ req' = SubmitAll(o)
  /\ freed' = freed \cup {o}
  /\ UNCHANGED <<pending, tagged, failure>>

ResubmitForever(o) ==
  /\ o \in tagged /\ req[o] = "cancelled"
  /\ attempts' = [attempts EXCEPT ![o] = @ + 1]
  /\ req' = SubmitAll(o)
  /\ UNCHANGED <<pending, tagged, failure, freed>>

ReapIgnoresResult(o) ==
  /\ o \in tagged
  /\ req[o] = "cancelled" => \/ attempts[o] >= kMaxWriteAttempts
                             \/ Cardinality(Queued) >= RingSize
  /\ req' = [req EXCEPT ![o] = "final"]
  /\ freed' = freed \cup {o}
  /\ pending' = Decrement(pending)
  /\ UNCHANGED <<tagged, attempts, failure>>

(* A completion without a tag: a request whose submission once failed.     *)
ReapUntagged(o) ==
  /\ o \notin tagged
  /\ req' = [req EXCEPT ![o] = "final"]
  /\ pending' = Decrement(pending)
  /\ UNCHANGED <<tagged, attempts, freed, failure>>

(* A cancelled write with attempts left and a free slot is resubmitted.    *)
(* The submission carries along whatever is still queued; pending_cqes_ is *)
(* left as it is.                                                          *)
Resubmit(o) ==
  /\ o \in tagged /\ req[o] = "cancelled"
  /\ attempts[o] < kMaxWriteAttempts
  /\ Cardinality(Queued) < RingSize
  /\ attempts' = [attempts EXCEPT ![o] = @ + 1]
  /\ \/ /\ req' = SubmitAll(o)
        /\ UNCHANGED <<pending, tagged, failure>>
     \/ /\ "submit" \in Faults
        /\ req' = [req EXCEPT ![o] = "queued"]
        /\ tagged' = tagged \ {o}
        /\ failure' = TRUE
        /\ pending' = Decrement(pending)
  /\ UNCHANGED freed

(* Every other tagged completion is final; all but a full write are        *)
(* recorded as the log's failure.                                          *)
ReapFinal(o) ==
  /\ o \in tagged
  /\ req[o] = "cancelled" => \/ attempts[o] >= kMaxWriteAttempts
                             \/ Cardinality(Queued) >= RingSize
  /\ failure' = (failure \/ req[o] # "ok")
  /\ req' = [req EXCEPT ![o] = "final"]
  /\ freed' = freed \cup {o}
  /\ pending' = Decrement(pending)
  /\ UNCHANGED <<tagged, attempts>>

Reap(t) ==
  /\ pc[t] \in MuPcs
  /\ \E o \in Offsets :
       /\ req[o] \in Completed
       /\ ReapUntagged(o) \/ Resubmit(o) \/ ReapFinal(o)
  /\ UNCHANGED <<pc, callVars, syncVars, logVars, fileVars, ghostVars>>

(* drain() returns: reap() found nothing more and nothing is pending.      *)
Drained == NoCqe /\ pending = 0

(* Mutant: drain() waits for as long as it takes.                          *)
DrainForever == FALSE

(* drain() gives up on a completion that does not come: it records the     *)
(* failure and its caller goes on as if drained.                           *)
DrainTimedOut == "timeout" \in Faults /\ NoCqe /\ pending > 0

-----------------------------------------------------------------------------
(* writeEntry(), from LSMEngine::put and del, which hold the engine lock.  *)

MayAppend(t) ==
  /\ pc[t] = "idle" /\ calls < MaxCalls
  /\ EngineFree /\ MuFree
  /\ ~failure

(* No free submission slot: submit what is queued, then reap.              *)
FlushQueue(t) ==
  /\ MayAppend(t) /\ ringReady
  /\ Cardinality(Queued) >= RingSize
  /\ req' = [o \in Offsets |-> IF o \in Queued THEN "inflight" ELSE req[o]]
  /\ pending' = pending + Cardinality(Queued)
  /\ Goto(t, "refill")
  /\ UNCHANGED <<callVars, syncVars, tagged, attempts, freed, failure,
                 logVars, fileVars, returned, acked, calls>>

(* Still no free slot after the reap: the call throws.                     *)
QueueFull(t) ==
  /\ pc[t] = "refill" /\ NoCqe
  /\ Cardinality(Queued) >= RingSize
  /\ Goto(t, "idle")
  /\ calls' = calls + 1
  /\ UNCHANGED <<callVars, syncVars, ringVars, logVars, fileVars,
                 returned, acked>>

(* The offset is taken, the request queued and submitted.                  *)
WriteEntry(t) ==
  LET o == writeOffset IN
  /\ \/ MayAppend(t) /\ ringReady
     \/ pc[t] = "refill" /\ NoCqe
  /\ Cardinality(Queued) < RingSize
  /\ writeOffset' = writeOffset + 1
  /\ calls' = calls + 1
  /\ req' = SubmitAll(o)
  /\ pending' = pending + Cardinality(Queued) + 1
  /\ tagged' = tagged \cup {o}
  /\ attempts' = [attempts EXCEPT ![o] = 1]
  /\ ticket' = [ticket EXCEPT ![t] = [epoch |-> epoch, end |-> o + 1]]
  /\ promise' = [promise EXCEPT ![t] = {o}]
  /\ Goto(t, "reap")
  /\ UNCHANGED <<leadEpoch, target, failed, covered, syncVars, freed, failure,
                 epoch, ringReady, fileVars, returned, acked>>

(* io_uring_submit() fails: the request stays queued, without its tag and  *)
(* with its buffer, the offset stays taken, and the call throws.           *)
WriteEntryThrows(t) ==
  LET o == writeOffset IN
  /\ "submit" \in Faults
  /\ \/ MayAppend(t) /\ ringReady
     \/ pc[t] = "refill" /\ NoCqe
  /\ Cardinality(Queued) < RingSize
  /\ writeOffset' = writeOffset + 1
  /\ calls' = calls + 1
  /\ req' = [req EXCEPT ![o] = "queued"]
  /\ Goto(t, "idle")
  /\ UNCHANGED <<callVars, syncVars, pending, tagged, attempts, freed, failure,
                 epoch, ringReady, fileVars, returned, acked>>

(* reap() has emptied the completion ring: mu_ is released.                *)
WriteEntryReturns(t) ==
  /\ pc[t] = "reap" /\ NoCqe
  /\ Goto(t, "logged")
  /\ UNCHANGED <<callVars, syncVars, ringVars, logVars, fileVars, ghostVars>>

(* put() has filled the memtable entry: it flushes a full memtable, or     *)
(* releases the engine lock and waits (Durable) or returns (Async).        *)
PutFlushes(t) ==
  /\ pc[t] = "logged"
  /\ Goto(t, "clear")
  /\ UNCHANGED <<callVars, syncVars, ringVars, logVars, fileVars, ghostVars>>

PutUnlocks(t) ==
  /\ pc[t] = "logged"
  /\ Goto(t, IF Durable THEN "wait" ELSE "idle")
  /\ returned' = IF Durable THEN returned ELSE returned \cup promise[t]
  /\ UNCHANGED <<callVars, syncVars, ringVars, logVars, fileVars, acked, calls>>

-----------------------------------------------------------------------------
(* sync() and waitDurable().                                               *)

Sync(t) ==
  /\ pc[t] = "idle" /\ calls < MaxCalls /\ MuFree
  /\ ticket' = [ticket EXCEPT ![t] = [epoch |-> epoch, end |-> writeOffset]]
  /\ promise' = [promise EXCEPT ![t] = returned]
  /\ calls' = calls + 1
  /\ Goto(t, "wait")
  /\ UNCHANGED <<leadEpoch, target, failed, covered, syncVars, ringVars,
                 logVars, fileVars, returned, acked>>

(* The thread has sync_mu_ at the head of waitDurable's loop.              *)
AtLoopHead(t) == \/ pc[t] = "wait" /\ SyncMuFree
                 \/ pc[t] = "recheck"

(* Mutant: an off-by-one in the comparison with durable_end_.              *)
SatisfiedEarly(t) == ticket[t].epoch # epoch \/ durableEnd + 1 >= ticket[t].end

(* The ticket's log has been flushed, or the record is stable.             *)
Satisfied(t) == ticket[t].epoch # epoch \/ durableEnd >= ticket[t].end

WaitReturns(t) ==
  /\ AtLoopHead(t) /\ Satisfied(t)
  /\ Goto(t, "idle")
  /\ IF ticket[t].epoch = epoch
       THEN /\ acked' = acked \cup promise[t]
            /\ returned' = returned \cup promise[t]
       ELSE UNCHANGED <<acked, returned>>
  /\ UNCHANGED <<callVars, syncVars, ringVars, logVars, fileVars, calls>>

WaitSleeps(t) ==
  /\ AtLoopHead(t) /\ ~Satisfied(t) /\ syncInProgress
  /\ Goto(t, "asleep")
  /\ UNCHANGED <<callVars, syncVars, ringVars, logVars, fileVars, ghostVars>>

BecomeLeader(t) ==
  /\ AtLoopHead(t) /\ ~Satisfied(t) /\ ~syncInProgress
  /\ syncInProgress' = TRUE
  /\ leadEpoch' = [leadEpoch EXCEPT ![t] = epoch]
  /\ Goto(t, "lead")
  /\ UNCHANGED <<ticket, promise, target, failed, covered, durableEnd,
                 ringVars, logVars, fileVars, ghostVars>>

LeaderDrains(t) ==
  /\ pc[t] = "lead" /\ MuFree /\ ringReady
  /\ Goto(t, "drain")
  /\ UNCHANGED <<callVars, syncVars, ringVars, logVars, fileVars, ghostVars>>

(* Under mu_: the target and any recorded failure are read, mu_ released.  *)
LeaderTakesTarget(t) ==
  /\ pc[t] = "drain"
  /\ Drained \/ DrainTimedOut
  /\ failure' = (failure \/ pending > 0)
  /\ failed' = [failed EXCEPT ![t] = failure']
  /\ target' = [target EXCEPT ![t] = writeOffset]
  /\ Goto(t, IF failure' THEN "publish" ELSE "fsync")
  /\ UNCHANGED <<ticket, promise, leadEpoch, covered, syncVars, pending, req,
                 tagged, attempts, freed, logVars, fileVars, ghostVars>>

(* fdatasync() starts: it covers what is in the file by now ...            *)
FdatasyncStarts(t) ==
  /\ pc[t] = "fsync"
  /\ covered' = [covered EXCEPT ![t] = landed]
  /\ Goto(t, "fsyncing")
  /\ UNCHANGED <<ticket, promise, leadEpoch, target, failed, syncVars,
                 ringVars, logVars, fileVars, ghostVars>>

(* ... and has made it stable when it returns 0; when it fails, nobody     *)
(* knows.                                                                  *)
FdatasyncReturns(t) ==
  /\ pc[t] = "fsyncing"
  /\ \/ /\ stable' = stable \cup covered[t]
        /\ UNCHANGED failed
     \/ /\ "sync" \in Faults
        /\ failed' = [failed EXCEPT ![t] = TRUE]
        /\ stable' \in {stable, stable \cup covered[t]}
  /\ covered' = [covered EXCEPT ![t] = {}]
  /\ Goto(t, "publish")
  /\ UNCHANGED <<ticket, promise, leadEpoch, target, syncVars, ringVars,
                 logVars, landed, ghostVars>>

(* Under sync_mu_: the result is published and everyone woken.  A failed   *)
(* leader throws; a successful one goes round its loop, still locked.      *)
LeaderPublishes(t) ==
  /\ pc[t] = "publish" /\ SyncMuFree
  /\ syncInProgress' = FALSE
  /\ durableEnd' = IF ~failed[t] /\ leadEpoch[t] = epoch /\ target[t] > durableEnd
                     THEN target[t] ELSE durableEnd
  /\ GotoNotifyAll(t, IF failed[t] THEN "idle" ELSE "recheck")
  /\ leadEpoch' = [leadEpoch EXCEPT ![t] = 0]
  /\ target' = [target EXCEPT ![t] = 0]
  /\ failed' = [failed EXCEPT ![t] = FALSE]
  /\ UNCHANGED <<ticket, promise, covered, ringVars, logVars, fileVars,
                 ghostVars>>

-----------------------------------------------------------------------------
(* clear(), called by flushMemtable() under the engine lock once the log's *)
(* records are in a durable table: from put() or from flush().             *)

Flush(t) ==
  /\ pc[t] = "idle" /\ calls < MaxCalls /\ EngineFree
  /\ Issued # {} \/ ~ringReady            \* the memtable is not empty
  /\ calls' = calls + 1
  /\ ticket' = [ticket EXCEPT ![t] = [epoch |-> epoch, end |-> 0]]
  /\ promise' = [promise EXCEPT ![t] = {}]
  /\ Goto(t, "clear")
  /\ UNCHANGED <<leadEpoch, target, failed, covered, syncVars, ringVars,
                 logVars, fileVars, returned, acked>>

ClearSleeps(t) ==
  /\ pc[t] = "clear" /\ SyncMuFree /\ syncInProgress
  /\ Goto(t, "clearasleep")
  /\ UNCHANGED <<callVars, syncVars, ringVars, logVars, fileVars, ghostVars>>

(* Mutant: clear() does not wait for the leader.                           *)
ClearBargesIn(t) ==
  /\ pc[t] = "clear" /\ SyncMuFree
  /\ durableEnd' = 0
  /\ Goto(t, "clearlock")
  /\ UNCHANGED <<callVars, syncInProgress, ringVars, logVars, fileVars,
                 ghostVars>>

ClearLocks(t) ==
  /\ pc[t] = "clear" /\ SyncMuFree /\ ~syncInProgress
  /\ durableEnd' = 0
  /\ Goto(t, "clearlock")
  /\ UNCHANGED <<callVars, syncInProgress, ringVars, logVars, fileVars,
                 ghostVars>>

(* The epoch ends here: its tickets are satisfied, its records are the     *)
(* table's from now on.                                                    *)
ClearBumpsEpoch(t) ==
  /\ pc[t] = "clearlock" /\ MuFree /\ ringReady
  /\ epoch' = epoch + 1
  /\ returned' = {} /\ acked' = {}
  /\ GotoNotifyAll(t, "cleardrain")
  /\ UNCHANGED <<callVars, syncVars, ringVars, writeOffset, ringReady,
                 fileVars, calls>>

(* The old ring and file are gone, and with them every request and record. *)
FreshLog ==
  /\ writeOffset' = 0
  /\ req' = [o \in Offsets |-> "none"]
  /\ attempts' = [o \in Offsets |-> 0]
  /\ tagged' = {} /\ freed' = {}
  /\ landed' = {} /\ stable' = {}

ClearReplacesLog(t) ==
  /\ pc[t] = "cleardrain"
  /\ Drained \/ DrainTimedOut
  /\ FreshLog
  /\ pending' = 0
  /\ failure' = FALSE
  /\ Goto(t, IF Durable /\ promise[t] # {} THEN "wait" ELSE "idle")
  /\ UNCHANGED <<callVars, syncVars, epoch, ringReady, ghostVars>>

(* Removing the log, reopening it or building the new ring fails: the call *)
(* throws with the old ring exited and the descriptor closed.  The offset  *)
(* has been reset only if it got as far as the ring.                       *)
ClearThrows(t) ==
  /\ pc[t] = "cleardrain" /\ "clear" \in Faults
  /\ Drained \/ DrainTimedOut
  /\ ringReady' = FALSE
  /\ failure' = (failure \/ pending > 0)
  /\ writeOffset' \in {writeOffset, 0}
  /\ req' = [o \in Offsets |-> "none"]
  /\ attempts' = [o \in Offsets |-> 0]
  /\ tagged' = {} /\ freed' = {}
  /\ Goto(t, "idle")
  /\ UNCHANGED <<callVars, syncVars, pending, epoch, fileVars, ghostVars>>

-----------------------------------------------------------------------------
(* ~WAL(), when no other call is running: drain, fdatasync, close.         *)

Destroy(t) ==
  /\ \A u \in Threads : pc[u] = "idle"
  /\ ringReady
  /\ Goto(t, "close")
  /\ UNCHANGED <<callVars, syncVars, ringVars, logVars, fileVars, ghostVars>>

(* Mutant: the log is closed without a drain.                              *)
DestroyedUndrained(t) ==
  /\ pc[t] = "close"
  /\ stable' = stable \cup landed
  /\ ringReady' = FALSE
  /\ pc' = [u \in Threads |-> "closed"]
  /\ UNCHANGED <<callVars, syncVars, pending, req, tagged, attempts, freed, failure,
                 epoch, writeOffset, landed, ghostVars>>

Destroyed(t) ==
  /\ pc[t] = "close"
  /\ Drained \/ DrainTimedOut
  /\ failure' = (failure \/ pending > 0)
  /\ \/ stable' = stable \cup landed
     \/ "sync" \in Faults /\ UNCHANGED stable
  /\ ringReady' = FALSE
  /\ pc' = [u \in Threads |-> "closed"]
  /\ UNCHANGED <<callVars, syncVars, pending, req, tagged, attempts, freed,
                 epoch, writeOffset, landed, ghostVars>>

(* writeEntry(), drain() and ~WAL() use the ring without looking at        *)
(* ring_ready_: after a failed clear() that is memory already unmapped,    *)
(* and the process dies.                                                   *)
UseExitedRing(t) ==
  /\ ~ringReady
  /\ \/ MayAppend(t)
     \/ pc[t] \in {"lead", "clearlock"} /\ MuFree
     \/ \A u \in Threads : pc[u] = "idle"
  /\ pc' = [u \in Threads |-> "dead"]
  /\ UNCHANGED <<callVars, syncVars, ringVars, logVars, fileVars, ghostVars>>

-----------------------------------------------------------------------------
(* A thread inside a call moves on by Step; Call starts a new call.        *)

Step(t) ==
  \/ Reap(t) \/ QueueFull(t)
  \/ pc[t] = "refill" /\ (WriteEntry(t) \/ WriteEntryThrows(t))
  \/ WriteEntryReturns(t) \/ PutFlushes(t) \/ PutUnlocks(t)
  \/ WaitReturns(t) \/ WaitSleeps(t) \/ BecomeLeader(t)
  \/ LeaderDrains(t) \/ LeaderTakesTarget(t)
  \/ FdatasyncStarts(t) \/ FdatasyncReturns(t) \/ LeaderPublishes(t)
  \/ ClearSleeps(t) \/ ClearLocks(t) \/ ClearBumpsEpoch(t)
  \/ ClearReplacesLog(t) \/ ClearThrows(t)
  \/ Destroyed(t)
  \/ pc[t] # "idle" /\ UseExitedRing(t)

Call(t) ==
  \/ FlushQueue(t)
  \/ pc[t] = "idle" /\ (WriteEntry(t) \/ WriteEntryThrows(t))
  \/ Sync(t) \/ Flush(t) \/ Destroy(t)
  \/ pc[t] = "idle" /\ UseExitedRing(t)

(* The process has ended.                                                  *)
Stopped == (\A t \in Threads : pc[t] \in StopPcs) /\ UNCHANGED vars

Next ==
  \/ \E t \in Threads : Step(t) \/ Call(t)
  \/ \E o \in Offsets : Complete(o)
  \/ Stopped

(* A thread inside a call keeps running.  Nothing is assumed of the        *)
(* kernel: a completion that never comes is drain()'s time-out.            *)
Fairness == \A t \in Threads : WF_vars(Step(t))

Spec == Init /\ [][Next]_vars
FairSpec == Spec /\ Fairness

-----------------------------------------------------------------------------
(* Properties.                                                             *)

(* Every variable has its type.                                            *)
TypeOK ==
  /\ pc \in [Threads -> Pcs]
  /\ ticket \in [Threads -> [epoch : Nat, end : Nat]]
  /\ promise \in [Threads -> SUBSET Offsets]
  /\ leadEpoch \in [Threads -> Nat]
  /\ target \in [Threads -> Nat]
  /\ failed \in [Threads -> BOOLEAN]
  /\ covered \in [Threads -> SUBSET Offsets]
  /\ epoch \in Nat /\ writeOffset \in 0 .. MaxCalls /\ durableEnd \in Nat
  /\ syncInProgress \in BOOLEAN /\ ringReady \in BOOLEAN /\ failure \in BOOLEAN
  /\ pending \in Nat
  /\ req \in [Offsets -> ReqStates]
  /\ attempts \in [Offsets -> 0 .. kMaxWriteAttempts]
  /\ tagged \subseteq Offsets /\ freed \subseteq Offsets
  /\ landed \subseteq Offsets /\ stable \subseteq Offsets
  /\ returned \subseteq Offsets /\ acked \subseteq Offsets
  /\ calls \in 0 .. MaxCalls

(* A record promised durable by a returned call (a Durable put or del, or  *)
(* a sync() that followed the call that wrote it) has been made stable by  *)
(* an fdatasync that began after the record's write had completed.         *)
AckedStable == acked \subseteq stable

(* pending_cqes_ counts the requests given to the kernel and not yet       *)
(* reaped, so that drain() waits for all of them and for no others.        *)
Outstanding == {o \in Offsets : req[o] \in {"inflight"} \cup Completed}
PendingExact == ringReady => pending = Cardinality(Outstanding)

(* From leaving drain() to the return of fdatasync() a group-commit leader *)
(* uses the descriptor without mu_: clear() never replaces the log then.   *)
LeaderKeepsDescriptor ==
  \A t \in Threads :
    pc[t] \in {"fsync", "fsyncing"} => leadEpoch[t] = epoch /\ ringReady

(* The kernel never reads a buffer that has been freed: a request that is  *)
(* queued or in flight, a stale or resubmitted one included, still owns    *)
(* its buffer.                                                             *)
BuffersOutliveRequests ==
  \A o \in freed : req[o] \notin {"queued", "inflight"}

(* A write that was given up (an error, a short write, a cancellation with *)
(* no retry left) is never forgotten: failure_ refuses the appends that    *)
(* would follow the hole, and stops every later group commit.              *)
NoSilentLoss == ~failure => \A o \in Issued : req[o] = "final" => o \in landed

(* In this log no write has been submitted again, or no submission has     *)
(* failed: so no resubmission has taken along a request left in the queue, *)
(* which pending_cqes_ would not count.                                    *)
RetriesUnmixed ==
  \/ \A o \in Offsets : attempts[o] <= 1
  \/ \A o \in Offsets : o < writeOffset => o \in Issued

(* A log that has not met both a failed submission and a cancellation, and *)
(* that is closed without a recorded failure, holds every record whose     *)
(* append returned: ~WAL() waits for each, also for writes that are        *)
(* cancelled and submitted again during the close.  Where both have        *)
(* happened the count may be short (see AckedStable) and nothing is said.  *)
CloseDrains ==
  (\A t \in Threads : pc[t] = "closed") /\ ~failure /\ RetriesUnmixed =>
    Issued \subseteq landed

(* A call that started comes to an end, by returning or by throwing:       *)
(* waiters are woken, drains end, clear() gets its locks.                  *)
CallsEnd ==
  \A t \in Threads : pc[t] # "idle" ~> pc[t] \in {"idle"} \cup StopPcs

=============================================================================
