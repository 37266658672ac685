----------------------------- MODULE LaunchLock -----------------------------
(***************************************************************************)
(* The per-project launch lock of crates/sordino-state/src/lib.rs          *)
(* (try_launch_lock, try_create_lock, read_lock and the Drop of the guard),*)
(* one action per file-system call.  A launcher is one session-start hook  *)
(* process: its pid and the nonce it mints are unique to it, so the body   *)
(* of the lock file is represented by the launcher that wrote it.          *)
(*                                                                         *)
(* The lock file is made with hard_link, which fails when the target is    *)
(* there; a stale file is taken over by renaming it aside, which fails     *)
(* when the source is gone.  Temporary names carry the pid, so they never  *)
(* collide; the renamed-aside sidecar is never the lock path and is not    *)
(* part of the state.                                                      *)
(***************************************************************************)
EXTENDS Naturals, FiniteSets

CONSTANTS
    Launcher,   \* the hook processes that may try to launch
    NoLock,     \* the lock file does not exist
    Faults      \* which of "die" and "ttl" may happen

ASSUME FaultsAssumption == Faults \subseteq {"die", "ttl"}
ASSUME NoLockAssumption == NoLock \notin [owner : Launcher, aged : BOOLEAN]

VARIABLES
    lock,       \* the lock file: NoLock, or its owner and whether it is past its TTL
    lpc,        \* where each launcher is in try_launch_lock and in the guard's drop
    pidLive     \* what kill(pid, 0) says of each launcher's pid

lockVars == <<lock, lpc, pidLive>>

LockFile == [owner : Launcher, aged : BOOLEAN]

\* "idle": not called yet; "read", "rename", "recreate": inside try_launch_lock;
\* "held": it returned Some(guard); "yielded": it returned None;
\* "unlink": the drop has read its own nonce; "released": the drop is over.
LockPc == {"idle", "read", "rename", "recreate", "held", "yielded",
           "unlink", "released", "dead"}

LockInit ==
    /\ lock = NoLock
    /\ lpc = [p \in Launcher |-> "idle"]
    /\ pidLive = [p \in Launcher |-> TRUE]

LockGoto(p, l) == lpc' = [lpc EXCEPT ![p] = l]

\* Deviation: a rename onto the lock path replaces an existing file.
LinkLockByRename(p, busy) ==
    /\ lock' = [owner |-> p, aged |-> FALSE]
    /\ LockGoto(p, "held")

\* try_create_lock: hard_link of a private temporary file onto the lock path.
LinkLock(p, busy) ==
    \/ /\ lock = NoLock
       /\ lock' = [owner |-> p, aged |-> FALSE]
       /\ LockGoto(p, "held")
    \/ /\ lock # NoLock
       /\ LockGoto(p, busy)
       /\ UNCHANGED lock

\* The uncontended first attempt.
TryCreateLock(p) ==
    /\ lpc[p] = "idle"
    /\ LinkLock(p, "read")
    /\ UNCHANGED pidLive

\* The holder is dead, or the lock is older than LAUNCH_LOCK_TTL_SECS.
Reclaimable == ~pidLive[lock.owner] \/ lock.aged

\* read_lock, and the decision taken on what was read.
ReadLock(p) ==
    /\ lpc[p] = "read"
    /\ \/ /\ lock = NoLock
          /\ LockGoto(p, "recreate")
       \/ /\ lock # NoLock
          /\ LockGoto(p, IF Reclaimable THEN "rename" ELSE "yielded")
    /\ UNCHANGED <<lock, pidLive>>

\* rename of whatever file is at the lock path NOW; the sidecar is then removed.
RenameAside(p) ==
    /\ lpc[p] = "rename"
    /\ \/ /\ lock # NoLock
          /\ lock' = NoLock
          /\ LockGoto(p, "recreate")
       \/ /\ lock = NoLock
          /\ LockGoto(p, "yielded")
          /\ UNCHANGED lock
    /\ UNCHANGED pidLive

\* The last attempt, after the file vanished or was renamed aside.
RetryCreate(p) ==
    /\ lpc[p] = "recreate"
    /\ LinkLock(p, "yielded")
    /\ UNCHANGED pidLive

\* Drop of the guard: read the file, and go on to unlink it if the nonce is ours.
DropRead(p) ==
    /\ lpc[p] = "held"
    /\ LockGoto(p, IF lock # NoLock /\ lock.owner = p THEN "unlink" ELSE "released")
    /\ UNCHANGED <<lock, pidLive>>

\* The unlink itself: it removes whatever file is at the path by then.
DropUnlink(p) ==
    /\ lpc[p] = "unlink"
    /\ lock' = NoLock
    /\ LockGoto(p, "released")
    /\ UNCHANGED pidLive

\* A hook process is killed (or crashes) before it is done.
Die(p) ==
    /\ "die" \in Faults
    /\ lpc[p] \notin {"released", "dead"}
    /\ LockGoto(p, "dead")
    /\ pidLive' = [pidLive EXCEPT ![p] = FALSE]
    /\ UNCHANGED lock

\* The operating system gives a dead launcher's pid to an unrelated process.
ReusePid(p) ==
    /\ lpc[p] = "dead"
    /\ ~pidLive[p]
    /\ pidLive' = [pidLive EXCEPT ![p] = TRUE]
    /\ UNCHANGED <<lock, lpc>>

\* Thirty seconds pass over a lock that is still there.
Age ==
    /\ "ttl" \in Faults
    /\ lock # NoLock
    /\ ~lock.aged
    /\ lock' = [lock EXCEPT !.aged = TRUE]
    /\ UNCHANGED <<lpc, pidLive>>

LockStep(p) ==
    \/ TryCreateLock(p) \/ ReadLock(p) \/ RenameAside(p) \/ RetryCreate(p)
    \/ DropRead(p) \/ DropUnlink(p)

LockNext ==
    \/ \E p \in Launcher : LockStep(p) \/ Die(p) \/ ReusePid(p)
    \/ Age

\* A launcher that has not died keeps running; deaths, pid reuse and the passing
\* of time are not forced.
LockFairness == \A p \in Launcher : WF_lockVars(LockStep(p))

LockSpec == LockInit /\ [][LockNext]_lockVars /\ LockFairness

-----------------------------------------------------------------------------
LockTypeOK ==
    /\ lock \in LockFile \cup {NoLock}
    /\ lpc \in [Launcher -> LockPc]
    /\ pidLive \in [Launcher -> BOOLEAN]

\* try_launch_lock returned a guard and its drop has not finished.
Holding(p) == lpc[p] \in {"held", "unlink"}

\* try_launch_lock: "Returns `Some(LaunchLock)` to exactly one caller": no two
\* launchers are inside the guarded section at once.  It holds while every holder
\* lives; over the lock of a dead one two launchers may both rename and create,
\* the second moving the first's fresh lock aside (run lock_reclaim).
ExclusiveLock == \A p, q \in Launcher : Holding(p) /\ Holding(q) => p = q

\* The strengthening that makes ExclusiveLock inductive when nobody dies and no
\* lock outlives its TTL: the file always names the one holder, so nobody ever
\* finds it reclaimable.
LockNamesHolder ==
    /\ lock # NoLock => ~lock.aged /\ Holding(lock.owner)
    /\ \A p \in Launcher : Holding(p) => lock # NoLock /\ lock.owner = p
    /\ \A p \in Launcher : lpc[p] # "rename" /\ lpc[p] # "dead" /\ pidLive[p]

\* Drop of the guard: "never deletes the *successor's* lock" (the unlink only
\* ever removes a file that the dropping guard itself created).  It does NOT hold
\* when a lock can outlive its TTL: the file may be taken over between the read
\* and the unlink of the drop (LaunchLock_drop.cfg has the trace).
DropOnlyOwn ==
    [][\A p \in Launcher :
         lpc[p] = "unlink" /\ lpc'[p] = "released" => lock = NoLock \/ lock.owner = p]_lockVars

\* A dead launcher's lock never keeps the project locked: when it is past its TTL
\* and some launcher has still to try, that file goes away.
DeadLockYields ==
    \A p \in Launcher : \A q \in Launcher \ {p} :
        (lock # NoLock /\ lock.owner = p /\ lpc[p] = "dead" /\ lock.aged /\ lpc[q] = "idle")
            ~> (lock = NoLock \/ lock.owner # p \/ lpc[q] = "dead")
=============================================================================
