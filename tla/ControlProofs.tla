---------------------------- MODULE ControlProofs ----------------------------
(***************************************************************************)
(* Theorems about how a proxy comes to run and what the operator controls  *)
(* in the running one: the launch lock and the start-up that takes its     *)
(* steps (Launch), for any number of launchers and ports; the masking      *)
(* policy and its files (ConfigPlane), for any rules, words, files and     *)
(* commands; the approval gate (Approvals), for any number of requests and *)
(* of overlapping operator calls, any ring and any limits.                 *)
(***************************************************************************)
EXTENDS ConfigPlane, Approvals, Launch, FiniteSetTheorems, WellFoundedInduction, TLAPS

-----------------------------------------------------------------------------
(* The launch lock.                                                        *)

\* What hard_link does: it creates our record where there was no file, else nothing.
LEMMA LinkLockEffect ==
  ASSUME NEW p \in Launcher, NEW busy \in LockPc, LockTypeOK, LinkLock(p, busy)
  PROVE  /\ lock' \in LockFile \cup {NoLock}
         /\ lpc' \in [Launcher -> LockPc]
         /\ \/ /\ lock = NoLock
               /\ lock' \in LockFile /\ lock'.owner = p /\ ~lock'.aged
               /\ lpc' = [lpc EXCEPT ![p] = "held"]
            \/ /\ lock # NoLock /\ lock' = lock
               /\ lpc' = [lpc EXCEPT ![p] = busy]
<1>1. [owner |-> p, aged |-> FALSE] \in LockFile
  BY DEF LockFile
<1>2. CASE lock = NoLock /\ lock' = [owner |-> p, aged |-> FALSE] /\ LockGoto(p, "held")
  <2>1. lock' \in LockFile /\ lock'.owner = p
    BY <1>1, <1>2
  <2>2. ~lock'.aged
    BY <1>2
  <2>3. lpc' \in [Launcher -> LockPc] /\ lpc' = [lpc EXCEPT ![p] = "held"]
    BY <1>2 DEF LockTypeOK, LockGoto, LockPc
  <2> QED
    BY <1>2, <2>1, <2>2, <2>3
<1>3. CASE lock # NoLock /\ LockGoto(p, busy) /\ UNCHANGED lock
  BY <1>3 DEF LockTypeOK, LockGoto
<1> QED
  BY <1>2, <1>3 DEF LinkLock

\* A launcher's own lock steps leave the other launchers where they are.
LEMMA LockStepLocal ==
  ASSUME LockTypeOK, NEW p \in Launcher, LockStep(p)
  PROVE  \A q \in Launcher : q # p => lpc'[q] = lpc[q]
  BY DEF LockTypeOK, LockStep, TryCreateLock, ReadLock, RenameAside, RetryCreate, DropRead,
         DropUnlink, LinkLock, LockGoto

\* Every step of the lock keeps its types.
LEMMA LockTypeStep ==
  ASSUME LockTypeOK, [LockNext]_lockVars
  PROVE  LockTypeOK'
<1> USE DEF LockTypeOK, LockPc, LockFile, LockGoto
<1>1. ASSUME NEW p \in Launcher, TryCreateLock(p) PROVE LockTypeOK'
  BY <1>1, LinkLockEffect DEF TryCreateLock
<1>2. ASSUME NEW p \in Launcher, ReadLock(p) PROVE LockTypeOK'
  BY <1>2 DEF ReadLock
<1>3. ASSUME NEW p \in Launcher, RenameAside(p) PROVE LockTypeOK'
  BY <1>3 DEF RenameAside
<1>4. ASSUME NEW p \in Launcher, RetryCreate(p) PROVE LockTypeOK'
  BY <1>4, LinkLockEffect DEF RetryCreate
<1>5. ASSUME NEW p \in Launcher, DropRead(p) PROVE LockTypeOK'
  BY <1>5 DEF DropRead
<1>6. ASSUME NEW p \in Launcher, DropUnlink(p) PROVE LockTypeOK'
  BY <1>6 DEF DropUnlink
<1>7. ASSUME NEW p \in Launcher, Die(p) PROVE LockTypeOK'
  BY <1>7 DEF Die
<1>8. ASSUME NEW p \in Launcher, ReusePid(p) PROVE LockTypeOK'
  BY <1>8 DEF ReusePid
<1>9. CASE Age
  BY <1>9 DEF Age
<1>10. CASE UNCHANGED lockVars
  BY <1>10 DEF lockVars
<1> QED
  BY <1>1, <1>2, <1>3, <1>4, <1>5, <1>6, <1>7, <1>8, <1>9, <1>10 DEF LockNext, LockStep

\* The lock file is always a whole record of one of the launchers or missing, whatever
\* dies or grows old: hard_link, rename and unlink never leave anything in between.
THEOREM LockTypeCorrect == LockSpec => []LockTypeOK
<1>1. LockInit => LockTypeOK
  BY DEF LockInit, LockTypeOK, LockPc
<1>2. LockTypeOK /\ [LockNext]_lockVars => LockTypeOK'
  BY LockTypeStep
<1> QED
  BY <1>1, <1>2, PTL DEF LockSpec

\* What holds of the lock while nobody dies and no lock outlives its TTL.
LockInv == LockTypeOK /\ LockNamesHolder

\* The named holder is the only one: exclusion follows from the file's contents.
LEMMA HolderIsUnique == LockNamesHolder => ExclusiveLock
  BY DEF LockNamesHolder, ExclusiveLock

\* Without deaths and expiries every step of try_launch_lock and of the drop keeps the
\* file naming the one holder; in particular nobody ever reaches the rename.
LEMMA LockInvStep ==
  ASSUME Faults = {}, LockInv, [LockNext]_lockVars
  PROVE  LockNamesHolder'
<1> USE NoLockAssumption DEF LockInv, LockTypeOK, LockNamesHolder, LockPc, LockFile, LockGoto, Holding
<1>1. ASSUME NEW p \in Launcher, TryCreateLock(p) PROVE LockNamesHolder'
  BY <1>1, LinkLockEffect DEF TryCreateLock
<1>2. ASSUME NEW p \in Launcher, ReadLock(p) PROVE LockNamesHolder'
  BY <1>2 DEF ReadLock, Reclaimable
<1>3. ASSUME NEW p \in Launcher, RenameAside(p) PROVE LockNamesHolder'
  BY <1>3 DEF RenameAside
<1>4. ASSUME NEW p \in Launcher, RetryCreate(p) PROVE LockNamesHolder'
  BY <1>4, LinkLockEffect DEF RetryCreate
<1>5. ASSUME NEW p \in Launcher, DropRead(p) PROVE LockNamesHolder'
  BY <1>5 DEF DropRead
<1>6. ASSUME NEW p \in Launcher, DropUnlink(p) PROVE LockNamesHolder'
  BY <1>6 DEF DropUnlink
<1>7. ASSUME NEW p \in Launcher, Die(p) \/ ReusePid(p) PROVE LockNamesHolder'
  BY <1>7 DEF Die, ReusePid
<1>8. CASE Age
  BY <1>8 DEF Age
<1>9. CASE UNCHANGED lockVars
  BY <1>9 DEF lockVars
<1> QED
  BY <1>1, <1>2, <1>3, <1>4, <1>5, <1>6, <1>7, <1>8, <1>9 DEF LockNext, LockStep

\* The lock file always names the live holder as long as no launcher dies and none holds
\* the lock past its TTL.
THEOREM LockNamesHolderAlways == ASSUME Faults = {} PROVE LockSpec => []LockNamesHolder
<1>1. LockInit => LockNamesHolder
  BY DEF LockInit, LockNamesHolder, Holding
<1>2. LockTypeOK /\ LockNamesHolder /\ [LockNext]_lockVars => LockNamesHolder'
  BY LockInvStep DEF LockInv
<1> QED
  BY <1>1, <1>2, LockTypeCorrect, PTL DEF LockSpec

\* try_launch_lock gives a guard to at most one launcher at a time, as long as no launcher
\* dies and none holds the lock past its TTL (the reclaim run shows that the first
\* hypothesis is needed, the drop run shows it for the second).
THEOREM LockExclusive == ASSUME Faults = {} PROVE LockSpec => []ExclusiveLock
  BY LockNamesHolderAlways, HolderIsUnique, PTL

-----------------------------------------------------------------------------
(* Start-up.                                                               *)

\* What each stage of a hook may rely on: it has taken no lock before launch_proxy and has
\* spawned nothing before it holds one; what it probes or stops is a record it has read.
HookPhases ==
    \A p \in Launcher :
        /\ hpc[p] \in {"start", "identify", "stop", "stopping", "killed", "salt"} => ~Holding(p)
        /\ hpc[p] \in {"identify", "stop", "stopping", "killed", "probe"} => seen[p] \in Rendezvous

\* Launch takes the lock's own steps, one at a time, and otherwise leaves it alone.
LEMMA LaunchTakesLockSteps ==
  ASSUME [LaunchNext]_launchVars
  PROVE  [LockNext]_lockVars
<1> USE DEF lockVars
<1>1. ASSUME NEW p \in Launcher, EnsureRead(p) PROVE [LockNext]_lockVars
  BY <1>1 DEF EnsureRead
<1>2. ASSUME NEW p \in Launcher, Identify(p) PROVE [LockNext]_lockVars
  BY <1>2 DEF Identify
<1>3. ASSUME NEW p \in Launcher, StopSignal(p) PROVE [LockNext]_lockVars
  BY <1>3 DEF StopSignal
<1>4. ASSUME NEW p \in Launcher, StopWait(p) PROVE [LockNext]_lockVars
  BY <1>4 DEF StopWait
<1>5. ASSUME NEW p \in Launcher, StopBackstop(p) PROVE [LockNext]_lockVars
  BY <1>5 DEF StopBackstop
<1>6. ASSUME NEW p \in Launcher, ReadSalt(p) PROVE [LockNext]_lockVars
  BY <1>6 DEF ReadSalt
<1>7. ASSUME NEW p \in Launcher, LockCall(p) PROVE [LockNext]_lockVars
  BY <1>7 DEF LockCall, LockNext
<1>8. ASSUME NEW p \in Launcher, LoseLock(p) PROVE [LockNext]_lockVars
  BY <1>8 DEF LoseLock
<1>9. ASSUME NEW p \in Launcher, Spawn(p) PROVE [LockNext]_lockVars
  BY <1>9 DEF Spawn
<1>10. ASSUME NEW p \in Launcher, PollRead(p) PROVE [LockNext]_lockVars
  BY <1>10 DEF PollRead
<1>11. ASSUME NEW p \in Launcher, PollProbe(p) PROVE [LockNext]_lockVars
  BY <1>11 DEF PollProbe
<1>12. ASSUME NEW p \in Launcher, GiveUp(p) PROVE [LockNext]_lockVars
  BY <1>12 DEF GiveUp
<1>13. ASSUME NEW p \in Launcher, Bind(p) PROVE [LockNext]_lockVars
  BY <1>13 DEF Bind
<1>14. ASSUME NEW p \in Launcher, Publish(p) PROVE [LockNext]_lockVars
  BY <1>14 DEF Publish
<1>15. ASSUME NEW p \in Launcher, Drain(p) PROVE [LockNext]_lockVars
  BY <1>15 DEF Drain
<1>16. ASSUME NEW p \in Launcher, RemoveRead(p) PROVE [LockNext]_lockVars
  BY <1>16 DEF RemoveRead
<1>17. ASSUME NEW p \in Launcher, RemoveUnlink(p) PROVE [LockNext]_lockVars
  BY <1>17 DEF RemoveUnlink
<1>18. ASSUME NEW p \in Launcher, HookFault(p) PROVE [LockNext]_lockVars
  BY <1>18 DEF HookFault, HookDies, HookPidReused, LockNext
<1>19. ASSUME NEW p \in Launcher, Crash(p) PROVE [LockNext]_lockVars
  BY <1>19 DEF Crash
<1>20. ASSUME NEW p \in Launcher, Term(p) PROVE [LockNext]_lockVars
  BY <1>20 DEF Term
<1>21. CASE LockAge
  BY <1>21 DEF LockAge, LockNext
<1>22. ASSUME NEW port \in Port, ForeignBind(port) PROVE [LockNext]_lockVars
  BY <1>22 DEF ForeignBind
<1>23. CASE UNCHANGED launchVars
  BY <1>23 DEF launchVars
<1> QED
  BY <1>1, <1>2, <1>3, <1>4, <1>5, <1>6, <1>7, <1>8, <1>9, <1>10, <1>11, <1>12,
     <1>13, <1>14, <1>15, <1>16, <1>17, <1>18, <1>19, <1>20, <1>21, <1>22, <1>23
     DEF LaunchNext, HookStep, ProxyStep

\* A proxy that ends leaves the table of proxies well typed.
LEMMA GoneTyped ==
  ASSUME LaunchTypeOK, NEW i \in Launcher, proxy' = Gone(i)
  PROVE  /\ proxy' \in [Launcher -> [st : Stage, port : Port \cup {NoPort}, salt : Launcher]]
         /\ \A p \in Launcher : Listening(p)' => proxy'[p].port \in Port
<1>1. [st |-> "gone", port |-> NoPort, salt |-> i]
        \in [st : Stage, port : Port \cup {NoPort}, salt : Launcher]
  BY DEF Stage
<1> QED
  BY <1>1 DEF LaunchTypeOK, Gone, Listening

\* Every step keeps the types.
LEMMA LaunchTypeStep ==
  ASSUME LaunchTypeOK, HookPhases, [LaunchNext]_launchVars
  PROVE  LaunchTypeOK'
<1>0. LockTypeOK'
  BY LaunchTakesLockSteps, LockTypeStep DEF LaunchTypeOK
<1> USE <1>0 DEF LaunchTypeOK, HookPc, Stage, Listening, HookGoto, HookReturns, ProxyStage,
        worldVars, hookVars
<1>1. ASSUME NEW p \in Launcher, EnsureRead(p) PROVE LaunchTypeOK'
  BY <1>1 DEF EnsureRead, LivePort
<1>2. ASSUME NEW p \in Launcher, Identify(p) PROVE LaunchTypeOK'
  BY <1>2 DEF Identify, HookPhases, Rendezvous
<1>3. ASSUME NEW p \in Launcher, StopSignal(p) PROVE LaunchTypeOK'
  BY <1>3 DEF StopSignal, HookPhases, Rendezvous
<1>4. ASSUME NEW p \in Launcher, StopWait(p) PROVE LaunchTypeOK'
  BY <1>4, GoneTyped DEF StopWait, HookPhases, Rendezvous
<1>5. ASSUME NEW p \in Launcher, StopBackstop(p) PROVE LaunchTypeOK'
  BY <1>5 DEF StopBackstop
<1>6. ASSUME NEW p \in Launcher, ReadSalt(p) PROVE LaunchTypeOK'
  BY <1>6 DEF ReadSalt, Rendezvous
<1>7. ASSUME NEW p \in Launcher, LockCall(p) PROVE LaunchTypeOK'
  BY <1>7 DEF LockCall
<1>8. ASSUME NEW p \in Launcher, LoseLock(p) PROVE LaunchTypeOK'
  BY <1>8 DEF LoseLock
<1>9. ASSUME NEW p \in Launcher, Spawn(p) PROVE LaunchTypeOK'
  BY <1>9 DEF Spawn
<1>10. ASSUME NEW p \in Launcher, PollRead(p) PROVE LaunchTypeOK'
  BY <1>10 DEF PollRead, LivePort
<1>11. ASSUME NEW p \in Launcher, PollProbe(p) PROVE LaunchTypeOK'
  BY <1>11 DEF PollProbe, HookPhases, Rendezvous
<1>12. ASSUME NEW p \in Launcher, GiveUp(p) PROVE LaunchTypeOK'
  BY <1>12 DEF GiveUp
<1>13. ASSUME NEW p \in Launcher, Bind(p) PROVE LaunchTypeOK'
  BY <1>13, GoneTyped DEF Bind
<1>14. ASSUME NEW p \in Launcher, Publish(p) PROVE LaunchTypeOK'
  BY <1>14 DEF Publish, Rendezvous
<1>15. ASSUME NEW p \in Launcher, Drain(p) PROVE LaunchTypeOK'
  BY <1>15 DEF Drain
<1>16. ASSUME NEW p \in Launcher, RemoveRead(p) PROVE LaunchTypeOK'
  BY <1>16, GoneTyped DEF RemoveRead
<1>17. ASSUME NEW p \in Launcher, RemoveUnlink(p) PROVE LaunchTypeOK'
  BY <1>17, GoneTyped DEF RemoveUnlink
<1>18. ASSUME NEW p \in Launcher, HookFault(p) PROVE LaunchTypeOK'
  <2>1. CASE HookDies(p)
    BY <2>1 DEF HookDies
  <2>2. CASE HookPidReused(p)
    BY <2>2 DEF HookPidReused
  <2> QED
    BY <1>18, <2>1, <2>2 DEF HookFault
<1>19. ASSUME NEW p \in Launcher, Crash(p) PROVE LaunchTypeOK'
  BY <1>19, GoneTyped DEF Crash
<1>20. ASSUME NEW p \in Launcher, Term(p) PROVE LaunchTypeOK'
  BY <1>20 DEF Term
<1>21. CASE LockAge
  BY <1>21 DEF LockAge
<1>22. ASSUME NEW port \in Port, ForeignBind(port) PROVE LaunchTypeOK'
  BY <1>22 DEF ForeignBind
<1>23. CASE UNCHANGED launchVars
  BY <1>23 DEF launchVars
<1> QED
  BY <1>1, <1>2, <1>3, <1>4, <1>5, <1>6, <1>7, <1>8, <1>9, <1>10, <1>11, <1>12,
     <1>13, <1>14, <1>15, <1>16, <1>17, <1>18, <1>19, <1>20, <1>21, <1>22, <1>23
     DEF LaunchNext, HookStep, ProxyStep

\* Every step keeps the phases of a hook apart.
LEMMA HookPhasesStep ==
  ASSUME LaunchTypeOK, HookPhases, [LaunchNext]_launchVars
  PROVE  HookPhases'
<1> USE DEF LaunchTypeOK, HookPhases, HookPc, HookGoto, HookReturns, Holding, lockVars, worldVars,
        hookVars
<1>1. ASSUME NEW p \in Launcher, EnsureRead(p) PROVE HookPhases'
  BY <1>1 DEF EnsureRead, LivePort
<1>2. ASSUME NEW p \in Launcher, Identify(p) PROVE HookPhases'
  BY <1>2 DEF Identify
<1>3. ASSUME NEW p \in Launcher, StopSignal(p) PROVE HookPhases'
  BY <1>3 DEF StopSignal
<1>4. ASSUME NEW p \in Launcher, StopWait(p) PROVE HookPhases'
  BY <1>4 DEF StopWait
<1>5. ASSUME NEW p \in Launcher, StopBackstop(p) PROVE HookPhases'
  BY <1>5 DEF StopBackstop
<1>6. ASSUME NEW p \in Launcher, ReadSalt(p) PROVE HookPhases'
  BY <1>6 DEF ReadSalt
<1>7. ASSUME NEW p \in Launcher, LockCall(p) PROVE HookPhases'
  BY <1>7, LockStepLocal DEF LockCall
<1>8. ASSUME NEW p \in Launcher, LoseLock(p) PROVE HookPhases'
  BY <1>8 DEF LoseLock
<1>9. ASSUME NEW p \in Launcher, Spawn(p) PROVE HookPhases'
  BY <1>9 DEF Spawn
<1>10. ASSUME NEW p \in Launcher, PollRead(p) PROVE HookPhases'
  BY <1>10 DEF PollRead, LivePort
<1>11. ASSUME NEW p \in Launcher, PollProbe(p) PROVE HookPhases'
  BY <1>11 DEF PollProbe
<1>12. ASSUME NEW p \in Launcher, GiveUp(p) PROVE HookPhases'
  BY <1>12 DEF GiveUp
<1>13. ASSUME NEW p \in Launcher, Bind(p) PROVE HookPhases'
  BY <1>13 DEF Bind
<1>14. ASSUME NEW p \in Launcher, Publish(p) PROVE HookPhases'
  BY <1>14 DEF Publish
<1>15. ASSUME NEW p \in Launcher, Drain(p) PROVE HookPhases'
  BY <1>15 DEF Drain
<1>16. ASSUME NEW p \in Launcher, RemoveRead(p) PROVE HookPhases'
  BY <1>16 DEF RemoveRead
<1>17. ASSUME NEW p \in Launcher, RemoveUnlink(p) PROVE HookPhases'
  BY <1>17 DEF RemoveUnlink
<1>18. ASSUME NEW p \in Launcher, HookFault(p) PROVE HookPhases'
  BY <1>18 DEF HookFault, HookDies, HookPidReused, Die, ReusePid, LockGoto, LockTypeOK, LockPc
<1>19. ASSUME NEW p \in Launcher, Crash(p) PROVE HookPhases'
  BY <1>19 DEF Crash
<1>20. ASSUME NEW p \in Launcher, Term(p) PROVE HookPhases'
  BY <1>20 DEF Term
<1>21. CASE LockAge
  BY <1>21 DEF LockAge, Age
<1>22. ASSUME NEW port \in Port, ForeignBind(port) PROVE HookPhases'
  BY <1>22 DEF ForeignBind
<1>23. CASE UNCHANGED launchVars
  BY <1>23 DEF launchVars
<1> QED
  BY <1>1, <1>2, <1>3, <1>4, <1>5, <1>6, <1>7, <1>8, <1>9, <1>10, <1>11, <1>12,
     <1>13, <1>14, <1>15, <1>16, <1>17, <1>18, <1>19, <1>20, <1>21, <1>22, <1>23
     DEF LaunchNext, HookStep, ProxyStep

\* Hooks, proxies, the record and the lock keep their types through every fault, and a
\* record is always one that a proxy with a bound port has published.
THEOREM LaunchTypeCorrect == LaunchSpec => [](LaunchTypeOK /\ HookPhases)
<1>1. LaunchInit => LaunchTypeOK /\ HookPhases
  BY PastAssumption, NoRecAssumption
     DEF LaunchInit, LaunchTypeOK, LockTypeOK, LockPc, HookPhases, HookPc, Stage, Rendezvous,
         Listening, Holding
<1>2. LaunchTypeOK /\ HookPhases /\ [LaunchNext]_launchVars => LaunchTypeOK' /\ HookPhases'
  BY LaunchTypeStep, HookPhasesStep
<1> QED
  BY <1>1, <1>2, PTL DEF LaunchSpec

\* Nobody dies inside the lock, no lock outlives its TTL, and no wait runs out while a
\* launch is still underway.
Patient == Faults = {} /\ "slow" \notin LaunchFaults

\* Under it every step keeps each starting proxy under its launcher's lock.
LEMMA StartIsGuardedStep ==
  ASSUME Patient, LaunchTypeOK, HookPhases, StartIsGuarded, [LaunchNext]_launchVars
  PROVE  StartIsGuarded'
<1> USE DEF Patient, LaunchTypeOK, HookPc, Stage, StartIsGuarded, Starting, HookGoto, HookReturns, Gone,
        ProxyStage, Holding, lockVars, worldVars, hookVars
<1>1. ASSUME NEW p \in Launcher, EnsureRead(p) PROVE StartIsGuarded'
  BY <1>1 DEF EnsureRead, LivePort
<1>2. ASSUME NEW p \in Launcher, Identify(p) PROVE StartIsGuarded'
  BY <1>2 DEF Identify, Slow
<1>3. ASSUME NEW p \in Launcher, StopSignal(p) PROVE StartIsGuarded'
  BY <1>3 DEF StopSignal, HookPhases, Rendezvous
<1>4. ASSUME NEW p \in Launcher, StopWait(p) PROVE StartIsGuarded'
  BY <1>4 DEF StopWait, Slow
<1>5. ASSUME NEW p \in Launcher, StopBackstop(p) PROVE StartIsGuarded'
  BY <1>5 DEF StopBackstop, Slow
<1>6. ASSUME NEW p \in Launcher, ReadSalt(p) PROVE StartIsGuarded'
  BY <1>6 DEF ReadSalt, HookPhases
<1>7. ASSUME NEW p \in Launcher, LockCall(p) PROVE StartIsGuarded'
  BY <1>7, LockStepLocal DEF LockCall
<1>8. ASSUME NEW p \in Launcher, LoseLock(p) PROVE StartIsGuarded'
  BY <1>8 DEF LoseLock
<1>9. ASSUME NEW p \in Launcher, Spawn(p) PROVE StartIsGuarded'
  BY <1>9 DEF Spawn
<1>10. ASSUME NEW p \in Launcher, PollRead(p) PROVE StartIsGuarded'
  BY <1>10 DEF PollRead, LivePort
<1>11. ASSUME NEW p \in Launcher, PollProbe(p) PROVE StartIsGuarded'
  BY <1>11 DEF PollProbe, IdentityMatches, Answering, Expected, Slow, HookPhases, Rendezvous
<1>12. ASSUME NEW p \in Launcher, GiveUp(p) PROVE StartIsGuarded'
  BY <1>12 DEF GiveUp, Slow, Underway
<1>13. ASSUME NEW p \in Launcher, Bind(p) PROVE StartIsGuarded'
  BY <1>13 DEF Bind
<1>14. ASSUME NEW p \in Launcher, Publish(p) PROVE StartIsGuarded'
  BY <1>14 DEF Publish
<1>15. ASSUME NEW p \in Launcher, Drain(p) PROVE StartIsGuarded'
  BY <1>15 DEF Drain
<1>16. ASSUME NEW p \in Launcher, RemoveRead(p) PROVE StartIsGuarded'
  BY <1>16 DEF RemoveRead
<1>17. ASSUME NEW p \in Launcher, RemoveUnlink(p) PROVE StartIsGuarded'
  BY <1>17 DEF RemoveUnlink
<1>18. ASSUME NEW p \in Launcher, HookFault(p) PROVE StartIsGuarded'
  BY <1>18 DEF HookFault, HookDies, HookPidReused, Die, ReusePid, LockGoto, LockTypeOK, LockPc
<1>19. ASSUME NEW p \in Launcher, Crash(p) PROVE StartIsGuarded'
  BY <1>19 DEF Crash
<1>20. ASSUME NEW p \in Launcher, Term(p) PROVE StartIsGuarded'
  BY <1>20 DEF Term
<1>21. CASE LockAge
  BY <1>21 DEF LockAge, Age
<1>22. ASSUME NEW port \in Port, ForeignBind(port) PROVE StartIsGuarded'
  BY <1>22 DEF ForeignBind
<1>23. CASE UNCHANGED launchVars
  BY <1>23 DEF launchVars
<1> QED
  BY <1>1, <1>2, <1>3, <1>4, <1>5, <1>6, <1>7, <1>8, <1>9, <1>10, <1>11, <1>12,
     <1>13, <1>14, <1>15, <1>16, <1>17, <1>18, <1>19, <1>20, <1>21, <1>22, <1>23
     DEF LaunchNext, HookStep, ProxyStep

\* launch_proxy: the lock is held until the proxy has published, so no two proxies of a
\* project are ever starting at once; crashes, terminations, failed writes and spawns and
\* foreign servers do not change that.
THEOREM LaunchOneStart == ASSUME Patient PROVE LaunchSpec => []OneStartAtATime
<1>1. LaunchInit => LockNamesHolder /\ StartIsGuarded
  BY PastAssumption DEF LaunchInit, LockNamesHolder, StartIsGuarded, Starting, Holding
<1>2. LaunchTypeOK /\ HookPhases /\ LockNamesHolder /\ StartIsGuarded /\ [LaunchNext]_launchVars
        => LockNamesHolder' /\ StartIsGuarded'
  BY LaunchTakesLockSteps, LockInvStep, StartIsGuardedStep DEF Patient, LaunchTypeOK, LockInv
<1>3. LockNamesHolder /\ StartIsGuarded => OneStartAtATime
  BY HolderIsUnique DEF StartIsGuarded, OneStartAtATime, ExclusiveLock
<1> QED
  BY <1>1, <1>2, <1>3, LaunchTypeCorrect, PTL DEF LaunchSpec

-----------------------------------------------------------------------------
(* The control plane: rules as often as they occur.                        *)

Occ(s, e) == {i \in DOMAIN s : s[i] = e}
HowOften(s, e) == Cardinality(Occ(s, e))

\* A value occurs finitely often in a list.
LEMMA OccFinite ==
    ASSUME NEW s \in Seq(Rules), NEW e
    PROVE  IsFiniteSet(Occ(s, e)) /\ HowOften(s, e) \in Nat /\ (HowOften(s, e) = 0 <=> Occ(s, e) = {})
<1>1. Occ(s, e) \in SUBSET (1 .. Len(s)) /\ Len(s) \in Nat
  BY DEF Occ
<1>2. IsFiniteSet(1 .. Len(s))
  BY <1>1, FS_Interval
<1>3. IsFiniteSet(Occ(s, e))
  BY <1>1, <1>2, FS_Subset
<1> QED
  BY <1>3, FS_CardinalityType, FS_EmptySet DEF HowOften

\* A rule added to a list occurs there once more.
LEMMA AppendFacts ==
    ASSUME NEW s \in Seq(Rules), NEW r \in Rules
    PROVE  /\ Append(s, r) \in Seq(Rules)
           /\ \A e : HowOften(Append(s, r), e) = HowOften(s, e) + (IF e = r THEN 1 ELSE 0)
<1>1. PICK t : t = Append(s, r)
  OBVIOUS
<1>2. /\ t \in Seq(Rules) /\ DOMAIN t = 1 .. Len(s) + 1 /\ Len(s) \in Nat
      /\ DOMAIN s = 1 .. Len(s) /\ t[Len(s) + 1] = r /\ \A i \in 1 .. Len(s) : t[i] = s[i]
  BY <1>1
<1>3. ASSUME NEW e PROVE HowOften(t, e) = HowOften(s, e) + (IF e = r THEN 1 ELSE 0)
  <2>1. CASE e = r
    <3>1. Occ(t, e) = Occ(s, e) \cup {Len(s) + 1} /\ Len(s) + 1 \notin Occ(s, e)
      BY <1>2, <2>1 DEF Occ
    <3>2. IsFiniteSet(Occ(s, e))
      BY OccFinite
    <3>3. Cardinality(Occ(s, e) \cup {Len(s) + 1}) = Cardinality(Occ(s, e)) + 1
      BY <3>1, <3>2, FS_AddElement
    <3> QED
      BY <2>1, <3>1, <3>3 DEF HowOften
  <2>2. CASE e # r
    <3>1. Occ(t, e) = Occ(s, e)
      BY <1>2, <2>2 DEF Occ
    <3> QED
      BY <2>2, <3>1, OccFinite DEF HowOften
  <2> QED
    BY <2>1, <2>2
<1> QED
  BY <1>1, <1>2, <1>3

\* A set of numbers has a smallest one.
LEMMA SmallestOf ==
    ASSUME NEW S \in SUBSET Nat, S # {}
    PROVE  \E x \in S : \A y \in S : x <= y
<1>1. IsWellFoundedOn(OpToRel(<, Nat), Nat)
  BY NatLessThanWellFounded
<1>2. PICK x \in S : \A y \in S : ~(<<y, x>> \in OpToRel(<, Nat))
  BY <1>1, WFMin, Zenon
<1>3. \A y \in S : ~(y < x)
  BY <1>2 DEF OpToRel
<1> QED
  BY <1>3

\* remove_custom_replacement takes out one occurrence, if there is one.
LEMMA RemoveFirstFacts ==
    ASSUME NEW s \in Seq(Rules), NEW r
    PROVE  /\ RemoveFirst(s, r) \in Seq(Rules)
           /\ \A e : HowOften(RemoveFirst(s, r), e) =
                     IF e = r /\ HowOften(s, r) # 0 THEN HowOften(s, e) - 1 ELSE HowOften(s, e)
<1>1. CASE ~\E i \in 1 .. Len(s) : s[i] = r
  <2>1. RemoveFirst(s, r) = s
    BY <1>1 DEF RemoveFirst
  <2>2. Occ(s, r) = {}
    BY <1>1 DEF Occ
  <2> QED
    BY <2>1, <2>2, OccFinite
<1>2. CASE \E i \in 1 .. Len(s) : s[i] = r
  <2> DEFINE I == {i \in 1 .. Len(s) : s[i] = r}
  <2>1. I \in SUBSET Nat /\ I # {}
    BY <1>2
  <2>2. PICK b : b = SelectInSeq(s, LAMBDA v : v = r)
    OBVIOUS
  <2>3. b = Min(I)
    BY <2>1, <2>2 DEF SelectInSeq
  <2>4. b \in I
    BY <2>1, <2>3, SmallestOf DEF Min
  <2>5. RemoveFirst(s, r) = RemoveAt(s, b)
    BY <1>2, <2>2 DEF RemoveFirst
  <2>6. PICK t : t = RemoveAt(s, b)
    OBVIOUS
  <2>7. /\ t \in Seq(Rules) /\ DOMAIN t = 1 .. Len(s) - 1 /\ DOMAIN s = 1 .. Len(s)
        /\ b \in 1 .. Len(s) /\ Len(s) \in Nat /\ s[b] = r
        /\ \A i \in 1 .. Len(s) - 1 : t[i] = IF i < b THEN s[i] ELSE s[i + 1]
    <3>1. b \in 1 .. Len(s) /\ s[b] = r
      BY <2>4
    <3>2. PICK u, w : u = SubSeq(s, 1, b - 1) /\ w = SubSeq(s, b + 1, Len(s))
      OBVIOUS
    <3>3. /\ u \in Seq(Rules) /\ Len(u) = b - 1 /\ \A i \in 1 .. b - 1 : u[i] = s[i]
      BY <3>1, <3>2
    <3>4. /\ w \in Seq(Rules) /\ Len(w) = Len(s) - b
          /\ \A i \in 1 .. Len(s) - b : w[i] = s[b + i]
      BY <3>1, <3>2
    <3>5. t = u \o w
      BY <2>6, <3>2 DEF RemoveAt
    <3>6. t \in Seq(Rules) /\ Len(t) = Len(s) - 1 /\ DOMAIN t = 1 .. Len(t) /\ DOMAIN s = 1 .. Len(s)
      <4>1. u \in Seq(Rules) /\ w \in Seq(Rules)
        BY <3>3, <3>4
      <4>2. t \in Seq(Rules) /\ Len(t) = Len(u) + Len(w)
        BY <4>1, <3>5
      <4>3. Len(s) \in Nat /\ DOMAIN s = 1 .. Len(s) /\ b \in Int
        BY <3>1
      <4>4. Len(t) = Len(s) - 1
        BY <4>2, <4>3, <3>3, <3>4
      <4>5. DOMAIN t = 1 .. Len(t)
        BY <4>2
      <4> QED
        BY <4>2, <4>3, <4>4, <4>5
    <3>7. ASSUME NEW i \in 1 .. Len(s) - 1
          PROVE  t[i] = IF i < b THEN s[i] ELSE s[i + 1]
      <4>1. CASE i < b
        <5>1. i \in 1 .. b - 1 /\ t[i] = u[i]
          BY <3>1, <3>3, <3>4, <3>5, <4>1
        <5> QED
          BY <3>3, <4>1, <5>1
      <4>2. CASE ~(i < b)
        <5>1. i - (b - 1) \in 1 .. Len(s) - b /\ b + (i - (b - 1)) = i + 1
          BY <3>1, <4>2
        <5>2. t[i] = w[i - (b - 1)]
          <6>1. i \in 1 .. Len(u) + Len(w) /\ ~(i <= Len(u)) /\ Len(u) = b - 1
            BY <3>1, <3>3, <3>4, <4>2
          <6>2. (u \o w)[i] = w[i - Len(u)]
            BY <3>3, <3>4, <6>1
          <6> QED
            BY <3>5, <6>1, <6>2
        <5> QED
          BY <3>4, <4>2, <5>1, <5>2
      <4> QED
        BY <4>1, <4>2
    <3> QED
      BY <3>1, <3>6, <3>7
  <2> HIDE DEF I
  <2>8. ASSUME NEW e
        PROVE  HowOften(t, e) = IF e = r THEN HowOften(s, e) - 1 ELSE HowOften(s, e)
    <3> DEFINE shift(i) == IF i < b THEN i ELSE i + 1
               f == [i \in Occ(t, e) |-> shift(i)]
               T == Occ(s, e) \ {b}
    <3>1. f \in [Occ(t, e) -> T]
      BY <2>7 DEF Occ
    <3>2. \A i, j \in Occ(t, e) : f[i] = f[j] => i = j
      BY <2>7 DEF Occ
    <3>3. \A j \in T : \E i \in Occ(t, e) : f[i] = j
      <4> SUFFICES ASSUME NEW j \in T PROVE \E i \in Occ(t, e) : f[i] = j
        OBVIOUS
      <4>1. j \in 1 .. Len(s) /\ j # b /\ s[j] = e
        BY <2>7 DEF Occ
      <4>2. PICK i : i = IF j < b THEN j ELSE j - 1
        OBVIOUS
      <4>3. i \in 1 .. Len(s) - 1 /\ shift(i) = j /\ t[i] = s[j]
        BY <2>7, <4>1, <4>2
      <4> QED
        BY <2>7, <4>1, <4>3 DEF Occ
    <3> HIDE DEF f
    <3>4. ExistsBijection(Occ(t, e), T)
      <4>1. f \in Bijection(Occ(t, e), T)
        BY <3>1, <3>2, <3>3 DEF Bijection, Injection, Surjection, IsInjective
      <4> QED
        BY <4>1 DEF ExistsBijection
    <3>5. IsFiniteSet(T)
      BY OccFinite, FS_RemoveElement
    <3>6. Cardinality(Occ(t, e)) = Cardinality(T)
      BY <2>7, <3>4, OccFinite, FS_Bijection
    <3>7. b \in Occ(s, e) <=> e = r
      BY <2>7 DEF Occ
    <3>8. CASE e = r
      <4>1. Cardinality(T) = Cardinality(Occ(s, e)) - 1
        BY <3>7, <3>8, OccFinite, FS_RemoveElement
      <4> QED
        BY <3>6, <3>8, <4>1 DEF HowOften
    <3>9. CASE e # r
      <4>1. T = Occ(s, e)
        BY <3>7, <3>9
      <4> QED
        BY <3>6, <3>9, <4>1 DEF HowOften
    <3> QED
      BY <3>8, <3>9
  <2>9. b \in Occ(s, r)
    BY <2>7 DEF Occ
  <2>10. HowOften(s, r) # 0
    BY <2>9, OccFinite
  <2> QED
    BY <2>5, <2>6, <2>7, <2>8, <2>10
<1> QED
  BY <1>1, <1>2

\* What occurs at least as often is there.
LEMMA OftenIsIn ==
    ASSUME NEW s \in Seq(Rules), NEW t \in Seq(Rules),
           \A r \in Rules : HowOften(s, r) <= HowOften(t, r)
    PROVE  ToSet(s) \subseteq ToSet(t)
<1> SUFFICES ASSUME NEW i \in DOMAIN s PROVE s[i] \in ToSet(t)
  BY DEF ToSet
<1>1. s[i] \in Rules /\ i \in Occ(s, s[i])
  BY DEF Occ
<1>2. PICK r \in Rules : r = s[i]
  BY <1>1
<1>3. HowOften(t, r) # 0
  BY <1>1, <1>2, OccFinite
<1>4. Occ(t, r) # {}
  BY <1>3, OccFinite
<1> QED
  BY <1>2, <1>4 DEF Occ, ToSet

-----------------------------------------------------------------------------
(* Values, files and what they deserialise to.                             *)

ConfigFields == {"profile", "threshold", "cats", "rules", "allow", "enabled", "ml"}
IsConfig(cfg) == WellTyped(cfg) /\ ConfigFields \subseteq DOMAIN cfg
IsFiles(fs) == fs = [s \in Scopes |-> fs[s]] /\ \A s \in Scopes : FileTyped(fs[s])

IsMerge(m, base, over) ==
    /\ WellTyped(m) /\ DOMAIN m = DOMAIN base \cup DOMAIN over
    /\ \A k \in DOMAIN m : m[k] = IF k \in DOMAIN over THEN over[k] ELSE base[k]

\* The merge of two tables (merge_toml): the upper one wins.
LEMMA MergeFacts ==
    ASSUME NEW base, NEW over, NEW m, m = Merge(base, over), WellTyped(base), WellTyped(over)
    PROVE  IsMerge(m, base, over)
<1>1. /\ DOMAIN m = DOMAIN base \cup DOMAIN over
      /\ \A k \in DOMAIN m : m[k] = IF k \in DOMAIN over THEN over[k] ELSE base[k]
      /\ m = [k \in DOMAIN m |-> m[k]]
  BY DEF Merge
<1>2. WellTyped(m)
  BY <1>1 DEF WellTyped
<1> QED
  BY <1>1, <1>2 DEF IsMerge

\* A document with one key.
LEMMA OnlyFacts ==
    ASSUME NEW key, NEW value, key \notin {"rules", "allow"},
           key = "profile" => value \in Profiles, key \in {"enabled", "ml"} => value \in BOOLEAN
    PROVE  /\ WellTyped(Only(key, value))
           /\ DOMAIN Only(key, value) = {key} /\ Only(key, value)[key] = value
<1>1. PICK o : o = Only(key, value)
  OBVIOUS
<1>2. DOMAIN o = {key} /\ o[key] = value /\ o = [k \in DOMAIN o |-> o[k]]
  BY <1>1 DEF Only
<1>3. WellTyped(o)
  BY <1>2 DEF WellTyped
<1> QED
  BY <1>1, <1>2, <1>3

\* Writing the rules leaves the other keys alone.
LEMMA SetRulesFacts ==
    ASSUME NEW val, WellTyped(val), NEW rules \in Seq(Rules)
    PROVE  LET n == SetKey(val, "rules", rules) IN
           /\ WellTyped(n) /\ DOMAIN n = DOMAIN val \cup {"rules"} /\ n["rules"] = rules
           /\ \A k \in DOMAIN val \ {"rules"} : n[k] = val[k]
<1>1. PICK o : o = Only("rules", rules)
  OBVIOUS
<1>2. DOMAIN o = {"rules"} /\ o["rules"] = rules /\ o = [k \in DOMAIN o |-> o[k]]
  BY <1>1 DEF Only
<1>3. WellTyped(o)
  BY <1>2 DEF WellTyped
<1>4. PICK n : n = SetKey(val, "rules", rules)
  OBVIOUS
<1>5. n = Merge(val, o)
  BY <1>1, <1>4 DEF SetKey
<1>6. IsMerge(n, val, o)
  BY <1>3, <1>5, MergeFacts
<1> QED
  BY <1>2, <1>4, <1>6 DEF IsMerge

\* Writing the allow list leaves the other keys alone.
LEMMA SetAllowFacts ==
    ASSUME NEW val, WellTyped(val), NEW allow \in SUBSET Words
    PROVE  LET n == SetKey(val, "allow", allow) IN
           /\ WellTyped(n) /\ DOMAIN n = DOMAIN val \cup {"allow"} /\ n["allow"] = allow
           /\ \A k \in DOMAIN val \ {"allow"} : n[k] = val[k]
<1>1. PICK o : o = Only("allow", allow)
  OBVIOUS
<1>2. DOMAIN o = {"allow"} /\ o["allow"] = allow /\ o = [k \in DOMAIN o |-> o[k]]
  BY <1>1 DEF Only
<1>3. WellTyped(o)
  BY <1>2 DEF WellTyped
<1>4. PICK n : n = SetKey(val, "allow", allow)
  OBVIOUS
<1>5. n = Merge(val, o)
  BY <1>1, <1>4 DEF SetKey
<1>6. IsMerge(n, val, o)
  BY <1>3, <1>5, MergeFacts
<1> QED
  BY <1>2, <1>4, <1>6 DEF IsMerge

\* A value that sets neither a rule nor an allow list leaves both as they are.
SameLists(n, val) ==
    /\ \A k \in {"rules", "allow"} : (k \in DOMAIN n <=> k \in DOMAIN val)
    /\ \A k \in {"rules", "allow"} \cap DOMAIN val : n[k] = val[k]

\* Any other key leaves the two lists alone.
LEMMA SetKeyFacts ==
    ASSUME NEW val, WellTyped(val), NEW key, NEW value, key \notin {"rules", "allow"},
           key = "profile" => value \in Profiles, key \in {"enabled", "ml"} => value \in BOOLEAN
    PROVE  /\ WellTyped(SetKey(val, key, value)) /\ SameLists(SetKey(val, key, value), val)
           /\ DOMAIN SetKey(val, key, value) = DOMAIN val \cup {key}
<1>1. PICK o : o = Only(key, value)
  OBVIOUS
<1>2. WellTyped(o) /\ DOMAIN o = {key}
  BY <1>1, OnlyFacts
<1>3. PICK n : n = SetKey(val, key, value)
  OBVIOUS
<1>4. n = Merge(val, o)
  BY <1>1, <1>3 DEF SetKey
<1>5. IsMerge(n, val, o)
  BY <1>2, <1>4, MergeFacts
<1> QED
  BY <1>2, <1>3, <1>5 DEF SameLists, IsMerge

\* A profile seeds its own fields and leaves the two lists and the switches alone.
LEMMA ProfileFieldsFacts ==
    ASSUME NEW val, WellTyped(val), NEW p \in Profiles
    PROVE  LET n == Merge(val, ProfileFields(p)) IN
           /\ WellTyped(n) /\ SameLists(n, val)
           /\ DOMAIN n = DOMAIN val \cup {"profile", "threshold", "cats"}
           /\ \A k \in {"enabled", "ml"} \cap DOMAIN val : n[k] = val[k]
<1>1. PICK o : o = ProfileFields(p)
  OBVIOUS
<1>2. /\ DOMAIN o = {"profile", "threshold", "cats"} /\ o["profile"] = p
      /\ o = [k \in DOMAIN o |-> o[k]]
  BY <1>1 DEF ProfileFields
<1>3. WellTyped(o)
  BY <1>2 DEF WellTyped
<1>4. PICK n : n = Merge(val, o)
  OBVIOUS
<1>5. IsMerge(n, val, o)
  BY <1>3, <1>4, MergeFacts
<1> QED
  BY <1>1, <1>2, <1>4, <1>5 DEF SameLists, IsMerge

\* Clearing a key leaves the two lists alone.
LEMMA UnsetFacts ==
    ASSUME NEW val, WellTyped(val), NEW key, key \notin {"rules", "allow"}
    PROVE  WellTyped(Unset(val, key)) /\ SameLists(Unset(val, key), val)
<1>1. PICK n : n = Unset(val, key)
  OBVIOUS
<1>2. /\ DOMAIN n = DOMAIN val \ {key} /\ (\A k \in DOMAIN n : n[k] = val[k])
      /\ n = [k \in DOMAIN n |-> n[k]]
  BY <1>1 DEF Unset
<1>3. WellTyped(n)
  BY <1>2 DEF WellTyped
<1> QED
  BY <1>1, <1>2, <1>3 DEF SameLists

\* The last layer that sets a key gives it its value.
LEMMA LayersFacts ==
    ASSUME NEW fs, IsFiles(fs)
    PROVE  LET m == MergedValue(fs) IN
           /\ WellTyped(m)
           /\ DOMAIN m = DOMAIN fs["user"].val \cup DOMAIN fs["project"].val
                         \cup DOMAIN fs["local"].val
           /\ \A k \in DOMAIN m :
                 m[k] = IF k \in DOMAIN fs["local"].val THEN fs["local"].val[k]
                        ELSE IF k \in DOMAIN fs["project"].val THEN fs["project"].val[k]
                        ELSE fs["user"].val[k]
<1>1. /\ WellTyped(fs["user"].val) /\ WellTyped(fs["project"].val)
      /\ WellTyped(fs["local"].val)
  BY DEF IsFiles, Scopes, FileTyped
<1>2. PICK u, p, l : u = fs["user"].val /\ p = fs["project"].val /\ l = fs["local"].val
  OBVIOUS
<1>3. PICK b : b = Merge(u, p)
  OBVIOUS
<1>4. IsMerge(b, u, p)
  BY <1>1, <1>2, <1>3, MergeFacts
<1>5. PICK m : m = Merge(b, l)
  OBVIOUS
<1>8. WellTyped(b)
  BY <1>4 DEF IsMerge
<1>6. IsMerge(m, b, l)
  BY <1>1, <1>2, <1>8, <1>5, MergeFacts
<1>7. MergedValue(fs) = m
  BY <1>2, <1>3, <1>5 DEF MergedValue
<1> QED
  BY <1>2, <1>4, <1>6, <1>7 DEF IsMerge

\* What deserialising makes of the merged text.
LEMMA DeserializeFacts ==
    ASSUME NEW val, WellTyped(val)
    PROVE  LET c == Deserialize(val) IN
           /\ IsConfig(c)
           /\ c["rules"] = Field(val, "rules", <<>>)
           /\ c["allow"] = Defaults \cup Field(val, "allow", {})
           /\ c["cats"] = Field(val, "cats", Categories[Field(val, "profile", "balanced")])
<1>1. PICK p : p = Field(val, "profile", "balanced")
  OBVIOUS
<1>2. p \in Profiles
  BY <1>1, ConfigConstants DEF Field, WellTyped
<1>3. PICK o : o = OpsOf(val)
  OBVIOUS
<1>4. o = [k \in DOMAIN o |-> o[k]] /\ DOMAIN o = DOMAIN val \cap Keys
      /\ \A k \in DOMAIN o : o[k] = val[k]
  BY <1>3 DEF OpsOf
<1>5. WellTyped(o)
  BY <1>4 DEF WellTyped
<1>6. PICK r : r = [profile   |-> p,
                    threshold |-> Field(val, "threshold", Threshold[p]),
                    cats      |-> Field(val, "cats", Categories[p]),
                    rules     |-> Field(val, "rules", <<>>),
                    allow     |-> BuildAllowList(Field(val, "allow", {})),
                    enabled   |-> Field(val, "enabled", TRUE),
                    ml        |-> Field(val, "ml", FALSE)]
  OBVIOUS
<1>7. /\ DOMAIN r = ConfigFields /\ r = [k \in DOMAIN r |-> r[k]] /\ r["profile"] = p
      /\ r["rules"] = Field(val, "rules", <<>>)
      /\ r["allow"] = Defaults \cup Field(val, "allow", {})
      /\ r["cats"] = Field(val, "cats", Categories[p])
      /\ r["enabled"] = Field(val, "enabled", TRUE) /\ r["ml"] = Field(val, "ml", FALSE)
  BY <1>6 DEF ConfigFields, BuildAllowList
<1>8. /\ Field(val, "rules", <<>>) \in Seq(Rules) /\ Field(val, "allow", {}) \in SUBSET Words
      /\ Field(val, "enabled", TRUE) \in BOOLEAN /\ Field(val, "ml", FALSE) \in BOOLEAN
  <2>1. Field(val, "rules", <<>>) \in Seq(Rules) /\ Field(val, "allow", {}) \in SUBSET Words
    BY DEF Field, WellTyped
  <2>2. Field(val, "enabled", TRUE) \in BOOLEAN
    BY Zenon DEF Field, WellTyped
  <2>3. Field(val, "ml", FALSE) \in BOOLEAN
    BY Zenon DEF Field, WellTyped
  <2> QED
    BY <2>1, <2>2, <2>3
<1>9. WellTyped(r)
  BY <1>2, <1>7, <1>8, ConfigConstants DEF WellTyped, ConfigFields
<1>10. PICK c : c = Merge(o, r)
  OBVIOUS
<1>11. IsMerge(c, o, r)
  BY <1>5, <1>9, <1>10, MergeFacts
<1>12. Deserialize(val) = c
  BY <1>1, <1>3, <1>6, <1>10 DEF Deserialize
<1>13. IsConfig(c)
  BY <1>7, <1>11 DEF IsConfig, IsMerge
<1>14. c["rules"] = r["rules"] /\ c["allow"] = r["allow"] /\ c["cats"] = r["cats"]
  BY <1>7, <1>11 DEF ConfigFields, IsMerge
<1> QED
  BY <1>1, <1>7, <1>12, <1>13, <1>14

\* The command line's reading of the files agrees with the proxy's.
LEMMA OfflineAgrees ==
    ASSUME NEW fs, IsFiles(fs), FilesParse(fs)
    PROVE  CategoriesFromFiles(fs) = Deserialize(MergedValue(fs)).cats
<1>1. PICK m : m = MergedValue(fs)
  OBVIOUS
<1>2. PICK u, p, l : u = fs["user"].val /\ p = fs["project"].val /\ l = fs["local"].val
  OBVIOUS
<1>3. /\ WellTyped(m) /\ DOMAIN m = DOMAIN u \cup DOMAIN p \cup DOMAIN l
      /\ \A k \in DOMAIN m : m[k] = IF k \in DOMAIN l THEN l[k]
                                     ELSE IF k \in DOMAIN p THEN p[k] ELSE u[k]
  BY <1>1, <1>2, LayersFacts
<1>4. ASSUME NEW key
      PROVE  /\ Setting(fs, key) # {} <=> key \in DOMAIN m
             /\ key \in DOMAIN m => LastSet(fs, key) = m[key]
  <2>1. PICK S : S = Setting(fs, key)
    OBVIOUS
  <2>2. /\ S \subseteq {"user", "project", "local"}
        /\ "user" \in S <=> key \in DOMAIN u
        /\ "project" \in S <=> key \in DOMAIN p
        /\ "local" \in S <=> key \in DOMAIN l
    BY <1>2, <2>1 DEF Setting, Scopes, FilesParse
  <2>3. LastSet(fs, key) = IF "local" \in S THEN l[key]
                           ELSE IF "project" \in S THEN p[key] ELSE u[key]
    BY <1>2, <2>1 DEF LastSet
  <2> QED
    BY <1>3, <2>1, <2>2, <2>3
<1>5. PICK c : c = Deserialize(m)
  OBVIOUS
<1>6. c["cats"] = Field(m, "cats", Categories[Field(m, "profile", "balanced")])
  BY <1>3, <1>5, DeserializeFacts
<1>7. /\ Setting(fs, "cats") # {} <=> "cats" \in DOMAIN m
      /\ "cats" \in DOMAIN m => LastSet(fs, "cats") = m["cats"]
      /\ Setting(fs, "profile") # {} <=> "profile" \in DOMAIN m
      /\ "profile" \in DOMAIN m => LastSet(fs, "profile") = m["profile"]
  BY <1>4
<1>8. CategoriesFromFiles(fs) = c["cats"]
  BY <1>6, <1>7 DEF CategoriesFromFiles, Field
<1> QED
  BY <1>1, <1>5, <1>8

-----------------------------------------------------------------------------
(* What is on disk of what was promised.                                   *)

Saved(val, rules, allow) ==
    /\ \A r \in Rules : HowOften(rules, r) <= HowOften(Field(val, "rules", <<>>), r)
    /\ allow # NotSaved => "allow" \in DOMAIN val /\ val["allow"] = allow \ Defaults

\* The rules of a file, none where it sets none.
LEMMA RulesOf == ASSUME NEW val, WellTyped(val) PROVE Field(val, "rules", <<>>) \in Seq(Rules)
  BY DEF WellTyped, Field

\* The local file has its shape.
LEMMA LocalTyped == ASSUME NEW fs, IsFiles(fs) PROVE WellTyped(fs["local"].val)
  BY DEF IsFiles, Scopes, FileTyped

\* A write that leaves the two lists alone keeps what was saved.
LEMMA SavedSame ==
    ASSUME NEW val, NEW n, NEW rules, NEW allow, Saved(val, rules, allow), SameLists(n, val)
    PROVE  Saved(n, rules, allow)
<1>1. Field(n, "rules", <<>>) = Field(val, "rules", <<>>)
  BY DEF Field, SameLists
<1> QED
  BY <1>1 DEF Saved, SameLists

\* Nothing promised is on any disk.
LEMMA SavedNothing ==
    ASSUME NEW val, WellTyped(val)
    PROVE  Saved(val, <<>>, NotSaved)
<1>1. PICK none : none = <<>>
  OBVIOUS
<1>2. none \in Seq(Rules) /\ \A r : Occ(none, r) = {}
  BY <1>1 DEF Occ
<1>3. \A r \in Rules : HowOften(none, r) = 0
  BY <1>2, OccFinite
<1>4. \A r \in Rules : HowOften(Field(val, "rules", <<>>), r) \in Nat
  BY RulesOf, OccFinite
<1> QED
  BY <1>1, <1>3, <1>4 DEF Saved

\* An added rule is saved once more.
LEMMA SavedAppended ==
    ASSUME NEW val, WellTyped(val), NEW rules \in Seq(Rules), NEW allow, NEW r \in Rules,
           Saved(val, rules, allow)
    PROVE  LET n == SetKey(val, "rules", Append(Field(val, "rules", <<>>), r)) IN
           WellTyped(n) /\ Saved(n, Append(rules, r), allow)
<1>1. PICK old : old = Field(val, "rules", <<>>)
  OBVIOUS
<1>2. PICK new, more : new = Append(old, r) /\ more = Append(rules, r)
  OBVIOUS
<1>3. /\ old \in Seq(Rules) /\ new \in Seq(Rules)
      /\ \A e : HowOften(new, e) = HowOften(old, e) + (IF e = r THEN 1 ELSE 0)
      /\ \A e : HowOften(more, e) = HowOften(rules, e) + (IF e = r THEN 1 ELSE 0)
  BY <1>1, <1>2, RulesOf, AppendFacts
<1>4. PICK n : n = SetKey(val, "rules", new)
  OBVIOUS
<1>5. /\ WellTyped(n) /\ DOMAIN n = DOMAIN val \cup {"rules"} /\ n["rules"] = new
      /\ \A k \in DOMAIN val \ {"rules"} : n[k] = val[k]
  BY <1>3, <1>4, SetRulesFacts, ZenonT(60)
<1>6. Field(n, "rules", <<>>) = new
  BY <1>5 DEF Field
<1>7. ASSUME NEW e \in Rules PROVE HowOften(more, e) <= HowOften(new, e)
  <2>1. HowOften(rules, e) <= HowOften(old, e) /\ HowOften(rules, e) \in Nat /\ HowOften(old, e) \in Nat
    BY <1>1, <1>3, OccFinite DEF Saved
  <2> QED
    BY <1>3, <2>1
<1>8. allow # NotSaved => "allow" \in DOMAIN n /\ n["allow"] = allow \ Defaults
  BY <1>5 DEF Saved
<1>9. Saved(n, more, allow)
  BY <1>6, <1>7, <1>8 DEF Saved
<1> QED
  BY <1>1, <1>2, <1>4, <1>5, <1>9

\* Promising less keeps the promise.
LEMMA SavedFewer ==
    ASSUME NEW val, WellTyped(val), NEW rules \in Seq(Rules), NEW allow, NEW r,
           Saved(val, rules, allow)
    PROVE  Saved(val, RemoveFirst(rules, r), allow)
<1>1. ASSUME NEW e \in Rules
      PROVE  HowOften(RemoveFirst(rules, r), e) <= HowOften(Field(val, "rules", <<>>), e)
  <2>1. /\ HowOften(rules, e) <= HowOften(Field(val, "rules", <<>>), e)
        /\ HowOften(rules, e) \in Nat /\ HowOften(Field(val, "rules", <<>>), e) \in Nat
    BY RulesOf, OccFinite DEF Saved
  <2>2. \/ HowOften(RemoveFirst(rules, r), e) = HowOften(rules, e)
        \/ HowOften(RemoveFirst(rules, r), e) = HowOften(rules, e) - 1
    BY RemoveFirstFacts
  <2> QED
    BY <2>1, <2>2
<1> QED
  BY <1>1 DEF Saved

\* A removal on disk and in the promise.
LEMMA SavedRemoved ==
    ASSUME NEW val, WellTyped(val), NEW rules \in Seq(Rules), NEW allow, NEW r \in Rules,
           Saved(val, rules, allow), "rules" \in DOMAIN val
    PROVE  LET n == SetKey(val, "rules", RemoveFirst(val["rules"], r)) IN
           WellTyped(n) /\ Saved(n, RemoveFirst(rules, r), allow)
<1>1. PICK old : old = val["rules"]
  OBVIOUS
<1>2. PICK new, less : new = RemoveFirst(old, r) /\ less = RemoveFirst(rules, r)
  OBVIOUS
<1>3. old \in Seq(Rules) /\ Field(val, "rules", <<>>) = old
  BY <1>1 DEF WellTyped, Field
<1>4. /\ new \in Seq(Rules)
      /\ \A e : HowOften(new, e) = IF e = r /\ HowOften(old, r) # 0 THEN HowOften(old, e) - 1
                                   ELSE HowOften(old, e)
      /\ \A e : HowOften(less, e) = IF e = r /\ HowOften(rules, r) # 0
                                    THEN HowOften(rules, e) - 1 ELSE HowOften(rules, e)
  BY <1>2, <1>3, RemoveFirstFacts
<1>5. PICK n : n = SetKey(val, "rules", new)
  OBVIOUS
<1>6. /\ WellTyped(n) /\ DOMAIN n = DOMAIN val \cup {"rules"} /\ n["rules"] = new
      /\ \A k \in DOMAIN val \ {"rules"} : n[k] = val[k]
  BY <1>4, <1>5, SetRulesFacts, ZenonT(60)
<1>7. Field(n, "rules", <<>>) = new
  BY <1>6 DEF Field
<1>8. ASSUME NEW e \in Rules PROVE HowOften(less, e) <= HowOften(new, e)
  <2>1. HowOften(rules, e) <= HowOften(old, e) /\ HowOften(rules, e) \in Nat /\ HowOften(old, e) \in Nat
    BY <1>3, OccFinite DEF Saved
  <2> QED
    BY <1>4, <2>1
<1>9. allow # NotSaved => "allow" \in DOMAIN n /\ n["allow"] = allow \ Defaults
  BY <1>6 DEF Saved
<1>10. Saved(n, less, allow)
  BY <1>7, <1>8, <1>9 DEF Saved
<1> QED
  BY <1>1, <1>2, <1>5, <1>6, <1>10

\* The whole effective allow list is saved.
LEMMA SavedAllow ==
    ASSUME NEW val, WellTyped(val), NEW rules, NEW old, NEW allow \in SUBSET Words,
           Saved(val, rules, old)
    PROVE  LET n == SetKey(val, "allow", allow \ Defaults) IN
           WellTyped(n) /\ Saved(n, rules, allow)
<1>1. PICK w \in SUBSET Words : w = allow \ Defaults
  OBVIOUS
<1>2. PICK n : n = SetKey(val, "allow", w)
  OBVIOUS
<1>3. /\ WellTyped(n) /\ DOMAIN n = DOMAIN val \cup {"allow"} /\ n["allow"] = w
      /\ \A k \in DOMAIN val \ {"allow"} : n[k] = val[k]
  BY <1>2, SetAllowFacts, ZenonT(60)
<1>4. Field(n, "rules", <<>>) = Field(val, "rules", <<>>)
  BY <1>3 DEF Field
<1>5. Saved(n, rules, allow)
  BY <1>1, <1>3, <1>4 DEF Saved
<1> QED
  BY <1>1, <1>2, <1>3, <1>5

\* What was saved is in force in the configuration.
InForce(cfg, rules, allow) ==
    /\ ToSet(rules) \subseteq ToSet(cfg["rules"])
    /\ allow # NotSaved => cfg["allow"] = allow \cup Defaults

\* After a load what is on disk is in force.
LEMMA LoadedHolds ==
    ASSUME NEW fs, IsFiles(fs), NEW rules \in Seq(Rules), NEW allow, NEW cfg,
           Saved(fs["local"].val, rules, allow),
           cfg["rules"] = Deserialize(MergedValue(fs))["rules"],
           cfg["allow"] = Deserialize(MergedValue(fs))["allow"]
    PROVE  InForce(cfg, rules, allow)
<1>1. PICK m : m = MergedValue(fs)
  OBVIOUS
<1>2. PICK l : l = fs["local"].val
  OBVIOUS
<1>3. /\ WellTyped(m) /\ DOMAIN l \subseteq DOMAIN m /\ \A k \in DOMAIN l : m[k] = l[k]
  BY <1>1, <1>2, LayersFacts
<1>4. /\ cfg["rules"] = Field(m, "rules", <<>>)
      /\ cfg["allow"] = Defaults \cup Field(m, "allow", {})
  BY <1>1, <1>3, DeserializeFacts
<1>5. allow # NotSaved => cfg["allow"] = allow \cup Defaults
  BY <1>2, <1>3, <1>4 DEF Saved, Field
<1>6. PICK t \in Seq(Rules) : t = cfg["rules"]
  BY <1>3, <1>4, RulesOf
<1>7. ASSUME NEW r \in Rules PROVE HowOften(rules, r) <= HowOften(t, r)
  <2>1. CASE "rules" \in DOMAIN l
    BY <1>2, <1>3, <1>4, <1>6, <2>1 DEF Saved, Field
  <2>2. CASE "rules" \notin DOMAIN l
    <3>1. PICK none : none = <<>>
      OBVIOUS
    <3>2. none \in Seq(Rules) /\ Occ(none, r) = {}
      BY <3>1 DEF Occ
    <3>3. HowOften(none, r) = 0
      BY <3>2, OccFinite
    <3>4. HowOften(rules, r) <= 0
      BY <1>2, <2>2, <3>1, <3>3 DEF Saved, Field
    <3> QED
      BY <3>4, OccFinite
  <2> QED
    BY <2>1, <2>2
<1>8. ToSet(rules) \subseteq ToSet(t)
  BY <1>7, OftenIsIn
<1> QED
  BY <1>5, <1>6, <1>8 DEF InForce

\* A write changes one file, unless it cannot be parsed or the disk refuses.
LEMMA PersistedFacts ==
    ASSUME NEW fs, IsFiles(fs), NEW scope \in Scopes, NEW val, WellTyped(val), NEW ok \in BOOLEAN,
           NEW n, n = Persisted(fs, scope, val, ok)
    PROVE  /\ IsFiles(n) /\ \A s \in Scopes \ {scope} : n[s] = fs[s]
           /\ n[scope].val = IF Wrote(fs, scope, ok) THEN val ELSE fs[scope].val
<1>1. CASE ok /\ ~fs[scope].broken
  <2>1. n = [fs EXCEPT ![scope].val = val]
    BY <1>1 DEF Persisted
  <2>2. PICK f : f = [fs[scope] EXCEPT !.val = val]
    OBVIOUS
  <2>3. FileTyped(fs[scope]) /\ fs[scope].broken \in BOOLEAN
    BY DEF IsFiles, FileTyped
  <2>4. f = [broken |-> fs[scope].broken, val |-> val]
    BY <2>2, <2>3 DEF FileTyped
  <2>5. f.val = val /\ FileTyped(f)
    BY <2>3, <2>4 DEF FileTyped
  <2>6. /\ n = [s \in Scopes |-> n[s]] /\ n[scope] = f
        /\ \A s \in Scopes \ {scope} : n[s] = fs[s]
    BY <2>1, <2>2 DEF IsFiles
  <2>7. IsFiles(n)
    BY <2>5, <2>6 DEF IsFiles
  <2> QED
    BY <1>1, <2>5, <2>6, <2>7 DEF Wrote
<1>2. CASE ~(ok /\ ~fs[scope].broken)
  BY <1>2 DEF Persisted, Wrote
<1> QED
  BY <1>1, <1>2

\* persist_custom_replacement keeps the rest, and the new rule when it wrote.
LEMMA CustomKept ==
    ASSUME NEW fs, IsFiles(fs), NEW rules \in Seq(Rules), NEW allow, NEW r \in Rules,
           NEW ok \in BOOLEAN, Saved(fs["local"].val, rules, allow)
    PROVE  LET n == PersistCustomReplacement(fs, r, ok) IN
           /\ IsFiles(n)
           /\ Saved(n["local"].val, IF Wrote(fs, "local", ok) THEN Append(rules, r) ELSE rules,
                    allow)
<1>1. PICK val : val = fs["local"].val
  OBVIOUS
<1>2. WellTyped(val) /\ "local" \in Scopes
  BY <1>1, LocalTyped DEF Scopes
<1>3. PICK new : new = SetKey(val, "rules", Append(Field(val, "rules", <<>>), r))
  OBVIOUS
<1>4. WellTyped(new) /\ Saved(new, Append(rules, r), allow)
  BY <1>1, <1>2, <1>3, SavedAppended, ZenonT(60)
<1>5. PICK n : n = Persisted(fs, "local", new, ok)
  OBVIOUS
<1>6. IsFiles(n) /\ n["local"].val = IF Wrote(fs, "local", ok) THEN new ELSE val
  BY <1>1, <1>2, <1>4, <1>5, PersistedFacts
<1>7. n = PersistCustomReplacement(fs, r, ok)
  BY <1>1, <1>3, <1>5 DEF PersistCustomReplacement
<1> QED
  BY <1>1, <1>4, <1>6, <1>7

\* Removing a rule from the local file keeps the rest.
LEMMA RemovalKept ==
    ASSUME NEW fs, IsFiles(fs), NEW rules \in Seq(Rules), NEW allow, NEW r \in Rules,
           Saved(fs["local"].val, rules, allow)
    PROVE  LET n == RemoveCustomReplacement(fs, r) IN
           IsFiles(n) /\ Saved(n["local"].val, RemoveFirst(rules, r), allow)
<1>1. PICK val : val = fs["local"].val
  OBVIOUS
<1>2. WellTyped(val) /\ "local" \in Scopes
  BY <1>1, LocalTyped DEF Scopes
<1>3. Saved(val, RemoveFirst(rules, r), allow)
  BY <1>1, <1>2, SavedFewer
<1>4. CASE "rules" \in DOMAIN val
  <2>1. PICK new : new = SetKey(val, "rules", RemoveFirst(val["rules"], r))
    OBVIOUS
  <2>2. WellTyped(new) /\ Saved(new, RemoveFirst(rules, r), allow)
    BY <1>1, <1>2, <1>4, <2>1, SavedRemoved, ZenonT(60)
  <2>3. PICK ok \in BOOLEAN : ok = TRUE
    OBVIOUS
  <2>4. PICK n : n = Persisted(fs, "local", new, ok)
    OBVIOUS
  <2>5. IsFiles(n) /\ n["local"].val = IF Wrote(fs, "local", ok) THEN new ELSE val
    BY <1>1, <1>2, <2>2, <2>4, PersistedFacts
  <2>6. n = RemoveCustomReplacement(fs, r)
    BY <1>1, <1>4, <2>1, <2>3, <2>4 DEF RemoveCustomReplacement
  <2> QED
    BY <1>3, <2>2, <2>5, <2>6
<1>5. CASE "rules" \notin DOMAIN val
  BY <1>1, <1>3, <1>5 DEF RemoveCustomReplacement
<1> QED
  BY <1>4, <1>5

\* persist_local_allow_lists keeps the rules, and the list when it wrote.
LEMMA AllowKept ==
    ASSUME NEW fs, IsFiles(fs), NEW rules, NEW old, NEW allow \in SUBSET Words,
           NEW ok \in BOOLEAN, Saved(fs["local"].val, rules, old)
    PROVE  LET n == PersistLocalAllowLists(fs, allow, ok) IN
           /\ IsFiles(n)
           /\ Saved(n["local"].val, rules, IF Wrote(fs, "local", ok) THEN allow ELSE NotSaved)
<1>1. PICK val : val = fs["local"].val
  OBVIOUS
<1>2. WellTyped(val) /\ "local" \in Scopes
  BY <1>1, LocalTyped DEF Scopes
<1>3. PICK new : new = SetKey(val, "allow", allow \ Defaults)
  OBVIOUS
<1>4. WellTyped(new) /\ Saved(new, rules, allow)
  BY <1>1, <1>2, <1>3, SavedAllow, ZenonT(60)
<1>5. PICK n : n = Persisted(fs, "local", new, ok)
  OBVIOUS
<1>6. IsFiles(n) /\ n["local"].val = IF Wrote(fs, "local", ok) THEN new ELSE val
  BY <1>1, <1>2, <1>4, <1>5, PersistedFacts
<1>7. n = PersistLocalAllowLists(fs, allow, ok)
  BY <1>1, <1>3, <1>5 DEF PersistLocalAllowLists
<1>8. Saved(val, rules, NotSaved)
  BY <1>1 DEF Saved
<1> QED
  BY <1>1, <1>4, <1>6, <1>7, <1>8

IsPromise(p) ==
    /\ p = [event |-> p.event, rules |-> p.rules, allow |-> p.allow,
            on |-> p.on, ml |-> p.ml, broker |-> p.broker]
    /\ p.rules \in Seq(Rules)

ConfigShape ==
    /\ IsFiles(files) /\ IsConfig(live)
    /\ policy \in {"rules", "deny"} /\ up \in BOOLEAN
    /\ IsPromise(promise)

\* What was persisted is in the local file, as often as it was promised.
OnDisk == Saved(files["local"].val, promise.rules, promise.allow)

WorldInv ==
    /\ ConfigShape /\ OnDisk
    /\ BrokerFollowsFiles /\ MlIsLiveOwned /\ AdditionsSurvive /\ AllowListSurvives

\* A step between two loads: nothing new is promised that is not on disk.
LEMMA BetweenLoads ==
    ASSUME WorldInv, IsFiles(files'), IsConfig(live'), policy' = policy,
           up' = up \/ up' = FALSE, IsPromise(promise'),
           promise'.event # "load", promise'.broker = promise.broker,
           OnDisk',
           (live'.ml = live.ml /\ promise'.ml = promise.ml) \/ live'.ml = promise'.ml
    PROVE  WorldInv'
<1>1. ConfigShape'
  BY DEF WorldInv, ConfigShape
<1>2. BrokerFollowsFiles' /\ MlIsLiveOwned'
  BY DEF WorldInv, ConfigShape, BrokerFollowsFiles, MlIsLiveOwned
<1>3. AdditionsSurvive' /\ AllowListSurvives'
  BY DEF AdditionsSurvive, AllowListSurvives, InForce
<1> QED
  BY <1>1, <1>2, <1>3 DEF WorldInv

IsEdit(n, cfg, key, v) ==
    IsConfig(n) /\ n[key] = v /\ \A k \in ConfigFields \ {key} : n[k] = cfg[k]

\* A configuration with one field replaced.
LEMMA FieldFacts ==
    ASSUME NEW cfg, IsConfig(cfg), NEW key \in ConfigFields, NEW v,
           key = "rules" => v \in Seq(Rules), key = "allow" => v \in SUBSET Words,
           key = "profile" => v \in Profiles, key \in {"enabled", "ml"} => v \in BOOLEAN,
           NEW n, n = [cfg EXCEPT ![key] = v]
    PROVE  IsEdit(n, cfg, key, v)
<1>1. /\ cfg = [k \in DOMAIN cfg |-> cfg[k]] /\ key \in DOMAIN cfg
  BY DEF IsConfig, WellTyped
<1>2. /\ DOMAIN n = DOMAIN cfg /\ n = [k \in DOMAIN n |-> n[k]] /\ n[key] = v
      /\ \A k \in DOMAIN cfg \ {key} : n[k] = cfg[k]
  BY <1>1
<1>3. WellTyped(n)
  BY <1>2 DEF IsConfig, WellTyped
<1> QED
  BY <1>2, <1>3 DEF IsConfig, IsEdit

\* Recording an event changes no promise.
LEMMA PromiseFacts ==
    ASSUME IsPromise(promise), NEW e
    PROVE  LET p == Promise(e) IN
           /\ IsPromise(p) /\ p.event = e /\ p.rules = promise.rules /\ p.allow = promise.allow
           /\ p.on = promise.on /\ p.ml = promise.ml /\ p.broker = promise.broker
  BY DEF IsPromise, Promise

\* What no step touched.
LEMMA IdleKept ==
    ASSUME WorldInv, NEW e, e # "load", promise' = Promise(e),
           UNCHANGED <<files, live, policy>>, up' = up \/ up' = FALSE
    PROVE  WorldInv'
<1>1. /\ IsPromise(promise') /\ promise'.event = e /\ promise'.rules = promise.rules
      /\ promise'.allow = promise.allow /\ promise'.on = promise.on
      /\ promise'.ml = promise.ml /\ promise'.broker = promise.broker
  BY PromiseFacts DEF WorldInv, ConfigShape
<1>2. OnDisk'
  BY <1>1 DEF WorldInv, OnDisk
<1> QED
  BY <1>1, <1>2, BetweenLoads DEF WorldInv, ConfigShape

\* A typed field of a configuration.
LEMMA FieldTypes ==
    ASSUME NEW cfg, IsConfig(cfg)
    PROVE  /\ cfg["rules"] \in Seq(Rules) /\ cfg["allow"] \in SUBSET Words
           /\ cfg["ml"] \in BOOLEAN /\ cfg["enabled"] \in BOOLEAN
           /\ cfg["profile"] \in Profiles
  BY DEF IsConfig, WellTyped, ConfigFields

\* The allow list replaced,
LEMMA AllowEdited ==
    ASSUME NEW cfg, IsConfig(cfg), NEW a \in SUBSET Words, NEW n, n = [cfg EXCEPT !.allow = a]
    PROVE  IsEdit(n, cfg, "allow", a)
<1>1. PICK key : key = "allow"
  OBVIOUS
<1>2. key \in ConfigFields /\ key # "rules" /\ key # "profile" /\ key \notin {"enabled", "ml"}
  BY <1>1 DEF ConfigFields
<1>3. n = [cfg EXCEPT ![key] = a]
  BY <1>1
<1>4. IsEdit(n, cfg, key, a)
  BY <1>2, <1>3, FieldFacts
<1> QED
  BY <1>1, <1>4

\* the rules replaced,
LEMMA RulesEdited ==
    ASSUME NEW cfg, IsConfig(cfg), NEW a \in Seq(Rules), NEW n, n = [cfg EXCEPT !.rules = a]
    PROVE  IsEdit(n, cfg, "rules", a)
<1>1. PICK key : key = "rules"
  OBVIOUS
<1>2. key \in ConfigFields /\ key # "allow" /\ key # "profile" /\ key \notin {"enabled", "ml"}
  BY <1>1 DEF ConfigFields
<1>3. n = [cfg EXCEPT ![key] = a]
  BY <1>1
<1>4. IsEdit(n, cfg, key, a)
  BY <1>2, <1>3, FieldFacts
<1> QED
  BY <1>1, <1>4

\* the model switched,
LEMMA MlEdited ==
    ASSUME NEW cfg, IsConfig(cfg), NEW a \in BOOLEAN, NEW n, n = [cfg EXCEPT !.ml = a]
    PROVE  IsEdit(n, cfg, "ml", a)
<1>1. PICK key : key = "ml"
  OBVIOUS
<1>2. key \in ConfigFields /\ key # "allow" /\ key # "profile" /\ key # "rules"
  BY <1>1 DEF ConfigFields
<1>3. n = [cfg EXCEPT ![key] = a]
  BY <1>1
<1>4. IsEdit(n, cfg, key, a)
  BY <1>2, <1>3, FieldFacts
<1> QED
  BY <1>1, <1>4

\* masking switched.
LEMMA EnabledEdited ==
    ASSUME NEW cfg, IsConfig(cfg), NEW a \in BOOLEAN, NEW n, n = [cfg EXCEPT !.enabled = a]
    PROVE  IsEdit(n, cfg, "enabled", a)
<1>1. PICK key : key = "enabled"
  OBVIOUS
<1>2. key \in ConfigFields /\ key # "allow" /\ key # "profile" /\ key # "rules"
  BY <1>1 DEF ConfigFields
<1>3. n = [cfg EXCEPT ![key] = a]
  BY <1>1
<1>4. IsEdit(n, cfg, key, a)
  BY <1>2, <1>3, FieldFacts
<1> QED
  BY <1>1, <1>4

\* The two switches change no file and no list.
LEMMA SwitchesKept ==
    ASSUME WorldInv, NEW on \in BOOLEAN, SetEnabled(on) \/ SetMl(on), UNCHANGED up
    PROVE  WorldInv'
<1>1. IsConfig(live) /\ IsPromise(promise)
  BY DEF WorldInv, ConfigShape
<1>2. CASE SetEnabled(on)
  <2>1. PICK n : n = [live EXCEPT !.enabled = on]
    OBVIOUS
  <2>2. IsEdit(n, live, "enabled", on) /\ live' = n
    BY <1>1, <1>2, <2>1, EnabledEdited DEF SetEnabled
  <2>3. IsConfig(live') /\ live'["ml"] = live["ml"]
    BY <2>2 DEF IsEdit, ConfigFields
  <2>4. /\ IsPromise(promise') /\ promise'.event = "switch" /\ promise'.rules = promise.rules
        /\ promise'.allow = promise.allow /\ promise'.ml = promise.ml
        /\ promise'.broker = promise.broker
    BY <1>1, <1>2 DEF SetEnabled, IsPromise, Promise
  <2>5. OnDisk'
    BY <1>2, <2>4 DEF WorldInv, OnDisk, SetEnabled
  <2> QED
    BY <1>2, <2>3, <2>4, <2>5, BetweenLoads DEF WorldInv, ConfigShape, SetEnabled
<1>3. CASE SetMl(on)
  <2>1. PICK n : n = [live EXCEPT !.ml = on]
    OBVIOUS
  <2>2. IsEdit(n, live, "ml", on) /\ live' = n
    BY <1>1, <1>3, <2>1, MlEdited DEF SetMl
  <2>3. IsConfig(live') /\ live'["ml"] = on
    BY <2>2 DEF IsEdit, ConfigFields
  <2>4. /\ IsPromise(promise') /\ promise'.event = "switch" /\ promise'.rules = promise.rules
        /\ promise'.allow = promise.allow /\ promise'.ml = on
        /\ promise'.broker = promise.broker
    BY <1>1, <1>3 DEF SetMl, IsPromise, Promise
  <2>5. OnDisk'
    BY <1>3, <2>4 DEF WorldInv, OnDisk, SetMl
  <2> QED
    BY <1>3, <2>3, <2>4, <2>5, BetweenLoads DEF WorldInv, ConfigShape, SetMl
<1> QED
  BY <1>2, <1>3

\* An accepted PUT keeps the live model switch (put_config).
LEMMA PutResultFacts ==
    ASSUME IsConfig(live), NEW over, WellTyped(over), NEW n, n = PutResult(over)
    PROVE  IsConfig(n) /\ n["ml"] = live["ml"]
<1>1. PICK c : c = Merge(live, over)
  OBVIOUS
<1>2. IsMerge(c, live, over)
  BY <1>1, MergeFacts DEF IsConfig
<1>3. IsConfig(c)
  BY <1>2 DEF IsMerge, IsConfig
<1>4. PICK w : w = WireRoundTrip(c)
  OBVIOUS
<1>5. PICK a : a = Defaults \cup c["allow"]
  OBVIOUS
<1>6. a \in SUBSET Words /\ w = [c EXCEPT !.allow = a]
  BY <1>3, <1>4, <1>5, FieldTypes, ConfigConstants DEF WireRoundTrip, BuildAllowList
<1>7. IsConfig(w)
  BY <1>3, <1>6, AllowEdited DEF IsEdit
<1>8. PICK on \in BOOLEAN : on = live["ml"]
  BY FieldTypes
<1>9. n = [w EXCEPT !.ml = on]
  BY <1>1, <1>4, <1>8 DEF PutResult
<1> QED
  BY <1>7, <1>8, <1>9, MlEdited DEF IsEdit

\* A PUT, of one patch or of a whole old copy.
LEMMA PutKept ==
    ASSUME WorldInv, NEW over, WellTyped(over), PutConfig(over), UNCHANGED up
    PROVE  WorldInv'
<1>1. IsConfig(live) /\ IsPromise(promise)
  BY DEF WorldInv, ConfigShape
<1>2. IsConfig(live') /\ live'["ml"] = live["ml"]
  <2>1. PICK n : n = PutResult(over)
    OBVIOUS
  <2>2. IsConfig(n) /\ n["ml"] = live["ml"]
    BY <1>1, <2>1, PutResultFacts
  <2> QED
    BY <1>1, <2>1, <2>2 DEF PutConfig
<1>3. /\ IsPromise(promise') /\ promise'.event = "put" /\ promise'.rules = promise.rules
      /\ promise'.allow \in {promise.allow, NotSaved} /\ promise'.ml = promise.ml
      /\ promise'.broker = promise.broker
  BY <1>1 DEF PutConfig, IsPromise, Promise
<1>4. OnDisk'
  BY <1>3 DEF WorldInv, OnDisk, PutConfig, Saved
<1> QED
  BY <1>2, <1>3, <1>4, BetweenLoads DEF WorldInv, ConfigShape, PutConfig

\* A profile, in memory and in the file of a scope.
LEMMA ProfileKept ==
    ASSUME WorldInv, NEW p \in Profiles, NEW scope \in Scopes \cup {"session"}, NEW ok \in BOOLEAN,
           ProfileAt(p, scope, ok), UNCHANGED up
    PROVE  WorldInv'
<1>1. IsConfig(live) /\ IsPromise(promise) /\ IsFiles(files)
  BY DEF WorldInv, ConfigShape
<1>2. IsConfig(live') /\ live'["ml"] = live["ml"]
  <2>1. PICK n : n = Merge(live, ProfileFields(p))
    OBVIOUS
  <2>2. /\ WellTyped(n) /\ DOMAIN n = DOMAIN live \cup {"profile", "threshold", "cats"}
        /\ \A k \in {"enabled", "ml"} \cap DOMAIN live : n[k] = live[k]
    BY <1>1, <2>1, ProfileFieldsFacts, ZenonT(60) DEF IsConfig
  <2> QED
    BY <1>1, <2>1, <2>2 DEF ProfileAt, IsConfig, ConfigFields
<1>3. IsFiles(files') /\ SameLists(files'["local"].val, files["local"].val)
  <2>1. CASE scope = "session"
    BY <1>1, <2>1 DEF ProfileAt, SameLists
  <2>2. CASE scope # "session"
    <3>1. PICK val, new : val = files[scope].val /\ new = Merge(val, ProfileFields(p))
      OBVIOUS
    <3>2. scope \in Scopes /\ WellTyped(val)
      BY <1>1, <2>2, <3>1 DEF IsFiles, FileTyped
    <3>3. WellTyped(new) /\ SameLists(new, val)
      BY <3>1, <3>2, ProfileFieldsFacts, ZenonT(60)
    <3>4. PICK n : n = Persisted(files, scope, new, ok)
      OBVIOUS
    <3>5. /\ IsFiles(n) /\ \A s \in Scopes \ {scope} : n[s] = files[s]
          /\ n[scope].val = new \/ n[scope].val = val
      BY <1>1, <3>1, <3>2, <3>3, <3>4, PersistedFacts
    <3>6. files' = n
      BY <2>2, <3>1, <3>4 DEF ProfileAt, PersistProfile
    <3>7. SameLists(val, val)
      BY DEF SameLists
    <3>8. CASE scope = "local"
      BY <3>1, <3>3, <3>5, <3>6, <3>7, <3>8
    <3>9. CASE scope # "local"
      <4>1. files'["local"] = files["local"]
        BY <3>5, <3>6, <3>9 DEF Scopes
      <4> QED
        BY <3>5, <3>6, <4>1 DEF SameLists
    <3> QED
      BY <3>5, <3>6, <3>8, <3>9
  <2> QED
    BY <2>1, <2>2
<1>4. /\ IsPromise(promise') /\ promise'.event = "profile" /\ promise'.rules = promise.rules
      /\ promise'.allow = promise.allow /\ promise'.ml = promise.ml
      /\ promise'.broker = promise.broker
  BY <1>1, PromiseFacts DEF ProfileAt
<1>5. OnDisk'
  BY <1>3, <1>4, SavedSame DEF WorldInv, OnDisk
<1> QED
  BY <1>2, <1>3, <1>4, <1>5, BetweenLoads DEF WorldInv, ConfigShape, ProfileAt

\* The policy the broker section asks for.
LEMMA PolicyTyped == ASSUME NEW val PROVE BrokerPolicy(val) \in {"rules", "deny"}
  BY DEF BrokerPolicy

\* A reload, taken or refused (reload_layers).
LEMMA ReloadKept ==
    ASSUME WorldInv, Reload, UNCHANGED up
    PROVE  WorldInv'
<1>1. IsConfig(live) /\ IsPromise(promise) /\ IsFiles(files)
  BY DEF WorldInv, ConfigShape
<1>2. PICK d : d = Deserialize(MergedValue(files))
  OBVIOUS
<1>3. IsConfig(d)
  <2>1. PICK m : m = MergedValue(files)
    OBVIOUS
  <2>2. WellTyped(m)
    BY <1>1, <2>1, LayersFacts
  <2> QED
    BY <1>2, <2>1, <2>2, DeserializeFacts
<1>4. PICK en \in BOOLEAN, ml \in BOOLEAN : en = live.enabled /\ ml = live.ml
  BY <1>1, FieldTypes
<1>5. PICK e : e = [d EXCEPT !.enabled = en]
  OBVIOUS
<1>6. PICK c : c = [e EXCEPT !.ml = ml]
  OBVIOUS
<1>7. IsEdit(e, d, "enabled", en)
  BY <1>3, <1>5, EnabledEdited
<1>8. IsEdit(c, e, "ml", ml)
  BY <1>6, <1>7, MlEdited DEF IsEdit
<1>9. /\ IsConfig(c) /\ c["ml"] = live["ml"]
      /\ c["rules"] = d["rules"] /\ c["allow"] = d["allow"]
  BY <1>4, <1>7, <1>8 DEF IsEdit, ConfigFields
<1>10. ReloadedConfig = c
  BY <1>2, <1>4, <1>5, <1>6 DEF ReloadedConfig
<1>11. PICK b : b = BrokerPolicy(MergedValue(files))
  OBVIOUS
<1>12. b \in {"rules", "deny"}
  BY <1>11, PolicyTyped
<1>13. /\ IsPromise(promise') /\ promise'.rules = promise.rules
       /\ promise'.allow = promise.allow /\ promise'.ml = promise.ml
       /\ promise'.event = (IF ReloadTakes THEN "load" ELSE "failed")
       /\ promise'.broker = (IF FilesParse(files) THEN b ELSE "deny")
  BY <1>1, <1>11 DEF Reload, IsPromise, Promise
<1>14. OnDisk'
  BY <1>13 DEF WorldInv, OnDisk, Reload
<1>15. IsConfig(live') /\ live'["ml"] = live["ml"]
  BY <1>1, <1>9, <1>10 DEF Reload
<1>16. policy' \in {"rules", "deny"} /\ (policy' = "rules" => promise'.broker = "rules")
  BY <1>11, <1>12, <1>13 DEF Reload, ReloadedPolicy, ReloadTakes
<1>17. ConfigShape' /\ BrokerFollowsFiles' /\ MlIsLiveOwned'
  BY <1>13, <1>15, <1>16
     DEF WorldInv, ConfigShape, BrokerFollowsFiles, MlIsLiveOwned, Reload
<1>18. AdditionsSurvive' /\ AllowListSurvives'
  <2>1. CASE ~ReloadTakes
    BY <1>13, <2>1 DEF AdditionsSurvive, AllowListSurvives, InForce
  <2>2. CASE ReloadTakes
    <3>1. live' = c
      BY <1>10, <2>2 DEF Reload
    <3>2. PICK rules, allow : rules \in Seq(Rules) /\ rules = promise.rules /\ allow = promise.allow
      BY <1>1 DEF IsPromise
    <3>3. Saved(files["local"].val, rules, allow)
      BY <3>2 DEF WorldInv, OnDisk
    <3>4. InForce(c, rules, allow)
      <4>1. /\ c["rules"] = Deserialize(MergedValue(files))["rules"]
            /\ c["allow"] = Deserialize(MergedValue(files))["allow"]
        BY <1>2, <1>9
      <4> QED
        BY <1>1, <3>2, <3>3, <4>1, LoadedHolds
    <3> QED
      BY <1>13, <3>1, <3>2, <3>4 DEF AdditionsSurvive, AllowListSurvives, InForce
  <2> QED
    BY <2>1, <2>2
<1> QED
  BY <1>14, <1>17, <1>18 DEF WorldInv

\* A start reads everything anew.
LEMMA StartKept ==
    ASSUME WorldInv, ProxyStart
    PROVE  WorldInv'
<1>1. IsPromise(promise) /\ IsFiles(files)
  BY DEF WorldInv, ConfigShape
<1>2. PICK d : d = Deserialize(MergedValue(files))
  OBVIOUS
<1>3. IsConfig(d)
  <2>1. PICK m : m = MergedValue(files)
    OBVIOUS
  <2>2. WellTyped(m)
    BY <1>1, <2>1, LayersFacts
  <2> QED
    BY <1>2, <2>1, <2>2, DeserializeFacts
<1>4. PICK b : b = BrokerPolicy(MergedValue(files))
  OBVIOUS
<1>5. b \in {"rules", "deny"}
  BY <1>4, PolicyTyped
<1>6. live' = d /\ policy' = b /\ files' = files /\ up' = TRUE
  BY <1>2, <1>4 DEF ProxyStart
<1>7. /\ IsPromise(promise') /\ promise'.rules = promise.rules
      /\ promise'.allow = promise.allow /\ promise'.ml = d.ml /\ promise'.broker = b
  BY <1>1, <1>6 DEF ProxyStart, IsPromise, Promise
<1>8. OnDisk'
  BY <1>6, <1>7 DEF WorldInv, OnDisk
<1>9. ConfigShape' /\ BrokerFollowsFiles' /\ MlIsLiveOwned'
  BY <1>1, <1>3, <1>5, <1>6, <1>7 DEF ConfigShape, BrokerFollowsFiles, MlIsLiveOwned
<1>10. AdditionsSurvive' /\ AllowListSurvives'
  <2>1. PICK rules, allow : rules \in Seq(Rules) /\ rules = promise.rules /\ allow = promise.allow
    BY <1>1 DEF IsPromise
  <2>2. Saved(files["local"].val, rules, allow)
    BY <2>1 DEF WorldInv, OnDisk
  <2>3. InForce(d, rules, allow)
    <3>1. PICK c : c = d
      OBVIOUS
    <3>2. /\ c["rules"] = Deserialize(MergedValue(files))["rules"]
          /\ c["allow"] = Deserialize(MergedValue(files))["allow"]
      BY <1>2, <3>1
    <3>3. InForce(c, rules, allow)
      BY <1>1, <2>1, <2>2, <3>2, LoadedHolds
    <3> QED
      BY <3>1, <3>3
  <2> QED
    BY <1>6, <1>7, <2>1, <2>3 DEF AdditionsSurvive, AllowListSurvives, InForce
<1> QED
  BY <1>8, <1>9, <1>10 DEF WorldInv

\* A custom mask, persisted or not.
LEMMA MaskKept ==
    ASSUME WorldInv, CustomMask
    PROVE  WorldInv'
<1>1. IsConfig(live) /\ IsPromise(promise) /\ IsFiles(files)
  BY DEF WorldInv, ConfigShape
<1>2. PICK r \in Rules \ Uncompilable, ok \in BOOLEAN :
          /\ live' = [live EXCEPT !.rules = Append(@, r)]
          /\ files' = PersistCustomReplacement(files, r, ok)
          /\ promise' = [Promise("mask") EXCEPT
                            !.rules = IF Wrote(files, "local", ok)
                                      THEN Append(@, r) ELSE @]
  BY DEF CustomMask
<1>3. PICK rules, allow : rules \in Seq(Rules) /\ rules = promise.rules /\ allow = promise.allow
  BY <1>1 DEF IsPromise
<1>4. PICK more : more = IF Wrote(files, "local", ok) THEN Append(rules, r) ELSE rules
  OBVIOUS
<1>5. more \in Seq(Rules)
  BY <1>3, <1>4, AppendFacts
<1>6. Saved(files["local"].val, rules, allow)
  BY <1>3 DEF WorldInv, OnDisk
<1>7. PICK n : n = PersistCustomReplacement(files, r, ok)
  OBVIOUS
<1>8. IsFiles(n) /\ Saved(n["local"].val, more, allow)
  BY <1>1, <1>3, <1>4, <1>6, <1>7, CustomKept, ZenonT(60)
<1>9. /\ IsPromise(promise') /\ promise'.event = "mask" /\ promise'.rules = more
      /\ promise'.allow = allow /\ promise'.ml = promise.ml /\ promise'.broker = promise.broker
  BY <1>1, <1>2, <1>3, <1>4, <1>5 DEF IsPromise, Promise
<1>10. IsConfig(live') /\ live'["ml"] = live["ml"]
  <2>1. PICK a, c : a = Append(live["rules"], r) /\ c = [live EXCEPT !.rules = a]
    OBVIOUS
  <2>2. a \in Seq(Rules) /\ live' = c
    BY <1>1, <1>2, <2>1, FieldTypes, AppendFacts
  <2>3. IsEdit(c, live, "rules", a)
    BY <1>1, <2>1, <2>2, RulesEdited
  <2> QED
    BY <2>2, <2>3 DEF IsEdit, ConfigFields
<1>11. OnDisk' /\ IsFiles(files')
  BY <1>2, <1>7, <1>8, <1>9 DEF OnDisk
<1> QED
  BY <1>9, <1>10, <1>11, BetweenLoads DEF CustomMask

\* A custom mask removed.
LEMMA RemoveKept ==
    ASSUME WorldInv, CustomMasksRemove
    PROVE  WorldInv'
<1>1. IsConfig(live) /\ IsPromise(promise) /\ IsFiles(files)
  BY DEF WorldInv, ConfigShape
<1>2. PICK r \in Rules :
          /\ live' = [live EXCEPT !.rules = RemoveFirst(@, r)]
          /\ files' = RemoveCustomReplacement(files, r)
          /\ promise' = [Promise("remove") EXCEPT !.rules = RemoveFirst(@, r)]
  BY DEF CustomMasksRemove
<1>3. PICK rules, allow : rules \in Seq(Rules) /\ rules = promise.rules /\ allow = promise.allow
  BY <1>1 DEF IsPromise
<1>4. PICK less : less = RemoveFirst(rules, r)
  OBVIOUS
<1>5. less \in Seq(Rules)
  BY <1>3, <1>4, RemoveFirstFacts
<1>6. Saved(files["local"].val, rules, allow)
  BY <1>3 DEF WorldInv, OnDisk
<1>7. PICK n : n = RemoveCustomReplacement(files, r)
  OBVIOUS
<1>8. IsFiles(n) /\ Saved(n["local"].val, less, allow)
  BY <1>1, <1>3, <1>4, <1>6, <1>7, RemovalKept, ZenonT(60)
<1>9. /\ IsPromise(promise') /\ promise'.event = "remove" /\ promise'.rules = less
      /\ promise'.allow = allow /\ promise'.ml = promise.ml /\ promise'.broker = promise.broker
  BY <1>1, <1>2, <1>3, <1>4, <1>5 DEF IsPromise, Promise
<1>10. IsConfig(live') /\ live'["ml"] = live["ml"]
  <2>1. PICK a, c : a = RemoveFirst(live["rules"], r) /\ c = [live EXCEPT !.rules = a]
    OBVIOUS
  <2>2. a \in Seq(Rules) /\ live' = c
    BY <1>1, <1>2, <2>1, FieldTypes, RemoveFirstFacts
  <2>3. IsEdit(c, live, "rules", a)
    BY <1>1, <2>1, <2>2, RulesEdited
  <2> QED
    BY <2>2, <2>3 DEF IsEdit, ConfigFields
<1>11. OnDisk' /\ IsFiles(files')
  BY <1>2, <1>7, <1>8, <1>9 DEF OnDisk
<1> QED
  BY <1>9, <1>10, <1>11, BetweenLoads DEF CustomMasksRemove

\* An endpoint that changes the allow list, whatever it dropped from the rules.
LEMMA AllowChanged ==
    ASSUME WorldInv, NEW fs, IsFiles(fs), NEW rules \in Seq(Rules),
           Saved(fs["local"].val, rules, promise.allow),
           NEW a \in SUBSET Words, NEW ok \in BOOLEAN, NEW e, e # "load",
           AfterAllowChange(fs, a, ok, e, rules),
           IsConfig(live'), live'["ml"] = live["ml"], UNCHANGED <<policy, up>>
    PROVE  WorldInv'
<1>1. IsPromise(promise)
  BY DEF WorldInv, ConfigShape
<1>2. PICK old : old = promise.allow
  OBVIOUS
<1>3. PICK n : n = PersistLocalAllowLists(fs, a, ok)
  OBVIOUS
<1>4. PICK new : new = IF Wrote(fs, "local", ok) THEN a ELSE NotSaved
  OBVIOUS
<1>5. IsFiles(n) /\ Saved(n["local"].val, rules, new)
  BY <1>2, <1>3, <1>4, AllowKept, ZenonT(60)
<1>6. files' = n
  BY <1>3 DEF AfterAllowChange
<1>7. /\ IsPromise(promise') /\ promise'.event = e /\ promise'.rules = rules
      /\ promise'.allow = new /\ promise'.ml = promise.ml /\ promise'.broker = promise.broker
  BY <1>1, <1>4 DEF AfterAllowChange, IsPromise, Promise
<1>8. OnDisk'
  BY <1>5, <1>6, <1>7 DEF OnDisk
<1> QED
  BY <1>5, <1>6, <1>7, <1>8, BetweenLoads

\* A value masked again.
LEMMA RemaskKept ==
    ASSUME WorldInv, RemaskKeyphrase
    PROVE  WorldInv'
<1>1. IsConfig(live) /\ IsPromise(promise) /\ IsFiles(files)
  BY DEF WorldInv, ConfigShape
<1>2. PICK w \in Words, ok \in BOOLEAN :
          /\ live' = [live EXCEPT !.allow = @ \ {w}]
          /\ AfterAllowChange(files, live'.allow, ok, "remask", promise.rules)
  BY DEF RemaskKeyphrase
<1>3. PICK a, c : a = live["allow"] \ {w} /\ c = [live EXCEPT !.allow = a]
  OBVIOUS
<1>4. a \in SUBSET Words /\ live' = c
  BY <1>1, <1>2, <1>3, FieldTypes
<1>5. IsEdit(c, live, "allow", a)
  BY <1>1, <1>3, <1>4, AllowEdited
<1>6. IsConfig(live') /\ live'["ml"] = live["ml"] /\ live'["allow"] = a
  BY <1>4, <1>5 DEF IsEdit, ConfigFields
<1>7. PICK rules \in Seq(Rules) : rules = promise.rules
  BY <1>1 DEF IsPromise
<1>8. PICK fs, e : fs = files /\ e = "remask"
  OBVIOUS
<1>9. AfterAllowChange(fs, a, ok, e, rules)
  BY <1>2, <1>6, <1>7, <1>8
<1>10. IsFiles(fs) /\ Saved(fs["local"].val, rules, promise.allow) /\ e # "load"
  BY <1>1, <1>7, <1>8 DEF WorldInv, OnDisk
<1>11. UNCHANGED <<policy, up>>
  BY DEF RemaskKeyphrase
<1> QED
  BY <1>4, <1>6, <1>9, <1>10, <1>11, AllowChanged

\* A value revealed, with or without a rule behind it.
LEMMA RevealKept ==
    ASSUME WorldInv, RevealKeyphrase
    PROVE  WorldInv'
<1>1. IsConfig(live) /\ IsPromise(promise) /\ IsFiles(files)
  BY DEF WorldInv, ConfigShape
<1> DEFINE Back(backing) == {r \in backing : Contains(live.rules, r)}
           Drop(gone, s) == IF gone = {} THEN s ELSE RemoveFirst(s, CHOOSE r \in gone : TRUE)
           Left(gone) == IF gone = {} THEN files
                         ELSE RemoveCustomReplacement(files, CHOOSE r \in gone : TRUE)
<1>2. PICK w \in Words, backing \in {{}} \cup {{r} : r \in Rules}, ok \in BOOLEAN :
          /\ live' = [live EXCEPT !.rules = Drop(Back(backing), @), !.allow = @ \cup {w}]
          /\ AfterAllowChange(Left(Back(backing)), live'.allow, ok, "reveal",
                              Drop(Back(backing), promise.rules))
  BY DEF RevealKeyphrase
<1>3. PICK gone : gone = Back(backing)
  OBVIOUS
<1>4. gone \subseteq Rules
  BY <1>2, <1>3
<1>5. PICK rules, old : rules \in Seq(Rules) /\ rules = promise.rules /\ old = promise.allow
  BY <1>1 DEF IsPromise
<1>6. PICK now \in Seq(Rules) : now = live["rules"]
  BY <1>1, FieldTypes
<1>7. PICK fs, less, left : fs = Left(gone) /\ less = Drop(gone, rules) /\ left = Drop(gone, now)
  OBVIOUS
<1>8. Saved(files["local"].val, rules, old)
  BY <1>5 DEF WorldInv, OnDisk
<1>9. /\ IsFiles(fs) /\ less \in Seq(Rules) /\ left \in Seq(Rules)
      /\ Saved(fs["local"].val, less, old)
  <2>1. CASE gone = {}
    BY <1>1, <1>5, <1>7, <1>8, <2>1
  <2>2. CASE gone # {}
    <3>1. PICK g \in Rules : g = CHOOSE r \in gone : TRUE
      BY <1>4, <2>2
    <3>2. /\ fs = RemoveCustomReplacement(files, g)
          /\ less = RemoveFirst(rules, g) /\ left = RemoveFirst(now, g)
      BY <1>7, <2>2, <3>1
    <3> HIDE DEF Drop, Left
    <3>3. less \in Seq(Rules) /\ left \in Seq(Rules)
      BY <1>5, <3>2, RemoveFirstFacts
    <3>4. IsFiles(fs) /\ Saved(fs["local"].val, less, old)
      BY <1>1, <1>5, <1>8, <3>2, RemovalKept, ZenonT(60)
    <3> QED
      BY <3>3, <3>4
  <2> QED
    BY <2>1, <2>2
<1>10. PICK b, a, c : /\ b = [live EXCEPT !.rules = left] /\ a = live["allow"] \cup {w}
                      /\ c = [b EXCEPT !.allow = a]
  OBVIOUS
<1>11. a \in SUBSET Words
  BY <1>1, <1>2, <1>10, FieldTypes
<1>12. IsEdit(b, live, "rules", left)
  BY <1>1, <1>9, <1>10, RulesEdited
<1>13. IsEdit(c, b, "allow", a)
  <2>1. IsConfig(b) /\ c = [b EXCEPT !.allow = a]
    BY <1>10, <1>12 DEF IsEdit
  <2> QED
    BY <1>11, <2>1, AllowEdited
<1>14. live' = c
  <2>1. live' = [live EXCEPT !.rules = Drop(gone, live["rules"]), !.allow = live["allow"] \cup {w}]
    BY <1>2, <1>3
  <2>2. live' = [live EXCEPT !.rules = left, !.allow = a]
    BY <1>6, <1>7, <1>10, <2>1
  <2> HIDE DEF Drop, Left, Back
  <2> QED
    BY <1>10, <2>2
<1>15. IsConfig(live') /\ live'["ml"] = live["ml"] /\ live'["allow"] = a
  BY <1>12, <1>13, <1>14 DEF IsEdit, ConfigFields
<1>16. PICK e : e = "reveal"
  OBVIOUS
<1>17. AfterAllowChange(fs, a, ok, e, less)
  BY <1>2, <1>3, <1>5, <1>7, <1>15, <1>16
<1>18. Saved(fs["local"].val, less, promise.allow) /\ e # "load"
  BY <1>5, <1>9, <1>16
<1>19. UNCHANGED <<policy, up>>
  BY DEF RevealKeyphrase
<1> HIDE DEF Drop, Left, Back
<1> QED
  BY <1>9, <1>11, <1>15, <1>17, <1>18, <1>19, AllowChanged

\* A file that is replaced, whatever it held.
IsReplaced(n, fs, s, f) ==
    IsFiles(n) /\ n[s] = f /\ (s # "local" => n["local"] = fs["local"])

LEMMA ReplacedFacts ==
    ASSUME NEW fs, IsFiles(fs), NEW s \in Scopes, NEW f, FileTyped(f),
           NEW n, n = [fs EXCEPT ![s] = f]
    PROVE  IsReplaced(n, fs, s, f)
  BY DEF IsReplaced, IsFiles, Scopes

\* The operator's editor replaces one file.
LEMMA EditKept ==
    ASSUME WorldInv, HandEdit
    PROVE  WorldInv'
<1>1. IsConfig(live) /\ IsPromise(promise) /\ IsFiles(files)
  BY DEF WorldInv, ConfigShape
<1>2. PICK s \in Scopes, draft \in Drafts :
          /\ files' = [files EXCEPT ![s] = draft]
          /\ promise' = IF s = "local"
                        THEN [Promise("edit") EXCEPT !.rules = <<>>, !.allow = NotSaved]
                        ELSE Promise("edit")
  BY DEF HandEdit
<1>3. FileTyped(draft)
  BY ConfigInputs
<1>4. PICK n : n = [files EXCEPT ![s] = draft]
  OBVIOUS
<1>5. IsFiles(n) /\ n[s] = draft /\ (s # "local" => n["local"] = files["local"])
  <2>1. IsReplaced(n, files, s, draft)
    BY <1>1, <1>3, <1>4, ReplacedFacts
  <2> QED
    BY <2>1 DEF IsReplaced
<1>6. /\ IsPromise(promise') /\ promise'.event = "edit" /\ promise'.ml = promise.ml
      /\ promise'.broker = promise.broker
      /\ IF s = "local" THEN promise'.rules = <<>> /\ promise'.allow = NotSaved
         ELSE promise'.rules = promise.rules /\ promise'.allow = promise.allow
  <2>1. PICK none : none = <<>>
    OBVIOUS
  <2>2. none \in Seq(Rules)
    BY <2>1
  <2> QED
    BY <1>1, <1>2, <2>1, <2>2 DEF IsPromise, Promise
<1>7. OnDisk'
  <2>1. CASE s = "local"
    <3>1. WellTyped(draft.val)
      BY <1>3 DEF FileTyped
    <3> QED
      BY <1>2, <1>4, <1>5, <1>6, <2>1, <3>1, SavedNothing DEF OnDisk
  <2>2. CASE s # "local"
    BY <1>2, <1>4, <1>5, <1>6, <2>2 DEF WorldInv, OnDisk
  <2> QED
    BY <2>1, <2>2
<1> QED
  BY <1>1, <1>2, <1>4, <1>5, <1>6, <1>7, BetweenLoads DEF HandEdit

\* What the command line's process has, at each of its steps.
CliShape ==
    /\ cli.pc \in {"idle", "call", "get", "put", "read", "write", "reload", "switch"}
    /\ cli.pc # "idle" =>
          /\ CommandTyped(cli.cmd)
          /\ cli.cmd.key = "profile" => cli.value \in Profiles
          /\ cli.cmd.key \in {"enabled", "ml"} => cli.value \in BOOLEAN
    /\ cli.pc = "reload" => cli = [pc |-> "reload", cmd |-> cli.cmd, ident |-> cli.ident,
                                   value |-> cli.value]
    /\ cli.pc \in {"read", "write"} => cli.cmd.scope \in Scopes
    /\ cli.pc \in {"get", "put"} => cli.cmd.key \in {"threshold", "cats"}
    /\ cli.pc = "switch" => cli.cmd.key \in {"enabled", "ml"}
    /\ cli.pc = "put" => WellTyped(cli.got)
    /\ cli.pc = "write" =>
          /\ WellTyped(cli.doc)
          /\ ~cli.seen.broken => cli.doc = cli.seen.val

ConfigInv == WorldInv /\ CliShape

\* A command of the process, with what it was asked to set.
Asked(c, v) ==
    /\ CommandTyped(c)
    /\ c.key = "profile" => v \in Profiles
    /\ c.key \in {"enabled", "ml"} => v \in BOOLEAN

\* The process holds a command and a value that fits it.
LEMMA AskedFacts ==
    ASSUME CliShape, cli.pc # "idle"
    PROVE  Asked(cli.cmd, cli.value)
  BY DEF CliShape, Asked

\* A process that has ended.
LEMMA IdleShape == ASSUME cli' = NoCli PROVE CliShape'
  BY DEF NoCli, CliShape

\* A session command: one call.
LEMMA CallKept ==
    ASSUME ConfigInv, CliCall
    PROVE  WorldInv'
<1>1. PICK c, v : c = cli.cmd /\ v = cli.value
  OBVIOUS
<1>2. Asked(c, v)
  BY <1>1, AskedFacts DEF ConfigInv, CliCall
<1>3. UNCHANGED up
  BY DEF CliCall
<1>4. CASE ~up
  <2>1. PICK e : e = "cli"
    OBVIOUS
  <2> QED
    BY <1>3, <1>4, <2>1, IdleKept DEF ConfigInv, CliCall
<1>5. CASE up /\ c.key = "enabled"
  <2>1. v \in BOOLEAN /\ SetEnabled(v)
    BY <1>1, <1>2, <1>5 DEF Asked, CliCall
  <2> QED
    BY <1>3, <2>1, SwitchesKept DEF ConfigInv
<1>6. CASE up /\ c.key = "ml"
  <2>1. v \in BOOLEAN /\ SetMl(v)
    BY <1>1, <1>2, <1>6 DEF Asked, CliCall
  <2> QED
    BY <1>3, <2>1, SwitchesKept DEF ConfigInv
<1>7. CASE up /\ c.key = "profile"
  <2>1. \E ok \in BOOLEAN : ProfileAt(v, c.scope, ok)
    BY <1>1, <1>7 DEF CliCall
  <2>2. PICK scope : scope = c.scope
    OBVIOUS
  <2>3. PICK ok \in BOOLEAN : ProfileAt(v, scope, ok)
    BY <2>1, <2>2
  <2>4. v \in Profiles /\ scope \in Scopes \cup {"session"}
    BY <1>2, <1>7, <2>2 DEF Asked, CommandTyped
  <2> QED
    BY <1>3, <2>3, <2>4, ProfileKept DEF ConfigInv
<1>8. CASE up /\ c.key \notin {"enabled", "ml", "profile"}
  <2>1. PICK k, o : k = c.key /\ o = Only(k, v)
    OBVIOUS
  <2>2. k \notin {"rules", "allow", "enabled", "ml", "profile"}
    BY <1>2, <1>8, <2>1 DEF Asked, CommandTyped
  <2>3. WellTyped(o)
    BY <2>1, <2>2, OnlyFacts
  <2>4. PutConfig(o)
    BY <1>1, <1>8, <2>1 DEF CliCall
  <2> QED
    BY <1>3, <2>3, <2>4, PutKept DEF ConfigInv
<1> QED
  BY <1>4, <1>5, <1>6, <1>7, <1>8

\* A session command that puts the whole configuration back.
LEMMA PutBackKept ==
    ASSUME ConfigInv, CliPut
    PROVE  WorldInv'
<1>1. PICK k, v, got : k = cli.cmd.key /\ v = cli.value /\ got = cli.got
  OBVIOUS
<1>2. k \in {"threshold", "cats"} /\ WellTyped(got)
  BY <1>1 DEF ConfigInv, CliShape, CliPut
<1>3. CASE ~up
  <2>1. PICK e : e = "cli"
    OBVIOUS
  <2> QED
    BY <1>3, <2>1, IdleKept DEF ConfigInv, CliPut
<1>4. CASE up
  <2>1. PICK o : o = SetKey(got, k, v)
    OBVIOUS
  <2>2. /\ k \notin {"rules", "allow"} /\ (k = "profile" => v \in Profiles)
        /\ (k \in {"enabled", "ml"} => v \in BOOLEAN)
    BY <1>2
  <2>3. WellTyped(o)
    BY <1>2, <2>1, <2>2, SetKeyFacts
  <2>4. PutConfig(o) /\ UNCHANGED up
    BY <1>1, <1>4, <2>1 DEF CliPut
  <2> QED
    BY <2>3, <2>4, PutKept DEF ConfigInv
<1> QED
  BY <1>3, <1>4

\* The command line's edit leaves the two lists alone.
LEMMA EditedFacts ==
    ASSUME NEW doc, WellTyped(doc), NEW c, NEW v, Asked(c, v), NEW n, n = Edited(doc, c, v)
    PROVE  WellTyped(n) /\ SameLists(n, doc)
<1>1. PICK k : k = c.key
  OBVIOUS
<1>2. /\ k \notin {"rules", "allow"} /\ (k = "profile" => v \in Profiles)
      /\ (k \in {"enabled", "ml"} => v \in BOOLEAN)
  BY <1>1 DEF Asked, CommandTyped
<1>3. CASE c.what = "clear"
  <2>1. n = Unset(doc, k)
    BY <1>1, <1>3 DEF Edited
  <2> QED
    BY <1>2, <2>1, UnsetFacts
<1>4. CASE c.what # "clear" /\ k = "profile"
  <2>1. n = Merge(doc, ProfileFields(v)) /\ v \in Profiles
    BY <1>1, <1>2, <1>4 DEF Edited
  <2> QED
    BY <2>1, ProfileFieldsFacts, ZenonT(60)
<1>5. CASE c.what # "clear" /\ k # "profile"
  <2>1. n = SetKey(doc, k, v)
    BY <1>1, <1>5 DEF Edited
  <2>2. WellTyped(SetKey(doc, k, v)) /\ SameLists(SetKey(doc, k, v), doc)
    BY <1>2, SetKeyFacts
  <2> QED
    BY <2>1, <2>2
<1> QED
  BY <1>3, <1>4, <1>5

\* The command line's write: over the file it read, or over what came since.
LEMMA WriteKept ==
    ASSUME ConfigInv, CliWrite
    PROVE  WorldInv'
<1>1. IsConfig(live) /\ IsPromise(promise) /\ IsFiles(files)
  BY DEF ConfigInv, WorldInv, ConfigShape
<1>2. PICK c, v, doc, read : c = cli.cmd /\ v = cli.value /\ doc = cli.doc /\ read = cli.seen
  OBVIOUS
<1>3. PICK s : s = c.scope
  OBVIOUS
<1>4. /\ Asked(c, v) /\ s \in Scopes /\ WellTyped(doc)
      /\ ~read.broken => doc = read.val
  <2>1. cli.pc = "write"
    BY DEF CliWrite
  <2>2. Asked(c, v)
    BY <1>2, <2>1, AskedFacts DEF ConfigInv
  <2> QED
    BY <1>2, <1>3, <2>1, <2>2 DEF ConfigInv, CliShape
<1>5. PICK new : new = Edited(doc, c, v)
  OBVIOUS
<1>6. WellTyped(new) /\ SameLists(new, doc)
  BY <1>4, <1>5, EditedFacts
<1>7. PICK f : f = [broken |-> FALSE, val |-> new]
  OBVIOUS
<1>8. FileTyped(f) /\ f.val = new
  BY <1>6, <1>7 DEF FileTyped
<1>9. PICK n : n = [files EXCEPT ![s] = f]
  OBVIOUS
<1>10. IsReplaced(n, files, s, f) /\ files' = n
  <2>1. files' = n
    BY <1>2, <1>3, <1>5, <1>7, <1>9 DEF CliWrite
  <2> QED
    BY <1>1, <1>4, <1>8, <1>9, <2>1, ReplacedFacts
<1> DEFINE Lost == s = "local" /\ (read # files["local"] \/ read.broken)
<1>11. promise' = IF Lost THEN [Promise("cli") EXCEPT !.rules = <<>>, !.allow = NotSaved]
                  ELSE Promise("cli")
  BY <1>2, <1>3 DEF CliWrite
<1>12. /\ IsPromise(promise') /\ promise'.event = "cli" /\ promise'.ml = promise.ml
       /\ promise'.broker = promise.broker
       /\ IF Lost THEN promise'.rules = <<>> /\ promise'.allow = NotSaved
          ELSE promise'.rules = promise.rules /\ promise'.allow = promise.allow
  <2>1. PICK none : none = <<>>
    OBVIOUS
  <2>2. none \in Seq(Rules)
    BY <2>1
  <2> HIDE DEF Lost
  <2> QED
    BY <1>1, <1>11, <2>1, <2>2 DEF IsPromise, Promise
<1>13. OnDisk'
  <2>1. CASE Lost
    BY <1>6, <1>8, <1>10, <1>12, <2>1, SavedNothing DEF OnDisk, IsReplaced
  <2>2. CASE ~Lost /\ s = "local"
    <3>1. SameLists(new, files["local"].val)
      BY <1>4, <1>6, <2>2
    <3>2. Saved(new, promise.rules, promise.allow)
      BY <3>1, SavedSame DEF ConfigInv, WorldInv, OnDisk
    <3> QED
      BY <1>8, <1>10, <1>12, <2>2, <3>2 DEF OnDisk, IsReplaced
  <2>3. CASE s # "local"
    BY <1>10, <1>12, <2>3 DEF ConfigInv, WorldInv, OnDisk, IsReplaced
  <2> QED
    BY <2>1, <2>2, <2>3
<1>14. UNCHANGED <<live, policy, up>>
  BY DEF CliWrite
<1> HIDE DEF Lost
<1>15. IsFiles(files')
  BY <1>10 DEF IsReplaced
<1> QED
  BY <1>1, <1>12, <1>13, <1>14, <1>15, BetweenLoads DEF ConfigInv

\* The endpoints, and the proxy's stop, start and reload.
Endpoint ==
    \/ PutPatch \/ ApplyProfile \/ Switch \/ ReloadCall
    \/ CustomMask \/ CustomMasksRemove \/ RevealKeyphrase \/ RemaskKeyphrase
    \/ ProxyStop \/ ProxyStart \/ HandEdit

\* Every step that is not the command line's.
LEMMA EndpointKept ==
    ASSUME WorldInv, Endpoint
    PROVE  WorldInv' /\ cli' = cli
<1>1. cli' = cli
  BY DEF Endpoint, PutPatch, ApplyProfile, Switch, ReloadCall, CustomMask, CustomMasksRemove,
         RevealKeyphrase, RemaskKeyphrase, ProxyStop, ProxyStart, HandEdit
<1>2. ASSUME PutPatch PROVE WorldInv'
  <2>1. PICK patch \in Patches : PutConfig(patch)
    BY <1>2 DEF PutPatch
  <2>2. WellTyped(patch)
    BY ConfigInputs
  <2> QED
    BY <1>2, <2>1, <2>2, PutKept DEF PutPatch
<1>3. ASSUME ApplyProfile PROVE WorldInv'
  <2>1. PICK p \in Profiles, scope \in Scopes \cup {"session"}, ok \in BOOLEAN :
            ProfileAt(p, scope, ok)
    BY <1>3 DEF ApplyProfile
  <2> QED
    BY <1>3, <2>1, ProfileKept DEF ApplyProfile
<1>4. ASSUME Switch PROVE WorldInv'
  <2>1. PICK on \in BOOLEAN : SetEnabled(on) \/ SetMl(on)
    BY <1>4 DEF Switch
  <2> QED
    BY <1>4, <2>1, SwitchesKept DEF Switch
<1>5. ASSUME ReloadCall PROVE WorldInv'
  BY <1>5, ReloadKept DEF ReloadCall
<1>6. ASSUME ProxyStop PROVE WorldInv'
  <2>1. PICK e : e = "stop"
    OBVIOUS
  <2> QED
    BY <1>6, <2>1, IdleKept DEF ProxyStop
<1> QED
  BY <1>1, <1>2, <1>3, <1>4, <1>5, <1>6, MaskKept, RemoveKept, RevealKept, RemaskKept,
     StartKept, EditKept DEF Endpoint

\* A command as it starts.
LEMMA StartShape ==
    ASSUME ConfigInv, CliStart
    PROVE  CliShape'
<1>1. PICK c \in Commands :
          cli' = [ pc |-> IF c.key = "profile" /\ up THEN "call" ELSE CliPc(c),
                   cmd |-> c, ident |-> up, value |-> CommandValue(c) ]
  BY DEF CliStart
<1>2. CommandTyped(c)
  BY ConfigInputs
<1>3. PICK v : v = CommandValue(c)
  OBVIOUS
<1>4. /\ c.key = "profile" => v \in Profiles
      /\ c.key \in {"enabled", "ml"} => v \in BOOLEAN
  BY <1>2, <1>3 DEF CommandValue, CommandTyped
<1>5. PICK pc : pc = IF c.key = "profile" /\ up THEN "call" ELSE CliPc(c)
  OBVIOUS
<1>6. /\ pc \in {"call", "read", "get"} /\ (pc = "read" => c.scope \in Scopes)
      /\ pc = "get" => c.key \in {"threshold", "cats"}
  BY <1>2, <1>5 DEF CliPc, CommandTyped
<1>7. cli'.pc = pc /\ cli'.cmd = c /\ cli'.value = v
  BY <1>1, <1>3, <1>5
<1> QED
  BY <1>2, <1>4, <1>6, <1>7 DEF CliShape

\* Every step of the command line's process.
LEMMA ProcessKept ==
    ASSUME ConfigInv,
           \/ CliStart \/ CliCall \/ CliGet \/ CliPut
           \/ CliRead \/ CliWrite \/ CliReload \/ CliSwitch
    PROVE  ConfigInv'
<1>1. PICK e : e = "cli"
  OBVIOUS
<1>2. e # "load"
  BY <1>1
<1>3. IsConfig(live) /\ IsFiles(files)
  BY DEF ConfigInv, WorldInv, ConfigShape
<1>4. ASSUME CliStart PROVE ConfigInv'
  <2>1. WorldInv'
    BY <1>1, <1>2, <1>4, IdleKept DEF ConfigInv, CliStart
  <2> QED
    BY <1>4, <2>1, StartShape DEF ConfigInv
<1>5. ASSUME CliCall PROVE ConfigInv'
  <2>1. CliShape'
    BY <1>5, IdleShape DEF CliCall
  <2> QED
    BY <1>5, <2>1, CallKept DEF ConfigInv
<1>6. ASSUME CliGet PROVE ConfigInv'
  <2>1. WorldInv'
    BY <1>1, <1>2, <1>6, IdleKept DEF ConfigInv, CliGet
  <2>2. CliShape'
    <3>1. CASE ~up
      BY <1>6, <3>1, IdleShape DEF CliGet
    <3>2. CASE up
      <4>1. Asked(cli.cmd, cli.value) /\ cli.cmd.key \in {"threshold", "cats"}
        BY <1>6, AskedFacts DEF CliGet, ConfigInv, CliShape
      <4>2. cli'.pc = "put" /\ cli'.cmd = cli.cmd /\ cli'.value = cli.value /\ cli'.got = live
        BY <1>6, <3>2 DEF CliGet
      <4>3. WellTyped(live)
        BY <1>3 DEF IsConfig
      <4> QED
        BY <4>1, <4>2, <4>3 DEF CliShape, Asked
    <3> QED
      BY <3>1, <3>2
  <2> QED
    BY <2>1, <2>2 DEF ConfigInv
<1>7. ASSUME CliPut PROVE ConfigInv'
  <2>1. CliShape'
    BY <1>7, IdleShape DEF CliPut
  <2> QED
    BY <1>7, <2>1, PutBackKept DEF ConfigInv
<1>8. ASSUME CliRead PROVE ConfigInv'
  <2>1. WorldInv'
    BY <1>1, <1>2, <1>8, IdleKept DEF ConfigInv, CliRead
  <2>2. Asked(cli.cmd, cli.value) /\ cli.cmd.scope \in Scopes
    BY <1>8, AskedFacts DEF CliRead, ConfigInv, CliShape
  <2>3. PICK f, doc : f = files[cli.cmd.scope] /\ doc = IF f.broken THEN [k \in {} |-> {}] ELSE f.val
    OBVIOUS
  <2>4. FileTyped(f)
    BY <1>3, <2>2, <2>3 DEF IsFiles
  <2>5. WellTyped(doc) /\ (~f.broken => doc = f.val)
    <3>1. PICK empty : empty = [k \in {} |-> {}]
      OBVIOUS
    <3>2. WellTyped(empty)
      BY <3>1 DEF WellTyped
    <3> QED
      BY <2>3, <2>4, <3>1, <3>2 DEF FileTyped
  <2>6. /\ cli'.pc = "write" /\ cli'.cmd = cli.cmd /\ cli'.value = cli.value
        /\ cli'.doc = doc /\ cli'.seen = f
    BY <1>8, <2>3 DEF CliRead
  <2>7. CliShape'
    BY <2>2, <2>5, <2>6 DEF CliShape, Asked
  <2> QED
    BY <2>1, <2>7 DEF ConfigInv
<1>9. ASSUME CliWrite PROVE ConfigInv'
  <2>1. WorldInv'
    BY <1>9, WriteKept
  <2>2. CliShape'
    <3>1. CASE ~cli.ident \/ cli.cmd.key = "profile"
      BY <1>9, <3>1, IdleShape DEF CliWrite
    <3>2. CASE cli.ident /\ cli.cmd.key # "profile"
      <4>1. Asked(cli.cmd, cli.value)
        BY <1>9, AskedFacts DEF CliWrite, ConfigInv
      <4>2. PICK pc : pc = FollowUp(cli.cmd, cli.value)
        OBVIOUS
      <4>3. /\ pc \in {"switch", "reload"}
            /\ pc = "switch" => cli.cmd.key \in {"enabled", "ml"}
        BY <4>2 DEF FollowUp
      <4>4. cli' = [pc |-> pc, cmd |-> cli.cmd, ident |-> TRUE, value |-> cli.value]
        BY <1>9, <3>2, <4>2 DEF CliWrite
      <4> QED
        BY <4>1, <4>3, <4>4 DEF CliShape, Asked
    <3> QED
      BY <3>1, <3>2
  <2> QED
    BY <2>1, <2>2 DEF ConfigInv
<1>10. ASSUME CliReload PROVE ConfigInv'
  <2>1. WorldInv'
    BY <1>1, <1>2, <1>10, IdleKept, ReloadKept DEF ConfigInv, CliReload
  <2>2. CliShape'
    <3>1. CASE cli.cmd.key # "ml"
      BY <1>10, <3>1, IdleShape DEF CliReload
    <3>2. CASE cli.cmd.key = "ml"
      <4>1. /\ Asked(cli.cmd, cli.value)
            /\ cli = [pc |-> "reload", cmd |-> cli.cmd, ident |-> cli.ident, value |-> cli.value]
        BY <1>10, AskedFacts DEF CliReload, ConfigInv, CliShape
      <4>2. cli'.pc = "switch" /\ cli'.cmd = cli.cmd /\ cli'.value = cli.value
        BY <1>10, <3>2, <4>1 DEF CliReload
      <4> QED
        BY <3>2, <4>1, <4>2 DEF CliShape, Asked
    <3> QED
      BY <3>1, <3>2
  <2> QED
    BY <2>1, <2>2 DEF ConfigInv
<1>11. ASSUME CliSwitch PROVE ConfigInv'
  <2>1. CliShape'
    BY <1>11, IdleShape DEF CliSwitch
  <2>2. PICK v : v = cli.value
    OBVIOUS
  <2>3. v \in BOOLEAN
    BY <1>11, <2>2, AskedFacts DEF CliSwitch, ConfigInv, CliShape
  <2>4. CASE ~up
    BY <1>1, <1>2, <1>11, <2>1, <2>4, IdleKept DEF ConfigInv, CliSwitch
  <2>5. CASE up
    BY <1>11, <2>1, <2>2, <2>3, <2>5, SwitchesKept DEF ConfigInv, CliSwitch
  <2> QED
    BY <2>4, <2>5
<1> QED
  BY <1>4, <1>5, <1>6, <1>7, <1>8, <1>9, <1>10, <1>11

\* The initial states.
LEMMA ConfigStarts == ASSUME ConfigInit PROVE ConfigInv
<1>1. PICK fs \in InitFiles : fs = files
  BY DEF ConfigInit
<1>2. IsFiles(fs)
  BY ConfigInputs DEF IsFiles
<1>3. PICK d, b, m : d = Deserialize(m) /\ b = BrokerPolicy(m) /\ m = MergedValue(fs)
  OBVIOUS
<1>4. IsConfig(d) /\ b \in {"rules", "deny"}
  BY <1>2, <1>3, LayersFacts, DeserializeFacts, PolicyTyped
<1>5. live = d /\ policy = b /\ up = TRUE /\ cli = NoCli
  BY <1>1, <1>3 DEF ConfigInit
<1>6. PICK rules, allow : rules = <<>> /\ allow = NotSaved
  OBVIOUS
<1>7. rules \in Seq(Rules) /\ Saved(fs["local"].val, rules, allow)
  BY <1>2, <1>6, LocalTyped, SavedNothing
<1>8. promise = [event |-> "load", rules |-> rules, allow |-> allow,
                 on |-> live.enabled, ml |-> live.ml, broker |-> policy]
  BY <1>6 DEF ConfigInit
<1>9. ConfigShape /\ OnDisk /\ BrokerFollowsFiles /\ MlIsLiveOwned
  BY <1>1, <1>2, <1>4, <1>5, <1>7, <1>8
     DEF ConfigShape, IsPromise, OnDisk, BrokerFollowsFiles, MlIsLiveOwned
<1>10. AdditionsSurvive /\ AllowListSurvives
  <2>1. PICK c : c = d
    OBVIOUS
  <2>2. /\ c["rules"] = Deserialize(MergedValue(fs))["rules"]
        /\ c["allow"] = Deserialize(MergedValue(fs))["allow"]
    BY <1>3, <2>1
  <2>3. InForce(c, rules, allow)
    BY <1>2, <1>7, <2>2, LoadedHolds
  <2> QED
    BY <1>5, <1>8, <2>1, <2>3 DEF AdditionsSurvive, AllowListSurvives, InForce
<1>11. CliShape
  BY <1>5 DEF NoCli, CliShape
<1> QED
  BY <1>9, <1>10, <1>11 DEF ConfigInv, WorldInv

\* The invariant implies what the run checks.
LEMMA ConfigHolds == ASSUME ConfigInv PROVE ConfigSound
<1>1. IsConfig(live) /\ IsFiles(files)
  BY DEF ConfigInv, WorldInv, ConfigShape
<1>2. ConfigTypeOK
  BY <1>1, FieldTypes
     DEF ConfigTypeOK, ConfigInv, WorldInv, ConfigShape, CliShape, IsFiles, FileTyped
<1>3. OfflineBaseAgrees
  BY <1>1, OfflineAgrees DEF OfflineBaseAgrees
<1> QED
  BY <1>2, <1>3 DEF ConfigSound, ConfigInv, WorldInv

\* Whatever endpoints and commands run between two reloads: the broker and the ML
\* section follow the files, and what was persisted survives the next reload
\* (reload_layers, persist_*).
THEOREM ConfigIsSound == ConfigSpec => []ConfigSound
<1>1. ConfigInit => ConfigInv
  BY ConfigStarts
<1>2. ConfigInv /\ [ConfigNext]_configVars => ConfigInv'
  <2> SUFFICES ASSUME ConfigInv, [ConfigNext]_configVars PROVE ConfigInv'
    OBVIOUS
  <2>1. CASE Endpoint
    <3>1. WorldInv' /\ cli' = cli
      BY <2>1, EndpointKept DEF ConfigInv
    <3>2. CliShape'
      BY <3>1 DEF ConfigInv, CliShape
    <3> QED
      BY <3>1, <3>2 DEF ConfigInv
  <2>2. CASE \/ CliStart \/ CliCall \/ CliGet \/ CliPut
             \/ CliRead \/ CliWrite \/ CliReload \/ CliSwitch
    BY <2>2, ProcessKept
  <2>3. CASE UNCHANGED configVars
    BY <2>3 DEF configVars, ConfigInv, WorldInv, ConfigShape, OnDisk, BrokerFollowsFiles,
                MlIsLiveOwned, AdditionsSurvive, AllowListSurvives, CliShape
  <2> QED
    BY <2>1, <2>2, <2>3 DEF ConfigNext, Endpoint
<1>3. ConfigInv => ConfigSound
  BY ConfigHolds
<1> QED
  BY <1>1, <1>2, <1>3, PTL DEF ConfigSpec

-----------------------------------------------------------------------------
(* The approval gate.                                                      *)

USE ApprovalsAssumption

(***************************************************************************)
(* push_record: the new record is first, the others keep their order, and  *)
(* what the ring lists afterwards is the new record or was listed before.  *)
(***************************************************************************)
LEMMA PushFacts ==
  ASSUME ring \in Seq(Reqs), Len(ring) <= MaxRecords, NEW r \in Reqs,
         ring' = PushRecord(r)
  PROVE  /\ ring' \in Seq(Reqs) /\ Len(ring') <= MaxRecords
         /\ \A q : Listed(q)' => q = r \/ Listed(q)
<1> DEFINE n == IF Len(ring) < MaxRecords THEN Len(ring) + 1 ELSE MaxRecords
           s == <<r>> \o ring
<1>1. n \in Nat /\ n <= MaxRecords /\ n <= Len(ring) + 1
  OBVIOUS
<1>2. /\ s \in Seq(Reqs) /\ Len(s) = Len(ring) + 1
      /\ \A i \in 1..Len(s) : s[i] = IF i = 1 THEN r ELSE ring[i - 1]
  OBVIOUS
<1>3. ring' = SubSeq(s, 1, n)
  BY DEF PushRecord
<1> HIDE DEF n, s
<1>4. /\ ring' \in Seq(Reqs) /\ Len(ring') = n
      /\ \A i \in 1..n : ring'[i] = s[i]
  BY <1>1, <1>2, <1>3
<1>5. ASSUME NEW q, NEW i \in DOMAIN ring', ring'[i] = q
      PROVE  q = r \/ Listed(q)
  <2>1. i \in 1..n /\ i \in 1..Len(s)  BY <1>1, <1>2, <1>4, <1>5
  <2>2. s[i] = q  BY <1>4, <1>5, <2>1
  <2>3. CASE i = 1  BY <1>2, <2>1, <2>2, <2>3
  <2>4. CASE i # 1
    <3>1. i - 1 \in DOMAIN ring /\ ring[i - 1] = q
      BY <1>1, <1>2, <2>1, <2>2, <2>4
    <3> QED  BY <3>1 DEF Listed
  <2> QED  BY <2>3, <2>4
<1> QED  BY <1>1, <1>4, <1>5 DEF Listed

(***************************************************************************)
(* The inductive invariant.  A number not yet given out has left no trace. *)
(* A parked waiter is undecided and its channel has no verdict; a call in  *)
(* progress holds the decision it took, and only it; a verdict in a        *)
(* channel is the one that was taken.                                      *)
(***************************************************************************)
FreshIsClean ==
    \A r \in Reqs : r >= nextSeq =>
        r \notin waiters /\ r \notin held /\ taken[r] = "None"
          /\ chan[r] = "empty" /\ handler[r] = "none"

ParkedIsUndecided ==
    \A r \in waiters : /\ r \in held /\ chan[r] \notin Verdicts
                       /\ handler[r] \in {"waiting", "expired", "done"}

CallHoldsDecision ==
    \A c \in Callers : op[c].pc # "idle" =>
        /\ op[c].id \in held \ waiters
        /\ taken[op[c].id] = op[c].verdict
        /\ op[c].pc = "send" => chan[op[c].id] \notin Verdicts

VerdictIsTaken ==
    \A r \in Reqs : chan[r] \in Verdicts => taken[r] = chan[r]

ApprovalsInv ==
    /\ ApprovalsSound
    /\ FreshIsClean /\ ParkedIsUndecided
    /\ CallHoldsDecision /\ VerdictIsTaken
(***************************************************************************)
(* Every operation keeps the types.                                        *)
(***************************************************************************)
LEMMA ApprovalsTypeStep ==
  ApprovalsTypeOK /\ [ApprovalsNext]_monVars => ApprovalsTypeOK'
<1> SUFFICES ASSUME ApprovalsTypeOK, [ApprovalsNext]_monVars
             PROVE  ApprovalsTypeOK'
  OBVIOUS
<1> USE DEF ApprovalsTypeOK, Decisions, Verdicts
<1>1. CASE SetMode  BY <1>1 DEF SetMode
<1>2. CASE RecordLlmRequest
  <2>1. ring' \in Seq(Reqs) /\ Len(ring') <= MaxRecords
    BY <1>2, PushFacts DEF RecordLlmRequest
  <2>2. nextSeq' \in 1..(NReqs + 1)
    BY <1>2 DEF RecordLlmRequest, Reqs
  <2>3. /\ decision' \in [Reqs -> Decisions \cup {"None"}]
        /\ handler' \in [Reqs -> {"none", "waiting", "expired", "unparked",
                                  "cleared", "sent", "streaming", "done"}]
        /\ waiters' \subseteq Reqs /\ held' \subseteq Reqs
    BY <1>2 DEF RecordLlmRequest
  <2> QED  BY <1>2, <2>1, <2>2, <2>3 DEF RecordLlmRequest
<1>3. ASSUME NEW r \in Reqs,
             Receive(r) \/ Expire(r) \/ ExpireUnpark(r) \/ Abandon(r)
      PROVE  ApprovalsTypeOK'
  BY <1>3, ZenonT(60) DEF Receive, Expire, ExpireUnpark, Abandon
<1>4. ASSUME NEW r \in Reqs,
             ExpireRecord(r) \/ Dispatch(r) \/ UpstreamFails(r)
      PROVE  ApprovalsTypeOK'
  BY <1>4 DEF ExpireRecord, Dispatch, UpstreamFails, Stamp, Settle
<1>5. ASSUME NEW r \in Reqs,
             RecordResponse(r) \/ StreamStarts(r) \/ FlushProgress(r)
               \/ StreamEnds(r)
      PROVE  ApprovalsTypeOK'
  BY <1>5 DEF RecordResponse, StreamStarts, FlushProgress, StreamEnds,
              Capture, Settle
<1>6. ASSUME NEW c \in Callers, DecideTake(c)
      PROVE  ApprovalsTypeOK'
  BY <1>6 DEF DecideTake, Reqs
<1>7. ASSUME NEW c \in Callers, DecideSend(c)
      PROVE  ApprovalsTypeOK'
  <2>1. chan' \in [Reqs -> Verdicts \cup {"empty", "dropped"}]
    BY <1>7 DEF DecideSend
  <2>2. op' \in [Callers -> [pc : {"idle", "send", "record"}, id : 0..NReqs,
                            verdict : Verdicts]]
    BY <1>7, ZenonT(60) DEF DecideSend
  <2> QED  BY <1>7, <2>1, <2>2 DEF DecideSend
<1>8. ASSUME NEW c \in Callers, DecideRecord(c)
      PROVE  ApprovalsTypeOK'
  <2>1. NoCall \in [pc : {"idle", "send", "record"}, id : 0..NReqs,
                    verdict : Verdicts]
    BY DEF NoCall
  <2>2. decision' \in [Reqs -> Decisions \cup {"None"}]
    BY <1>8 DEF DecideRecord, Stamp
  <2> QED  BY <1>8, <2>1, <2>2 DEF DecideRecord
<1>9. CASE UNCHANGED monVars  BY <1>9 DEF monVars
<1> QED
  BY <1>1, <1>2, <1>3, <1>4, <1>5, <1>6, <1>7, <1>8, <1>9 DEF ApprovalsNext

(***************************************************************************)
(* The life cycle after the gate, the narration of a timeout and the       *)
(* control plane touch nothing a decision depends on.                      *)
(***************************************************************************)
decisionVars == <<nextSeq, waiters, held, taken, chan, op>>

DecisionInv ==
    /\ FreshIsClean /\ ParkedIsUndecided
    /\ CallHoldsDecision /\ VerdictIsTaken
    /\ HeldGoesOnlyIfApproved /\ OneDecision

LEMMA DecisionStep ==
  ApprovalsTypeOK /\ DecisionInv /\ [ApprovalsNext]_monVars => DecisionInv'
<1> SUFFICES ASSUME ApprovalsTypeOK, DecisionInv, [ApprovalsNext]_monVars
             PROVE  DecisionInv'
  OBVIOUS
<1> USE DEF ApprovalsTypeOK, DecisionInv, Verdicts
<1> DEFINE Kept == UNCHANGED decisionVars
<1>1. CASE UNCHANGED <<decisionVars, handler>>
  BY <1>1 DEF decisionVars, FreshIsClean, ParkedIsUndecided, CallHoldsDecision,
              VerdictIsTaken, HeldGoesOnlyIfApproved, OneDecision
<1>2. CASE RecordLlmRequest
  <2> DEFINE id == nextSeq
  <2>0. /\ id \in Reqs /\ nextSeq' = id + 1
        /\ UNCHANGED <<taken, chan, op>>
        /\ waiters' \subseteq waiters \cup {id} /\ waiters \subseteq waiters'
        /\ held' \subseteq held \cup {id} /\ held \subseteq held'
        /\ \A q \in Reqs \ {id} : handler'[q] = handler[q]
    BY <1>2 DEF RecordLlmRequest
  <2>1. /\ id \notin waiters /\ id \notin held
        /\ taken[id] = "None" /\ chan[id] = "empty"
    BY <2>0 DEF FreshIsClean, Reqs
  <2>2. /\ id \in waiters' => id \in held' /\ handler'[id] = "waiting"
        /\ id \in held' => handler'[id] \in {"waiting", "done"}
    BY <1>2, <2>1 DEF RecordLlmRequest
  <2>3. FreshIsClean'  BY <2>0 DEF FreshIsClean, Reqs
  <2>4. ParkedIsUndecided'  BY <2>0, <2>1, <2>2 DEF ParkedIsUndecided
  <2>5. CallHoldsDecision'
    BY <2>0, <2>1 DEF CallHoldsDecision
  <2>6. VerdictIsTaken' /\ OneDecision'  BY <2>0 DEF VerdictIsTaken, OneDecision
  <2>7. HeldGoesOnlyIfApproved'
    BY <2>0, <2>2 DEF HeldGoesOnlyIfApproved
  <2> QED  BY <2>3, <2>4, <2>5, <2>6, <2>7
<1>3. ASSUME NEW r \in Reqs, Receive(r)
      PROVE  DecisionInv'
  <2>1. Kept /\ handler[r] = "waiting" /\ chan[r] \in Verdicts
        /\ handler' = [handler EXCEPT ![r] =
                           IF chan[r] = "Approve" THEN "cleared" ELSE "done"]
    BY <1>3 DEF Receive, decisionVars
  <2>2. r \notin waiters  BY <2>1 DEF ParkedIsUndecided
  <2>3. ParkedIsUndecided'
    BY <2>1, <2>2 DEF ParkedIsUndecided, decisionVars
  <2>4. HeldGoesOnlyIfApproved'
    BY <2>1 DEF HeldGoesOnlyIfApproved, VerdictIsTaken, decisionVars
  <2> QED
    BY <2>1, <2>3, <2>4 DEF decisionVars, FreshIsClean, CallHoldsDecision,
                            VerdictIsTaken, OneDecision
<1>4. ASSUME NEW r \in Reqs, Expire(r) \/ ExpireUnpark(r) \/ Abandon(r)
      PROVE  DecisionInv'
  <2>1. /\ UNCHANGED <<nextSeq, held, taken, op>> /\ waiters' \subseteq waiters
        /\ \A q \in Reqs \ {r} : /\ handler'[q] = handler[q] /\ chan'[q] = chan[q]
                                 /\ q \in waiters => q \in waiters'
        /\ chan'[r] \in {chan[r], "dropped"}
        /\ handler'[r] \in {"expired", "unparked", "done"}
        /\ r \in waiters' => handler'[r] # "unparked"
    BY <1>4 DEF Expire, ExpireUnpark, Abandon
  <2>2. r < nextSeq \/ r \notin waiters
    BY DEF FreshIsClean, Reqs
  <2>3. FreshIsClean'
    <3>1. handler[r] # "none"  BY <1>4 DEF Expire, ExpireUnpark, Abandon
    <3> QED  BY <2>1, <3>1 DEF FreshIsClean
  <2>4. ParkedIsUndecided'  BY <2>1 DEF ParkedIsUndecided
  <2>5. CallHoldsDecision'  BY <2>1 DEF CallHoldsDecision
  <2>6. VerdictIsTaken' /\ OneDecision'  BY <2>1 DEF VerdictIsTaken, OneDecision
  <2>7. HeldGoesOnlyIfApproved'  BY <2>1 DEF HeldGoesOnlyIfApproved
  <2> QED  BY <2>3, <2>4, <2>5, <2>6, <2>7
<1>5. ASSUME NEW r \in Reqs,
             \/ ExpireRecord(r) \/ Dispatch(r) \/ UpstreamFails(r)
             \/ RecordResponse(r) \/ StreamStarts(r) \/ FlushProgress(r)
             \/ StreamEnds(r)
      PROVE  DecisionInv'
  <2>1. /\ Kept
        /\ handler[r] \in {"unparked", "cleared", "sent", "streaming"}
        /\ \A q \in Reqs \ {r} : handler'[q] = handler[q]
        /\ handler'[r] \in {"cleared", "sent", "streaming"} =>
             handler[r] \in {"cleared", "sent", "streaming"}
    BY <1>5 DEF ExpireRecord, Dispatch, UpstreamFails, RecordResponse,
                StreamStarts, FlushProgress, StreamEnds, decisionVars
  <2>2. r \notin waiters  BY <2>1 DEF ParkedIsUndecided
  <2>3. ParkedIsUndecided'
    BY <2>1, <2>2 DEF ParkedIsUndecided, decisionVars
  <2>4. HeldGoesOnlyIfApproved'
    BY <2>1 DEF HeldGoesOnlyIfApproved, decisionVars
  <2>5. FreshIsClean'  BY <2>1 DEF FreshIsClean, decisionVars
  <2> QED
    BY <2>1, <2>3, <2>4, <2>5 DEF decisionVars, CallHoldsDecision,
                                  VerdictIsTaken, OneDecision
<1>6. ASSUME NEW c \in Callers, DecideTake(c)
      PROVE  DecisionInv'
  <2>1. PICK r \in waiters, v \in Verdicts :
          /\ waiters' = waiters \ {r}
          /\ op' = [op EXCEPT ![c] = [pc |-> "send", id |-> r, verdict |-> v]]
          /\ taken' = [taken EXCEPT ![r] = v]
    BY <1>6 DEF DecideTake
  <2>2. UNCHANGED <<nextSeq, held, chan, handler>>  BY <1>6 DEF DecideTake
  <2>3. /\ r \in Reqs /\ r \in held /\ chan[r] \notin Verdicts
        /\ handler[r] \in {"waiting", "expired", "done"}
    BY DEF ParkedIsUndecided
  <2>4. FreshIsClean'  BY <2>1, <2>2 DEF FreshIsClean
  <2>5. ParkedIsUndecided'  BY <2>1, <2>2 DEF ParkedIsUndecided
  <2>6. CallHoldsDecision'
    <3> SUFFICES ASSUME NEW d \in Callers, op'[d].pc # "idle"
                 PROVE  /\ op'[d].id \in held' \ waiters'
                        /\ taken'[op'[d].id] = op'[d].verdict
                        /\ op'[d].pc = "send" => chan'[op'[d].id] \notin Verdicts
      BY DEF CallHoldsDecision
    <3>1. CASE d = c  BY <2>1, <2>2, <2>3, <3>1
    <3>2. CASE d # c
      <4>1. op'[d] = op[d] /\ op[d].id \in held \ waiters  
        BY <2>1, <3>2 DEF CallHoldsDecision
      <4>2. op[d].id # r  BY <4>1
      <4> QED  BY <2>1, <2>2, <4>1, <4>2 DEF CallHoldsDecision
    <3> QED  BY <3>1, <3>2
  <2>7. VerdictIsTaken'  BY <2>1, <2>2, <2>3 DEF VerdictIsTaken
  <2>8. HeldGoesOnlyIfApproved'
    BY <2>1, <2>2, <2>3 DEF HeldGoesOnlyIfApproved
  <2>9. OneDecision'
    <3> SUFFICES ASSUME NEW d \in Callers, d # c, op[d].pc # "idle"
                 PROVE  op[d].id # r
      BY <2>1 DEF OneDecision
    <3> QED  BY DEF CallHoldsDecision
  <2> QED  BY <2>4, <2>5, <2>6, <2>7, <2>8, <2>9
<1>7. ASSUME NEW c \in Callers, DecideSend(c)
      PROVE  DecisionInv'
  <2> DEFINE r == op[c].id
  <2>1. /\ op[c].pc = "send"
        /\ op' = [op EXCEPT ![c].pc = "record"]
        /\ chan' = IF chan[r] = "empty"
                     THEN [chan EXCEPT ![r] = op[c].verdict] ELSE chan
        /\ UNCHANGED <<nextSeq, held, taken, waiters, handler>>
    BY <1>7 DEF DecideSend
  <2>2. /\ r \in held \ waiters /\ taken[r] = op[c].verdict
        /\ r \in Reqs
    BY <2>1 DEF CallHoldsDecision
  <2>3. FreshIsClean'  BY <2>1, <2>2 DEF FreshIsClean
  <2>4. ParkedIsUndecided'  BY <2>1, <2>2 DEF ParkedIsUndecided
  <2>5. CallHoldsDecision'
    BY <2>1, <2>2 DEF CallHoldsDecision, OneDecision
  <2>6. VerdictIsTaken'  BY <2>1, <2>2 DEF VerdictIsTaken
  <2>7. HeldGoesOnlyIfApproved'  BY <2>1 DEF HeldGoesOnlyIfApproved
  <2>8. OneDecision'  BY <2>1 DEF OneDecision
  <2> QED  BY <2>3, <2>4, <2>5, <2>6, <2>7, <2>8
<1>8. ASSUME NEW c \in Callers, DecideRecord(c)
      PROVE  DecisionInv'
  BY <1>8 DEF DecideRecord, NoCall, FreshIsClean, ParkedIsUndecided,
              CallHoldsDecision, VerdictIsTaken, HeldGoesOnlyIfApproved,
              OneDecision
<1>9. CASE SetMode \/ UNCHANGED monVars
  BY <1>1, <1>9 DEF SetMode, monVars, decisionVars
<1> QED
  BY <1>2, <1>3, <1>4, <1>5, <1>6, <1>7, <1>8, <1>9 DEF ApprovalsNext

(***************************************************************************)
(* A pending record stays answerable: only the call or the timeout that    *)
(* took its waiter can leave it without one, and each stamps it.           *)
(***************************************************************************)
LEMMA PendingStep ==
  ApprovalsTypeOK /\ FreshIsClean /\ PendingIsAnswerable /\ [ApprovalsNext]_monVars
    => PendingIsAnswerable'
<1> SUFFICES ASSUME ApprovalsTypeOK, FreshIsClean, PendingIsAnswerable,
                    [ApprovalsNext]_monVars,
                    NEW q \in Reqs, Listed(q)', decision'[q] = "Pending"
             PROVE  \/ q \in waiters'
                    \/ \E c \in Callers : op'[c].pc # "idle" /\ op'[c].id = q
                    \/ handler'[q] = "unparked"
  BY DEF PendingIsAnswerable
<1> USE DEF ApprovalsTypeOK
<1> DEFINE Answerable == \/ q \in waiters
                         \/ \E c \in Callers : op[c].pc # "idle" /\ op[c].id = q
                         \/ handler[q] = "unparked"
<1>0. Listed(q) /\ decision[q] = "Pending" => Answerable
  BY DEF PendingIsAnswerable
<1>1. CASE RecordLlmRequest
  <2>1. ring' = PushRecord(nextSeq) /\ nextSeq \in Reqs /\ UNCHANGED op
    BY <1>1 DEF RecordLlmRequest
  <2>2. CASE q = nextSeq
    BY <1>1, <2>2 DEF RecordLlmRequest
  <2>3. CASE q # nextSeq
    <3>1. Listed(q)  BY <2>1, <2>3, PushFacts
    <3>2. decision[q] = "Pending" /\ handler'[q] = handler[q] /\ waiters \subseteq waiters'
      BY <1>1, <2>3 DEF RecordLlmRequest
    <3> QED  BY <1>0, <2>1, <3>1, <3>2
  <2> QED  BY <2>2, <2>3
<1>2. ASSUME ring' = ring
      PROVE  Listed(q)
  BY <1>2 DEF Listed
<1>3. ASSUME NEW r \in Reqs,
             Receive(r) \/ Expire(r) \/ ExpireUnpark(r) \/ Abandon(r)
               \/ StreamStarts(r) \/ FlushProgress(r)
      PROVE  \/ q \in waiters'
             \/ \E c \in Callers : op'[c].pc # "idle" /\ op'[c].id = q
             \/ handler'[q] = "unparked"
  BY <1>0, <1>2, <1>3 DEF Receive, Expire, ExpireUnpark, Abandon, StreamStarts,
                          FlushProgress
<1>4. ASSUME NEW r \in Reqs, ExpireRecord(r)
      PROVE  \/ q \in waiters'
             \/ \E c \in Callers : op'[c].pc # "idle" /\ op'[c].id = q
             \/ handler'[q] = "unparked"
  BY <1>0, <1>2, <1>4 DEF ExpireRecord, Stamp
<1>5. ASSUME NEW r \in Reqs,
             Dispatch(r) \/ UpstreamFails(r) \/ RecordResponse(r) \/ StreamEnds(r)
      PROVE  \/ q \in waiters'
             \/ \E c \in Callers : op'[c].pc # "idle" /\ op'[c].id = q
             \/ handler'[q] = "unparked"
  BY <1>0, <1>2, <1>5 DEF Dispatch, UpstreamFails, RecordResponse, StreamEnds,
                          Settle
<1>6. ASSUME NEW c \in Callers, DecideTake(c)
      PROVE  \/ q \in waiters'
             \/ \E d \in Callers : op'[d].pc # "idle" /\ op'[d].id = q
             \/ handler'[q] = "unparked"
  <2>1. PICK r \in waiters, v \in Verdicts :
          /\ waiters' = waiters \ {r}
          /\ op' = [op EXCEPT ![c] = [pc |-> "send", id |-> r, verdict |-> v]]
    BY <1>6 DEF DecideTake
  <2>2. Answerable /\ op[c].pc = "idle" /\ handler' = handler
    BY <1>0, <1>2, <1>6 DEF DecideTake
  <2>3. CASE q = r  BY <2>1, <2>3
  <2>4. ASSUME NEW d \in Callers, op[d].pc # "idle", op[d].id = q
        PROVE  op'[d].pc # "idle" /\ op'[d].id = q
    BY <2>1, <2>2, <2>4
  <2> QED  BY <2>1, <2>2, <2>3, <2>4
<1>9. ASSUME NEW c \in Callers, DecideSend(c)
      PROVE  \/ q \in waiters'
             \/ \E d \in Callers : op'[d].pc # "idle" /\ op'[d].id = q
             \/ handler'[q] = "unparked"
  BY <1>0, <1>2, <1>9 DEF DecideSend
<1>7. ASSUME NEW c \in Callers, DecideRecord(c)
      PROVE  \/ q \in waiters'
             \/ \E d \in Callers : op'[d].pc # "idle" /\ op'[d].id = q
             \/ handler'[q] = "unparked"
  BY <1>0, <1>2, <1>7 DEF DecideRecord, Stamp
<1>8. CASE SetMode \/ UNCHANGED monVars
  BY <1>0, <1>2, <1>8 DEF SetMode, monVars
<1> QED
  BY <1>1, <1>3, <1>4, <1>5, <1>6, <1>7, <1>8, <1>9 DEF ApprovalsNext

LEMMA ApprovalsInvStep ==
  ApprovalsInv /\ [ApprovalsNext]_monVars => ApprovalsInv'
BY ApprovalsTypeStep, DecisionStep, PendingStep
   DEF ApprovalsInv, ApprovalsSound, DecisionInv

LEMMA ApprovalsInvInit == ApprovalsInit => ApprovalsInv
<1> SUFFICES ASSUME ApprovalsInit PROVE ApprovalsInv
  OBVIOUS
<1>1. ring \in Seq(Reqs) /\ Len(ring) <= MaxRecords /\ \A r : ~Listed(r)
  BY DEF ApprovalsInit, Listed
<1>2. ApprovalsTypeOK
  <2>1. op \in [Callers -> [pc : {"idle", "send", "record"}, id : 0..NReqs,
                           verdict : Verdicts]]
    BY DEF ApprovalsInit, NoCall, Verdicts
  <2> QED
    BY <1>1, <2>1 DEF ApprovalsInit, ApprovalsTypeOK, Modes, Decisions, Verdicts
<1> QED
  BY <1>1, <1>2 DEF ApprovalsInit, ApprovalsInv, ApprovalsSound, FreshIsClean,
     ParkedIsUndecided, CallHoldsDecision, VerdictIsTaken, NoCall, Verdicts,
     HeldGoesOnlyIfApproved, PendingIsAnswerable, OneDecision

(***************************************************************************)
(* For any number of requests and overlapping operator calls: a held       *)
(* request goes upstream only if the call that took its waiter approved    *)
(* it, a pending record can still be settled, and no two calls decide the  *)
(* same request (wait_for_approval, decide, the timeout).                  *)
(***************************************************************************)
THEOREM ApprovalsAreSound == ApprovalsSpec => []ApprovalsSound
<1>1. ApprovalsInv => ApprovalsSound  BY DEF ApprovalsInv
<1> QED
  BY <1>1, ApprovalsInvInit, ApprovalsInvStep, PTL DEF ApprovalsSpec

(***************************************************************************)
(* No arrival parks a waiter beyond the limit in force, whatever the limit *)
(* was when the others were parked (record_llm_request, pending_full).     *)
(***************************************************************************)
LEMMA WaitersAreFinite ==
  ASSUME ApprovalsTypeOK
  PROVE  IsFiniteSet(waiters) /\ Cardinality(waiters) \in Nat
<1>1. IsFiniteSet(Reqs)  BY FS_Interval DEF Reqs
<1> QED  BY <1>1, FS_Subset, FS_CardinalityType DEF ApprovalsTypeOK

LEMMA BoundedStep ==
  ApprovalsTypeOK /\ [ApprovalsNext]_monVars
    => (Cardinality(waiters') > Cardinality(waiters)
          => Cardinality(waiters') <= maxPending)
<1> SUFFICES ASSUME ApprovalsTypeOK, [ApprovalsNext]_monVars,
                    Cardinality(waiters') > Cardinality(waiters)
             PROVE  Cardinality(waiters') <= maxPending
  OBVIOUS
<1>0. IsFiniteSet(waiters) /\ Cardinality(waiters) \in Nat /\ maxPending \in Nat
  BY WaitersAreFinite DEF ApprovalsTypeOK
<1>1. CASE waiters' \subseteq waiters
  <2>1. Cardinality(waiters') <= Cardinality(waiters) /\ Cardinality(waiters') \in Nat
    BY <1>0, <1>1, FS_Subset, FS_CardinalityType
  <2> QED  BY <1>0, <2>1
<1>2. CASE ~(waiters' \subseteq waiters)
  <2>1. RecordLlmRequest
    BY <1>2 DEF ApprovalsNext, monVars, SetMode, Receive, Expire, ExpireUnpark,
       ExpireRecord, Abandon, Dispatch, UpstreamFails, RecordResponse,
       StreamStarts, FlushProgress, StreamEnds, DecideTake, DecideSend,
       DecideRecord
  <2>2. waiters' = waiters \cup {nextSeq} /\ ~PendingFull
    BY <1>2, <2>1 DEF RecordLlmRequest
  <2>3. Cardinality(waiters') <= Cardinality(waiters) + 1
    BY <1>0, <2>2, FS_AddElement
  <2>4. Cardinality(waiters') \in Nat
    BY <1>0, <2>2, FS_AddElement, FS_CardinalityType
  <2> QED  BY <1>0, <2>2, <2>3, <2>4 DEF PendingFull
<1> QED  BY <1>1, <1>2

THEOREM ApprovalsGateIsBounded == ApprovalsSpec => GateIsBounded
<1>1. ApprovalsInv => ApprovalsTypeOK  BY DEF ApprovalsInv, ApprovalsSound
<1> QED
  BY <1>1, ApprovalsInvInit, ApprovalsInvStep, BoundedStep, PTL
     DEF ApprovalsSpec, GateIsBounded
=============================================================================
