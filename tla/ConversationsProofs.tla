------------------------- MODULE ConversationsProofs -------------------------
(***************************************************************************)
(* What the proxy keeps of conversations.                                  *)
(*                                                                         *)
(* First ZdrSessions, for any conversations, targets, cap, number of boots *)
(* and set of faults: where a conversation is routed, and its file.        *)
(*                                                                         *)
(* Then MonitorIndex, for every number of requests, conversations and      *)
(* tokens, and for every size of its limits that leaves a conversation of  *)
(* the ring tracked.  The inductive invariant adds to IndexSound what an   *)
(* eviction is decided by: how many conversations were seen no earlier     *)
(* than the one of a record (RingRecent), and in the current millisecond   *)
(* (TickCounted).                                                          *)
(***************************************************************************)
EXTENDS ZdrSessions, MonitorIndex, FiniteSetTheorems, WellFoundedInduction, TLAPS

-----------------------------------------------------------------------------
(* The routing of conversations (ZdrSessions).                             *)

\* The inductive invariant: the map and the file agree when nothing is in progress, an
\* engage or disengage in progress can be completed or undone, and a boot in progress has
\* installed exactly the valid entries it has looked at.
ZdrInv == ZdrTypeOK /\ BootIsFaithful /\ OpIsRecoverable /\ AgreeWhenQuiet

\* Every step keeps the types; the file can be indexed while its entries are looked at.
LEMMA TypeStep ==
  ASSUME ZdrTypeOK, BootIsFaithful, [ZdrNext]_zdrVars
  PROVE  ZdrTypeOK'
<1> USE DEF ZdrTypeOK, Stage, fileVars, hookVars, procVars
<1>1. ASSUME NEW c \in Conv, NEW t \in Target, Engage(c, t) PROVE ZdrTypeOK'
  BY <1>1 DEF Engage, Selections, Op
<1>2. CASE EngageWrite
  BY <1>2 DEF EngageWrite, Overwritten, Selections, Op
<1>3. CASE EngageRollback
  BY <1>3 DEF EngageRollback, Selections, Op
<1>4. ASSUME NEW c \in Conv, Disengage(c) PROVE ZdrTypeOK'
  BY <1>4 DEF Disengage, Selections, Op
<1>5. CASE DisengageWrite
  BY <1>5 DEF DisengageWrite, Overwritten, Selections, Op
<1>6. CASE DisengageRemove
  BY <1>6 DEF DisengageRemove, Selections, Op
<1>7. CASE Start
  BY <1>7 DEF Start
<1>8. CASE LoadAbsent
  BY <1>8 DEF LoadAbsent, ClearSentinel
<1>9. CASE LoadCorrupt
  BY <1>9 DEF LoadCorrupt
<1>10. CASE Quarantine
  BY <1>10 DEF Quarantine
<1>11. CASE LoadFile
  BY <1>11 DEF LoadFile, ClearSentinel, Engaged
<1>12. ASSUME NEW c \in Conv, Revalidate(c) PROVE ZdrTypeOK'
  BY <1>12 DEF Revalidate, Selections, BootIsFaithful, Readable
<1>13. CASE Rewrite
  BY <1>13 DEF Rewrite, Empty, Selections
<1>14. CASE Stop
  BY <1>14 DEF Stop, Empty, Selections
<1>15. CASE Damage
  BY <1>15 DEF Damage
<1>16. ASSUME NEW c \in Conv, ConsumeRead(c) PROVE ZdrTypeOK'
  BY <1>16 DEF ConsumeRead
<1>17. ASSUME NEW c \in Conv, ConsumeClaim(c) PROVE ZdrTypeOK'
  BY <1>17 DEF ConsumeClaim
<1>18. ASSUME NEW c \in Conv, ConsumeGlobal(c) PROVE ZdrTypeOK'
  BY <1>18 DEF ConsumeGlobal
<1>19. CASE UNCHANGED zdrVars
  BY <1>19 DEF zdrVars
<1> QED
  BY <1>1, <1>2, <1>3, <1>4, <1>5, <1>6, <1>7, <1>8, <1>9, <1>10, <1>11, <1>12,
     <1>13, <1>14, <1>15, <1>16, <1>17, <1>18, <1>19
     DEF ZdrNext, ProxyStep, HookStep

\* Every step keeps a boot in progress faithful to the file.
LEMMA BootStep ==
  ASSUME ZdrTypeOK, BootIsFaithful, OpIsRecoverable, [ZdrNext]_zdrVars
  PROVE  BootIsFaithful'
<1> USE DEF ZdrTypeOK, BootIsFaithful, fileVars, hookVars, procVars
<1>1. ASSUME NEW c \in Conv, NEW t \in Target, Engage(c, t) PROVE BootIsFaithful'
  BY <1>1 DEF Engage
<1>2. CASE EngageWrite
  BY <1>2 DEF EngageWrite, OpIsRecoverable
<1>3. CASE EngageRollback
  BY <1>3 DEF EngageRollback, OpIsRecoverable
<1>4. ASSUME NEW c \in Conv, Disengage(c) PROVE BootIsFaithful'
  BY <1>4 DEF Disengage
<1>5. CASE DisengageWrite
  BY <1>5 DEF DisengageWrite, OpIsRecoverable
<1>6. CASE DisengageRemove
  BY <1>6 DEF DisengageRemove, OpIsRecoverable
<1>7. CASE Start
  BY <1>7 DEF Start
<1>8. CASE LoadAbsent
  BY <1>8 DEF LoadAbsent
<1>9. CASE LoadCorrupt
  BY <1>9 DEF LoadCorrupt
<1>10. CASE Quarantine
  BY <1>10 DEF Quarantine
<1>11. CASE LoadFile
  BY <1>11 DEF LoadFile, Readable, Engaged, Empty, Selections
<1>12. ASSUME NEW c \in Conv, Revalidate(c) PROVE BootIsFaithful'
  BY <1>12 DEF Revalidate, Readable, Selections, Empty
<1>13. CASE Rewrite
  BY <1>13 DEF Rewrite, Empty
<1>14. CASE Stop
  BY <1>14 DEF Stop, Empty
<1>15. CASE Damage
  BY <1>15 DEF Damage
<1>16. ASSUME NEW c \in Conv, ConsumeRead(c) PROVE BootIsFaithful'
  BY <1>16 DEF ConsumeRead, Readable, Empty
<1>17. ASSUME NEW c \in Conv, ConsumeClaim(c) PROVE BootIsFaithful'
  BY <1>17 DEF ConsumeClaim, Readable, Empty
<1>18. ASSUME NEW c \in Conv, ConsumeGlobal(c) PROVE BootIsFaithful'
  BY <1>18 DEF ConsumeGlobal, Readable, Empty
<1>19. CASE UNCHANGED zdrVars
  BY <1>19 DEF zdrVars, Readable, Empty
<1> QED
  BY <1>1, <1>2, <1>3, <1>4, <1>5, <1>6, <1>7, <1>8, <1>9, <1>10, <1>11, <1>12,
     <1>13, <1>14, <1>15, <1>16, <1>17, <1>18, <1>19
     DEF ZdrNext, ProxyStep, HookStep

\* Every step keeps an engage or disengage in progress recoverable.
LEMMA OpStep ==
  ASSUME ZdrTypeOK, BootIsFaithful, OpIsRecoverable, AgreeWhenQuiet, [ZdrNext]_zdrVars
  PROVE  OpIsRecoverable'
<1> USE NilAssumption, FileAssumption, NoOpAssumption
    DEF ZdrTypeOK, OpIsRecoverable, Durable, Readable, fileVars, hookVars, procVars
<1>1. ASSUME NEW c \in Conv, NEW t \in Target, Engage(c, t) PROVE OpIsRecoverable'
  BY <1>1 DEF Engage, AgreeWhenQuiet, Selections, Op
<1>2. CASE EngageWrite
  BY <1>2 DEF EngageWrite, Selections, Op
<1>3. CASE EngageRollback
  BY <1>3 DEF EngageRollback
<1>4. ASSUME NEW c \in Conv, Disengage(c) PROVE OpIsRecoverable'
  BY <1>4 DEF Disengage, AgreeWhenQuiet, Selections, Op
<1>5. CASE DisengageWrite
  <2>1. CASE May("writefail") /\ op' = NoOp
    BY <1>5, <2>1
  <2>2. CASE disk' = op.entries /\ op' = [op EXCEPT !.kind = "remove"]
    <3>1. op.entries \in Selections /\ op.entries = [map EXCEPT ![op.conv] = Nil] /\ op.conv \in Conv
      BY <1>5 DEF DisengageWrite, Op
    <3>2. /\ op'.kind = "remove" /\ op'.conv = op.conv /\ op'.entries = op.entries
      BY <1>5, <2>2 DEF DisengageWrite, Op
    <3>3. /\ stage' = stage /\ stage = "up" /\ verified' = verified /\ map' = map
      BY <1>5 DEF DisengageWrite
    <3>4. ASSUME NEW c \in Conv, c # op.conv
          PROVE  map[c] = IF disk'[c] \in verified THEN disk'[c] ELSE Nil
      <4>1. disk'[c] = map[c]
        BY <2>2, <3>1, <3>4 DEF Selections
      <4>2. map[c] \in verified \/ map[c] = Nil
        BY <1>5, <3>4 DEF DisengageWrite
      <4> QED
        BY <4>1, <4>2
    <3>5. disk' # Absent /\ disk' # Corrupt
      BY <2>2, <3>1
    <3> QED
      BY <2>2, <3>1, <3>2, <3>3, <3>4, <3>5
  <2> QED
    BY <1>5, <2>1, <2>2 DEF DisengageWrite
<1>6. CASE DisengageRemove
  BY <1>6 DEF DisengageRemove
<1>7. CASE Start
  BY <1>7 DEF Start, BootIsFaithful
<1>8. CASE LoadAbsent
  BY <1>8 DEF LoadAbsent, BootIsFaithful
<1>9. CASE LoadCorrupt
  BY <1>9 DEF LoadCorrupt, BootIsFaithful
<1>10. CASE Quarantine
  BY <1>10 DEF Quarantine, BootIsFaithful
<1>11. CASE LoadFile
  BY <1>11 DEF LoadFile, BootIsFaithful
<1>12. ASSUME NEW c \in Conv, Revalidate(c) PROVE OpIsRecoverable'
  BY <1>12 DEF Revalidate, BootIsFaithful
<1>13. CASE Rewrite
  BY <1>13 DEF Rewrite, BootIsFaithful
<1>14. CASE Stop
  BY <1>14 DEF Stop
<1>15. CASE Damage
  BY <1>15 DEF Damage, BootIsFaithful
<1>16. ASSUME NEW c \in Conv, ConsumeRead(c) PROVE OpIsRecoverable'
  BY <1>16 DEF ConsumeRead
<1>17. ASSUME NEW c \in Conv, ConsumeClaim(c) PROVE OpIsRecoverable'
  BY <1>17 DEF ConsumeClaim
<1>18. ASSUME NEW c \in Conv, ConsumeGlobal(c) PROVE OpIsRecoverable'
  BY <1>18 DEF ConsumeGlobal
<1>19. CASE UNCHANGED zdrVars
  BY <1>19 DEF zdrVars
<1> QED
  BY <1>1, <1>2, <1>3, <1>4, <1>5, <1>6, <1>7, <1>8, <1>9, <1>10, <1>11, <1>12,
     <1>13, <1>14, <1>15, <1>16, <1>17, <1>18, <1>19
     DEF ZdrNext, ProxyStep, HookStep

\* Every step keeps the map equal to the valid part of the file when nothing is in progress.
LEMMA AgreeStep ==
  ASSUME ZdrTypeOK, BootIsFaithful, OpIsRecoverable, AgreeWhenQuiet, [ZdrNext]_zdrVars
  PROVE  AgreeWhenQuiet'
<1> USE NilAssumption, FileAssumption, NoOpAssumption
    DEF ZdrTypeOK, AgreeWhenQuiet, Durable, Readable, fileVars, hookVars, procVars
<1>1. ASSUME NEW c \in Conv, NEW t \in Target, Engage(c, t) PROVE AgreeWhenQuiet'
  BY <1>1 DEF Engage, Op, Selections
<1>2. CASE EngageWrite
  BY <1>2 DEF EngageWrite, OpIsRecoverable, Selections, Op
<1>3. CASE EngageRollback
  BY <1>3 DEF EngageRollback, OpIsRecoverable, Selections, Op
<1>4. ASSUME NEW c \in Conv, Disengage(c) PROVE AgreeWhenQuiet'
  BY <1>4 DEF Disengage, Op
<1>5. CASE DisengageWrite
  BY <1>5 DEF DisengageWrite, OpIsRecoverable, Selections, Op
<1>6. CASE DisengageRemove
  BY <1>6 DEF DisengageRemove, OpIsRecoverable, Selections, Op
<1>7. CASE Start
  BY <1>7 DEF Start
<1>8. CASE LoadAbsent
  BY <1>8 DEF LoadAbsent, BootIsFaithful, Empty, Selections
<1>9. CASE LoadCorrupt
  BY <1>9 DEF LoadCorrupt, BootIsFaithful, Empty, Selections
<1>10. CASE Quarantine
  BY <1>10 DEF Quarantine, BootIsFaithful, Empty, Selections
<1>11. CASE LoadFile
  BY <1>11 DEF LoadFile
<1>12. ASSUME NEW c \in Conv, Revalidate(c) PROVE AgreeWhenQuiet'
  BY <1>12 DEF Revalidate
<1>13. CASE Rewrite
  BY <1>13 DEF Rewrite, BootIsFaithful, Empty, Selections
<1>14. CASE Stop
  BY <1>14 DEF Stop
<1>15. CASE Damage
  BY <1>15 DEF Damage
<1>16. ASSUME NEW c \in Conv, ConsumeRead(c) PROVE AgreeWhenQuiet'
  BY <1>16 DEF ConsumeRead
<1>17. ASSUME NEW c \in Conv, ConsumeClaim(c) PROVE AgreeWhenQuiet'
  BY <1>17 DEF ConsumeClaim
<1>18. ASSUME NEW c \in Conv, ConsumeGlobal(c) PROVE AgreeWhenQuiet'
  BY <1>18 DEF ConsumeGlobal
<1>19. CASE UNCHANGED zdrVars
  BY <1>19 DEF zdrVars
<1> QED
  BY <1>1, <1>2, <1>3, <1>4, <1>5, <1>6, <1>7, <1>8, <1>9, <1>10, <1>11, <1>12,
     <1>13, <1>14, <1>15, <1>16, <1>17, <1>18, <1>19
     DEF ZdrNext, ProxyStep, HookStep

\* The initial state, and the induction over all steps.
THEOREM ZdrInvariant == ZdrSpec => []ZdrInv
<1>1. ZdrInit => ZdrInv
  BY NoOpAssumption DEF ZdrInit, ZdrInv, ZdrTypeOK, BootIsFaithful, OpIsRecoverable, AgreeWhenQuiet,
     Empty, Selections, Stage
<1>2. ZdrInv /\ [ZdrNext]_zdrVars => ZdrInv'
  BY TypeStep, BootStep, OpStep, AgreeStep DEF ZdrInv
<1> QED
  BY <1>1, <1>2, PTL DEF ZdrSpec

\* Whatever is in progress, a conversation with a valid selection on disk is pinned.
LEMMA InvNoDowngrade == ZdrInv => NoDowngrade
<1> SUFFICES ASSUME ZdrInv, stage = "up", NEW c \in Conv, Durable(c)
             PROVE  map[c] # Nil
  BY DEF NoDowngrade, PinnedMode
<1> USE NilAssumption, NoOpAssumption DEF ZdrInv, ZdrTypeOK, Durable
<1>1. disk[c] # Nil
  OBVIOUS
<1>2. CASE op = NoOp
  BY <1>1, <1>2 DEF AgreeWhenQuiet
<1>3. CASE op # NoOp
  BY <1>1, <1>3 DEF OpIsRecoverable, Op, Selections
<1> QED
  BY <1>2, <1>3

\* clear_zdr_selection, set_zdr_selection and reload_zdr_sessions: at no moment does a
\* request of a durably pinned conversation reach the default endpoint.
THEOREM ZdrNoDowngrade == ZdrSpec => []NoDowngrade
  BY ZdrInvariant, InvNoDowngrade, PTL

\* The map and the file agree whenever no engage or disengage is in progress.
THEOREM ZdrAgree == ZdrSpec => []AgreeWhenQuiet
<1>1. ZdrInv => AgreeWhenQuiet
  BY DEF ZdrInv
<1> QED
  BY <1>1, ZdrInvariant, PTL

\* The process, its files and the hooks keep their types through every failure.
THEOREM ZdrTypeCorrect == ZdrSpec => []ZdrTypeOK
<1>1. ZdrInv => ZdrTypeOK
  BY DEF ZdrInv
<1> QED
  BY <1>1, ZdrInvariant, PTL

\* What makes NoSilentRevert inductive when every report can be written, the file is never
\* damaged and no boot overtakes a hook: the disk alone accounts for every pinned
\* conversation that has no revert to be read, and once a boot has looked at it, or serves,
\* its selection on disk is a valid one.
PinOnDisk ==
    /\ disk # Corrupt /\ sentinel = 0
    /\ \A c \in Conv : hook[c] \in {"restored", "reverted"} => report[c] = hook[c]
    /\ \A c \in Conv :
          pinned[c] /\ report[c] # "reverted" =>
              /\ Readable /\ disk[c] # Nil
              /\ stage = "up" \/ (stage = "entries" /\ c \notin todo) => disk[c] \in verified

\* The hypotheses under which a revert is never silent: every report is written, the file
\* is never damaged, and a hook claims the report it has read.
OnlyBenignFaults == ZdrFaults \subseteq {"writefail", "verify"}

\* Under them every step keeps each pinned conversation accounted for on disk.
LEMMA PinStep ==
  ASSUME OnlyBenignFaults, ZdrInv, PinOnDisk, [ZdrNext]_zdrVars
  PROVE  PinOnDisk'
<1> USE NilAssumption, FileAssumption, NoOpAssumption
    DEF OnlyBenignFaults, ZdrInv, ZdrTypeOK, PinOnDisk, Readable, fileVars, hookVars, procVars
<1>1. ASSUME NEW c \in Conv, NEW t \in Target, Engage(c, t) PROVE PinOnDisk'
  BY <1>1 DEF Engage
<1>2. CASE EngageWrite
  <2>1. CASE UNCHANGED <<disk, pinned, unheard>>
    BY <1>2, <2>1 DEF EngageWrite
  <2>2. CASE disk' = op.entries /\ pinned' = [pinned EXCEPT ![op.conv] = TRUE]
    <3>1. op.entries = map /\ op.conv \in Conv /\ map \in Selections /\ stage = "up"
          /\ map[op.conv] \in verified
      BY <1>2 DEF EngageWrite, OpIsRecoverable, Op
    <3>2. ASSUME NEW d \in Conv, pinned[d] \/ d = op.conv, report[d] # "reverted"
          PROVE  map[d] \in verified
      BY <1>2, <3>1, <3>2 DEF EngageWrite, OpIsRecoverable, Durable
    <3>3. /\ stage' = stage /\ verified' = verified /\ report' = report /\ hook' = hook
          /\ sentinel' = sentinel /\ todo' = todo
      BY <1>2 DEF EngageWrite
    <3>4. disk' # Absent /\ disk' # Corrupt
      BY <2>2, <3>1
    <3>5. ASSUME NEW d \in Conv, pinned'[d] PROVE pinned[d] \/ d = op.conv
      BY <2>2, <3>1, <3>5
    <3> QED
      BY <2>2, <3>1, <3>2, <3>3, <3>4, <3>5
  <2> QED
    BY <1>2, <2>1, <2>2 DEF EngageWrite
<1>3. CASE EngageRollback
  BY <1>3 DEF EngageRollback
<1>4. ASSUME NEW c \in Conv, Disengage(c) PROVE PinOnDisk'
  BY <1>4 DEF Disengage
<1>5. CASE DisengageWrite
  <2>1. CASE UNCHANGED <<disk, pinned, unheard>>
    BY <1>5, <2>1 DEF DisengageWrite
  <2>2. CASE disk' = op.entries /\ pinned' = [pinned EXCEPT ![op.conv] = FALSE]
    <3>1. op.entries = [map EXCEPT ![op.conv] = Nil] /\ op.entries \in Selections
          /\ op.conv \in Conv /\ map \in Selections /\ stage = "up"
      BY <1>5 DEF DisengageWrite, OpIsRecoverable, Op
    <3>2. ASSUME NEW d \in Conv, pinned[d], d # op.conv, report[d] # "reverted"
          PROVE  disk'[d] \in verified
      <4>1. map[d] \in verified
        BY <1>5, <3>1, <3>2 DEF DisengageWrite, OpIsRecoverable, Durable
      <4> QED
        BY <2>2, <3>1, <3>2, <4>1 DEF Selections
    <3>3. /\ stage' = stage /\ verified' = verified /\ report' = report /\ hook' = hook
          /\ sentinel' = sentinel /\ todo' = todo
      BY <1>5 DEF DisengageWrite
    <3>4. disk' # Absent /\ disk' # Corrupt
      BY <2>2, <3>1
    <3>5. ASSUME NEW d \in Conv, pinned'[d] PROVE pinned[d] /\ d # op.conv
      BY <2>2, <3>1, <3>5
    <3> QED
      BY <2>2, <3>1, <3>2, <3>3, <3>4, <3>5
  <2> QED
    BY <1>5, <2>1, <2>2 DEF DisengageWrite
<1>6. CASE DisengageRemove
  BY <1>6 DEF DisengageRemove
<1>7. CASE Start
  BY <1>7 DEF Start
<1>8. CASE LoadAbsent
  BY <1>8 DEF LoadAbsent, ClearSentinel
<1>9. CASE LoadCorrupt
  BY <1>9 DEF LoadCorrupt
<1>10. CASE Quarantine
  BY <1>10 DEF Quarantine, BootIsFaithful
<1>11. CASE LoadFile
  BY <1>11 DEF LoadFile, ClearSentinel, Engaged
<1>12. ASSUME NEW c \in Conv, Revalidate(c) PROVE PinOnDisk'
  <2>1. /\ report' = [report EXCEPT ![c] = IF disk[c] \in verified THEN "restored" ELSE "reverted"]
        /\ hook[c] \in {"idle", "global"} /\ todo' = todo \ {c} /\ stage = "entries"
        /\ UNCHANGED <<stage, verified, disk, sentinel, hook, pinned>>
    BY <1>12 DEF Revalidate, May
  <2>2. ASSUME NEW d \in Conv, hook'[d] \in {"restored", "reverted"} PROVE report'[d] = hook'[d]
    BY <2>1, <2>2
  <2>3. ASSUME NEW d \in Conv, pinned'[d], report'[d] # "reverted"
        PROVE  Readable /\ disk[d] # Nil /\ (d \notin todo' => disk[d] \in verified)
    <3>1. CASE d = c
      BY <1>12, <2>1, <2>3, <3>1 DEF Revalidate, BootIsFaithful, Engaged
    <3>2. CASE d # c
      BY <2>1, <2>3, <3>2
    <3> QED
      BY <3>1, <3>2
  <2> QED
    BY <2>1, <2>2, <2>3
<1>13. CASE Rewrite
  BY <1>13 DEF Rewrite, BootIsFaithful
<1>14. CASE Stop
  BY <1>14 DEF Stop
<1>15. CASE Damage
  BY <1>15 DEF Damage, May
<1>16. ASSUME NEW c \in Conv, ConsumeRead(c) PROVE PinOnDisk'
  BY <1>16 DEF ConsumeRead
<1>17. ASSUME NEW c \in Conv, ConsumeClaim(c) PROVE PinOnDisk'
  BY <1>17 DEF ConsumeClaim
<1>18. ASSUME NEW c \in Conv, ConsumeGlobal(c) PROVE PinOnDisk'
  BY <1>18 DEF ConsumeGlobal
<1>19. CASE UNCHANGED zdrVars
  BY <1>19 DEF zdrVars
<1> QED
  BY <1>1, <1>2, <1>3, <1>4, <1>5, <1>6, <1>7, <1>8, <1>9, <1>10, <1>11, <1>12,
     <1>13, <1>14, <1>15, <1>16, <1>17, <1>18, <1>19
     DEF ZdrNext, ProxyStep, HookStep

\* The disk accounts for every pinned conversation.
THEOREM ZdrPinOnDisk == ASSUME OnlyBenignFaults PROVE ZdrSpec => []PinOnDisk
<1>1. ZdrInit => PinOnDisk
  BY FileAssumption DEF ZdrInit, PinOnDisk
<1>2. ZdrInv /\ PinOnDisk /\ [ZdrNext]_zdrVars => PinOnDisk'
  BY PinStep
<1> QED
  BY <1>1, <1>2, ZdrInvariant, PTL DEF ZdrSpec

\* reload_zdr_sessions and consume_zdr_transitions: no number of engages, disengages,
\* failed writes, crashes, re-verifications and reboots reverts a conversation silently, as
\* long as reports can be written, the file is not damaged and no boot overtakes a hook
\* (any one of these three more faults, over three boots, does: zdr_cleared has the damage).
THEOREM ZdrRevertIsTold == ASSUME OnlyBenignFaults PROVE ZdrSpec => []RevertIsTold
<1>1. PinOnDisk => RevertIsTold
  BY DEF PinOnDisk, RevertIsTold, TellsUser, ReportTells, RetriedAtBoot
<1> QED
  BY <1>1, ZdrPinOnDisk, PTL

\* Under every fault.  The user will hear of c, or the word was destroyed.
Heard(c) == pinned[c] => TellsUser(c) \/ c \in unheard

\* What makes NoSilentRevert inductive: the clock the epochs come from has passed every
\* sentinel and marker when a boot starts, so the sentinel a damaged file leaves is news to
\* every conversation; and once a boot has looked at a selection it did not keep, the user
\* will hear of it.
NewsInv ==
    /\ sentinel <= boots /\ \A c \in Conv : marker[c] <= boots
    /\ stage = "load" => sentinel < boots /\ \A c \in Conv : marker[c] < boots
    /\ stage = "quarantine" => \A c \in Conv : Heard(c)
    /\ stage = "entries" => \A c \in Conv \ todo : disk[c] # Nil /\ survivors[c] = Nil => Heard(c)
    /\ NoSilentRevert

\* Every step leaves word of each revert, or counts it among the destroyed ones.
LEMMA NewsStep ==
  ASSUME ZdrInv, NewsInv, [ZdrNext]_zdrVars
  PROVE  NewsInv'
<1> USE NilAssumption, FileAssumption, NoOpAssumption
    DEF ZdrInv, ZdrTypeOK, NewsInv, NoSilentRevert, Heard, TellsUser, ReportTells, SentinelTells,
        RetriedAtBoot, Readable, fileVars, hookVars, procVars
<1>1. ASSUME NEW c \in Conv, NEW t \in Target, Engage(c, t) PROVE NewsInv'
  BY <1>1 DEF Engage
<1>2. CASE EngageWrite
  <2>1. CASE UNCHANGED <<disk, pinned, unheard>>
    BY <1>2, <2>1 DEF EngageWrite
  <2>2. CASE disk' = op.entries /\ pinned' = [pinned EXCEPT ![op.conv] = TRUE]
             /\ unheard' = (unheard \cup Overwritten) \ {op.conv}
    <3>1. /\ op.conv \in Conv /\ op.entries \in Selections /\ op.entries[op.conv] # Nil
          /\ stage = "up"
      BY <1>2 DEF EngageWrite, OpIsRecoverable, Op, Selections
    <3>2. /\ UNCHANGED <<stage, report, sentinel, hook, marker, boots>>
          /\ disk' # Absent /\ disk' # Corrupt
      BY <1>2, <2>2, <3>1 DEF EngageWrite
    <3>3. ASSUME NEW d \in Conv, pinned'[d]
          PROVE  TellsUser(d)' \/ RetriedAtBoot(d)' \/ d \in unheard'
      <4>1. CASE d = op.conv
        BY <2>2, <3>1, <3>2, <4>1
      <4>2. CASE d # op.conv
        <5>1. pinned[d]
          BY <2>2, <3>1, <3>3, <4>2
        <5>2. RetriedAtBoot(d) /\ ~TellsUser(d) /\ op.entries[d] = Nil => d \in Overwritten
          BY <5>1 DEF Overwritten
        <5> QED
          BY <2>2, <3>2, <4>2, <5>1, <5>2
      <4> QED
        BY <4>1, <4>2
    <3> QED
      BY <3>1, <3>2, <3>3
  <2> QED
    BY <1>2, <2>1, <2>2 DEF EngageWrite
<1>3. CASE EngageRollback
  BY <1>3 DEF EngageRollback
<1>4. ASSUME NEW c \in Conv, Disengage(c) PROVE NewsInv'
  BY <1>4 DEF Disengage
<1>5. CASE DisengageWrite
  <2>1. CASE UNCHANGED <<disk, pinned, unheard>>
    BY <1>5, <2>1 DEF DisengageWrite
  <2>2. CASE disk' = op.entries /\ pinned' = [pinned EXCEPT ![op.conv] = FALSE]
             /\ unheard' = unheard \cup Overwritten
    <3>1. op.conv \in Conv /\ op.entries \in Selections /\ stage = "up"
      BY <1>5 DEF DisengageWrite, OpIsRecoverable, Op
    <3>2. /\ UNCHANGED <<stage, report, sentinel, hook, marker, boots>>
          /\ disk' # Absent /\ disk' # Corrupt
      BY <1>5, <2>2, <3>1 DEF DisengageWrite
    <3>3. ASSUME NEW d \in Conv, pinned'[d]
          PROVE  TellsUser(d)' \/ RetriedAtBoot(d)' \/ d \in unheard'
      <4>1. pinned[d]
        BY <2>2, <3>1, <3>3
      <4>2. RetriedAtBoot(d) /\ ~TellsUser(d) /\ op.entries[d] = Nil => d \in Overwritten
        BY <4>1 DEF Overwritten
      <4> QED
        BY <2>2, <3>2, <4>1, <4>2
    <3> QED
      BY <3>1, <3>2, <3>3
  <2> QED
    BY <1>5, <2>1, <2>2 DEF DisengageWrite
<1>6. CASE DisengageRemove
  BY <1>6 DEF DisengageRemove
<1>7. CASE Start
  BY <1>7 DEF Start
<1>8. CASE LoadAbsent
  BY <1>8 DEF LoadAbsent, ClearSentinel
<1>9. CASE LoadCorrupt
  BY <1>9 DEF LoadCorrupt
<1>10. CASE Quarantine
  BY <1>10 DEF Quarantine
<1>11. CASE LoadFile
  BY <1>11 DEF LoadFile, ClearSentinel, Engaged
<1>12. ASSUME NEW c \in Conv, Revalidate(c) PROVE NewsInv'
  <2>1. /\ todo' = todo \ {c} /\ stage = "entries" /\ c \in todo
        /\ UNCHANGED <<stage, disk, sentinel, boots, hook, marker, pinned, unheard>>
    BY <1>12 DEF Revalidate
  <2>2. /\ \A d \in Conv \ {c} : report'[d] = report[d] /\ survivors'[d] = survivors[d]
        /\ report'[c] = "reverted" \/ survivors'[c] = disk[c]
        /\ disk[c] = Nil => report'[c] \in {report[c], "reverted"}
    BY <1>12 DEF Revalidate, BootIsFaithful, Selections
  <2>3. disk \in Selections /\ disk # Absent /\ disk # Corrupt
    BY <2>1 DEF BootIsFaithful
  <2>4. ASSUME NEW d \in Conv \ todo', disk[d] # Nil, survivors'[d] = Nil PROVE Heard(d)'
    BY <2>1, <2>2, <2>4
  <2>5. ASSUME NEW d \in Conv, pinned[d] PROVE TellsUser(d)' \/ RetriedAtBoot(d)' \/ d \in unheard'
    <3>1. CASE disk[d] # Nil
      BY <2>1, <2>3, <3>1
    <3>2. CASE disk[d] = Nil
      <4>1. report'[d] = report[d] \/ report'[d] = "reverted"
        BY <2>2, <3>2
      <4> QED
        BY <2>1, <2>3, <2>5, <3>2, <4>1
    <3> QED
      BY <3>1, <3>2
  <2> QED
    BY <2>1, <2>4, <2>5
<1>13. CASE Rewrite
  <2>1. stage = "entries" /\ todo = {} /\ stage' = "up" /\ disk # Absent /\ disk # Corrupt
    BY <1>13 DEF Rewrite, BootIsFaithful
  <2>2. UNCHANGED <<report, sentinel, boots, hook, marker, pinned, unheard>>
    BY <1>13 DEF Rewrite
  <2>3. survivors # Absent /\ survivors # Corrupt
    OBVIOUS
  <2>4. disk' = survivors \/ disk' = disk
    BY <1>13 DEF Rewrite
  <2>5. ASSUME NEW d \in Conv, pinned[d] PROVE TellsUser(d)' \/ RetriedAtBoot(d)' \/ d \in unheard'
    BY <2>1, <2>2, <2>3, <2>4, <2>5
  <2> QED
    BY <2>1, <2>2, <2>5
<1>14. CASE Stop
  BY <1>14 DEF Stop
<1>15. CASE Damage
  BY <1>15 DEF Damage
<1>16. ASSUME NEW c \in Conv, ConsumeRead(c) PROVE NewsInv'
  BY <1>16 DEF ConsumeRead
<1>17. ASSUME NEW c \in Conv, ConsumeClaim(c) PROVE NewsInv'
  BY <1>17 DEF ConsumeClaim
<1>18. ASSUME NEW c \in Conv, ConsumeGlobal(c) PROVE NewsInv'
  BY <1>18 DEF ConsumeGlobal
<1>19. CASE UNCHANGED zdrVars
  BY <1>19 DEF zdrVars
<1> QED
  BY <1>1, <1>2, <1>3, <1>4, <1>5, <1>6, <1>7, <1>8, <1>9, <1>10, <1>11, <1>12,
     <1>13, <1>14, <1>15, <1>16, <1>17, <1>18, <1>19
     DEF ZdrNext, ProxyStep, HookStep

\* reload_zdr_sessions and consume_zdr_transitions, with every fault there is: a pinned
\* conversation that is no longer on disk has word of it waiting, unless one of the three
\* steps that destroy a word (ClearSentinel, EngageWrite and DisengageWrite over a retained
\* entry, ConsumeClaim of an older report) took it.
THEOREM ZdrNoSilentRevert == ZdrSpec => []NoSilentRevert
<1>1. ZdrInit => NewsInv
  BY DEF ZdrInit, NewsInv, NoSilentRevert
<1>2. ZdrInv /\ NewsInv /\ [ZdrNext]_zdrVars => NewsInv'
  BY NewsStep
<1>3. NewsInv => NoSilentRevert
  BY DEF NewsInv
<1> QED
  BY <1>1, <1>2, <1>3, ZdrInvariant, PTL DEF ZdrSpec

\* The cap.  The map is bounded because whatever may become the map is: the file a boot
\* restores, and the entries an engage or disengage writes to that file.
Small(sel) == IsFiniteSet(Engaged(sel)) /\ Cardinality(Engaged(sel)) <= Cap

CapInv ==
    /\ Small(map)
    /\ Readable => Small(disk)
    /\ op # NoOp => Small(op.entries)

\* A selection that pins no more conversations than a small one is small.
LEMMA SmallerIsSmall ==
  ASSUME NEW a, NEW b, Small(b), Engaged(a) \subseteq Engaged(b)
  PROVE  Small(a)
<1>1. IsFiniteSet(Engaged(a)) /\ Cardinality(Engaged(a)) <= Cardinality(Engaged(b))
  BY FS_Subset DEF Small
<1>2. Cardinality(Engaged(a)) \in Nat /\ Cardinality(Engaged(b)) \in Nat
  BY <1>1, FS_CardinalityType DEF Small
<1> QED
  BY <1>1, <1>2, BoundsAssumption DEF Small

\* zdr_set's check of the cap, made before the insert, bounds the map after it.
LEMMA EngagedIsSmall ==
  ASSUME ZdrTypeOK, Small(map), NEW c \in Conv, NEW t,
         map[c] # Nil \/ Cardinality(Engaged(map)) < Cap
  PROVE  Small([map EXCEPT ![c] = t])
<1> DEFINE new == [map EXCEPT ![c] = t]
<1>1. Engaged(new) \subseteq Engaged(map) \cup {c}
  BY DEF Engaged, ZdrTypeOK, Selections
<1>2. CASE map[c] # Nil
  BY <1>1, <1>2, SmallerIsSmall DEF Engaged
<1>3. CASE Cardinality(Engaged(map)) < Cap
  <2> DEFINE more == Engaged(map) \cup {c}
  <2>1. IsFiniteSet(Engaged(map)) /\ Cardinality(Engaged(map)) \in Nat
    BY FS_CardinalityType DEF Small
  <2>2. /\ IsFiniteSet(more)
        /\ \/ Cardinality(more) = Cardinality(Engaged(map))
           \/ Cardinality(more) = Cardinality(Engaged(map)) + 1
    BY <2>1, FS_AddElement
  <2> HIDE DEF more, new
  <2>3. /\ IsFiniteSet(Engaged(new))
        /\ Cardinality(Engaged(new)) <= Cardinality(more)
    BY <1>1, <2>2, FS_Subset DEF more
  <2>4. Cardinality(Engaged(new)) \in Nat
    BY <2>3, FS_CardinalityType
  <2>5. Small(new)
    BY <1>3, <2>1, <2>2, <2>3, <2>4, BoundsAssumption DEF Small
  <2> QED
    BY <2>5 DEF new
<1> QED
  BY <1>2, <1>3

\* Every step keeps the map, the file and the entries in flight within the cap.
LEMMA CapStep ==
  ASSUME ZdrInv, CapInv, [ZdrNext]_zdrVars
  PROVE  CapInv'
<1> USE NilAssumption, FileAssumption, NoOpAssumption
    DEF ZdrInv, ZdrTypeOK, CapInv, Readable, fileVars, hookVars, procVars
<1>1. BootIsFaithful'
  BY BootStep
<1>2. ASSUME UNCHANGED <<map, disk, op>> PROVE CapInv'
  BY <1>2 DEF Small, Engaged
<1>3. ASSUME NEW c \in Conv, NEW t \in Target, Engage(c, t) PROVE CapInv'
  <2>1. /\ map' = [map EXCEPT ![c] = t] /\ disk' = disk
        /\ op'.entries = [map EXCEPT ![c] = t]
    BY <1>3 DEF Engage
  <2>2. Small([map EXCEPT ![c] = t])
    BY <1>3, EngagedIsSmall DEF Engage
  <2> QED
    BY <2>1, <2>2 DEF Small, Engaged
<1>4. CASE EngageWrite \/ DisengageWrite
  <2>1. op # NoOp /\ map' = map /\ (disk' = disk \/ disk' = op.entries)
        /\ (op' = NoOp \/ op'.entries = op.entries)
    BY <1>4 DEF EngageWrite, DisengageWrite, Op
  <2> QED
    BY <2>1 DEF Small, Engaged
<1>5. CASE EngageRollback
  <2>1. /\ disk' = disk /\ op' = NoOp /\ map' = [map EXCEPT ![op.conv] = op.prior]
        /\ map[op.conv] # Nil /\ op.conv \in Conv
    BY <1>5 DEF EngageRollback, OpIsRecoverable, Op
  <2>2. Engaged(map') \subseteq Engaged(map)
    BY <2>1 DEF Engaged, Selections
  <2>3. Small(map')
    BY <2>2, SmallerIsSmall
  <2> QED
    BY <2>1, <2>3 DEF Small, Engaged
<1>6. ASSUME NEW c \in Conv, Disengage(c) PROVE CapInv'
  <2>1. map' = map /\ disk' = disk /\ op'.entries = [map EXCEPT ![c] = Nil]
    BY <1>6 DEF Disengage
  <2>2. Engaged([map EXCEPT ![c] = Nil]) \subseteq Engaged(map)
    BY DEF Engaged, Selections
  <2>3. Small([map EXCEPT ![c] = Nil])
    BY <2>2, SmallerIsSmall
  <2> QED
    BY <2>1, <2>3 DEF Small, Engaged
<1>7. CASE DisengageRemove
  <2>1. disk' = disk /\ op' = NoOp /\ map' = [map EXCEPT ![op.conv] = Nil]
    BY <1>7 DEF DisengageRemove
  <2>2. Engaged(map') \subseteq Engaged(map)
    BY <2>1 DEF Engaged, Selections
  <2>3. Small(map')
    BY <2>2, SmallerIsSmall
  <2> QED
    BY <2>1, <2>3 DEF Small, Engaged
<1>8. CASE Quarantine
  <2>1. map' = map /\ op' = op /\ (disk' = Absent \/ disk' = disk)
    BY <1>8 DEF Quarantine
  <2> QED
    BY <2>1 DEF Small, Engaged
<1>9. ASSUME NEW c \in Conv, Revalidate(c) PROVE CapInv'
  <2>1. Readable /\ disk' = disk /\ op' = op /\ stage' = "entries"
    BY <1>9 DEF Revalidate, BootIsFaithful
  <2>2. Engaged(map') \subseteq Engaged(disk)
    BY <1>1, <2>1 DEF Engaged, BootIsFaithful
  <2>3. Small(map')
    BY <2>1, <2>2, SmallerIsSmall
  <2> QED
    BY <2>1, <2>3 DEF Small, Engaged
<1>10. CASE Rewrite
  <2>1. Readable /\ map' = map /\ op' = op /\ (disk' = survivors \/ disk' = disk)
    BY <1>10 DEF Rewrite, BootIsFaithful
  <2>2. Engaged(survivors) \subseteq Engaged(disk)
    BY <1>10 DEF Rewrite, Engaged, BootIsFaithful
  <2>3. Small(survivors)
    BY <2>1, <2>2, SmallerIsSmall
  <2> QED
    BY <2>1, <2>3 DEF Small, Engaged
<1>11. CASE Stop
  <2>1. disk' = disk /\ op' = NoOp /\ map' = Empty
    BY <1>11 DEF Stop
  <2>2. Engaged(Empty) \subseteq Engaged(map)
    BY DEF Engaged, Empty
  <2>3. Small(Empty)
    BY <2>2, SmallerIsSmall
  <2> QED
    BY <2>1, <2>3 DEF Small, Engaged
<1>12. CASE Damage
  BY <1>12 DEF Damage, Small, Engaged
<1>13. CASE \/ Start \/ LoadAbsent \/ LoadCorrupt \/ LoadFile \/ UNCHANGED zdrVars
            \/ \E c \in Conv : HookStep(c)
  BY <1>2, <1>13 DEF Start, LoadAbsent, LoadCorrupt, LoadFile, zdrVars, HookStep,
     ConsumeRead, ConsumeClaim, ConsumeGlobal
<1> QED
  BY <1>3, <1>4, <1>5, <1>6, <1>7, <1>8, <1>9, <1>10, <1>11, <1>12, <1>13
     DEF ZdrNext, ProxyStep

\* set_zdr_selection, clear_zdr_selection and reload_zdr_sessions keep the routing state
\* sound through every failed write, crash and reload: what is in progress can be completed
\* or undone, a boot installs what it has re-validated, and the cap holds without being
\* checked again at a reload.
THEOREM ZdrIsSound == ZdrSpec => []ZdrSound
<1>1. ZdrInit => CapInv
  <2>1. ASSUME ZdrInit PROVE Engaged(map) = {}
    BY <2>1 DEF ZdrInit, Empty, Engaged
  <2> QED
    BY <2>1, FS_EmptySet, BoundsAssumption DEF ZdrInit, CapInv, Small, Readable
<1>2. ZdrInv /\ CapInv /\ [ZdrNext]_zdrVars => CapInv'
  BY CapStep
<1>3. ZdrInv /\ CapInv => ZdrSound
  BY DEF ZdrInv, CapInv, Small, ZdrSound, WithinCap
<1> QED
  BY <1>1, <1>2, <1>3, ZdrInvariant, PTL DEF ZdrSpec

-----------------------------------------------------------------------------
(* The index of the monitor (MonitorIndex).                                *)
-----------------------------------------------------------------------------
(* Numbers.  A non-empty set of naturals has a least element, one that is  *)
(* bounded a greatest, and finitely many numbers have a bound.             *)

LEMMA NatOrder ==
    \E R : IsWellFoundedOn(R, Nat) /\ \A x, y \in Nat : <<y, x>> \in R <=> y < x
<1>1. IsWellFoundedOn(OpToRel(<, Nat), Nat)
  BY NatLessThanWellFounded
<1>2. \A x, y \in Nat : <<y, x>> \in OpToRel(<, Nat) <=> y < x
  BY DEF OpToRel
<1> QED
  BY <1>1, <1>2, Zenon

LEMMA SmallestOf ==
    ASSUME NEW T, T \subseteq Nat, T # {}
    PROVE  \E x \in T : \A y \in T : x <= y
<1>1. PICK R : IsWellFoundedOn(R, Nat) /\ \A x, y \in Nat : <<y, x>> \in R <=> y < x
  BY NatOrder
<1>2. \E x \in T : \A y \in T : ~ (<<y, x>> \in R)
  BY <1>1, WFMin, Zenon
<1>3. PICK x \in T : \A y \in T : ~ (<<y, x>> \in R)
  BY <1>2
<1>4. \A y \in T : ~(y < x)
  BY <1>1, <1>3
<1> QED
  BY <1>4

LEMMA LargestOf ==
    ASSUME NEW T, T \subseteq Nat, T # {}, NEW bound \in Nat, \A x \in T : x <= bound
    PROVE  \E x \in T : \A y \in T : y <= x
<1> DEFINE U == {bound - x : x \in T}
<1>1. \A x \in T : x \in Nat /\ bound - x \in Nat
  OBVIOUS
<1>2. U \subseteq Nat /\ U # {}
  BY <1>1
<1>3. PICK u \in U : \A w \in U : u <= w
  BY <1>2, SmallestOf
<1>4. PICK x \in T : u = bound - x
  BY <1>3
<1>5. \A y \in T : bound - x <= bound - y
  BY <1>3, <1>4
<1> QED
  BY <1>5

LEMMA BoundedValues ==
    ASSUME NEW n \in Nat, NEW f \in [1..n -> Nat]
    PROVE  \E bound \in Nat : \A i \in 1..n : f[i] <= bound
<1> DEFINE Bad == {m \in 0..n : ~ \E bound \in Nat : \A i \in 1..m : f[i] <= bound}
<1>1. Bad \subseteq Nat
  OBVIOUS
<1>2. CASE Bad = {}
  <2>1. n \in 0..n
    OBVIOUS
  <2>2. n \notin Bad
    <3> HIDE DEF Bad
    <3> QED BY <1>2
  <2> QED
    BY <2>1, <2>2
<1>3. ASSUME Bad # {} PROVE FALSE
  <2>1. PICK m \in Bad : \A k \in Bad : m <= k
    BY <1>1, <1>3, SmallestOf
  <2>2. CASE m = 0
    BY <2>1, <2>2
  <2>3. CASE m > 0
    <3>1. m - 1 \in 0..n /\ ~(m - 1 \in Bad)
      <4>1. m \in Nat /\ m \in 0..n /\ \A k \in Bad : m <= k
        BY <2>1
      <4> HIDE DEF Bad
      <4> QED
        BY <4>1, <2>3, <1>1
    <3>2. PICK bound \in Nat : \A i \in 1..(m - 1) : f[i] <= bound
      BY <3>1
    <3>3. m \in 1..n /\ f[m] \in Nat
      BY <2>1, <2>3
    <3>4. \A i \in 1..m : f[i] <= bound + f[m]
      BY <3>2, <3>3
    <3>5. bound + f[m] \in Nat
      BY <3>3
    <3> QED
      BY <3>4, <3>5, <2>1
  <2> QED
    BY <2>1, <2>2, <2>3
<1> QED
  BY <1>2, <1>3

\* Of some indices, one has the largest value.
LEMMA BestIndex ==
    ASSUME NEW n \in Nat, NEW f \in [1..n -> Nat], NEW S, S \subseteq 1..n, S # {}
    PROVE  \E i \in S : \A j \in S : f[j] <= f[i]
<1> DEFINE T == {f[i] : i \in S}
<1>1. T \subseteq Nat /\ T # {}
  OBVIOUS
<1>2. PICK bound \in Nat : \A i \in 1..n : f[i] <= bound
  BY BoundedValues
<1>3. \A x \in T : x <= bound
  BY <1>2
<1>4. PICK x \in T : \A y \in T : y <= x
  BY <1>1, <1>3, LargestOf
<1> QED
  BY <1>4

\* Finitely many finite sets have finitely many elements between them.
LEMMA FiniteUnion ==
    ASSUME NEW n \in Nat, NEW f, \A i \in 1..n : IsFiniteSet(f[i])
    PROVE  IsFiniteSet(UNION {f[i] : i \in 1..n})
<1> DEFINE U(m) == UNION {f[i] : i \in 1..m}
           Bad == {m \in 0..n : ~IsFiniteSet(U(m))}
<1>1. Bad \subseteq Nat
  OBVIOUS
<1>2. CASE Bad = {}
  BY <1>2
<1>3. ASSUME Bad # {} PROVE FALSE
  <2>1. PICK m \in Bad : \A k \in Bad : m <= k
    BY <1>1, <1>3, SmallestOf
  <2>2. CASE m = 0
    <3>1. U(m) = {}
      BY <2>2
    <3> QED
      BY <3>1, <2>1, FS_EmptySet
  <2>3. CASE m > 0
    <3>1. m - 1 \in 0..n /\ ~(m - 1 \in Bad) /\ m \in 1..n
      BY <2>1, <2>3
    <3>2. IsFiniteSet(U(m - 1)) /\ IsFiniteSet(f[m])
      BY <3>1
    <3>3. 1..m = 1..(m - 1) \cup {m}
      BY <3>1
    <3>4. U(m) = U(m - 1) \cup f[m]
      BY <3>3
    <3>5. IsFiniteSet(U(m - 1) \cup f[m])
      <4> HIDE DEF U
      <4> QED BY <3>2, FS_Union
    <3> QED
      BY <3>4, <3>5, <2>1
  <2> QED
    BY <2>1, <2>2, <2>3
<1> QED
  BY <1>2, <1>3

-----------------------------------------------------------------------------
(* The inductive invariant.                                                *)

IsSeq(s) == s \in Seq({s[i] : i \in DOMAIN s})

BodySurfaces == {SurfacesFromBody(b) : b \in RequestBodies}
BodyAnchors == {AnchorSeq(s) : s \in BodySurfaces}

Lane == {"userctx", "tool_io", "user_input", "assistant", "harness_frame",
         "harness_meta", "none"}

IndexRecord(r) ==
    /\ r = [conv |-> r.conv, turn |-> r.turn, req |-> r.req, reply |-> r.reply,
            human |-> r.human, delta |-> r.delta]
    /\ r.turn \in Nat
    /\ r.req \in BodySurfaces

RingTyped ==
    /\ IsSeq(records)
    /\ Len(records) <= MaxRing
    /\ \A i \in DOMAIN records : IndexRecord(records[i])

ClockTyped == now \in Nat /\ inTick \in 0..PerTick /\ nreq \in Nat

MapsTyped ==
    /\ lastSeen \in [DOMAIN lastSeen -> 0..now] /\ IsFiniteSet(DOMAIN lastSeen)
    /\ turns \in [DOMAIN turns -> Nat]
    /\ human \in [DOMAIN human -> Nat]
    /\ anchors \in [DOMAIN anchors -> BodyAnchors]

LedgerTyped ==
    /\ IsFiniteSet(DOMAIN tokens)
    /\ tokens \in [DOMAIN tokens -> [lane : Lane, seen : Nat, value : {"empty", "plain"}]]

\* The turn of a record is one that its conversation has reached.
TurnsCount ==
    \A i \in DOMAIN records :
        records[i].conv \in DOMAIN turns => records[i].turn <= turns[records[i].conv]

\* The conversations that were seen no earlier than c.
NoOlder(seen, c) == {d \in DOMAIN seen : seen[d] >= seen[c]}

SeenNow(seen) == {d \in DOMAIN seen : seen[d] = now}

\* A request of this millisecond saw each conversation of this millisecond.
TickCounted == Cardinality(SeenNow(lastSeen)) <= inTick

\* No more conversations were seen since a record's own than requests were recorded
\* since: those in the ring before it, and those of one millisecond.
RingRecent ==
    \A i \in DOMAIN records :
        Cardinality(NoOlder(lastSeen, records[i].conv)) <= PerTick + i - 1

\* The reviewer was shown what a record holds.
VettedHolds ==
    \A i \in DOMAIN records :
        Texts(records[i].req) \cup records[i].reply \subseteq Lookup(vetted, records[i].conv, {})

IndexInv ==
    /\ RingTyped /\ ClockTyped /\ MapsTyped /\ LedgerTyped
    /\ IndexSound
    /\ TurnsCount
    /\ TickCounted
    /\ RingRecent
    /\ VettedHolds

-----------------------------------------------------------------------------
(* The operators of the index.                                             *)

\* Bodies, and the surfaces and anchors that are made of them.
LEMMA SurfacesFinite ==
    ASSUME NEW s \in BodySurfaces
    PROVE  /\ Len(s) \in Nat /\ DOMAIN s = 1..Len(s)
           /\ IsFiniteSet(DOMAIN s)
           /\ IsFiniteSet(Manifest(s))
<1>1. PICK b \in RequestBodies : s = SurfacesFromBody(b)
  BY DEF BodySurfaces
<1>2. /\ s \in Seq({b.blocks[i] : i \in DOMAIN b.blocks})
      /\ \A i \in DOMAIN b.blocks : IsFiniteSet(b.blocks[i].tokens)
  BY <1>1, BodiesAssumption
<1>3. Len(s) \in Nat /\ DOMAIN s = 1..Len(s)
  BY <1>2
<1>4. IsFiniteSet(DOMAIN s)
  BY <1>3, FS_Interval
<1>5. ASSUME NEW i \in 1..Len(s) PROVE IsFiniteSet(s[i].tokens)
  <2>1. s[i] \in {b.blocks[j] : j \in DOMAIN b.blocks}
    BY <1>2, <1>3
  <2> QED
    BY <2>1, <1>2
<1>6. IsFiniteSet(Manifest(s))
  <2> DEFINE f == [i \in 1..Len(s) |-> s[i].tokens]
  <2>1. \A i \in 1..Len(s) : IsFiniteSet(f[i])
    BY <1>5
  <2>2. Manifest(s) = UNION {f[i] : i \in 1..Len(s)}
    BY <1>3 DEF Manifest
  <2> HIDE DEF f
  <2> QED
    BY <2>1, <2>2, <1>3, FiniteUnion, ZenonT(60)
<1> QED
  BY <1>3, <1>4, <1>6

LEMMA AnchorIsSequence ==
    ASSUME NEW q \in BodyAnchors
    PROVE  /\ Len(q) \in Nat
           /\ IsPrefix(q, q)
           /\ q # <<>> => Len(q) > 0
<1>1. PICK b \in RequestBodies : q = AnchorSeq(SurfacesFromBody(b))
  BY DEF BodyAnchors, BodySurfaces
<1>2. q \in Seq(Texts(SurfacesFromBody(b)))
  BY <1>1, BodiesAssumption
<1> QED
  BY <1>2 DEF IsPrefix

\* A prefix that is as long as the whole is the whole.
LEMMA FullPrefix ==
    ASSUME NEW q \in BodyAnchors, NEW r \in BodyAnchors, IsPrefix(q, r), Len(q) >= Len(r)
    PROVE  q = r
<1>1. PICK b \in RequestBodies : q = AnchorSeq(SurfacesFromBody(b))
  BY DEF BodyAnchors, BodySurfaces
<1>2. PICK c \in RequestBodies : r = AnchorSeq(SurfacesFromBody(c))
  BY DEF BodyAnchors, BodySurfaces
<1>3. q \in Seq(Texts(SurfacesFromBody(b))) /\ r \in Seq(Texts(SurfacesFromBody(c)))
  BY <1>1, <1>2, BodiesAssumption
<1>4. Len(q) = Len(r) /\ SubSeq(q, 1, Len(q)) = SubSeq(r, 1, Len(r))
  BY <1>3 DEF IsPrefix
<1> QED
  BY <1>3, <1>4

LEMMA WithFacts ==
    ASSUME NEW f, NEW k, NEW v
    PROVE  /\ DOMAIN With(f, k, v) = DOMAIN f \cup {k}
           /\ With(f, k, v)[k] = v
           /\ \A x \in DOMAIN f \ {k} : With(f, k, v)[x] = f[x]
           /\ With(f, k, v) = [x \in DOMAIN f \cup {k} |-> With(f, k, v)[x]]
  BY DEF With

\* RingPush: the new record first, then the old ones, as far as the ring goes.
LEMMA RingPushed ==
    ASSUME IsSeq(records), Len(records) <= MaxRing, NEW r
    PROVE  /\ IsSeq(RingPush(r))
           /\ Len(RingPush(r)) <= MaxRing
           /\ DOMAIN RingPush(r) = 1..Len(RingPush(r))
           /\ 1 \in DOMAIN RingPush(r) /\ RingPush(r)[1] = r
           /\ \A i \in DOMAIN RingPush(r) \ {1} :
                  i - 1 \in DOMAIN records /\ RingPush(r)[i] = records[i - 1]
<1> DEFINE S == {records[i] : i \in DOMAIN records} \cup {r}
           len == Len(records)
           all == <<r>> \o records
           n == Min({MaxRing, len + 1})
<1>1. records \in Seq(S) /\ r \in S /\ len \in Nat /\ DOMAIN records = 1..len
  <2>1. records \in Seq({records[i] : i \in DOMAIN records})
    BY DEF IsSeq
  <2>2. len \in Nat /\ DOMAIN records = 1..len
    BY <2>1
  <2>3. \A i \in 1..len : records[i] \in S
    BY <2>2
  <2>4. records = [i \in 1..len |-> records[i]]
    BY <2>1
  <2> HIDE DEF S
  <2>5. records \in Seq(S)
    BY <2>2, <2>3, <2>4
  <2> QED
    BY <2>2, <2>5 DEF S
<1> HIDE DEF S
<1>2. all \in Seq(S) /\ Len(all) = len + 1 /\ all[1] = r
      /\ \A i \in 2..(len + 1) : all[i] = records[i - 1]
  BY <1>1
<1>3. n \in 1..MaxRing /\ n <= len + 1
  <2>1. \E x \in {MaxRing, len + 1} : \A y \in {MaxRing, len + 1} : x =< y
    BY <1>1, MonitorAssumption
  <2>2. n \in {MaxRing, len + 1} /\ \A y \in {MaxRing, len + 1} : n =< y
    BY <2>1 DEF Min
  <2> HIDE DEF n
  <2> QED
    BY <2>2, <1>1, MonitorAssumption
<1> DEFINE new == SubSeq(all, 1, n)
<1> HIDE DEF all, n
<1>4. new \in Seq(S) /\ Len(new) = n /\ \A i \in 1..n : new[i] = all[i]
  BY <1>1, <1>2, <1>3, MonitorAssumption
<1>5. RingPush(r) = new
  BY DEF RingPush, all, n
<1> HIDE DEF new
<1>6. IsSeq(new) /\ DOMAIN new = 1..n
  <2>1. n \in Nat
    BY <1>3, MonitorAssumption
  <2>2. DOMAIN new = 1..n /\ new = [i \in 1..n |-> new[i]]
    BY <1>4, <2>1
  <2>3. PICK R : R = {new[i] : i \in DOMAIN new}
    OBVIOUS
  <2>4. \A i \in 1..n : new[i] \in R
    BY <2>2, <2>3
  <2>5. new \in Seq(R)
    BY <2>1, <2>2, <2>4
  <2> QED
    BY <2>2, <2>3, <2>5 DEF IsSeq
<1>7. \A i \in DOMAIN new \ {1} : i - 1 \in DOMAIN records /\ new[i] = records[i - 1]
  BY <1>1, <1>2, <1>3, <1>4, <1>6, MonitorAssumption
<1>8. 1 \in DOMAIN new /\ new[1] = r
  BY <1>2, <1>3, <1>4, <1>6, MonitorAssumption
<1>9. Len(new) <= MaxRing
  BY <1>3, <1>4, MonitorAssumption
<1> QED
  BY <1>4, <1>5, <1>6, <1>7, <1>8, <1>9

-----------------------------------------------------------------------------
(* The ledger of masked values.                                            *)

\* The rank of every lane is a number, so a highest lane exists.
LEMMA LaneTyped ==
    ASSUME NEW s \in BodySurfaces, NEW t
    PROVE  LaneOf(s, t) \in Lane
<1> DEFINE lanes == {ProvenanceOf(s[i]) : i \in {j \in DOMAIN s : t \in s[j].tokens}}
           ranks == {ProvenanceRank(l) : l \in lanes}
<1>1. \A b : ProvenanceOf(b) \in Lane \ {"none"}
  BY DEF ProvenanceOf, Lane
<1>2. \A l \in Lane \ {"none"} : ProvenanceRank(l) \in Nat /\ ProvenanceRank(l) <= 5
  BY DEF ProvenanceRank, Lane
<1>3. lanes \subseteq Lane \ {"none"}
  BY <1>1
<1> HIDE DEF lanes
<1>4. CASE lanes = {}
  BY <1>4 DEF LaneOf, lanes, Lane
<1>5. CASE lanes # {}
  <2>1. ranks \subseteq Nat /\ ranks # {} /\ \A n \in ranks : n <= 5
    BY <1>2, <1>3, <1>5
  <2>2. PICK n \in ranks : \A m \in ranks : m <= n
    BY <2>1, LargestOf
  <2>3. PICK l \in lanes : \A k \in lanes : ProvenanceRank(k) <= ProvenanceRank(l)
    BY <2>2
  <2>4. (CHOOSE l_1 \in lanes : \A k \in lanes : ProvenanceRank(k) <= ProvenanceRank(l_1)) \in lanes
    BY <2>3
  <2>5. LaneOf(s, t) \in lanes
    BY <2>4, <1>5 DEF LaneOf, lanes
  <2> QED
    BY <2>5, <1>3
<1> QED
  BY <1>4, <1>5

LEMMA HigherIsHigher ==
    ASSUME NEW old \in Lane, NEW new \in Lane
    PROVE  /\ Higher(old, new) \in Lane
           /\ ProvenanceRank(Higher(old, new)) >= ProvenanceRank(old)
           /\ ProvenanceRank(old) >= ProvenanceRank(old)
<1>1. ProvenanceRank(old) \in Int /\ ProvenanceRank(new) \in Int
  BY DEF Lane, ProvenanceRank
<1> QED
  BY <1>1 DEF Higher

\* ingest_tokens_into: what was seen in this request is the last to go, and lanes only rise.
LEMMA IngestSound ==
    ASSUME LedgerTyped, now \in Nat, NEW mf, IsFiniteSet(mf),
           NEW laneOf \in [mf -> Lane], Ingest(mf, laneOf)
    PROVE  /\ LedgerTyped'
           /\ \A t \in DOMAIN tokens \cap DOMAIN tokens' :
                  ProvenanceRank(tokens'[t].lane) >= ProvenanceRank(tokens[t].lane)
           /\ Cardinality(mf) <= MaxTokens => mf \subseteq DOMAIN tokens'
<1> DEFINE Entry == [lane : Lane, seen : Nat, value : {"empty", "plain"}]
           led == [t \in DOMAIN tokens \cup mf |->
                     IF t \in mf THEN Sight(tokens, t, laneOf[t]) ELSE tokens[t]]
<1>1. PICK gone \in Victims(led, mf) : tokens' = [t \in DOMAIN led \ gone |-> led[t]]
  BY DEF Ingest
<1>2. DOMAIN led = DOMAIN tokens \cup mf /\ IsFiniteSet(DOMAIN led)
  BY FS_Union DEF LedgerTyped
<1>3. ASSUME NEW t \in DOMAIN led
      PROVE  /\ led[t] \in Entry
             /\ t \in DOMAIN tokens =>
                  ProvenanceRank(led[t].lane) >= ProvenanceRank(tokens[t].lane)
  <2>1. CASE t \in DOMAIN tokens /\ t \in mf
    <3>1. tokens[t] \in Entry /\ tokens[t].lane \in Lane /\ laneOf[t] \in Lane
      BY <2>1 DEF LedgerTyped
    <3>2. led[t] = [tokens[t] EXCEPT !.lane = Higher(tokens[t].lane, laneOf[t]), !.seen = now]
      BY <2>1, <1>2 DEF Sight
    <3>3. led[t] \in Entry /\ led[t].lane = Higher(tokens[t].lane, laneOf[t])
      <4>1. PICK l \in Lane : l = Higher(tokens[t].lane, laneOf[t])
        BY <3>1, HigherIsHigher
      <4>2. led[t] = [tokens[t] EXCEPT !.lane = l, !.seen = now]
        BY <3>2, <4>1
      <4> HIDE DEF led
      <4>3. led[t] \in Entry /\ led[t].lane = l
        BY <3>1, <4>2
      <4> QED
        BY <4>1, <4>3
    <3> QED
      BY <3>1, <3>3, HigherIsHigher
  <2>2. CASE t \in DOMAIN tokens /\ t \notin mf
    <3>1. led[t] = tokens[t] /\ tokens[t] \in Entry /\ tokens[t].lane \in Lane
      BY <2>2, <1>2 DEF LedgerTyped
    <3> QED
      BY <3>1, HigherIsHigher
  <2>3. CASE t \notin DOMAIN tokens
    <3>1. t \in mf /\ led[t] = [lane |-> laneOf[t], seen |-> now, value |-> ShownValue(t)]
      BY <2>3, <1>2 DEF Sight
    <3>2. ShownValue(t) \in {"empty", "plain"}
      BY DEF ShownValue
    <3> QED
      BY <2>3, <3>1, <3>2
  <2> QED
    BY <2>1, <2>2, <2>3
<1> HIDE DEF led
<1>4. DOMAIN tokens' = DOMAIN led \ gone /\ \A t \in DOMAIN tokens' : tokens'[t] = led[t]
  BY <1>1
<1>5. LedgerTyped'
  <2>1. IsFiniteSet(DOMAIN tokens')
    BY <1>2, <1>4, FS_Subset
  <2>2. tokens' \in [DOMAIN tokens' -> Entry]
    BY <1>1, <1>3, <1>4
  <2> QED
    BY <2>1, <2>2 DEF LedgerTyped
<1>6. ASSUME Cardinality(mf) <= MaxTokens, NEW t \in mf, t \in gone PROVE FALSE
  <2> DEFINE over == Cardinality(DOMAIN led) - MaxTokens
             kept == DOMAIN led \ gone
  <2>1. Cardinality(DOMAIN led) \in Nat /\ MaxTokens \in Nat /\ Cardinality(mf) \in Nat
    BY <1>2, FS_CardinalityType, MonitorAssumption
  <2>2. /\ gone \in kSubset(over, DOMAIN led)
        /\ \A a \in gone, b \in DOMAIN led \ gone : Yields(led, mf, a, b)
    BY <1>6 DEF Victims
  <2>3. gone \subseteq DOMAIN led /\ Cardinality(gone) = over
    BY <2>2 DEF kSubset
  <2>4. kept \subseteq mf \ {t}
    <3>1. \A b \in kept : Yields(led, mf, t, b)
      BY <1>6, <2>2
    <3>2. \A b \in kept : b \in mf
      BY <3>1, <1>6 DEF Yields
    <3> QED
      BY <3>2, <1>6
  <2>5. IsFiniteSet(gone) /\ IsFiniteSet(kept)
    BY <1>2, <2>3, FS_Subset
  <2>6. Cardinality(DOMAIN led) = Cardinality(gone) + Cardinality(kept)
    <3>1. gone \cup kept = DOMAIN led /\ gone \cap kept = {}
      BY <2>3
    <3>2. Cardinality(gone \cup kept) = Cardinality(gone) + Cardinality(kept) - Cardinality(gone \cap kept)
      BY <2>5, FS_Union
    <3>3. Cardinality(gone \cap kept) = 0
      BY <3>1, FS_EmptySet
    <3>4. Cardinality(gone) \in Nat /\ Cardinality(kept) \in Nat
      BY <2>5, FS_CardinalityType
    <3> HIDE DEF kept
    <3> QED
      BY <3>1, <3>2, <3>3, <3>4
  <2>7. Cardinality(mf \ {t}) = Cardinality(mf) - 1 /\ IsFiniteSet(mf \ {t})
    BY <1>6, FS_RemoveElement
  <2>8. Cardinality(kept) <= Cardinality(mf \ {t})
    BY <2>4, <2>7, FS_Subset
  <2>9. Cardinality(kept) \in Nat
    BY <2>5, FS_CardinalityType
  <2> HIDE DEF kept
  <2> QED
    BY <1>6, <2>1, <2>3, <2>6, <2>7, <2>8, <2>9
<1>7. Cardinality(mf) <= MaxTokens => mf \subseteq DOMAIN tokens'
  BY <1>2, <1>4, <1>6
<1>8. \A t \in DOMAIN tokens \cap DOMAIN tokens' :
          ProvenanceRank(tokens'[t].lane) >= ProvenanceRank(tokens[t].lane)
  BY <1>3, <1>4
<1> QED
  BY <1>5, <1>7, <1>8

-----------------------------------------------------------------------------
(* One recording, with its conversation, its turn and what it evicts named. *)

RecordedAs(b, s, q, c, t, gone) ==
    /\ inTick < PerTick
    /\ b \in RequestBodies
    /\ s = SurfacesFromBody(b) /\ q = AnchorSeq(s)
    /\ c = ConversationOf(b, q) /\ t = Lookup(turns, c, 0) + 1
    /\ Ingest(Manifest(s), [k \in Manifest(s) |-> LaneOf(s, k)])
    /\ records' = RingPush([conv |-> c, turn |-> t, req |-> s, reply |-> {},
                            human |-> HumanTurn(c, s), delta |-> ComputeDelta(c, t, s)])
    /\ vetted' = With(vetted, c, Lookup(vetted, c, {}) \cup Texts(s))
    /\ gone \in Stale(With(lastSeen, c, now))
    /\ EvictStale(gone, With(lastSeen, c, now), With(turns, c, t), With(human, c, HumanTurn(c, s)),
                  With(userInputs, c, UserInputCount(s)),
                  IF ByContent(b, q) THEN AdvanceAnchor(c, q) ELSE anchors)
    /\ nreq' = nreq + 1 /\ inTick' = inTick + 1 /\ now' = now

LEMMA RecordingNamed ==
    RecordRequest => \E b, s, q, c, t, gone : RecordedAs(b, s, q, c, t, gone)
  BY DEF RecordRequest, RecordedAs

\* evict_stale_conversation_state takes at most one conversation, the least recently seen.
LEMMA StaleIsOldest ==
    ASSUME NEW seen, NEW gone \in Stale(seen), IsFiniteSet(DOMAIN seen)
    PROVE  \/ gone = {} /\ Cardinality(DOMAIN seen) <= MaxConvs
           \/ /\ Cardinality(DOMAIN seen) > MaxConvs
              /\ \E d \in DOMAIN seen : gone = {d} /\ NoOlder(seen, d) = DOMAIN seen
<1>0. Cardinality(DOMAIN seen) \in Nat /\ MaxConvs \in Nat
  BY FS_CardinalityType, MonitorAssumption
<1>1. CASE Cardinality(DOMAIN seen) <= MaxConvs
  BY <1>1 DEF Stale
<1>2. CASE Cardinality(DOMAIN seen) > MaxConvs
  <2>1. PICK d \in DOMAIN seen : gone = {d} /\ \A e \in DOMAIN seen : seen[d] <= seen[e]
    BY <1>0, <1>2 DEF Stale
  <2>2. NoOlder(seen, d) = DOMAIN seen
    BY <2>1 DEF NoOlder
  <2> QED
    BY <1>2, <2>1, <2>2
<1> QED
  BY <1>0, <1>1, <1>2

LEMMA SeenTyped ==
    ASSUME MapsTyped, ClockTyped, NEW c
    PROVE  /\ With(lastSeen, c, now) \in [DOMAIN lastSeen \cup {c} -> 0..now]
           /\ IsFiniteSet(DOMAIN lastSeen \cup {c})
           /\ Cardinality(DOMAIN lastSeen \cup {c}) <= Cardinality(DOMAIN lastSeen) + 1
<1>0. IsFiniteSet(DOMAIN lastSeen) /\ Cardinality(DOMAIN lastSeen) \in Nat
  BY FS_CardinalityType DEF MapsTyped
<1>1. /\ IsFiniteSet(DOMAIN lastSeen \cup {c})
      /\ Cardinality(DOMAIN lastSeen \cup {c}) <= Cardinality(DOMAIN lastSeen) + 1
  <2>1. /\ IsFiniteSet(DOMAIN lastSeen \cup {c})
        /\ \/ Cardinality(DOMAIN lastSeen \cup {c}) = Cardinality(DOMAIN lastSeen)
           \/ Cardinality(DOMAIN lastSeen \cup {c}) = Cardinality(DOMAIN lastSeen) + 1
    BY <1>0, FS_AddElement
  <2> QED
    BY <1>0, <2>1
<1>2. With(lastSeen, c, now) \in [DOMAIN lastSeen \cup {c} -> 0..now]
  BY WithFacts DEF MapsTyped, ClockTyped, With
<1> QED
  BY <1>1, <1>2

\* A text that is some conversation's anchor already is resolved to that conversation.
LEMMA AnchorsStayApart ==
    ASSUME MapsTyped, AnchorsIdentify,
           NEW b \in RequestBodies, NEW q \in BodyAnchors, ByContent(b, q),
           NEW d \in DOMAIN anchors, anchors[d] = q
    PROVE  ConversationOf(b, q) = d
<1>1. q # <<>> /\ Len(q) \in Nat /\ Len(q) > 0 /\ IsPrefix(q, q)
  BY AnchorIsSequence DEF ByContent
<1>2. d \in ContentMatches(q)
  BY <1>1 DEF ContentMatches, AnchorPrefixLen
<1>3. ConversationOf(b, q) = Longest(q)
  BY <1>1, <1>2 DEF ConversationOf, ByContent
<1>4. \A e \in ContentMatches(q) :
          e \in DOMAIN anchors /\ IsPrefix(anchors[e], q) /\ Len(anchors[e]) <= Len(q)
  BY DEF ContentMatches, AnchorPrefixLen, IsPrefix
<1>5. \E e \in ContentMatches(q) : \A f \in ContentMatches(q) : Len(anchors[f]) <= Len(anchors[e])
  BY <1>2, <1>4
<1>6. /\ Longest(q) \in ContentMatches(q)
      /\ Len(anchors[d]) <= Len(anchors[Longest(q)])
  BY <1>2, <1>5 DEF Longest
<1>7. Longest(q) \in DOMAIN anchors /\ anchors[Longest(q)] \in BodyAnchors
  BY <1>4, <1>6 DEF MapsTyped
<1>8. Len(anchors[Longest(q)]) \in Nat
  BY <1>7, AnchorIsSequence
<1>9. anchors[Longest(q)] = q
  BY <1>1, <1>4, <1>6, <1>7, <1>8, FullPrefix
<1> QED
  BY <1>3, <1>7, <1>9 DEF AnchorsIdentify

\* The ring holds the new record before the old ones.
RingAfter(s, q, c, t) ==
    /\ RingTyped'
    /\ s \in BodySurfaces /\ q \in BodyAnchors
    /\ t \in Nat \ {0}
    /\ 1 \in DOMAIN records' /\ DOMAIN records' = 1..Len(records')
    /\ Len(records') \in Nat /\ Len(records') <= MaxRing
    /\ records'[1] = [conv |-> c, turn |-> t, req |-> s, reply |-> {},
                      human |-> HumanTurn(c, s), delta |-> ComputeDelta(c, t, s)]
    /\ \A i \in DOMAIN records' \ {1} :
           i - 1 \in DOMAIN records /\ records'[i] = records[i - 1]

LEMMA RecordingRing ==
    ASSUME IndexInv, NEW b, NEW s, NEW q, NEW c, NEW t, NEW gone,
           RecordedAs(b, s, q, c, t, gone)
    PROVE  RingAfter(s, q, c, t)
<1> DEFINE r == [conv |-> c, turn |-> t, req |-> s, reply |-> {},
                 human |-> HumanTurn(c, s), delta |-> ComputeDelta(c, t, s)]
<1>1. s \in BodySurfaces /\ q \in BodyAnchors
  BY DEF RecordedAs, BodySurfaces, BodyAnchors
<1>2. t \in Nat \ {0}
  BY DEF RecordedAs, Lookup, IndexInv, MapsTyped
<1>3. IndexRecord(r)
  BY <1>1, <1>2 DEF IndexRecord
<1>4. records' = RingPush(r)
  BY DEF RecordedAs
<1> HIDE DEF r
<1>5. /\ IsSeq(records')
      /\ Len(records') <= MaxRing
      /\ DOMAIN records' = 1..Len(records')
      /\ 1 \in DOMAIN records' /\ records'[1] = r
      /\ \A i \in DOMAIN records' \ {1} :
             i - 1 \in DOMAIN records /\ records'[i] = records[i - 1]
  BY <1>4, RingPushed DEF IndexInv, RingTyped
<1>6. Len(records') \in Nat
  BY <1>5 DEF IsSeq
<1>7. \A i \in DOMAIN records' : IndexRecord(records'[i])
  BY <1>3, <1>5 DEF IndexInv, RingTyped
<1>8. RingTyped'
  BY <1>5, <1>7 DEF RingTyped, IsSeq, IndexRecord
<1> QED
  BY <1>1, <1>2, <1>5, <1>6, <1>8 DEF r, RingAfter

\* The five maps get the new conversation and lose the same one.
MapsAfter(c, t, gone) ==
    /\ MapsTyped'
    /\ MapsAgree'
    /\ DOMAIN turns' = (DOMAIN turns \cup {c}) \ gone
    /\ c \notin gone => turns'[c] = t
    /\ \A d \in DOMAIN turns' \ {c} : turns'[d] = turns[d]

LEMMA RecordingMaps ==
    ASSUME IndexInv, NEW b, NEW s, NEW q, NEW c, NEW t, NEW gone,
           RecordedAs(b, s, q, c, t, gone)
    PROVE  MapsAfter(c, t, gone)
<1>ring. RingAfter(s, q, c, t)
  BY RecordingRing
<1> DEFINE seen == With(lastSeen, c, now)
           tn == With(turns, c, t)
           h == HumanTurn(c, s)
           hm == With(human, c, h)
           ui == With(userInputs, c, UserInputCount(s))
           an == IF ByContent(b, q) THEN AdvanceAnchor(c, q) ELSE anchors
           convs == DOMAIN lastSeen \cup {c}
<1>1. /\ gone \in Stale(seen)
      /\ EvictStale(gone, seen, tn, hm, ui, an)
      /\ now' = now
  BY DEF RecordedAs
<1>2. s \in BodySurfaces /\ q \in BodyAnchors /\ t \in Nat \ {0}
  BY <1>ring DEF RingAfter
<1>3. /\ DOMAIN turns = DOMAIN lastSeen /\ DOMAIN human = DOMAIN lastSeen
      /\ DOMAIN userInputs = DOMAIN lastSeen /\ DOMAIN anchors \subseteq DOMAIN lastSeen
      /\ \A d \in DOMAIN turns : human[d] <= turns[d]
      /\ Cardinality(DOMAIN lastSeen) <= MaxConvs
      /\ MapsTyped /\ ClockTyped
  BY DEF IndexInv, IndexSound, MapsAgree
<1>4. h \in Nat /\ h <= t
  <2>1. t = Lookup(turns, c, 0) + 1
    BY DEF RecordedAs
  <2>2. /\ Lookup(human, c, 0) \in Nat /\ Lookup(turns, c, 0) \in Nat
        /\ Lookup(human, c, 0) <= Lookup(turns, c, 0)
    BY <1>3 DEF Lookup, MapsTyped
  <2> QED
    BY <2>1, <2>2 DEF HumanTurn
<1> HIDE DEF h
<1>5. /\ DOMAIN seen = convs /\ DOMAIN tn = convs /\ DOMAIN hm = convs /\ DOMAIN ui = convs
      /\ DOMAIN an \subseteq convs
      /\ seen \in [convs -> 0..now] /\ tn \in [convs -> Nat] /\ hm \in [convs -> Nat]
      /\ tn[c] = t /\ hm[c] = h
      /\ \A d \in convs \ {c} : tn[d] = turns[d] /\ hm[d] = human[d]
  <2>1. DOMAIN seen = convs /\ seen \in [convs -> 0..now]
    BY <1>3, SeenTyped
  <2>2. DOMAIN tn = convs /\ DOMAIN hm = convs /\ DOMAIN ui = convs
    <3>1. DOMAIN turns \cup {c} = convs /\ DOMAIN human \cup {c} = convs
          /\ DOMAIN userInputs \cup {c} = convs
      BY <1>3
    <3> HIDE DEF convs
    <3>2. DOMAIN tn = convs
      BY <3>1, WithFacts
    <3>3. DOMAIN hm = convs
      BY <3>1, WithFacts, ZenonT(60)
    <3>4. DOMAIN ui = convs
      BY <3>1, WithFacts, ZenonT(60)
    <3> QED
      BY <3>2, <3>3, <3>4
  <2>3. tn \in [convs -> Nat]
    BY <1>2, <1>3, WithFacts DEF MapsTyped, With
  <2>4. hm \in [convs -> Nat]
    BY <1>4, <1>3, WithFacts DEF MapsTyped, With
  <2>5. DOMAIN an \subseteq convs
    <3>1. DOMAIN With(anchors, c, q) = DOMAIN anchors \cup {c}
      BY WithFacts
    <3> QED
      BY <1>3, <3>1 DEF AdvanceAnchor
  <2>6. tn[c] = t /\ hm[c] = h /\ \A d \in convs \ {c} : tn[d] = turns[d] /\ hm[d] = human[d]
    <3>1. \A d \in convs \ {c} : d \in DOMAIN turns \ {c} /\ d \in DOMAIN human \ {c}
      BY <1>3
    <3>2. tn[c] = t /\ \A d \in DOMAIN turns \ {c} : tn[d] = turns[d]
      BY DEF With
    <3>3. hm[c] = h /\ \A d \in DOMAIN human \ {c} : hm[d] = human[d]
      BY DEF With
    <3> QED
      BY <3>1, <3>2, <3>3
  <2> QED
    BY <2>1, <2>2, <2>3, <2>4, <2>5, <2>6
<1>6. an \in [DOMAIN an -> BodyAnchors]
  <2>1. With(anchors, c, q) \in [DOMAIN With(anchors, c, q) -> BodyAnchors]
    BY <1>2, <1>3, WithFacts DEF MapsTyped, With
  <2>2. anchors \in [DOMAIN anchors -> BodyAnchors]
    BY <1>3 DEF MapsTyped
  <2> QED
    BY <2>1, <2>2 DEF AdvanceAnchor
<1>7. IsFiniteSet(convs) /\ Cardinality(convs) <= Cardinality(DOMAIN lastSeen) + 1
  BY <1>3, SeenTyped
<1> HIDE DEF seen, tn, hm, ui, an, convs
<1>8. /\ lastSeen' = [d \in convs \ gone |-> seen[d]]
      /\ turns' = [d \in convs \ gone |-> tn[d]]
      /\ human' = [d \in convs \ gone |-> hm[d]]
      /\ userInputs' = [d \in convs \ gone |-> ui[d]]
      /\ anchors' = [d \in DOMAIN an \ gone |-> an[d]]
  BY <1>1, <1>5 DEF EvictStale
<1>9. IsFiniteSet(convs \ gone) /\ Cardinality(convs \ gone) <= MaxConvs
  <2>0. Cardinality(DOMAIN lastSeen) \in Nat /\ Cardinality(convs) \in Nat /\ MaxConvs \in Nat
    BY <1>3, <1>7, FS_CardinalityType, MonitorAssumption DEF MapsTyped
  <2>1. CASE gone = {} /\ Cardinality(convs) <= MaxConvs
    <3>1. convs \ gone = convs
      BY <2>1
    <3> QED
      BY <2>1, <3>1, <1>7
  <2>2. CASE \E d \in convs : gone = {d}
    <3>1. PICK d \in convs : gone = {d}
      BY <2>2
    <3>2. IsFiniteSet(convs \ {d}) /\ Cardinality(convs \ {d}) = Cardinality(convs) - 1
      BY <1>7, FS_RemoveElement
    <3> QED
      BY <3>1, <3>2, <2>0, <1>3, <1>7
  <2> QED
    BY <1>1, <1>5, <1>7, <2>1, <2>2, StaleIsOldest
<1>10. MapsTyped'
  <2>1. lastSeen' \in [DOMAIN lastSeen' -> 0..now'] /\ IsFiniteSet(DOMAIN lastSeen')
    BY <1>1, <1>5, <1>8, <1>9
  <2>2. turns' \in [DOMAIN turns' -> Nat] /\ human' \in [DOMAIN human' -> Nat]
    BY <1>5, <1>8
  <2>3. anchors' \in [DOMAIN anchors' -> BodyAnchors]
    BY <1>6, <1>8
  <2> QED
    BY <2>1, <2>2, <2>3 DEF MapsTyped, BodyAnchors, BodySurfaces
<1>11. MapsAgree'
  <2>1. \A d \in DOMAIN turns' : human'[d] <= turns'[d]
    <3> SUFFICES ASSUME NEW d \in convs \ gone PROVE hm[d] <= tn[d]
      BY <1>8
    <3>1. CASE d = c
      BY <3>1, <1>4, <1>5
    <3>2. CASE d # c
      <4>1. d \in DOMAIN turns
        BY <3>2, <1>3 DEF convs
      <4> QED
        BY <3>2, <4>1, <1>3, <1>5
    <3> QED
      BY <3>1, <3>2
  <2>2. /\ DOMAIN turns' = DOMAIN lastSeen' /\ DOMAIN human' = DOMAIN lastSeen'
        /\ DOMAIN userInputs' = DOMAIN lastSeen' /\ DOMAIN anchors' \subseteq DOMAIN lastSeen'
    BY <1>5, <1>8
  <2> QED
    BY <1>8, <1>9, <2>1, <2>2 DEF MapsAgree
<1>12. /\ DOMAIN turns' = (DOMAIN turns \cup {c}) \ gone
       /\ c \notin gone => turns'[c] = t
       /\ \A d \in DOMAIN turns' \ {c} : turns'[d] = turns[d]
  <2>1. c \in convs /\ convs = DOMAIN turns \cup {c}
    BY <1>3 DEF convs
  <2> QED
    BY <1>5, <1>8, <2>1
<1> QED
  BY <1>10, <1>11, <1>12 DEF MapsAfter

\* The anchor that is set or advanced is no other conversation's.
LEMMA RecordingAnchors ==
    ASSUME IndexInv, NEW b, NEW s, NEW q, NEW c, NEW t, NEW gone,
           RecordedAs(b, s, q, c, t, gone)
    PROVE  AnchorsIdentify'
<1>ring. RingAfter(s, q, c, t)
  BY RecordingRing
<1> DEFINE an == IF ByContent(b, q) THEN AdvanceAnchor(c, q) ELSE anchors
<1>1. /\ anchors' = [d \in DOMAIN an \ gone |-> an[d]]
      /\ b \in RequestBodies /\ q \in BodyAnchors /\ c = ConversationOf(b, q)
      /\ MapsTyped /\ AnchorsIdentify
  BY <1>ring DEF RecordedAs, EvictStale, IndexInv, IndexSound, RingAfter
<1>2. ASSUME NEW d \in DOMAIN an, NEW e \in DOMAIN an, an[d] = an[e] PROVE d = e
  <2>1. CASE an = anchors
    BY <1>1, <1>2, <2>1 DEF AnchorsIdentify
  <2>2. CASE ByContent(b, q) /\ an = With(anchors, c, q)
    <3>1. \A f \in DOMAIN anchors : anchors[f] = q => f = c
      BY <1>1, <2>2, AnchorsStayApart
    <3>2. \A f \in DOMAIN an : f = c \/ (f \in DOMAIN anchors /\ an[f] = anchors[f])
      BY <2>2 DEF With
    <3>3. an[c] = q
      BY <2>2 DEF With
    <3> HIDE DEF an
    <3>4. CASE d = c \/ e = c
      BY <1>2, <3>1, <3>2, <3>3, <3>4
    <3>5. CASE d # c /\ e # c
      BY <1>1, <1>2, <3>2, <3>5 DEF AnchorsIdentify
    <3> QED
      BY <3>4, <3>5
  <2> QED
    BY <2>1, <2>2 DEF AdvanceAnchor
<1> HIDE DEF an
<1> QED
  BY <1>1, <1>2 DEF AnchorsIdentify

\* Before the eviction: as many conversations are as recent as a record's own as were
\* recorded since, so the one that goes, older than MaxConvs others, is not in the ring.
LEMMA RecordingRecent ==
    ASSUME IndexInv, NEW b, NEW s, NEW q, NEW c, NEW t, NEW gone,
           RecordedAs(b, s, q, c, t, gone)
    PROVE  /\ TickCounted' /\ RingRecent'
           /\ \A i \in DOMAIN records' : records'[i].conv \notin gone
<1>ring. RingAfter(s, q, c, t)
  BY RecordingRing
<1> DEFINE seen == With(lastSeen, c, now)
           convs == DOMAIN lastSeen \cup {c}
           fresh == SeenNow(lastSeen)
<1>1. /\ gone \in Stale(seen) /\ inTick < PerTick /\ inTick' = inTick + 1 /\ now' = now
      /\ lastSeen' = [d \in DOMAIN seen \ gone |-> seen[d]]
  BY DEF RecordedAs, EvictStale
<1>2. /\ inTick \in Nat /\ PerTick \in Nat /\ now \in Nat /\ MaxConvs \in Nat /\ MaxRing \in Nat
      /\ MaxRing + PerTick <= MaxConvs + 1
      /\ lastSeen \in [DOMAIN lastSeen -> 0..now] /\ IsFiniteSet(DOMAIN lastSeen)
      /\ Cardinality(fresh) <= inTick
      /\ RingRecent /\ IsSeq(records)
      /\ \A i \in DOMAIN records : records[i].conv \in DOMAIN lastSeen
  BY MonitorAssumption DEF IndexInv, ClockTyped, MapsTyped, TickCounted, IndexSound, MapsAgree,
     TurnsNameRecords, RingTyped
<1>3. /\ seen \in [convs -> 0..now] /\ DOMAIN seen = convs /\ IsFiniteSet(convs)
      /\ seen[c] = now /\ \A d \in convs \ {c} : d \in DOMAIN lastSeen /\ seen[d] = lastSeen[d]
  <2>1. seen \in [convs -> 0..now] /\ IsFiniteSet(convs)
    BY SeenTyped DEF IndexInv
  <2>2. seen[c] = now /\ \A d \in convs \ {c} : d \in DOMAIN lastSeen /\ seen[d] = lastSeen[d]
    BY DEF With
  <2> QED
    BY <2>1, <2>2
<1>4. DOMAIN records = 1..Len(records) /\ Len(records) \in Nat
  BY <1>2 DEF IsSeq
<1> HIDE DEF seen, convs
<1>5. IsFiniteSet(fresh) /\ Cardinality(fresh) \in Nat
  BY <1>2, FS_Subset, FS_CardinalityType DEF SeenNow
<1>6. SeenNow(seen) \subseteq fresh \cup {c} /\ NoOlder(seen, c) \subseteq fresh \cup {c}
  <2>1. ASSUME NEW d \in convs, seen[d] >= now PROVE d \in fresh \cup {c}
    <3>1. CASE d = c
      BY <3>1
    <3>2. CASE d # c
      <4>1. d \in DOMAIN lastSeen /\ lastSeen[d] >= now /\ lastSeen[d] \in 0..now
        BY <1>2, <1>3, <2>1, <3>2
      <4> QED
        BY <1>2, <4>1 DEF SeenNow
    <3> QED
      BY <3>1, <3>2
  <2>2. \A d \in SeenNow(seen) : d \in convs /\ seen[d] >= now
    BY <1>2, <1>3 DEF SeenNow
  <2>3. \A d \in NoOlder(seen, c) : d \in convs /\ seen[d] >= now
    BY <1>3 DEF NoOlder
  <2> HIDE DEF fresh
  <2> QED
    BY <2>1, <2>2, <2>3
<1>7. /\ IsFiniteSet(fresh \cup {c}) /\ Cardinality(fresh \cup {c}) \in Nat
      /\ Cardinality(fresh \cup {c}) <= inTick + 1
  <2>1. /\ IsFiniteSet(fresh \cup {c})
        /\ \/ Cardinality(fresh \cup {c}) = Cardinality(fresh)
           \/ Cardinality(fresh \cup {c}) = Cardinality(fresh) + 1
    BY <1>5, FS_AddElement
  <2> HIDE DEF fresh
  <2> QED
    BY <2>1, <1>2, <1>5
<1> HIDE DEF fresh
<1>8. IsFiniteSet(SeenNow(seen)) /\ Cardinality(SeenNow(seen)) <= inTick + 1
      /\ Cardinality(SeenNow(seen)) \in Nat
  <2>1. IsFiniteSet(SeenNow(seen)) /\ Cardinality(SeenNow(seen)) <= Cardinality(fresh \cup {c})
    BY <1>6, <1>7, FS_Subset
  <2>2. Cardinality(SeenNow(seen)) \in Nat
    BY <2>1, FS_CardinalityType
  <2> QED
    BY <2>1, <2>2, <1>2, <1>7
<1>9. \A d : IsFiniteSet(NoOlder(seen, d)) /\ Cardinality(NoOlder(seen, d)) \in Nat
  <2>1. \A d : NoOlder(seen, d) \subseteq convs
    BY <1>3 DEF NoOlder
  <2> QED
    BY <2>1, <1>3, FS_Subset, FS_CardinalityType
<1>10. Cardinality(NoOlder(seen, c)) <= PerTick
  <2>1. Cardinality(NoOlder(seen, c)) <= Cardinality(fresh \cup {c})
    BY <1>6, <1>7, FS_Subset
  <2> QED
    BY <2>1, <1>1, <1>2, <1>7, <1>9
<1>11. ASSUME NEW i \in DOMAIN records'
       PROVE  /\ records'[i].conv \in convs
              /\ i \in Nat /\ i <= MaxRing
              /\ Cardinality(NoOlder(seen, records'[i].conv)) <= PerTick + i - 1
  <2> DEFINE d == records'[i].conv
  <2>1. i \in 1..Len(records') /\ Len(records') \in Nat /\ Len(records') <= MaxRing
    BY <1>11, <1>ring DEF RingAfter
  <2>2. i \in Nat /\ i >= 1 /\ i <= MaxRing
    BY <2>1, <1>2
  <2>3. CASE d = c
    BY <2>3, <2>2, <1>2, <1>9, <1>10 DEF convs
  <2>4. CASE d # c
    <3>1. i # 1
      <4>0. records'[1] = [conv |-> c, turn |-> t, req |-> s, reply |-> {},
                           human |-> HumanTurn(c, s), delta |-> ComputeDelta(c, t, s)]
        BY <1>ring DEF RingAfter
      <4>1. records'[1].conv = c
        BY <4>0
      <4> QED
        BY <4>1, <2>4
    <3>2. i - 1 \in DOMAIN records /\ d = records[i - 1].conv
      BY <3>1, <1>ring DEF RingAfter
    <3>3. /\ d \in DOMAIN lastSeen
          /\ Cardinality(NoOlder(lastSeen, d)) <= PerTick + (i - 1) - 1
      BY <1>2, <3>2 DEF RingRecent
    <3> HIDE DEF d
    <3>4. NoOlder(seen, d) \subseteq NoOlder(lastSeen, d) \cup {c}
      BY <1>3, <2>4, <3>3 DEF NoOlder, convs
    <3>5. IsFiniteSet(NoOlder(lastSeen, d)) /\ Cardinality(NoOlder(lastSeen, d)) \in Nat
      BY <1>2, FS_Subset, FS_CardinalityType DEF NoOlder
    <3>6. /\ IsFiniteSet(NoOlder(lastSeen, d) \cup {c})
          /\ \/ Cardinality(NoOlder(lastSeen, d) \cup {c}) = Cardinality(NoOlder(lastSeen, d))
             \/ Cardinality(NoOlder(lastSeen, d) \cup {c}) = Cardinality(NoOlder(lastSeen, d)) + 1
      BY <3>5, FS_AddElement
    <3>7. Cardinality(NoOlder(seen, d)) <= Cardinality(NoOlder(lastSeen, d) \cup {c})
      BY <3>4, <3>6, FS_Subset
    <3>8. Cardinality(NoOlder(seen, d)) <= PerTick + i - 1
      BY <3>3, <3>5, <3>6, <3>7, <2>2, <1>2, <1>9
    <3>9. d \in convs
      BY <3>3 DEF convs
    <3> QED
      BY <2>2, <3>8, <3>9 DEF d
  <2> QED
    BY <2>3, <2>4
<1>12. ASSUME NEW i \in DOMAIN records', records'[i].conv \in gone PROVE FALSE
  <2>1. gone # {}
    BY <1>12
  <2>2. PICK d \in convs : /\ gone = {d} /\ NoOlder(seen, d) = convs
                           /\ Cardinality(convs) > MaxConvs
    BY <2>1, <1>1, <1>3, StaleIsOldest
  <2>3. Cardinality(NoOlder(seen, d)) <= PerTick + i - 1 /\ i \in Nat /\ i <= MaxRing
    BY <1>11, <1>12, <2>2
  <2>4. Cardinality(convs) \in Nat
    BY <1>3, FS_CardinalityType
  <2> QED
    BY <2>2, <2>3, <2>4, <1>2
<1>13. TickCounted'
  <2>1. SeenNow(lastSeen)' \subseteq SeenNow(seen)
    BY <1>1 DEF SeenNow
  <2>2. IsFiniteSet(SeenNow(lastSeen)') /\ Cardinality(SeenNow(lastSeen)') <= Cardinality(SeenNow(seen))
    BY <2>1, <1>8, FS_Subset
  <2>3. Cardinality(SeenNow(lastSeen)') \in Nat
    BY <2>2, FS_CardinalityType
  <2> QED
    BY <2>2, <2>3, <1>1, <1>2, <1>8 DEF TickCounted
<1>14. RingRecent'
  <2> SUFFICES ASSUME NEW i \in DOMAIN records'
               PROVE  Cardinality(NoOlder(lastSeen', records'[i].conv)) <= PerTick + i - 1
    BY DEF RingRecent, NoOlder
  <2>1. records'[i].conv \in convs /\ records'[i].conv \notin gone
    BY <1>11, <1>12
  <2>2. NoOlder(lastSeen', records'[i].conv) \subseteq NoOlder(seen, records'[i].conv)
    BY <1>1, <1>3, <2>1 DEF NoOlder
  <2>3. /\ IsFiniteSet(NoOlder(lastSeen', records'[i].conv))
        /\ Cardinality(NoOlder(lastSeen', records'[i].conv)) <= Cardinality(NoOlder(seen, records'[i].conv))
    BY <2>2, <1>9, FS_Subset
  <2>4. Cardinality(NoOlder(lastSeen', records'[i].conv)) \in Nat
    BY <2>3, FS_CardinalityType
  <2> QED
    BY <2>3, <2>4, <1>2, <1>9, <1>11
<1> QED
  BY <1>12, <1>13, <1>14

\* The new record's turn is past those of every record of its conversation.
LEMMA RecordingTurns ==
    ASSUME IndexInv, NEW b, NEW s, NEW q, NEW c, NEW t, NEW gone,
           RecordedAs(b, s, q, c, t, gone)
    PROVE  TurnsNameRecords' /\ TurnsCount'
<1>ring. RingAfter(s, q, c, t)
  BY RecordingRing
<1>maps. MapsAfter(c, t, gone)
  BY RecordingMaps
<1>1. /\ 1 \in DOMAIN records' /\ records'[1].conv = c /\ records'[1].turn = t
      /\ t \in Nat
      /\ \A i \in DOMAIN records' \ {1} :
             i - 1 \in DOMAIN records /\ records'[i] = records[i - 1]
      /\ DOMAIN records' = 1..Len(records')
  <2>1. records'[1] = [conv |-> c, turn |-> t, req |-> s, reply |-> {},
                       human |-> HumanTurn(c, s), delta |-> ComputeDelta(c, t, s)]
    BY <1>ring DEF RingAfter
  <2>2. records'[1].conv = c /\ records'[1].turn = t
    BY <2>1
  <2> QED
    BY <2>2, <1>ring DEF RingAfter
<1>2. /\ \A i \in DOMAIN records : /\ records[i].conv \in DOMAIN turns
                                   /\ records[i].turn \in Nat
                                   /\ records[i].turn <= turns[records[i].conv]
      /\ \A i, j \in DOMAIN records :
             records[i].conv = records[j].conv /\ records[i].turn = records[j].turn => i = j
      /\ turns \in [DOMAIN turns -> Nat]
  BY DEF IndexInv, IndexSound, TurnsNameRecords, TurnsCount, RingTyped, IndexRecord, MapsTyped
<1>3. t = IF c \in DOMAIN turns THEN turns[c] + 1 ELSE 1
  BY DEF RecordedAs, Lookup
<1>4. \A i \in DOMAIN records' : records'[i].conv \notin gone
  BY RecordingRecent
<1>5. /\ DOMAIN turns' = (DOMAIN turns \cup {c}) \ gone
      /\ c \notin gone => turns'[c] = t
      /\ \A d \in DOMAIN turns' \ {c} : turns'[d] = turns[d]
  BY <1>maps DEF MapsAfter
<1>6. turns'[c] = t
  BY <1>1, <1>4, <1>5
<1>7. ASSUME NEW i \in DOMAIN records' \ {1}, records'[i].conv = c PROVE records'[i].turn < t
  <2>1. i - 1 \in DOMAIN records /\ records'[i] = records[i - 1]
    BY <1>1
  <2>2. c \in DOMAIN turns /\ records'[i].turn \in Nat /\ records'[i].turn <= turns[c]
    BY <2>1, <1>2, <1>7
  <2> QED
    BY <2>2, <1>2, <1>3
<1>8. ASSUME NEW i \in DOMAIN records'
      PROVE  records'[i].conv \in DOMAIN turns' /\ records'[i].turn <= turns'[records'[i].conv]
  <2>1. CASE i = 1
    BY <1>1, <1>4, <1>5, <1>6, <2>1
  <2>2. CASE i # 1
    <3>1. i - 1 \in DOMAIN records /\ records'[i] = records[i - 1]
      BY <1>1, <2>2
    <3>2. records'[i].conv \in DOMAIN turns'
      BY <1>2, <1>4, <1>5, <3>1
    <3>3. CASE records'[i].conv = c
      <4>1. records'[i].turn < t /\ records'[i].turn \in Nat
        BY <1>2, <1>7, <2>2, <3>1, <3>3
      <4> QED
        BY <1>1, <1>6, <3>2, <3>3, <4>1
    <3>4. CASE records'[i].conv # c
      BY <1>2, <1>5, <3>1, <3>2, <3>4
    <3> QED
      BY <3>2, <3>3, <3>4
  <2> QED
    BY <2>1, <2>2
<1>9. ASSUME NEW i \in DOMAIN records', NEW j \in DOMAIN records',
             records'[i].conv = records'[j].conv, records'[i].turn = records'[j].turn
      PROVE  i = j
  <2>1. CASE i = 1 /\ j # 1
    <3>1. records'[j].turn < t /\ j - 1 \in DOMAIN records /\ records'[j] = records[j - 1]
      BY <1>1, <1>7, <1>9, <2>1
    <3> QED
      BY <1>1, <1>2, <1>9, <2>1, <3>1
  <2>2. CASE i # 1 /\ j = 1
    <3>1. records'[i].turn < t /\ i - 1 \in DOMAIN records /\ records'[i] = records[i - 1]
      BY <1>1, <1>7, <1>9, <2>2
    <3> QED
      BY <1>1, <1>2, <1>9, <2>2, <3>1
  <2>3. CASE i # 1 /\ j # 1
    <3>1. /\ i - 1 \in DOMAIN records /\ records'[i] = records[i - 1]
          /\ j - 1 \in DOMAIN records /\ records'[j] = records[j - 1]
      BY <1>1, <2>3
    <3>2. i - 1 = j - 1
      BY <1>2, <1>9, <3>1
    <3>3. i \in Int /\ j \in Int
      BY <1>1
    <3> QED
      BY <3>2, <3>3
  <2> QED
    BY <2>1, <2>2, <2>3
<1> QED
  BY <1>8, <1>9 DEF TurnsNameRecords, TurnsCount

\* What is recorded is shown.
LEMMA RecordingVetted ==
    ASSUME IndexInv, NEW b, NEW s, NEW q, NEW c, NEW t, NEW gone,
           RecordedAs(b, s, q, c, t, gone)
    PROVE  VettedHolds'
<1>ring. RingAfter(s, q, c, t)
  BY RecordingRing
<1> DEFINE shown == Lookup(vetted, c, {}) \cup Texts(s)
<1>1. vetted' = With(vetted, c, shown)
  BY DEF RecordedAs
<1>2. records'[1] = [conv |-> c, turn |-> t, req |-> s, reply |-> {},
                     human |-> HumanTurn(c, s), delta |-> ComputeDelta(c, t, s)]
  BY <1>ring DEF RingAfter
<1>3. records'[1].conv = c /\ records'[1].req = s /\ records'[1].reply = {}
  BY <1>2
<1>4. \A d : Lookup(vetted, d, {}) \subseteq Lookup(vetted', d, {})
  BY <1>1 DEF Lookup, With
<1>5. Lookup(vetted', c, {}) = shown
  BY <1>1 DEF Lookup, With
<1> HIDE DEF shown
<1>6. ASSUME NEW i \in DOMAIN records'
      PROVE  Texts(records'[i].req) \cup records'[i].reply \subseteq Lookup(vetted', records'[i].conv, {})
  <2>1. CASE i = 1
    BY <1>3, <1>5, <2>1 DEF shown
  <2>2. CASE i # 1
    <3>1. i - 1 \in DOMAIN records /\ records'[i] = records[i - 1]
      BY <2>2, <1>ring DEF RingAfter
    <3>2. Texts(records[i - 1].req) \cup records[i - 1].reply
             \subseteq Lookup(vetted, records[i - 1].conv, {})
      BY <3>1 DEF IndexInv, VettedHolds
    <3> QED
      BY <3>1, <3>2, <1>4
  <2> QED
    BY <2>1, <2>2
<1> QED
  BY <1>6 DEF VettedHolds, Texts, Lookup

\* The baseline of a diff is an earlier record of the same conversation.
LEMMA BaselineIsOwn ==
    ASSUME RingTyped, NEW c, NEW t, NEW s, Baselines(c, t) # {}
    PROVE  Baseline(c, t, s) \in Baselines(c, t)
<1> DEFINE n == Len(records)
           S == Baselines(c, t)
           over == [i \in 1..n |-> Overlap(records[i], s)]
           turn == [i \in 1..n |-> records[i].turn]
           best == {i \in S : \A j \in S : over[j] <= over[i]}
<1>1. n \in Nat /\ DOMAIN records = 1..n
  BY DEF RingTyped, IsSeq
<1>2. S \subseteq 1..n /\ S # {}
  BY <1>1 DEF Baselines
<1>3. \A i \in 1..n : Overlap(records[i], s) \in Nat /\ records[i].turn \in Nat
  <2> SUFFICES ASSUME NEW i \in 1..n
               PROVE  Overlap(records[i], s) \in Nat /\ records[i].turn \in Nat
    OBVIOUS
  <2>1. records[i].req \in BodySurfaces /\ records[i].turn \in Nat
    BY <1>1 DEF RingTyped, IndexRecord
  <2>2. IsFiniteSet(DOMAIN records[i].req)
    BY <2>1, SurfacesFinite
  <2>3. IsFiniteSet({k \in DOMAIN records[i].req : records[i].req[k].text \in Texts(s)})
    BY <2>2, FS_Subset
  <2>4. Overlap(records[i], s) \in Nat
    BY <2>3, FS_CardinalityType DEF Overlap
  <2> QED
    BY <2>1, <2>4
<1>4. over \in [1..n -> Nat] /\ turn \in [1..n -> Nat]
  BY <1>3
<1>5. \A i \in 1..n : over[i] = Overlap(records[i], s) /\ turn[i] = records[i].turn
  OBVIOUS
<1> HIDE DEF S, over, turn, n
<1>6. best # {} /\ best \subseteq 1..n
  BY <1>1, <1>2, <1>4, BestIndex
<1>7. PICK i \in best : \A j \in best : turn[j] <= turn[i]
  <2> HIDE DEF best
  <2> QED BY <1>1, <1>4, <1>6, BestIndex
<1>8. ASSUME NEW j \in S
      PROVE  \/ over[i] > over[j]
             \/ over[i] = over[j] /\ turn[i] >= turn[j]
  <2>1. over[i] \in Nat /\ over[j] \in Nat /\ turn[i] \in Nat /\ turn[j] \in Nat
    BY <1>2, <1>4, <1>6
  <2>2. over[j] <= over[i]
    BY <1>7
  <2>3. CASE over[j] = over[i]
    <3>1. j \in best
      BY <1>7, <2>3
    <3> QED
      BY <1>7, <2>1, <2>3, <3>1
  <2> QED
    BY <2>1, <2>2, <2>3
<1>9. i \in S /\ S = Baselines(c, t)
  BY <1>7 DEF S
<1>10. \E k \in Baselines(c, t) : \A j \in Baselines(c, t) :
          \/ Overlap(records[k], s) > Overlap(records[j], s)
          \/ Overlap(records[k], s) = Overlap(records[j], s) /\ records[k].turn >= records[j].turn
  BY <1>2, <1>5, <1>8, <1>9
<1> QED
  BY <1>10 DEF Baseline

\* A diff leaves out only what the conversation's reviewer has seen.
LEMMA DeltaIsSeen ==
    ASSUME IndexInv, NEW c, NEW t, NEW s, ComputeDelta(c, t, s).form = "diff"
    PROVE  Texts(s) \ ComputeDelta(c, t, s).added \subseteq Lookup(vetted, c, {})
<1>1. Baselines(c, t) # {}
  BY DEF ComputeDelta
<1> DEFINE r == records[Baseline(c, t, s)]
<1>2. Baseline(c, t, s) \in DOMAIN records /\ r.conv = c
  BY <1>1, BaselineIsOwn DEF Baselines, IndexInv
<1>3. Texts(r.req) \cup r.reply \subseteq Lookup(vetted, c, {})
  BY <1>2 DEF IndexInv, VettedHolds
<1>4. ComputeDelta(c, t, s).added = Texts(s) \ (Texts(r.req) \cup r.reply)
  BY <1>1 DEF ComputeDelta
<1> HIDE DEF r
<1> QED
  BY <1>3, <1>4

-----------------------------------------------------------------------------
(* The steps.                                                              *)

DeltaKept ==
    \A r \in {records'[i] : i \in DOMAIN records'} :
        nreq' > nreq /\ records' # records /\ r = records'[1] =>
            \/ r.delta.form # "diff"
            \/ Texts(r.req) \ r.delta.added \subseteq Lookup(vetted, r.conv, {})

LaneKept ==
    \A t \in DOMAIN tokens \cap DOMAIN tokens' :
        ProvenanceRank(tokens'[t].lane) >= ProvenanceRank(tokens[t].lane)

CurrentKept ==
    nreq' > nreq /\ records' # records =>
        LET mf == Manifest(records'[1].req) IN
        Cardinality(mf) <= MaxTokens => mf \subseteq DOMAIN tokens'

StepKept == DeltaKept /\ LaneKept /\ CurrentKept

LEMMA SameLanes == LedgerTyped /\ UNCHANGED tokens => LaneKept
<1> SUFFICES ASSUME LedgerTyped, UNCHANGED tokens, NEW t \in DOMAIN tokens
             PROVE  ProvenanceRank(tokens[t].lane) >= ProvenanceRank(tokens[t].lane)
  BY DEF LaneKept
<1>1. tokens[t].lane \in Lane
  BY DEF LedgerTyped
<1> QED
  BY <1>1, HigherIsHigher

LEMMA IndexInitInv == IndexInit => IndexInv
<1> SUFFICES ASSUME IndexInit PROVE IndexInv
  OBVIOUS
<1> USE DEF IndexInit
<1>1. records = <<>> /\ DOMAIN records = {} /\ Len(records) = 0
  OBVIOUS
<1>2. DOMAIN NoEntries = {} /\ NoEntries \in [{} -> {}]
  BY DEF NoEntries
<1>3. IsFiniteSet({}) /\ Cardinality({}) = 0
  BY FS_EmptySet
<1>4. RingTyped
  BY <1>1, MonitorAssumption DEF RingTyped, IsSeq
<1>5. ClockTyped
  BY MonitorAssumption DEF ClockTyped
<1>6. \A S : NoEntries \in [{} -> S]
  BY <1>2
<1>7. MapsTyped
  BY <1>2, <1>3, <1>6 DEF MapsTyped
<1>8. LedgerTyped
  BY <1>2, <1>3, <1>6 DEF LedgerTyped
<1>9. IndexSound
  BY <1>1, <1>2, <1>3, MonitorAssumption DEF IndexSound, MapsAgree, AnchorsIdentify, TurnsNameRecords
<1>10. TurnsCount /\ RingRecent /\ VettedHolds
  BY <1>1 DEF TurnsCount, RingRecent, VettedHolds
<1>11. TickCounted
  <2>1. SeenNow(lastSeen) = {}
    BY <1>2 DEF SeenNow
  <2> QED
    BY <2>1, <1>3 DEF TickCounted
<1> QED
  BY <1>4, <1>5, <1>7, <1>8, <1>9, <1>10, <1>11 DEF IndexInv

LEMMA RecordRequestStep ==
    ASSUME IndexInv, RecordRequest
    PROVE  IndexInv' /\ StepKept
<1>1. PICK b, s, q, c, t, gone : RecordedAs(b, s, q, c, t, gone)
  BY RecordingNamed
<1>2. RingAfter(s, q, c, t) /\ MapsAfter(c, t, gone)
  BY <1>1, RecordingRing, RecordingMaps
<1>3. AnchorsIdentify'
  BY <1>1, RecordingAnchors
<1>4. TickCounted' /\ RingRecent'
  BY <1>1, RecordingRecent
<1>5. TurnsNameRecords' /\ TurnsCount'
  BY <1>1, RecordingTurns
<1>6. VettedHolds'
  BY <1>1, RecordingVetted
<1>7. ClockTyped'
  BY <1>1, MonitorAssumption DEF RecordedAs, IndexInv, ClockTyped
<1>8. /\ LedgerTyped' /\ LaneKept
      /\ Cardinality(Manifest(s)) <= MaxTokens => Manifest(s) \subseteq DOMAIN tokens'
  <2> DEFINE laneOf == [k \in Manifest(s) |-> LaneOf(s, k)]
  <2>1. s \in BodySurfaces
    BY <1>2 DEF RingAfter
  <2>2. IsFiniteSet(Manifest(s)) /\ laneOf \in [Manifest(s) -> Lane]
    BY <2>1, SurfacesFinite, LaneTyped
  <2>3. Ingest(Manifest(s), laneOf)
    BY <1>1 DEF RecordedAs
  <2>4. LedgerTyped /\ now \in Nat
    BY DEF IndexInv, ClockTyped
  <2> HIDE DEF laneOf
  <2> QED
    BY <2>2, <2>3, <2>4, IngestSound DEF LaneKept
<1>9. /\ records'[1].conv = c /\ records'[1].req = s
      /\ records'[1].delta = ComputeDelta(c, t, s)
  <2>1. records'[1] = [conv |-> c, turn |-> t, req |-> s, reply |-> {},
                       human |-> HumanTurn(c, s), delta |-> ComputeDelta(c, t, s)]
    BY <1>2 DEF RingAfter
  <2> QED
    BY <2>1
<1>10. DeltaKept
  <2>1. \/ ComputeDelta(c, t, s).form # "diff"
        \/ Texts(s) \ ComputeDelta(c, t, s).added \subseteq Lookup(vetted, c, {})
    BY DeltaIsSeen
  <2> QED
    BY <2>1, <1>9 DEF DeltaKept
<1>11. CurrentKept
  BY <1>8, <1>9 DEF CurrentKept
<1>12. IndexInv'
  BY <1>2, <1>3, <1>4, <1>5, <1>6, <1>7, <1>8 DEF IndexInv, IndexSound, RingAfter, MapsAfter
<1> QED
  BY <1>8, <1>10, <1>11, <1>12 DEF StepKept

LEMMA ReplyFilled ==
    ASSUME NEW r, IndexRecord(r), NEW x, NEW new, new = [r EXCEPT !.reply = x]
    PROVE  /\ IndexRecord(new)
           /\ new.conv = r.conv /\ new.turn = r.turn /\ new.req = r.req /\ new.reply = x
<1>1. PICK c, t, s, y, h, d : r = [conv |-> c, turn |-> t, req |-> s, reply |-> y,
                                   human |-> h, delta |-> d]
  BY DEF IndexRecord
<1>2. new = [conv |-> c, turn |-> t, req |-> s, reply |-> x, human |-> h, delta |-> d]
  BY <1>1
<1>3. /\ new.conv = c /\ new.turn = t /\ new.req = s /\ new.reply = x
      /\ new.human = h /\ new.delta = d
  BY <1>2
<1>4. r.conv = c /\ r.turn = t /\ r.req = s
  BY <1>1
<1>5. t \in Nat /\ s \in BodySurfaces
  BY <1>4 DEF IndexRecord
<1>6. IndexRecord(new)
  BY <1>2, <1>3, <1>5 DEF IndexRecord
<1> QED
  BY <1>3, <1>4, <1>6

\* The reply of a record is captured: what it shows is shown to its conversation's reviewer.
LEMMA CaptureReplyStep ==
    ASSUME IndexInv, CaptureReply
    PROVE  IndexInv' /\ StepKept
<1>0. PICK i \in DOMAIN records :
      \E block : /\ records' = [records EXCEPT ![i].reply = {block}]
                 /\ vetted' = With(vetted, records[i].conv,
                                   Lookup(vetted, records[i].conv, {}) \cup {block})
  BY DEF CaptureReply
<1>1. PICK block :
        /\ records' = [records EXCEPT ![i].reply = {block}]
        /\ vetted' = With(vetted, records[i].conv, Lookup(vetted, records[i].conv, {}) \cup {block})
  BY <1>0
<1>2. UNCHANGED <<turns, human, userInputs, lastSeen, anchors, tokens, now, inTick, nreq>>
  BY DEF CaptureReply
<1>3. /\ IsSeq(records) /\ Len(records) \in Nat /\ DOMAIN records = 1..Len(records)
      /\ Len(records) <= MaxRing /\ \A j \in DOMAIN records : IndexRecord(records[j])
  BY DEF IndexInv, RingTyped, IsSeq
<1>4. DOMAIN records' = DOMAIN records /\ Len(records') = Len(records) /\ IsSeq(records')
  <2>1. DOMAIN records' = DOMAIN records
    BY <1>1
  <2>2. records' = [j \in 1..Len(records) |-> records'[j]]
    BY <1>1, <1>3
  <2>3. \A j \in 1..Len(records) : records'[j] \in {records'[k] : k \in 1..Len(records)}
    OBVIOUS
  <2>4. records' \in Seq({records'[j] : j \in 1..Len(records)})
    BY <1>3, <2>2, <2>3
  <2> QED
    BY <1>3, <2>1, <2>4 DEF IsSeq
<1>5. \A j \in DOMAIN records : j # i => records'[j] = records[j]
  BY <1>1
<1>6. records'[i] = [records[i] EXCEPT !.reply = {block}]
  BY <1>1
<1>7. \A j \in DOMAIN records :
          /\ records'[j].conv = records[j].conv /\ records'[j].turn = records[j].turn
          /\ records'[j].req = records[j].req
          /\ IndexRecord(records'[j])
          /\ records'[j].reply = IF j = i THEN {block} ELSE records[j].reply
  <2> SUFFICES ASSUME NEW j \in DOMAIN records
               PROVE  /\ records'[j].conv = records[j].conv /\ records'[j].turn = records[j].turn
                      /\ records'[j].req = records[j].req
                      /\ IndexRecord(records'[j])
                      /\ records'[j].reply = IF j = i THEN {block} ELSE records[j].reply
    OBVIOUS
  <2>1. CASE j = i
    <3>1. IndexRecord(records[i])
      BY <1>3
    <3>2. /\ IndexRecord(records'[i])
          /\ records'[i].conv = records[i].conv /\ records'[i].turn = records[i].turn
          /\ records'[i].req = records[i].req /\ records'[i].reply = {block}
      BY <3>1, <1>6, ReplyFilled
    <3> QED
      BY <3>2, <2>1
  <2>2. CASE j # i
    BY <1>3, <1>5, <2>2
  <2> QED
    BY <2>1, <2>2
<1>8. RingTyped'
  <2>1. Len(records') <= MaxRing /\ \A j \in DOMAIN records' : IndexRecord(records'[j])
    BY <1>3, <1>4, <1>7
  <2> QED
    BY <1>4, <2>1 DEF RingTyped, IsSeq, IndexRecord
<1>9. ClockTyped' /\ MapsTyped' /\ LedgerTyped' /\ TickCounted'
  BY <1>2 DEF IndexInv, ClockTyped, MapsTyped, LedgerTyped, TickCounted, SeenNow
<1>10. IndexSound' /\ TurnsCount' /\ RingRecent'
  <2>1. MapsAgree' /\ AnchorsIdentify'
    BY <1>2 DEF IndexInv, IndexSound, MapsAgree, AnchorsIdentify
  <2>2. TurnsNameRecords' /\ TurnsCount'
    BY <1>2, <1>4, <1>7 DEF IndexInv, IndexSound, TurnsNameRecords, TurnsCount
  <2>3. RingRecent'
    BY <1>2, <1>4, <1>7 DEF IndexInv, RingRecent, NoOlder
  <2> QED
    BY <2>1, <2>2, <2>3 DEF IndexSound
<1>11. VettedHolds'
  <2>1. /\ \A d : Lookup(vetted, d, {}) \subseteq Lookup(vetted', d, {})
        /\ block \in Lookup(vetted', records[i].conv, {})
    BY <1>1 DEF Lookup, With
  <2>2. \A j \in DOMAIN records :
            Texts(records[j].req) \cup records[j].reply \subseteq Lookup(vetted, records[j].conv, {})
    BY DEF IndexInv, VettedHolds
  <2>3. \A j \in DOMAIN records' :
            Texts(records'[j].req) \cup records'[j].reply \subseteq Lookup(vetted', records'[j].conv, {})
    BY <1>4, <1>7, <2>1, <2>2
  <2> QED
    BY <2>3 DEF VettedHolds, Texts, Lookup
<1>12. StepKept
  <2>1. ~(nreq' > nreq)
    BY <1>2 DEF IndexInv, ClockTyped
  <2>2. LaneKept
    BY <1>2, SameLanes DEF IndexInv
  <2> QED
    BY <2>1, <2>2 DEF StepKept, DeltaKept, CurrentKept
<1> QED
  BY <1>8, <1>9, <1>10, <1>11, <1>12 DEF IndexInv

LEMMA IngestSessionTokensStep ==
    ASSUME IndexInv, IngestSessionTokens
    PROVE  IndexInv' /\ StepKept
<1>1. PICK b \in RequestBodies : Ingest(Manifest(SurfacesFromBody(b)),
                                        [t \in Manifest(SurfacesFromBody(b)) |-> "none"])
  BY DEF IngestSessionTokens
<1>2. nreq' = nreq + 1
      /\ UNCHANGED <<records, turns, human, userInputs, lastSeen, anchors, now, inTick, vetted>>
  BY DEF IngestSessionTokens
<1> DEFINE mf == Manifest(SurfacesFromBody(b))
           laneOf == [t \in mf |-> "none"]
<1>3. IsFiniteSet(mf)
  BY SurfacesFinite DEF BodySurfaces
<1>4. laneOf \in [mf -> Lane] /\ Ingest(mf, laneOf)
  BY <1>1 DEF Lane
<1>5. LedgerTyped /\ now \in Nat
  BY DEF IndexInv, ClockTyped
<1> HIDE DEF mf, laneOf
<1>6. LedgerTyped' /\ LaneKept
  BY <1>3, <1>4, <1>5, IngestSound DEF LaneKept
<1>7. StepKept
  BY <1>2, <1>6 DEF StepKept, DeltaKept, CurrentKept
<1>8. RingTyped' /\ ClockTyped' /\ MapsTyped'
  BY <1>2 DEF IndexInv, RingTyped, ClockTyped, MapsTyped
<1>9. IndexSound'
  BY <1>2 DEF IndexInv, IndexSound, MapsAgree, AnchorsIdentify, TurnsNameRecords
<1>10. TurnsCount' /\ TickCounted' /\ RingRecent' /\ VettedHolds'
  BY <1>2 DEF IndexInv, TurnsCount, TickCounted, SeenNow, RingRecent, NoOlder, VettedHolds
<1> QED
  BY <1>6, <1>7, <1>8, <1>9, <1>10 DEF IndexInv

LEMMA MillisecondStep ==
    ASSUME IndexInv, Millisecond
    PROVE  IndexInv' /\ StepKept
<1>1. now' = now + 1 /\ inTick' = 0
      /\ UNCHANGED <<records, turns, human, userInputs, lastSeen, anchors, tokens, nreq, vetted>>
  BY DEF Millisecond
<1>2. now \in Nat /\ lastSeen \in [DOMAIN lastSeen -> 0..now]
  BY DEF IndexInv, ClockTyped, MapsTyped
<1>3. RingTyped' /\ LedgerTyped'
  BY <1>1 DEF IndexInv, RingTyped, LedgerTyped
<1>4. ClockTyped'
  BY <1>1, <1>2, MonitorAssumption DEF IndexInv, ClockTyped
<1>5. MapsTyped'
  <2>1. lastSeen \in [DOMAIN lastSeen -> 0..(now + 1)]
    BY <1>2
  <2> QED
    BY <1>1, <2>1 DEF IndexInv, MapsTyped
<1>6. TickCounted'
  <2>1. SeenNow(lastSeen)' = {}
    BY <1>1, <1>2 DEF SeenNow
  <2> QED
    BY <1>1, <2>1, FS_EmptySet DEF TickCounted
<1>7. IndexSound'
  BY <1>1 DEF IndexInv, IndexSound, MapsAgree, AnchorsIdentify, TurnsNameRecords
<1>8. TurnsCount' /\ RingRecent' /\ VettedHolds'
  BY <1>1 DEF IndexInv, TurnsCount, RingRecent, NoOlder, VettedHolds
<1>9. StepKept
  BY <1>1, SameLanes DEF IndexInv, StepKept, DeltaKept, CurrentKept
<1> QED
  BY <1>3, <1>4, <1>5, <1>6, <1>7, <1>8, <1>9 DEF IndexInv

LEMMA IndexStutter ==
    ASSUME IndexInv, UNCHANGED indexVars
    PROVE  IndexInv'
<1> USE DEF indexVars
<1>1. RingTyped' /\ ClockTyped' /\ MapsTyped' /\ LedgerTyped'
  BY DEF IndexInv, RingTyped, ClockTyped, MapsTyped, LedgerTyped
<1>2. IndexSound'
  BY DEF IndexInv, IndexSound, MapsAgree, AnchorsIdentify, TurnsNameRecords
<1>3. TurnsCount' /\ TickCounted' /\ RingRecent' /\ VettedHolds'
  BY DEF IndexInv, TurnsCount, TickCounted, SeenNow, RingRecent, NoOlder, VettedHolds
<1> QED
  BY <1>1, <1>2, <1>3 DEF IndexInv

LEMMA IndexNextStep == IndexInv /\ IndexNext => IndexInv' /\ StepKept
  BY RecordRequestStep, CaptureReplyStep, IngestSessionTokensStep, MillisecondStep DEF IndexNext

LEMMA IndexInvariant == IndexSpec => []IndexInv
<1>1. IndexInit => IndexInv
  BY IndexInitInv
<1>2. IndexInv /\ [IndexNext]_indexVars => IndexInv'
  BY IndexNextStep, IndexStutter
<1> QED
  BY <1>1, <1>2, PTL DEF IndexSpec

-----------------------------------------------------------------------------
(* The theorems.                                                           *)

\* The maps by conversation, the anchors and the ring stay one index of the same
\* conversations, through evictions and ties within a millisecond
\* (evict_stale_conversation_state, resolve_content_conversation, push_record).
THEOREM IndexIsSound == IndexSpec => []IndexSound
<1>1. IndexInv => IndexSound
  BY DEF IndexInv
<1> QED
  BY <1>1, IndexInvariant, PTL

\* A delta leaves out only what the conversation's reviewer was shown
\* (previous_turn_surfaces, compute_delta).
THEOREM DeltaIsHonest == IndexSpec => DeltaNeverHides
<1>1. IndexInv /\ [IndexNext]_indexVars => [DeltaKept]_indexVars
  BY IndexNextStep DEF StepKept
<1> QED
  BY <1>1, IndexInvariant, PTL DEF IndexSpec, DeltaNeverHides, DeltaKept

\* The ledger keeps the values of the request being recorded, and no lane goes down
\* (prune_token_universe, ingest_tokens_into).
THEOREM LedgerIsKept == IndexSpec => LedgerKeeps
<1>1. IndexInv /\ [IndexNext]_indexVars => [CurrentKept]_indexVars /\ [LaneKept]_indexVars
  BY IndexNextStep DEF StepKept
<1>2. IndexSpec => [][CurrentKept]_indexVars /\ [][LaneKept]_indexVars
  BY <1>1, IndexInvariant, PTL DEF IndexSpec
<1> QED
  BY <1>2 DEF LedgerKeeps, CurrentIsKept, LaneNeverDrops, CurrentKept, LaneKept
=============================================================================
