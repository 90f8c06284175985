------------------------ MODULE ManagedInstallProofs ------------------------
(***************************************************************************)
(* Proofs about ManagedInstall.                                            *)
(***************************************************************************)
EXTENDS ManagedInstall, TLAPS

(* Which directory holds the verified package, phase by phase.              *)
Pipeline ==
  /\ pc = "verify" => tmp \in Packages
  /\ pc \in {"inspect", "clearNew", "stage"} =>
       tmp \in Packages /\ tmp.ver = info
  /\ pc \in {"clearOld", "backup", "place"} =>
       staged[info] \in Packages /\ staged[info].ver = info
  /\ pc \in {"validate", "linkPrior", "linkAgent", "linkCursorAgent", "swap"} =>
       live[info] \in Packages
  /\ pc = "linkPrior" => prior.kind = "installed"

(* A backup is restored under the name it had, so it is verified as well.   *)
BackupIsVerified ==
  \A v \in Versions : backup[v].kind = "full" => backup[v].ver = v

ContentInv == TypeOK /\ Pipeline /\ PlacedIsVerified /\ BackupIsVerified

(* What an attempt that met no ignored error has on disk besides the        *)
(* versions: its temporary directory until it is renamed to <v>.new, that   *)
(* until it is renamed to <v>, and <v>.old only if there was a <v> to save. *)
TmpPhases == {"extract", "verify", "inspect", "clearNew", "stage", "fail"}
StagedPhases == {"clearOld", "backup", "place", "dropThenFail", "dropThenUndo"}
BackupPhases == {"place", "dropThenUndo", "validate", "linkPrior", "linkAgent",
                 "linkCursorAgent", "swap", "clean", "undoDir", "undoBackup"}

Tidy ==
  ~littered =>
    /\ tmp # Absent => pc \in TmpPhases
    /\ \A v \in Versions : staged[v] # Absent => v = info /\ pc \in StagedPhases
    /\ \A v \in Versions :
         backup[v] # Absent => v = info /\ existed /\ pc \in BackupPhases

(* The links have one of three shapes: they belong to somebody else; there  *)
(* is no current link, and whatever goes through it leads nowhere; or both  *)
(* lead to the binary of one version, directly or through current.          *)
ForeignShape == \A n \in BinNames : bin[n] = Foreign

EmptyShape ==
  /\ current = NoVersion
  /\ \A n \in BinNames : bin[n].kind \in {"none", "current"}

InstalledShape(v, r) ==
  /\ HasBinary(live[v], r)
  /\ \A n \in BinNames : bin[n] \in {Direct(v, r), ViaCurrent(r)}
  /\ \/ current = v
     \/ current = NoVersion /\ \A n \in BinNames : bin[n] = Direct(v, r)

Shape ==
  \/ ForeignShape
  \/ EmptyShape
  \/ \E v \in Versions, r \in Layouts : InstalledShape(v, r)

Undoing == {"undoAgent", "undoCursorAgent", "undoCurrent"}
Linking == {"linkAgent", "linkCursorAgent", "swap"}
Mutating == {"clearNew", "stage", "clearOld", "backup", "place",
             "dropThenFail", "dropThenUndo", "validate", "linkPrior",
             "undoDir", "undoBackup"} \cup Linking \cup Undoing

(* From its inspection on, an attempt knows the shape it found, and that    *)
(* what it found is another version than its own, at the same path.         *)
PriorKnown ==
  /\ pc \in Mutating /\ prior.kind # "installed" => EmptyShape
  /\ pc \in Mutating /\ prior.kind = "installed" =>
       /\ prior.ver # info
       /\ InstalledShape(prior.ver, prior.rel)
  /\ pc \in Undoing => prior.kind # "installed"

SamePath ==
  prior.kind = "installed" =>
    /\ pc \in {"clearNew", "stage"} => tmp.rel = prior.rel
    /\ pc \in {"clearOld", "backup", "place"} => staged[info].rel = prior.rel
    /\ pc \in {"validate", "linkPrior"} \cup Linking =>
         live[info].rel = prior.rel

(* The order of activation: current names the old version before a link     *)
(* goes through it, and both links do before it names the new one.          *)
LinkOrder ==
  /\ pc \in Linking /\ prior.kind = "installed" => current = prior.ver
  /\ pc \in {"linkCursorAgent", "swap"} =>
       bin["agent"] = ViaCurrent(live[info].rel)
  /\ pc = "swap" => bin["cursor-agent"] = ViaCurrent(live[info].rel)

(* An attempt that goes on after the status check is for another version    *)
(* than the active one, since nobody else can change it.                    *)
NotActiveYet ==
  /\ ~rootMoved
  /\ pc \in {"download", "extract", "verify", "inspect"} => Active # info

LinkInv == Shape /\ PriorKnown /\ SamePath /\ LinkOrder /\ NotActiveYet

-----------------------------------------------------------------------------
(* Facts about the records, so that their construction stays hidden.        *)

LEMMA DirFacts ==
  /\ Absent \in Dir /\ Broken \in Dir
  /\ Absent.kind # "full" /\ Broken.kind # "full"
  /\ Absent \notin Packages /\ Broken \notin Packages
  /\ Packages \subseteq Dir
  /\ \A d \in Dir : d.kind = "full" <=> d \in Packages
  /\ \A d \in Packages : d.kind = "full" /\ d.ver \in Versions /\ d.rel \in Layouts
BY DEF Absent, Broken, Packages, Dir

LEMMA LinkFacts ==
  /\ NoLink \in Link
  /\ \A r \in Layouts : ViaCurrent(r) \in Link
BY DEF NoLink, ViaCurrent, Link

LEMMA InspectType ==
  ASSUME TypeOK
  PROVE  InspectManagedInstall \in InstallState
BY DEF TypeOK, InspectManagedInstall, InstallState, Combine, EvalSymlinks, FollowTo,
       Found, Missing, Outside, Installed, NotInstalled, InspectError, HasBinary,
       Link, BinNames, Dir, Packages, Absent, Broken, NoLink, Foreign

LEMMA StateFacts ==
  /\ NotInstalled \in InstallState
  /\ NotInstalled.kind # "installed"
  /\ \A s \in InstallState :
       s.kind = "installed" => s.ver \in Versions /\ s.rel \in Layouts
BY DEF NotInstalled, InstallState, InspectError

-----------------------------------------------------------------------------

LEMMA ContentInit == Init => ContentInv
<1> SUFFICES ASSUME Init PROVE ContentInv
  OBVIOUS
<1>1. live \in [Versions -> Dir] /\ PlacedIsVerified /\ bin \in [BinNames -> Link]
  <2>1. CASE EmptyRoot
    BY <2>1, DirFacts, LinkFacts DEF EmptyRoot, PlacedIsVerified
  <2>2. CASE DirectLayout
    BY <2>2, DirFacts
    DEF DirectLayout, PlacedIsVerified, Direct, Link, Package, Packages
  <2>3. CASE ForeignLinks
    BY <2>3, DirFacts DEF ForeignLinks, PlacedIsVerified, Foreign, Link
  <2> QED
    BY <2>1, <2>2, <2>3 DEF Init
<1>2. TypeOK
  BY <1>1, DirFacts, StateFacts DEF Init, TypeOK, Phases, Announced
<1>3. Pipeline /\ BackupIsVerified
  BY DirFacts DEF Init, Pipeline, BackupIsVerified
<1> QED
  BY <1>1, <1>2, <1>3 DEF ContentInv

LEMMA ContentNext == ContentInv /\ [Next]_vars => ContentInv'
<1> SUFFICES ASSUME ContentInv, [Next]_vars PROVE ContentInv'
  OBVIOUS
<1> USE DEF ContentInv, TypeOK, Pipeline, PlacedIsVerified, BackupIsVerified,
            dirs, links, calls, locals, Phases, Announced
<1> USE DirFacts
<1>1. CASE \E c \in Callers : Request(c)
  BY <1>1 DEF Request
<1>2. CASE \E c \in Callers : Lock(c)
  BY <1>2, StateFacts DEF Lock
<1>3. CASE Reconfigure
  BY <1>3 DEF Reconfigure
<1>4. CASE Fetch
  BY <1>4 DEF Fetch
<1>P. CASE Parse
  BY <1>P DEF Parse
<1>5. CASE CheckStatus
  BY <1>5 DEF CheckStatus
<1>6. CASE Download
  BY <1>6 DEF Download
<1>7. CASE Extract
  BY <1>7 DEF Extract
<1>V. CASE Verify
  BY <1>V DEF Verify
<1>8. CASE Inspect
  BY <1>8, InspectType, StateFacts DEF Inspect
<1>9. CASE ClearNew
  <2>1. PICK d1 \in {Absent, Broken, staged[info]} :
          /\ RemoveAll(staged[info], d1, "stage")
          /\ staged' = [staged EXCEPT ![info] = d1]
    BY <1>9 DEF ClearNew
  <2>2. d1 \in Dir /\ (d1.kind = "full" => d1 = staged[info])
    BY <1>9, <2>1 DEF ClearNew
  <2>3. pc' \in {pc, "stage"} /\ littered' \in BOOLEAN
    BY <2>1 DEF RemoveAll
  <2>4. TypeOK'
    BY <1>9, <2>1, <2>2, <2>3 DEF ClearNew, AfterUndo
  <2>5. Pipeline' /\ PlacedIsVerified' /\ BackupIsVerified'
    BY <1>9, <2>1, <2>2, <2>3 DEF ClearNew, AfterUndo
  <2> QED
    BY <2>4, <2>5
<1>10. CASE Stage
  BY <1>10 DEF Stage, RenameWorks, RenameFails
<1>11. CASE ClearOld
  <2>1. PICK d1 \in {Absent, Broken, backup[info]} :
          /\ RemoveAll(backup[info], d1, "backup")
          /\ backup' = [backup EXCEPT ![info] = d1]
    BY <1>11 DEF ClearOld
  <2>2. d1 \in Dir /\ (d1.kind = "full" => d1 = backup[info])
    BY <1>11, <2>1 DEF ClearOld
  <2>3. pc' \in {pc, "backup"} /\ littered' \in BOOLEAN
    BY <2>1 DEF RemoveAll
  <2>4. TypeOK'
    BY <1>11, <2>1, <2>2, <2>3 DEF ClearOld, AfterUndo
  <2>5. Pipeline' /\ PlacedIsVerified' /\ BackupIsVerified'
    BY <1>11, <2>1, <2>2, <2>3 DEF ClearOld, AfterUndo
  <2> QED
    BY <2>4, <2>5
<1>12. CASE Backup
  <2>1. live' \in [Versions -> Dir] /\ backup' \in [Versions -> Dir]
    BY <1>12 DEF Backup, RenameWorks, RenameFails
  <2>2. pc' \in Phases /\ existed' \in BOOLEAN /\ littered' \in BOOLEAN
    BY <1>12 DEF Backup, RenameWorks, RenameFails
  <2>3. TypeOK'
    BY <1>12, <2>1, <2>2 DEF Backup, RenameWorks, RenameFails
  <2>4. Pipeline'
    BY <1>12 DEF Backup, RenameWorks, RenameFails
  <2>5. PlacedIsVerified' /\ BackupIsVerified'
    BY <1>12 DEF Backup, RenameWorks, RenameFails
  <2> QED
    BY <2>3, <2>4, <2>5
<1>13. CASE Place
  <2>1. TypeOK'
    BY <1>13 DEF Place, RenameWorks, RenameFails
  <2>2. Pipeline'
    BY <1>13 DEF Place, RenameWorks, RenameFails
  <2>3. PlacedIsVerified' /\ BackupIsVerified'
    BY <1>13 DEF Place, RenameWorks, RenameFails
  <2> QED
    BY <2>1, <2>2, <2>3
<1>14. CASE DropStaged
  <2>1. PICK d1 \in {Absent, Broken, staged[info]} :
          /\ RemoveAll(staged[info], d1, 
                       IF pc = "dropThenFail" THEN "fail" ELSE "undoDir")
          /\ staged' = [staged EXCEPT ![info] = d1]
    BY <1>14 DEF DropStaged
  <2>2. d1 \in Dir /\ (d1.kind = "full" => d1 = staged[info])
    BY <1>14, <2>1 DEF DropStaged
  <2>3. pc' \in {pc, 
                       IF pc = "dropThenFail" THEN "fail" ELSE "undoDir"} /\ littered' \in BOOLEAN
    BY <2>1 DEF RemoveAll
  <2>4. TypeOK'
    BY <1>14, <2>1, <2>2, <2>3 DEF DropStaged, AfterUndo
  <2>5. Pipeline' /\ PlacedIsVerified' /\ BackupIsVerified'
    BY <1>14, <2>1, <2>2, <2>3 DEF DropStaged, AfterUndo
  <2> QED
    BY <2>4, <2>5
<1>15. CASE Validate
  BY <1>15, StateFacts DEF Validate
<1>16. CASE LinkPrior
  BY <1>16, StateFacts DEF LinkPrior, ReplaceCurrentLink
<1>17. CASE LinkAgent
  BY <1>17, LinkFacts DEF LinkAgent, EnsureStableBinLink
<1>18. CASE LinkCursorAgent
  BY <1>18, LinkFacts DEF LinkCursorAgent, EnsureStableBinLink
<1>19. CASE Swap
  BY <1>19 DEF Swap, ReplaceCurrentLink
<1>20. CASE Clean
  <2>1. PICK d1 \in {Absent, Broken, backup[info]} :
          /\ RemoveAll(backup[info], d1, "ok")
          /\ backup' = [backup EXCEPT ![info] = d1]
    BY <1>20 DEF Clean
  <2>2. d1 \in Dir /\ (d1.kind = "full" => d1 = backup[info])
    BY <1>20, <2>1 DEF Clean
  <2>3. pc' \in {pc, "ok"} /\ littered' \in BOOLEAN
    BY <2>1 DEF RemoveAll
  <2>4. TypeOK'
    BY <1>20, <2>1, <2>2, <2>3 DEF Clean, AfterUndo
  <2>5. Pipeline' /\ PlacedIsVerified' /\ BackupIsVerified'
    BY <1>20, <2>1, <2>2, <2>3 DEF Clean, AfterUndo
  <2> QED
    BY <2>4, <2>5
<1>21. CASE UndoDir
  <2>1. PICK d1 \in {Absent, Broken, live[info]} :
          /\ RemoveAll(live[info], d1, 
                       IF existed THEN "undoBackup" ELSE AfterUndo)
          /\ live' = [live EXCEPT ![info] = d1]
    BY <1>21 DEF UndoDir
  <2>2. d1 \in Dir /\ (d1.kind = "full" => d1 = live[info])
    BY <1>21, <2>1 DEF UndoDir
  <2>3. pc' \in {pc, 
                       IF existed THEN "undoBackup" ELSE AfterUndo} /\ littered' \in BOOLEAN
    BY <2>1 DEF RemoveAll
  <2>4. TypeOK'
    BY <1>21, <2>1, <2>2, <2>3 DEF UndoDir, AfterUndo
  <2>5. Pipeline' /\ PlacedIsVerified' /\ BackupIsVerified'
    BY <1>21, <2>1, <2>2, <2>3 DEF UndoDir, AfterUndo
  <2> QED
    BY <2>4, <2>5
<1>22. CASE UndoBackup
  <2>1. live' \in [Versions -> Dir] /\ backup' \in [Versions -> Dir]
    BY <1>22 DEF UndoBackup, AfterUndo, RenameWorks, RenameFails
  <2>2. pc' \in Phases /\ existed' \in BOOLEAN /\ littered' \in BOOLEAN
    BY <1>22 DEF UndoBackup, AfterUndo, RenameWorks, RenameFails
  <2>3. TypeOK'
    BY <1>22, <2>1, <2>2 DEF UndoBackup, AfterUndo, RenameWorks, RenameFails
  <2>4. Pipeline'
    BY <1>22 DEF UndoBackup, AfterUndo, RenameWorks, RenameFails
  <2>5. PlacedIsVerified' /\ BackupIsVerified'
    BY <1>22 DEF UndoBackup, AfterUndo, RenameWorks, RenameFails
  <2> QED
    BY <2>3, <2>4, <2>5
<1>23. CASE UndoAgent
  <2>1. bin' \in [BinNames -> Link] /\ littered' \in BOOLEAN
    <3>1. CASE bin' = bin
      BY <1>23, <3>1 DEF UndoAgent, UndoLink
    <3>2. CASE bin' = [bin EXCEPT !["agent"] = NoLink]
      BY <1>23, <3>2, LinkFacts DEF UndoAgent, UndoLink
    <3> QED
      BY <1>23, <3>1, <3>2 DEF UndoAgent, UndoLink
  <2>2. TypeOK'
    BY <1>23, <2>1 DEF UndoAgent, UndoLink
  <2>3. Pipeline' /\ PlacedIsVerified' /\ BackupIsVerified'
    BY <1>23 DEF UndoAgent, UndoLink
  <2> QED
    BY <2>2, <2>3
<1>24. CASE UndoCursorAgent
  <2>1. bin' \in [BinNames -> Link] /\ littered' \in BOOLEAN
    <3>1. CASE bin' = bin
      BY <1>24, <3>1 DEF UndoCursorAgent, UndoLink
    <3>2. CASE bin' = [bin EXCEPT !["cursor-agent"] = NoLink]
      BY <1>24, <3>2, LinkFacts DEF UndoCursorAgent, UndoLink
    <3> QED
      BY <1>24, <3>1, <3>2 DEF UndoCursorAgent, UndoLink
  <2>2. TypeOK'
    BY <1>24, <2>1 DEF UndoCursorAgent, UndoLink
  <2>3. Pipeline' /\ PlacedIsVerified' /\ BackupIsVerified'
    BY <1>24 DEF UndoCursorAgent, UndoLink
  <2> QED
    BY <2>2, <2>3
<1>25. CASE UndoCurrent
  BY <1>25 DEF UndoCurrent
<1>26. CASE ReturnOk
  BY <1>26, StateFacts, NoCallerAssumption DEF ReturnOk, Return
<1>27. CASE ReturnError
  BY <1>27, StateFacts, NoCallerAssumption DEF ReturnError, Return
<1>28. CASE Crash
  BY <1>28, StateFacts DEF Crash
<1>29. CASE UNCHANGED vars
  BY <1>29 DEF vars
<1> QED
  BY <1>1, <1>P, <1>V, <1>2, <1>3, <1>4, <1>5, <1>6, <1>7, <1>8, <1>9, <1>10, <1>11, <1>12, <1>13,
     <1>14, <1>15, <1>16, <1>17, <1>18, <1>19, <1>20, <1>21, <1>22, <1>23, <1>24, <1>25, <1>26, <1>27, <1>28, <1>29 DEF Next, Attempt

(* Every reachable state is well typed: whatever fails, and whenever the    *)
(* process dies, an attempt past the parse of the installer script has a    *)
(* version to name its directories with, and installMu has an owner.        *)
THEOREM TypeCorrect == Spec => []TypeOK
<1>1. ContentInv => TypeOK
  BY DEF ContentInv
<1> QED
  BY <1>1, ContentInit, ContentNext, PTL DEF Spec

(* Whatever fails, and whenever the process dies, nothing but a package     *)
(* that verifyAgentVersion accepted for version v lies under versions/<v>.  *)
THEOREM OnlyVerifiedPlaced == Spec => []PlacedIsVerified
<1>1. ContentInv => PlacedIsVerified
  BY DEF ContentInv
<1> QED
  BY <1>1, ContentInit, ContentNext, PTL DEF Spec


-----------------------------------------------------------------------------
(* Litter.                                                                  *)

LEMMA TidyNext == ContentInv /\ Tidy /\ [Next]_vars => Tidy'
<1> SUFFICES ASSUME ContentInv, Tidy, [Next]_vars PROVE Tidy'
  OBVIOUS
<1>0. /\ staged \in [Versions -> Dir] /\ backup \in [Versions -> Dir]
      /\ pc \in Announced => info \in Versions
  BY DEF ContentInv, TypeOK
<1> USE <1>0, DirFacts
<1> USE DEF Tidy, TmpPhases, StagedPhases, BackupPhases, Announced, dirs, links, calls, locals
<1>1. CASE \E c \in Callers : Request(c)
  BY <1>1 DEF Request
<1>2. CASE \E c \in Callers : Lock(c)
  <2>1. pc = "idle"
    BY <1>2, NoCallerAssumption DEF Lock, ContentInv, TypeOK
  <2> QED
    BY <1>2, <2>1 DEF Lock
<1>3. CASE Reconfigure
  BY <1>3 DEF Reconfigure
<1>4. CASE Fetch
  BY <1>4 DEF Fetch
<1>5. CASE Parse
  BY <1>5 DEF Parse
<1>6. CASE CheckStatus
  BY <1>6 DEF CheckStatus
<1>7. CASE Download
  BY <1>7 DEF Download
<1>8. CASE Extract
  BY <1>8 DEF Extract
<1>9. CASE Verify
  BY <1>9 DEF Verify
<1>10. CASE Inspect
  BY <1>10 DEF Inspect
<1>11. CASE ClearNew
  <2>1. PICK d1 \in {Absent, Broken, staged[info]} :
          /\ RemoveAll(staged[info], d1, "stage")
          /\ staged' = [staged EXCEPT ![info] = d1]
    BY <1>11 DEF ClearNew
  <2>2. \/ staged[info] # Absent /\ pc' = pc
        \/ d1 = Absent /\ pc' = "stage"
        \/ littered'
    BY <2>1 DEF RemoveAll
  <2>3. ~littered' => ~littered
    BY <2>1 DEF RemoveAll, ContentInv, TypeOK
  <2> QED
    BY <1>11, <2>1, <2>2, <2>3 DEF ClearNew
<1>12. CASE Stage
  BY <1>12 DEF Stage, RenameWorks, RenameFails
<1>13. CASE ClearOld
  <2>1. PICK d1 \in {Absent, Broken, backup[info]} :
          /\ RemoveAll(backup[info], d1, "backup")
          /\ backup' = [backup EXCEPT ![info] = d1]
    BY <1>13 DEF ClearOld
  <2>2. \/ backup[info] # Absent /\ pc' = pc
        \/ d1 = Absent /\ pc' = "backup"
        \/ littered'
    BY <2>1 DEF RemoveAll
  <2>3. ~littered' => ~littered
    BY <2>1 DEF RemoveAll, ContentInv, TypeOK
  <2> QED
    BY <1>13, <2>1, <2>2, <2>3 DEF ClearOld
<1>14. CASE Backup
  BY <1>14 DEF Backup, RenameWorks, RenameFails
<1>15. CASE Place
  BY <1>15 DEF Place, RenameWorks, RenameFails
<1>16. CASE DropStaged
  <2>1. PICK d1 \in {Absent, Broken, staged[info]} :
          /\ RemoveAll(staged[info], d1, IF pc = "dropThenFail" THEN "fail" ELSE "undoDir")
          /\ staged' = [staged EXCEPT ![info] = d1]
    BY <1>16 DEF DropStaged
  <2>2. \/ staged[info] # Absent /\ pc' = pc
        \/ d1 = Absent /\ pc' = IF pc = "dropThenFail" THEN "fail" ELSE "undoDir"
        \/ littered'
    BY <2>1 DEF RemoveAll
  <2>3. ~littered' => ~littered
    BY <2>1 DEF RemoveAll, ContentInv, TypeOK
  <2> QED
    BY <1>16, <2>1, <2>2, <2>3 DEF DropStaged
<1>17. CASE Validate
  BY <1>17 DEF Validate
<1>18. CASE LinkPrior
  BY <1>18 DEF LinkPrior, ReplaceCurrentLink
<1>19. CASE LinkAgent
  BY <1>19 DEF LinkAgent, EnsureStableBinLink
<1>20. CASE LinkCursorAgent
  BY <1>20 DEF LinkCursorAgent, EnsureStableBinLink
<1>21. CASE Swap
  BY <1>21 DEF Swap, ReplaceCurrentLink
<1>22. CASE Clean
  <2>1. PICK d1 \in {Absent, Broken, backup[info]} :
          /\ RemoveAll(backup[info], d1, "ok")
          /\ backup' = [backup EXCEPT ![info] = d1]
    BY <1>22 DEF Clean
  <2>2. \/ backup[info] # Absent /\ pc' = pc
        \/ d1 = Absent /\ pc' = "ok"
        \/ littered'
    BY <2>1 DEF RemoveAll
  <2>3. ~littered' => ~littered
    BY <2>1 DEF RemoveAll, ContentInv, TypeOK
  <2> QED
    BY <1>22, <2>1, <2>2, <2>3 DEF Clean
<1>23. CASE UndoDir
  <2>1. PICK d1 \in {Absent, Broken, live[info]} :
          /\ RemoveAll(live[info], d1, IF existed THEN "undoBackup" ELSE AfterUndo)
          /\ live' = [live EXCEPT ![info] = d1]
    BY <1>23 DEF UndoDir
  <2>2. \/ live[info] # Absent /\ pc' = pc
        \/ d1 = Absent /\ pc' = IF existed THEN "undoBackup" ELSE AfterUndo
        \/ littered'
    BY <2>1 DEF RemoveAll
  <2>3. ~littered' => ~littered
    BY <2>1 DEF RemoveAll, ContentInv, TypeOK
  <2> QED
    BY <1>23, <2>1, <2>2, <2>3 DEF UndoDir, AfterUndo
<1>24. CASE UndoBackup
  BY <1>24 DEF UndoBackup, AfterUndo, RenameWorks, RenameFails
<1>25. CASE UndoAgent
  BY <1>25 DEF UndoAgent, UndoLink
<1>26. CASE UndoCursorAgent
  BY <1>26 DEF UndoCursorAgent, UndoLink
<1>27. CASE UndoCurrent
  BY <1>27 DEF UndoCurrent
<1>28. CASE ReturnOk
  BY <1>28 DEF ReturnOk, Return
<1>29. CASE ReturnError
  BY <1>29 DEF ReturnError, Return
<1>30. CASE Crash
  BY <1>30 DEF Crash
<1>31. CASE UNCHANGED vars
  BY <1>31 DEF vars
<1> QED
  BY <1>1, <1>2, <1>3, <1>4, <1>5, <1>6, <1>7, <1>8, <1>9, <1>10, <1>11, <1>12,
     <1>13, <1>14, <1>15, <1>16, <1>17, <1>18, <1>19, <1>20, <1>21, <1>22, <1>23, <1>24,
     <1>25, <1>26, <1>27, <1>28, <1>29, <1>30, <1>31 DEF Next, Attempt

(* Whatever renames fail and are rolled back, and whatever the root is      *)
(* reconfigured to meanwhile: unless the process died or an error was       *)
(* ignored, an attempt that returned leaves no temporary, .new or .old      *)
(* directory of any version.                                                *)
THEOREM NothingLeftBehind == Spec => []NoLitter
<1>1. Init => ContentInv /\ Tidy
  BY ContentInit DEF Init, Tidy
<1>2. ContentInv /\ Tidy /\ [Next]_vars => ContentInv' /\ Tidy'
  BY ContentNext, TidyNext
<1>3. Tidy => NoLitter
  BY DEF Tidy, NoLitter, TmpPhases, StagedPhases, BackupPhases
<1> QED
  BY <1>1, <1>2, <1>3, PTL DEF Spec

-----------------------------------------------------------------------------
(* The links.                                                               *)

LEMMA RecordFacts ==
  /\ NoLink.kind = "none" /\ Foreign.kind = "foreign"
  /\ \A r : ViaCurrent(r).kind = "current" /\ ViaCurrent(r).rel = r
  /\ \A v, r : /\ Direct(v, r).kind = "direct"
               /\ Direct(v, r).ver = v /\ Direct(v, r).rel = r
  /\ Missing.kind = "missing" /\ Outside.kind = "outside"
  /\ \A v, r : /\ Found(v, r).kind = "found"
               /\ Found(v, r).ver = v /\ Found(v, r).rel = r
  /\ NotInstalled.kind = "none" /\ InspectError.kind = "error"
  /\ \A v, r : /\ Installed(v, r).kind = "installed"
               /\ Installed(v, r).ver = v /\ Installed(v, r).rel = r
BY DEF NoLink, Foreign, ViaCurrent, Direct, Missing, Outside, Found, NotInstalled,
       InspectError, Installed

(* What inspectManagedInstall finds in each shape.                          *)

LEMMA ForeignInspect ==
  ForeignShape => InspectManagedInstall = InspectError /\ Active = NoVersion
BY RecordFacts
DEF ForeignShape, BinNames, InspectManagedInstall, Combine, EvalSymlinks, Active

LEMMA EmptyInspect ==
  EmptyShape => InspectManagedInstall = NotInstalled /\ Active = NoVersion
BY RecordFacts, NoVersionAssumption
DEF EmptyShape, BinNames, InspectManagedInstall, Combine, EvalSymlinks, FollowTo, Active

LEMMA InstalledInspect ==
  \A v \in Versions, r \in Layouts :
    InstalledShape(v, r) => InspectManagedInstall = Installed(v, r) /\ Active = v
<1> SUFFICES ASSUME NEW v \in Versions, NEW r \in Layouts, InstalledShape(v, r)
             PROVE  InspectManagedInstall = Installed(v, r) /\ Active = v
  OBVIOUS
<1>1. \A n \in BinNames : EvalSymlinks(bin[n]) = Found(v, r)
  BY RecordFacts, NoVersionAssumption DEF InstalledShape, EvalSymlinks, FollowTo
<1> QED
  BY <1>1, RecordFacts DEF BinNames, InspectManagedInstall, Combine, Active

LEMMA ShapeInspected ==
  Shape =>
    /\ InspectManagedInstall = NotInstalled => EmptyShape
    /\ \A v, r : InspectManagedInstall = Installed(v, r) =>
         v \in Versions /\ r \in Layouts /\ InstalledShape(v, r)
    /\ InspectManagedInstall \in {InspectError, NotInstalled}
         \cup {Installed(v, r) : v \in Versions, r \in Layouts}
<1> SUFFICES ASSUME Shape
             PROVE  /\ InspectManagedInstall = NotInstalled => EmptyShape
                    /\ \A v, r : InspectManagedInstall = Installed(v, r) =>
                         v \in Versions /\ r \in Layouts /\ InstalledShape(v, r)
                    /\ InspectManagedInstall \in {InspectError, NotInstalled}
                         \cup {Installed(v, r) : v \in Versions, r \in Layouts}
  OBVIOUS
<1>1. CASE ForeignShape
  BY <1>1, ForeignInspect, RecordFacts
<1>2. CASE EmptyShape
  BY <1>2, EmptyInspect, RecordFacts
<1>3. CASE \E v \in Versions, r \in Layouts : InstalledShape(v, r)
  <2>1. PICK v \in Versions, r \in Layouts : InstalledShape(v, r)
    BY <1>3
  <2>2. InspectManagedInstall = Installed(v, r)
    BY <2>1, InstalledInspect
  <2>3. \A w, q : Installed(v, r) = Installed(w, q) => v = w /\ r = q
    BY RecordFacts
  <2> QED
    BY <2>1, <2>2, <2>3, RecordFacts
<1> QED
  BY <1>1, <1>2, <1>3 DEF Shape

LEMMA LinkInit == Init => LinkInv
<1> SUFFICES ASSUME Init PROVE LinkInv
  OBVIOUS
<1>1. Shape
  <2>1. CASE EmptyRoot
    BY <2>1, RecordFacts DEF Init, EmptyRoot, Shape, EmptyShape
  <2>2. CASE DirectLayout
    <3>1. PICK v \in Versions, r \in Layouts :
            /\ live = [w \in Versions |-> IF w = v THEN Package(v, r) ELSE Absent]
            /\ bin = [n \in BinNames |-> Direct(v, r)]
      BY <2>2 DEF DirectLayout
    <3>2. InstalledShape(v, r)
      BY <3>1 DEF Init, InstalledShape, HasBinary, Package
    <3> QED
      BY <3>2 DEF Shape
  <2>3. CASE ForeignLinks
    BY <2>3 DEF ForeignLinks, Shape, ForeignShape
  <2> QED
    BY <2>1, <2>2, <2>3 DEF Init
<1>2. pc = "idle" /\ prior = NotInstalled /\ rootMoved = FALSE
  BY DEF Init
<1> QED
  BY <1>1, <1>2, RecordFacts
  DEF LinkInv, PriorKnown, SamePath, LinkOrder, NotActiveYet, Mutating, Linking, Undoing

(* No re-read after a change fails, and managed_install_root stays.         *)
Undisturbed == "check" \notin Disturbances /\ "reconfigure" \notin Disturbances

(* The active version changes in one place: where current is renamed.       *)
ActiveChange ==
  \/ Active' = Active
  \/ pc = "swap" /\ pc' = "clean" /\ Active' = info

(* A step that touches neither link nor version directory.                 *)
LinksStill == live' = live /\ bin' = bin /\ current' = current

LEMMA StillShape ==
  ASSUME LinksStill
  PROVE  /\ Shape => Shape'
         /\ EmptyShape => EmptyShape'
         /\ Active' = Active
BY DEF LinksStill, Shape, ForeignShape, EmptyShape, InstalledShape, Active,
       InspectManagedInstall, EvalSymlinks, FollowTo

LEMMA LinkNext ==
  ASSUME Undisturbed, ContentInv, LinkInv, [Next]_vars
  PROVE  LinkInv' /\ ActiveChange
<1> USE DEF LinkInv, dirs, links, calls, locals
<1> USE DirFacts, RecordFacts
<1>E. (EmptyShape => Active = NoVersion)'
  BY EmptyInspect, PTL
<1>I. (\A v \in Versions, r \in Layouts :
         InstalledShape(v, r) => InspectManagedInstall = Installed(v, r) /\ Active = v)'
  BY InstalledInspect, PTL
<1>1. CASE \E c \in Callers : Request(c)
  <2>1. LinksStill
    BY <1>1 DEF Request, LinksStill
  <2>2. PriorKnown'
    BY <1>1, <2>1, StillShape
    DEF Request, LinksStill, PriorKnown, InstalledShape, Mutating, Linking, Undoing
  <2>3. SamePath' /\ LinkOrder' /\ NotActiveYet'
    BY <1>1, <2>1, StillShape
    DEF Request, LinksStill, SamePath, LinkOrder, NotActiveYet, Linking,
        ContentInv, TypeOK, Pipeline
  <2> QED
    BY <2>1, <2>2, <2>3, StillShape DEF ActiveChange
<1>2. CASE \E c \in Callers : Lock(c)
  <2>1. LinksStill
    BY <1>2 DEF Lock, LinksStill
  <2>2. PriorKnown'
    BY <1>2, <2>1, StillShape
    DEF Lock, LinksStill, PriorKnown, InstalledShape, Mutating, Linking, Undoing
  <2>3. SamePath' /\ LinkOrder' /\ NotActiveYet'
    BY <1>2, <2>1, StillShape
    DEF Lock, LinksStill, SamePath, LinkOrder, NotActiveYet, Linking,
        ContentInv, TypeOK, Pipeline
  <2> QED
    BY <2>1, <2>2, <2>3, StillShape DEF ActiveChange
<1>3. CASE Reconfigure
  BY <1>3 DEF Reconfigure, Undisturbed
<1>4. CASE Fetch
  <2>1. LinksStill
    BY <1>4 DEF Fetch, LinksStill
  <2>2. PriorKnown'
    BY <1>4, <2>1, StillShape
    DEF Fetch, LinksStill, PriorKnown, InstalledShape, Mutating, Linking, Undoing
  <2>3. SamePath' /\ LinkOrder' /\ NotActiveYet'
    BY <1>4, <2>1, StillShape
    DEF Fetch, LinksStill, SamePath, LinkOrder, NotActiveYet, Linking,
        ContentInv, TypeOK, Pipeline
  <2> QED
    BY <2>1, <2>2, <2>3, StillShape DEF ActiveChange
<1>P. CASE Parse
  <2>1. LinksStill
    BY <1>P DEF Parse, LinksStill
  <2>2. PriorKnown'
    BY <1>P, <2>1, StillShape
    DEF Parse, LinksStill, PriorKnown, InstalledShape, Mutating, Linking, Undoing
  <2>3. SamePath' /\ LinkOrder' /\ NotActiveYet'
    BY <1>P, <2>1, StillShape
    DEF Parse, LinksStill, SamePath, LinkOrder, NotActiveYet, Linking,
        ContentInv, TypeOK, Pipeline
  <2> QED
    BY <2>1, <2>2, <2>3, StillShape DEF ActiveChange
<1>5. CASE CheckStatus
  <2>1. live' = live /\ bin' = bin /\ current' = current
    BY <1>5 DEF CheckStatus
  <2>2. Shape' /\ (EmptyShape => EmptyShape') /\ Active' = Active
    BY <2>1 DEF Shape, ForeignShape, EmptyShape, InstalledShape, Active,
                InspectManagedInstall, EvalSymlinks, FollowTo
  <2>3. PriorKnown'
    BY <1>5, <2>1, <2>2 DEF CheckStatus, PriorKnown, InstalledShape, Mutating, Linking, Undoing
  <2>4. SamePath'
    BY <1>5, <2>1 DEF CheckStatus, SamePath, Linking, ContentInv, TypeOK, Pipeline
  <2>5. LinkOrder' /\ NotActiveYet'
    BY <1>5, <2>1, <2>2, NoVersionAssumption
    DEF CheckStatus, InstallStatusAnswers, LinkOrder, NotActiveYet, Linking, Active,
        ContentInv, TypeOK, Announced
  <2> QED
    BY <2>2, <2>3, <2>4, <2>5 DEF ActiveChange
<1>6. CASE Download
  <2>1. LinksStill
    BY <1>6 DEF Download, LinksStill
  <2>2. PriorKnown'
    BY <1>6, <2>1, StillShape
    DEF Download, LinksStill, PriorKnown, InstalledShape, Mutating, Linking, Undoing
  <2>3. SamePath' /\ LinkOrder' /\ NotActiveYet'
    BY <1>6, <2>1, StillShape
    DEF Download, LinksStill, SamePath, LinkOrder, NotActiveYet, Linking,
        ContentInv, TypeOK, Pipeline
  <2> QED
    BY <2>1, <2>2, <2>3, StillShape DEF ActiveChange
<1>7. CASE Extract
  <2>1. LinksStill
    BY <1>7 DEF Extract, LinksStill
  <2>2. PriorKnown'
    BY <1>7, <2>1, StillShape
    DEF Extract, LinksStill, PriorKnown, InstalledShape, Mutating, Linking, Undoing
  <2>3. SamePath' /\ LinkOrder' /\ NotActiveYet'
    BY <1>7, <2>1, StillShape
    DEF Extract, LinksStill, SamePath, LinkOrder, NotActiveYet, Linking,
        ContentInv, TypeOK, Pipeline
  <2> QED
    BY <2>1, <2>2, <2>3, StillShape DEF ActiveChange
<1>V. CASE Verify
  <2>1. LinksStill
    BY <1>V DEF Verify, LinksStill
  <2>2. PriorKnown'
    BY <1>V, <2>1, StillShape
    DEF Verify, LinksStill, PriorKnown, InstalledShape, Mutating, Linking, Undoing
  <2>3. SamePath' /\ LinkOrder' /\ NotActiveYet'
    BY <1>V, <2>1, StillShape
    DEF Verify, LinksStill, SamePath, LinkOrder, NotActiveYet, Linking,
        ContentInv, TypeOK, Pipeline
  <2> QED
    BY <2>1, <2>2, <2>3, StillShape DEF ActiveChange
<1>8. CASE Inspect
  <2>1. live' = live /\ bin' = bin /\ current' = current
    BY <1>8 DEF Inspect
  <2>2. Shape' /\ (EmptyShape => EmptyShape') /\ Active' = Active
    BY <2>1 DEF Shape, ForeignShape, EmptyShape, InstalledShape, Active,
                InspectManagedInstall, EvalSymlinks, FollowTo
  <2>3. PriorKnown'
    <3>1. CASE pc' = "fail"
      BY <3>1 DEF PriorKnown, Mutating, Linking, Undoing
    <3>2. CASE pc' = "clearNew"
      <4>1. /\ prior' = InspectManagedInstall /\ prior' # InspectError
            /\ info' = info /\ Active # info
        BY <1>8, <3>2 DEF Inspect, NotActiveYet
      <4>2. CASE prior' = NotInstalled
        BY <3>2, <4>1, <4>2, <2>2, ShapeInspected DEF PriorKnown, Undoing
      <4>3. CASE \E v \in Versions, r \in Layouts : prior' = Installed(v, r)
        <5>1. PICK v \in Versions, r \in Layouts : prior' = Installed(v, r)
          BY <4>3
        <5>2. InstalledShape(v, r) /\ Active = v
          BY <4>1, <5>1, ShapeInspected, InstalledInspect
        <5>3. prior'.kind = "installed" /\ prior'.ver = v /\ prior'.rel = r
          BY <5>1
        <5> QED
          BY <2>1, <3>2, <4>1, <5>2, <5>3 DEF PriorKnown, InstalledShape, Undoing
      <4> QED
        BY <4>1, <4>2, <4>3, ShapeInspected
    <3> QED
      BY <1>8, <3>1, <3>2 DEF Inspect
  <2>4. SamePath'
    BY <1>8, <2>1 DEF Inspect, SamePath, Linking, ContentInv, TypeOK, Pipeline
  <2>5. LinkOrder' /\ NotActiveYet'
    BY <1>8, <2>1, <2>2 DEF Inspect, LinkOrder, NotActiveYet, Linking, Undisturbed
  <2> QED
    BY <2>2, <2>3, <2>4, <2>5 DEF ActiveChange
<1>9. CASE ClearNew
  <2>1. LinksStill
    BY <1>9 DEF ClearNew, RemoveAll, LinksStill
  <2>2. PriorKnown'
    BY <1>9, <2>1, StillShape
    DEF ClearNew, RemoveAll, LinksStill, PriorKnown, InstalledShape, Mutating, Linking, Undoing
  <2>3. SamePath' /\ LinkOrder' /\ NotActiveYet'
    BY <1>9, <2>1, StillShape
    DEF ClearNew, RemoveAll, LinksStill, SamePath, LinkOrder, NotActiveYet, Linking,
        ContentInv, TypeOK, Pipeline
  <2> QED
    BY <2>1, <2>2, <2>3, StillShape DEF ActiveChange
<1>10. CASE Stage
  <2>1. LinksStill
    BY <1>10 DEF Stage, RenameWorks, RenameFails, LinksStill
  <2>2. PriorKnown'
    BY <1>10, <2>1, StillShape
    DEF Stage, RenameWorks, RenameFails, LinksStill, PriorKnown, InstalledShape, Mutating, Linking, Undoing
  <2>3. SamePath' /\ LinkOrder' /\ NotActiveYet'
    BY <1>10, <2>1, StillShape
    DEF Stage, RenameWorks, RenameFails, LinksStill, SamePath, LinkOrder, NotActiveYet, Linking,
        ContentInv, TypeOK, Pipeline
  <2> QED
    BY <2>1, <2>2, <2>3, StillShape DEF ActiveChange
<1>11. CASE ClearOld
  <2>1. LinksStill
    BY <1>11 DEF ClearOld, RemoveAll, LinksStill
  <2>2. PriorKnown'
    BY <1>11, <2>1, StillShape
    DEF ClearOld, RemoveAll, LinksStill, PriorKnown, InstalledShape, Mutating, Linking, Undoing
  <2>3. SamePath' /\ LinkOrder' /\ NotActiveYet'
    BY <1>11, <2>1, StillShape
    DEF ClearOld, RemoveAll, LinksStill, SamePath, LinkOrder, NotActiveYet, Linking,
        ContentInv, TypeOK, Pipeline
  <2> QED
    BY <2>1, <2>2, <2>3, StillShape DEF ActiveChange
<1>12. CASE Backup
  <2>1. /\ current' = current /\ bin' = bin /\ prior' = prior /\ info' = info
        /\ \A v \in Versions : v # info => live'[v] = live[v]
    BY <1>12 DEF Backup, RenameWorks, RenameFails, ContentInv, TypeOK
  <2>2. pc \in Mutating /\ prior \in InstallState
    BY <1>12 DEF Backup, RenameWorks, RenameFails, Mutating, ContentInv, TypeOK
  <2>3. CASE prior.kind # "installed"
    <3>1. EmptyShape'
      BY <2>1, <2>2, <2>3 DEF PriorKnown, EmptyShape
    <3>2. Shape' /\ PriorKnown' /\ SamePath'
      BY <2>1, <2>3, <3>1 DEF Shape, PriorKnown, SamePath
    <3>3. LinkOrder' /\ NotActiveYet'
      BY <1>12, <2>3 DEF Backup, RenameWorks, RenameFails, LinkOrder, NotActiveYet, Linking, Undisturbed
    <3>4. Active' = Active
      BY <1>E, <2>2, <2>3, <3>1, EmptyInspect DEF PriorKnown
    <3> QED
      BY <3>2, <3>3, <3>4 DEF ActiveChange
  <2>4. CASE prior.kind = "installed"
    <3>1. /\ prior.ver # info /\ prior.ver \in Versions /\ prior.rel \in Layouts
          /\ InstalledShape(prior.ver, prior.rel)
      BY <2>2, <2>4, StateFacts DEF PriorKnown
    <3>2. InstalledShape(prior.ver, prior.rel)'
      BY <2>1, <3>1 DEF InstalledShape
    <3>3. Shape'
      BY <2>1, <3>1, <3>2 DEF Shape, InstalledShape
    <3>4. PriorKnown'
      BY <1>12, <2>1, <2>4, <3>1, <3>2 DEF Backup, RenameWorks, RenameFails, PriorKnown, Undoing
    <3>5. SamePath'
      BY <1>12, <2>1, <2>4 DEF Backup, RenameWorks, RenameFails, SamePath, Linking, ContentInv, TypeOK, Announced
    <3>6. LinkOrder' /\ NotActiveYet'
      BY <1>12 DEF Backup, RenameWorks, RenameFails, LinkOrder, NotActiveYet, Linking, Undisturbed
    <3>7. Active' = Active
      BY <1>I, <2>1, <3>1, <3>2, InstalledInspect DEF InstalledShape
    <3> QED
      BY <3>3, <3>4, <3>5, <3>6, <3>7 DEF ActiveChange
  <2> QED
    BY <2>3, <2>4
<1>13. CASE Place
  <2>1. /\ current' = current /\ bin' = bin /\ prior' = prior /\ info' = info
        /\ \A v \in Versions : v # info => live'[v] = live[v]
    BY <1>13 DEF Place, RenameWorks, RenameFails, ContentInv, TypeOK
  <2>2. pc \in Mutating /\ prior \in InstallState
    BY <1>13 DEF Place, RenameWorks, RenameFails, Mutating, ContentInv, TypeOK
  <2>3. CASE prior.kind # "installed"
    <3>1. EmptyShape'
      BY <2>1, <2>2, <2>3 DEF PriorKnown, EmptyShape
    <3>2. Shape' /\ PriorKnown' /\ SamePath'
      BY <2>1, <2>3, <3>1 DEF Shape, PriorKnown, SamePath
    <3>3. LinkOrder' /\ NotActiveYet'
      BY <1>13, <2>3 DEF Place, RenameWorks, RenameFails, LinkOrder, NotActiveYet, Linking, Undisturbed
    <3>4. Active' = Active
      BY <1>E, <2>2, <2>3, <3>1, EmptyInspect DEF PriorKnown
    <3> QED
      BY <3>2, <3>3, <3>4 DEF ActiveChange
  <2>4. CASE prior.kind = "installed"
    <3>1. /\ prior.ver # info /\ prior.ver \in Versions /\ prior.rel \in Layouts
          /\ InstalledShape(prior.ver, prior.rel)
      BY <2>2, <2>4, StateFacts DEF PriorKnown
    <3>2. InstalledShape(prior.ver, prior.rel)'
      BY <2>1, <3>1 DEF InstalledShape
    <3>3. Shape'
      BY <2>1, <3>1, <3>2 DEF Shape, InstalledShape
    <3>4. PriorKnown'
      BY <1>13, <2>1, <2>4, <3>1, <3>2 DEF Place, RenameWorks, RenameFails, PriorKnown, Undoing
    <3>5. SamePath'
      BY <1>13, <2>1, <2>4 DEF Place, RenameWorks, RenameFails, SamePath, Linking, ContentInv, TypeOK, Announced
    <3>6. LinkOrder' /\ NotActiveYet'
      BY <1>13 DEF Place, RenameWorks, RenameFails, LinkOrder, NotActiveYet, Linking, Undisturbed
    <3>7. Active' = Active
      BY <1>I, <2>1, <3>1, <3>2, InstalledInspect DEF InstalledShape
    <3> QED
      BY <3>3, <3>4, <3>5, <3>6, <3>7 DEF ActiveChange
  <2> QED
    BY <2>3, <2>4
<1>14. CASE DropStaged
  <2>1. LinksStill
    BY <1>14 DEF DropStaged, RemoveAll, LinksStill
  <2>2. PriorKnown'
    BY <1>14, <2>1, StillShape
    DEF DropStaged, RemoveAll, LinksStill, PriorKnown, InstalledShape, Mutating, Linking, Undoing
  <2>3. SamePath' /\ LinkOrder' /\ NotActiveYet'
    BY <1>14, <2>1, StillShape
    DEF DropStaged, RemoveAll, LinksStill, SamePath, LinkOrder, NotActiveYet, Linking,
        ContentInv, TypeOK, Pipeline
  <2> QED
    BY <2>1, <2>2, <2>3, StillShape DEF ActiveChange
<1>15. CASE Validate
  <2>1. LinksStill
    BY <1>15 DEF Validate, LinksStill
  <2>2. PriorKnown'
    BY <1>15, <2>1, StillShape
    DEF Validate, LinksStill, PriorKnown, InstalledShape, Mutating, Linking, Undoing
  <2>3. SamePath' /\ LinkOrder' /\ NotActiveYet'
    BY <1>15, <2>1, StillShape
    DEF Validate, LinksStill, SamePath, LinkOrder, NotActiveYet, Linking,
        ContentInv, TypeOK, Pipeline
  <2> QED
    BY <2>1, <2>2, <2>3, StillShape DEF ActiveChange
<1>16. CASE LinkPrior
  <2>1. /\ prior.kind = "installed" /\ prior \in InstallState /\ info \in Versions
        /\ prior.ver # info /\ InstalledShape(prior.ver, prior.rel)
    BY <1>16 DEF LinkPrior, ContentInv, Pipeline, TypeOK, Announced, PriorKnown, Mutating
  <2>2. /\ live' = live /\ bin' = bin /\ prior' = prior /\ info' = info
        /\ rootMoved' = rootMoved
    BY <1>16 DEF LinkPrior
  <2>3. live[prior.ver] # Absent
    BY <2>1 DEF InstalledShape, HasBinary
  <2>4. \/ pc' = "linkAgent" /\ current' = prior.ver
        \/ pc' = "undoDir" /\ current' = current
    BY <1>16, <2>3 DEF LinkPrior, ReplaceCurrentLink, Undisturbed
  <2>5. InstalledShape(prior.ver, prior.rel)'
    BY <2>1, <2>2, <2>4 DEF InstalledShape
  <2>6. Shape'
    BY <2>1, <2>2, <2>5, StateFacts DEF Shape, InstalledShape
  <2>7. PriorKnown'
    BY <2>1, <2>2, <2>4, <2>5 DEF PriorKnown, Undoing
  <2>8. SamePath' /\ LinkOrder' /\ NotActiveYet'
    BY <1>16, <2>1, <2>2, <2>4
    DEF LinkPrior, SamePath, LinkOrder, NotActiveYet, Linking
  <2>9. Active' = Active
    BY <1>I, <2>1, <2>2, <2>5, StateFacts, InstalledInspect DEF InstalledShape
  <2> QED
    BY <2>6, <2>7, <2>8, <2>9 DEF ActiveChange
<1>17. CASE LinkAgent
  <2>1. /\ live' = live /\ current' = current /\ prior' = prior /\ info' = info
        /\ rootMoved' = rootMoved
    BY <1>17 DEF LinkAgent, EnsureStableBinLink
  <2>2. /\ pc \in Mutating /\ pc \in Linking /\ prior \in InstallState
        /\ live[info] \in Packages /\ bin \in [BinNames -> Link]
    BY <1>17 DEF LinkAgent, EnsureStableBinLink, Mutating, Linking, ContentInv, TypeOK, Pipeline
  <2>3. \/ pc' = "linkCursorAgent" /\ bin' = [bin EXCEPT !["agent"] = ViaCurrent(live[info].rel)]
        \/ pc' = "undoDir" /\ bin' = bin
    BY <1>17 DEF LinkAgent, EnsureStableBinLink
  <2>4. CASE prior.kind # "installed"
    <3>1. EmptyShape'
      BY <2>1, <2>2, <2>3, <2>4 DEF PriorKnown, EmptyShape
    <3>2. Active' = Active
      BY <1>E, <2>2, <2>4, <3>1, EmptyInspect DEF PriorKnown
    <3>3. LinkInv'
      BY <1>17, <2>1, <2>2, <2>3, <2>4, <3>1
      DEF LinkAgent, EnsureStableBinLink, Shape, PriorKnown, SamePath, LinkOrder, NotActiveYet, Linking, Undoing,
          BinNames
    <3> QED
      BY <3>2, <3>3 DEF ActiveChange
  <2>5. CASE prior.kind = "installed"
    <3>1. /\ prior.ver # info /\ prior.ver \in Versions /\ prior.rel \in Layouts
          /\ InstalledShape(prior.ver, prior.rel)
          /\ current = prior.ver /\ live[info].rel = prior.rel
      BY <2>2, <2>5, StateFacts DEF PriorKnown, LinkOrder, SamePath
    <3>2. InstalledShape(prior.ver, prior.rel)'
      BY <2>1, <2>2, <2>3, <3>1 DEF InstalledShape
    <3>3. Shape'
      BY <2>1, <3>1, <3>2 DEF Shape, InstalledShape
    <3>4. PriorKnown' /\ SamePath'
      BY <2>1, <2>3, <2>5, <3>1, <3>2 DEF PriorKnown, SamePath, Undoing
    <3>5. LinkOrder' /\ NotActiveYet'
      BY <1>17, <2>1, <2>2, <2>3, <3>1 DEF LinkAgent, EnsureStableBinLink, LinkOrder, NotActiveYet, BinNames
    <3>6. Active' = Active
      BY <1>I, <2>1, <3>1, <3>2, InstalledInspect DEF InstalledShape
    <3> QED
      BY <3>3, <3>4, <3>5, <3>6 DEF ActiveChange
  <2> QED
    BY <2>4, <2>5
<1>18. CASE LinkCursorAgent
  <2>1. /\ live' = live /\ current' = current /\ prior' = prior /\ info' = info
        /\ rootMoved' = rootMoved
    BY <1>18 DEF LinkCursorAgent, EnsureStableBinLink
  <2>2. /\ pc \in Mutating /\ pc \in Linking /\ prior \in InstallState
        /\ live[info] \in Packages /\ bin \in [BinNames -> Link]
    BY <1>18 DEF LinkCursorAgent, EnsureStableBinLink, Mutating, Linking, ContentInv, TypeOK, Pipeline
  <2>3. \/ pc' = "swap" /\ bin' = [bin EXCEPT !["cursor-agent"] = ViaCurrent(live[info].rel)]
        \/ pc' = "undoDir" /\ bin' = bin
    BY <1>18 DEF LinkCursorAgent, EnsureStableBinLink
  <2>4. CASE prior.kind # "installed"
    <3>1. EmptyShape'
      BY <2>1, <2>2, <2>3, <2>4 DEF PriorKnown, EmptyShape
    <3>2. Active' = Active
      BY <1>E, <2>2, <2>4, <3>1, EmptyInspect DEF PriorKnown
    <3>3. LinkInv'
      BY <1>18, <2>1, <2>2, <2>3, <2>4, <3>1
      DEF LinkCursorAgent, EnsureStableBinLink, Shape, PriorKnown, SamePath, LinkOrder, NotActiveYet, Linking, Undoing,
          BinNames
    <3> QED
      BY <3>2, <3>3 DEF ActiveChange
  <2>5. CASE prior.kind = "installed"
    <3>1. /\ prior.ver # info /\ prior.ver \in Versions /\ prior.rel \in Layouts
          /\ InstalledShape(prior.ver, prior.rel)
          /\ current = prior.ver /\ live[info].rel = prior.rel
      BY <2>2, <2>5, StateFacts DEF PriorKnown, LinkOrder, SamePath
    <3>2. InstalledShape(prior.ver, prior.rel)'
      BY <2>1, <2>2, <2>3, <3>1 DEF InstalledShape
    <3>3. Shape'
      BY <2>1, <3>1, <3>2 DEF Shape, InstalledShape
    <3>4. PriorKnown' /\ SamePath'
      BY <2>1, <2>3, <2>5, <3>1, <3>2 DEF PriorKnown, SamePath, Undoing
    <3>5. LinkOrder' /\ NotActiveYet'
      BY <1>18, <2>1, <2>2, <2>3, <3>1 DEF LinkCursorAgent, EnsureStableBinLink, LinkOrder, NotActiveYet, BinNames
    <3>6. Active' = Active
      BY <1>I, <2>1, <3>1, <3>2, InstalledInspect DEF InstalledShape
    <3> QED
      BY <3>3, <3>4, <3>5, <3>6 DEF ActiveChange
  <2> QED
    BY <2>4, <2>5
<1>19. CASE Swap
  <2>1. /\ live' = live /\ bin' = bin /\ prior' = prior /\ info' = info
        /\ rootMoved' = rootMoved
    BY <1>19 DEF Swap
  <2>2. /\ live[info] \in Packages /\ info \in Versions
        /\ \A n \in BinNames : bin[n] = ViaCurrent(live[info].rel)
    BY <1>19 DEF Swap, ContentInv, TypeOK, Pipeline, Announced, LinkOrder, BinNames
  <2>3. \/ pc' = "clean" /\ current' = info
        \/ pc' = "undoDir" /\ current' = current
    BY <1>19, <2>2 DEF Swap, ReplaceCurrentLink, Undisturbed
  <2>4. CASE pc' = "clean" /\ current' = info
    <3>1. InstalledShape(info, live[info].rel)'
      BY <2>1, <2>2, <2>4 DEF InstalledShape, HasBinary
    <3>2. Shape'
      BY <2>1, <2>2, <3>1 DEF Shape, InstalledShape
    <3>3. Active' = info
      BY <1>I, <2>1, <2>2, <3>1 DEF InstalledShape
    <3>4. LinkInv'
      BY <2>1, <2>4, <3>2
      DEF PriorKnown, SamePath, LinkOrder, NotActiveYet, Mutating, Linking, Undoing
    <3> QED
      BY <1>19, <2>4, <3>3, <3>4 DEF ActiveChange, Swap
  <2>5. CASE pc' = "undoDir" /\ current' = current
    <3>1. Shape' /\ PriorKnown'
      BY <1>19, <2>1, <2>5
      DEF Swap, Shape, ForeignShape, EmptyShape, InstalledShape, PriorKnown, Mutating,
          Linking, Undoing
    <3>2. Active' = Active
      BY <2>1, <2>5 DEF Active, InspectManagedInstall, EvalSymlinks, FollowTo
    <3>3. SamePath' /\ LinkOrder' /\ NotActiveYet'
      BY <2>1, <2>5 DEF SamePath, LinkOrder, NotActiveYet, Linking
    <3> QED
      BY <3>1, <3>2, <3>3 DEF ActiveChange
  <2> QED
    BY <2>3, <2>4, <2>5
<1>20. CASE Clean
  <2>1. LinksStill
    BY <1>20 DEF Clean, RemoveAll, LinksStill
  <2>2. PriorKnown'
    BY <1>20, <2>1, StillShape
    DEF Clean, RemoveAll, LinksStill, PriorKnown, InstalledShape, Mutating, Linking, Undoing
  <2>3. SamePath' /\ LinkOrder' /\ NotActiveYet'
    BY <1>20, <2>1, StillShape
    DEF Clean, RemoveAll, LinksStill, SamePath, LinkOrder, NotActiveYet, Linking,
        ContentInv, TypeOK, Pipeline
  <2> QED
    BY <2>1, <2>2, <2>3, StillShape DEF ActiveChange
<1>21. CASE UndoDir
  <2>1. /\ current' = current /\ bin' = bin /\ prior' = prior /\ info' = info
        /\ \A v \in Versions : v # info => live'[v] = live[v]
    BY <1>21 DEF UndoDir, RemoveAll, AfterUndo, ContentInv, TypeOK
  <2>2. pc \in Mutating /\ prior \in InstallState
    BY <1>21 DEF UndoDir, RemoveAll, AfterUndo, Mutating, ContentInv, TypeOK
  <2>3. CASE prior.kind # "installed"
    <3>1. EmptyShape'
      BY <2>1, <2>2, <2>3 DEF PriorKnown, EmptyShape
    <3>2. Shape' /\ PriorKnown' /\ SamePath'
      BY <2>1, <2>3, <3>1 DEF Shape, PriorKnown, SamePath
    <3>3. LinkOrder' /\ NotActiveYet'
      BY <1>21, <2>3 DEF UndoDir, RemoveAll, AfterUndo, LinkOrder, NotActiveYet, Linking, Undisturbed
    <3>4. Active' = Active
      BY <1>E, <2>2, <2>3, <3>1, EmptyInspect DEF PriorKnown
    <3> QED
      BY <3>2, <3>3, <3>4 DEF ActiveChange
  <2>4. CASE prior.kind = "installed"
    <3>1. /\ prior.ver # info /\ prior.ver \in Versions /\ prior.rel \in Layouts
          /\ InstalledShape(prior.ver, prior.rel)
      BY <2>2, <2>4, StateFacts DEF PriorKnown
    <3>2. InstalledShape(prior.ver, prior.rel)'
      BY <2>1, <3>1 DEF InstalledShape
    <3>3. Shape'
      BY <2>1, <3>1, <3>2 DEF Shape, InstalledShape
    <3>4. PriorKnown'
      BY <1>21, <2>1, <2>4, <3>1, <3>2 DEF UndoDir, RemoveAll, AfterUndo, PriorKnown, Undoing
    <3>5. SamePath'
      BY <1>21, <2>1, <2>4 DEF UndoDir, RemoveAll, AfterUndo, SamePath, Linking, ContentInv, TypeOK, Announced
    <3>6. LinkOrder' /\ NotActiveYet'
      BY <1>21 DEF UndoDir, RemoveAll, AfterUndo, LinkOrder, NotActiveYet, Linking, Undisturbed
    <3>7. Active' = Active
      BY <1>I, <2>1, <3>1, <3>2, InstalledInspect DEF InstalledShape
    <3> QED
      BY <3>3, <3>4, <3>5, <3>6, <3>7 DEF ActiveChange
  <2> QED
    BY <2>3, <2>4
<1>22. CASE UndoBackup
  <2>1. /\ current' = current /\ bin' = bin /\ prior' = prior /\ info' = info
        /\ \A v \in Versions : v # info => live'[v] = live[v]
    BY <1>22 DEF UndoBackup, AfterUndo, RenameWorks, RenameFails, ContentInv, TypeOK
  <2>2. pc \in Mutating /\ prior \in InstallState
    BY <1>22 DEF UndoBackup, AfterUndo, RenameWorks, RenameFails, Mutating, ContentInv, TypeOK
  <2>3. CASE prior.kind # "installed"
    <3>1. EmptyShape'
      BY <2>1, <2>2, <2>3 DEF PriorKnown, EmptyShape
    <3>2. Shape' /\ PriorKnown' /\ SamePath'
      BY <2>1, <2>3, <3>1 DEF Shape, PriorKnown, SamePath
    <3>3. LinkOrder' /\ NotActiveYet'
      BY <1>22, <2>3 DEF UndoBackup, AfterUndo, RenameWorks, RenameFails, LinkOrder, NotActiveYet, Linking, Undisturbed
    <3>4. Active' = Active
      BY <1>E, <2>2, <2>3, <3>1, EmptyInspect DEF PriorKnown
    <3> QED
      BY <3>2, <3>3, <3>4 DEF ActiveChange
  <2>4. CASE prior.kind = "installed"
    <3>1. /\ prior.ver # info /\ prior.ver \in Versions /\ prior.rel \in Layouts
          /\ InstalledShape(prior.ver, prior.rel)
      BY <2>2, <2>4, StateFacts DEF PriorKnown
    <3>2. InstalledShape(prior.ver, prior.rel)'
      BY <2>1, <3>1 DEF InstalledShape
    <3>3. Shape'
      BY <2>1, <3>1, <3>2 DEF Shape, InstalledShape
    <3>4. PriorKnown'
      BY <1>22, <2>1, <2>4, <3>1, <3>2 DEF UndoBackup, AfterUndo, RenameWorks, RenameFails, PriorKnown, Undoing
    <3>5. SamePath'
      BY <1>22, <2>1, <2>4 DEF UndoBackup, AfterUndo, RenameWorks, RenameFails, SamePath, Linking, ContentInv, TypeOK, Announced
    <3>6. LinkOrder' /\ NotActiveYet'
      BY <1>22 DEF UndoBackup, AfterUndo, RenameWorks, RenameFails, LinkOrder, NotActiveYet, Linking, Undisturbed
    <3>7. Active' = Active
      BY <1>I, <2>1, <3>1, <3>2, InstalledInspect DEF InstalledShape
    <3> QED
      BY <3>3, <3>4, <3>5, <3>6, <3>7 DEF ActiveChange
  <2> QED
    BY <2>3, <2>4
<1>23. CASE UndoAgent
  <2>1. pc \in Mutating /\ prior.kind # "installed" /\ EmptyShape
    BY <1>23 DEF UndoAgent, UndoLink, PriorKnown, Mutating, Undoing
  <2>2. prior' = prior /\ rootMoved' = rootMoved
    BY <1>23 DEF UndoAgent, UndoLink
  <2>3. EmptyShape'
    BY <1>23, <2>1 DEF UndoAgent, UndoLink, EmptyShape, ContentInv, TypeOK
  <2>4. Active' = Active
    BY <1>E, <2>1, <2>3, EmptyInspect
  <2>5. LinkInv'
    BY <1>23, <2>1, <2>2, <2>3
    DEF UndoAgent, UndoLink, Shape, PriorKnown, SamePath, LinkOrder, NotActiveYet, Linking
  <2> QED
    BY <2>4, <2>5 DEF ActiveChange
<1>24. CASE UndoCursorAgent
  <2>1. pc \in Mutating /\ prior.kind # "installed" /\ EmptyShape
    BY <1>24 DEF UndoCursorAgent, UndoLink, PriorKnown, Mutating, Undoing
  <2>2. prior' = prior /\ rootMoved' = rootMoved
    BY <1>24 DEF UndoCursorAgent, UndoLink
  <2>3. EmptyShape'
    BY <1>24, <2>1 DEF UndoCursorAgent, UndoLink, EmptyShape, ContentInv, TypeOK
  <2>4. Active' = Active
    BY <1>E, <2>1, <2>3, EmptyInspect
  <2>5. LinkInv'
    BY <1>24, <2>1, <2>2, <2>3
    DEF UndoCursorAgent, UndoLink, Shape, PriorKnown, SamePath, LinkOrder, NotActiveYet, Linking
  <2> QED
    BY <2>4, <2>5 DEF ActiveChange
<1>25. CASE UndoCurrent
  <2>1. pc \in Mutating /\ prior.kind # "installed" /\ EmptyShape
    BY <1>25 DEF UndoCurrent, PriorKnown, Mutating, Undoing
  <2>2. prior' = prior /\ rootMoved' = rootMoved
    BY <1>25 DEF UndoCurrent
  <2>3. EmptyShape'
    BY <1>25, <2>1 DEF UndoCurrent, EmptyShape, ContentInv, TypeOK
  <2>4. Active' = Active
    BY <1>E, <2>1, <2>3, EmptyInspect
  <2>5. LinkInv'
    BY <1>25, <2>1, <2>2, <2>3
    DEF UndoCurrent, Shape, PriorKnown, SamePath, LinkOrder, NotActiveYet, Linking
  <2> QED
    BY <2>4, <2>5 DEF ActiveChange
<1>26. CASE ReturnOk
  <2>1. LinksStill
    BY <1>26 DEF ReturnOk, Return, LinksStill
  <2>2. PriorKnown'
    BY <1>26, <2>1, StillShape
    DEF ReturnOk, Return, LinksStill, PriorKnown, InstalledShape, Mutating, Linking, Undoing
  <2>3. SamePath' /\ LinkOrder' /\ NotActiveYet'
    BY <1>26, <2>1, StillShape
    DEF ReturnOk, Return, LinksStill, SamePath, LinkOrder, NotActiveYet, Linking,
        ContentInv, TypeOK, Pipeline
  <2> QED
    BY <2>1, <2>2, <2>3, StillShape DEF ActiveChange
<1>27. CASE ReturnError
  <2>1. LinksStill
    BY <1>27 DEF ReturnError, Return, LinksStill
  <2>2. PriorKnown'
    BY <1>27, <2>1, StillShape
    DEF ReturnError, Return, LinksStill, PriorKnown, InstalledShape, Mutating, Linking, Undoing
  <2>3. SamePath' /\ LinkOrder' /\ NotActiveYet'
    BY <1>27, <2>1, StillShape
    DEF ReturnError, Return, LinksStill, SamePath, LinkOrder, NotActiveYet, Linking,
        ContentInv, TypeOK, Pipeline
  <2> QED
    BY <2>1, <2>2, <2>3, StillShape DEF ActiveChange
<1>28. CASE Crash
  <2>1. LinksStill
    BY <1>28 DEF Crash, LinksStill
  <2>2. PriorKnown'
    BY <1>28, <2>1, StillShape
    DEF Crash, LinksStill, PriorKnown, InstalledShape, Mutating, Linking, Undoing
  <2>3. SamePath' /\ LinkOrder' /\ NotActiveYet'
    BY <1>28, <2>1, StillShape
    DEF Crash, LinksStill, SamePath, LinkOrder, NotActiveYet, Linking,
        ContentInv, TypeOK, Pipeline
  <2> QED
    BY <2>1, <2>2, <2>3, StillShape DEF ActiveChange
<1>29. CASE UNCHANGED vars
  <2>1. LinksStill
    BY <1>29 DEF vars, LinksStill
  <2>2. PriorKnown'
    BY <1>29, <2>1, StillShape
    DEF vars, LinksStill, PriorKnown, InstalledShape, Mutating, Linking, Undoing
  <2>3. SamePath' /\ LinkOrder' /\ NotActiveYet'
    BY <1>29, <2>1, StillShape
    DEF vars, LinksStill, SamePath, LinkOrder, NotActiveYet, Linking,
        ContentInv, TypeOK, Pipeline
  <2> QED
    BY <2>1, <2>2, <2>3, StillShape DEF ActiveChange
<1> QED
  BY <1>1, <1>P, <1>V, <1>2, <1>3, <1>4, <1>5, <1>6, <1>7, <1>8, <1>9, <1>10, <1>11, <1>12, <1>13,
     <1>14, <1>15, <1>16, <1>17, <1>18, <1>19, <1>20, <1>21, <1>22, <1>23, <1>24, <1>25, <1>26, <1>27, <1>28, <1>29 DEF Next, Attempt

Inv == ContentInv /\ LinkInv

LEMMA InvAlways == ASSUME Undisturbed PROVE Spec => []Inv
<1>1. Init => Inv
  BY ContentInit, LinkInit DEF Inv
<1>2. Inv /\ [Next]_vars => Inv'
  BY ContentNext, LinkNext DEF Inv
<1> QED
  BY <1>1, <1>2, PTL DEF Spec

(* As long as re-reads do not fail and the root is not reconfigured, the    *)
(* two links agree in every reachable state: no rename that fails, no       *)
(* removal that stops half-way and no crash between any two steps leaves    *)
(* them incomplete or mixed.                                                *)
THEOREM LinksAlwaysAgree ==
  ASSUME Undisturbed PROVE Spec => []LinksAgree
<1>1. Inv => LinksAgree
  <2> SUFFICES ASSUME Inv PROVE LinksAgree
    OBVIOUS
  <2>1. CASE ForeignShape
    BY <2>1, RecordFacts DEF ForeignShape, LinksAgree, BinNames
  <2>2. CASE EmptyShape
    BY <2>2, EmptyInspect, RecordFacts DEF LinksAgree
  <2>3. CASE \E v \in Versions, r \in Layouts : InstalledShape(v, r)
    BY <2>3, InstalledInspect, RecordFacts DEF LinksAgree
  <2> QED
    BY <2>1, <2>2, <2>3 DEF Inv, LinkInv, Shape
<1> QED
  BY <1>1, InvAlways, PTL

(* Under the same assumption no step of an attempt, of its rollback or of a *)
(* crash takes an installed agent away.                                     *)
THEOREM AgentStays ==
  ASSUME Undisturbed PROVE Spec => AgentNeverDisappears
<1>1. Inv /\ [Next]_vars => [Active # NoVersion => Active' # NoVersion]_vars
  <2> SUFFICES ASSUME Inv, [Next]_vars, Active # NoVersion
               PROVE  Active' # NoVersion
    OBVIOUS
  <2>1. ActiveChange
    BY LinkNext DEF Inv
  <2>2. pc = "swap" => info \in Versions
    BY DEF Inv, ContentInv, TypeOK, Announced
  <2> QED
    BY <2>1, <2>2, NoVersionAssumption DEF ActiveChange
<1> QED
  BY <1>1, InvAlways, PTL DEF Spec, AgentNeverDisappears

-----------------------------------------------------------------------------
(* The refinement.                                                          *)

(* The announced version is unset before the announcement, and active once  *)
(* the attempt has committed.                                               *)
TargetInv ==
  /\ pc \in {"idle", "fetch", "parse"} => info = NoVersion
  /\ pc \in {"clean", "ok"} => Active = info

LEMMA ActiveType == LinkInv => Active \in Versions \cup {NoVersion}
BY ForeignInspect, EmptyInspect, InstalledInspect DEF LinkInv, Shape

LEMMA SwapCommits ==
  ASSUME Undisturbed, Inv, Swap
  PROVE  \/ pc' = "clean" /\ Active' = info
         \/ pc' = "undoDir" /\ Active' = Active
<1> USE DirFacts, RecordFacts
<1>1. /\ live' = live /\ bin' = bin /\ info' = info /\ pc = "swap"
  BY DEF Swap, dirs, locals
<1>2. /\ live[info] \in Packages /\ info \in Versions
      /\ \A n \in BinNames : bin[n] = ViaCurrent(live[info].rel)
  BY <1>1 DEF Inv, ContentInv, TypeOK, Pipeline, Announced, LinkInv, LinkOrder, BinNames
<1>3. \/ pc' = "clean" /\ current' = info
      \/ pc' = "undoDir" /\ current' = current
  BY <1>2 DEF Swap, ReplaceCurrentLink, Undisturbed
<1>4. CASE pc' = "clean" /\ current' = info
  <2>1. \A n \in BinNames : EvalSymlinks(bin[n])' = Found(info, live[info].rel)
    BY <1>1, <1>2, <1>4 DEF EvalSymlinks, FollowTo, HasBinary
  <2>2. InspectManagedInstall' = Installed(info, live[info].rel)
    BY <2>1 DEF InspectManagedInstall, Combine, BinNames
  <2> QED
    BY <1>4, <2>2 DEF Active
<1>5. CASE pc' = "undoDir" /\ current' = current
  BY <1>1, <1>5 DEF Active, InspectManagedInstall, EvalSymlinks, FollowTo
<1> QED
  BY <1>3, <1>4, <1>5

LEMMA TargetNext ==
  ASSUME Undisturbed, Inv, TargetInv, [Next]_vars
  PROVE  TargetInv'
<1>0. ActiveChange
  BY LinkNext DEF Inv
<1> USE DEF TargetInv, dirs, links, calls, locals
<1>1. CASE \E c \in Callers : Request(c) \/ Lock(c)
  BY <1>0, <1>1 DEF Request, Lock, ActiveChange
<1>2. CASE Reconfigure
  BY <1>2 DEF Reconfigure, Undisturbed
<1>3. CASE Fetch
  BY <1>3 DEF Fetch
<1>P. CASE Parse
  BY <1>P DEF Parse
<1>4. CASE CheckStatus
  BY <1>0, <1>4, RecordFacts
  DEF CheckStatus, InstallStatusAnswers, ActiveChange, Active, Inv, LinkInv, NotActiveYet
<1>5. CASE Swap
  BY <1>5, SwapCommits DEF Swap, ReplaceCurrentLink
<1>6. CASE Clean
  BY <1>0, <1>6 DEF Clean, RemoveAll, ActiveChange
<1>7. CASE ReturnOk \/ ReturnError \/ Crash
  BY <1>7 DEF ReturnOk, ReturnError, Return, Crash
<1>8. CASE UNCHANGED vars
  BY <1>0, <1>8 DEF vars, ActiveChange
<1>9. CASE Download
  BY <1>9 DEF Download
<1>10. CASE Extract
  BY <1>10 DEF Extract
<1>V. CASE Verify
  BY <1>V DEF Verify
<1>11. CASE Inspect
  BY <1>11 DEF Inspect
<1>12. CASE ClearNew
  BY <1>12 DEF ClearNew, RemoveAll
<1>13. CASE Stage
  BY <1>13 DEF Stage, RenameWorks, RenameFails
<1>14. CASE ClearOld
  BY <1>14 DEF ClearOld, RemoveAll
<1>15. CASE Backup
  BY <1>15 DEF Backup, RenameWorks, RenameFails
<1>16. CASE Place
  BY <1>16 DEF Place, RenameWorks, RenameFails
<1>17. CASE DropStaged
  BY <1>17 DEF DropStaged, RemoveAll
<1>18. CASE Validate
  BY <1>18 DEF Validate
<1>19. CASE LinkPrior
  BY <1>19 DEF LinkPrior, ReplaceCurrentLink
<1>20. CASE LinkAgent
  BY <1>20 DEF LinkAgent, EnsureStableBinLink
<1>21. CASE LinkCursorAgent
  BY <1>21 DEF LinkCursorAgent, EnsureStableBinLink
<1>22. CASE UndoDir
  BY <1>22 DEF UndoDir, RemoveAll, AfterUndo
<1>23. CASE UndoBackup
  BY <1>23 DEF UndoBackup, AfterUndo, RenameWorks, RenameFails
<1>24. CASE UndoAgent
  BY <1>24 DEF UndoAgent, UndoLink
<1>25. CASE UndoCursorAgent
  BY <1>25 DEF UndoCursorAgent, UndoLink
<1>26. CASE UndoCurrent
  BY <1>26 DEF UndoCurrent
<1> QED
  BY <1>1, <1>P, <1>V, <1>2, <1>3, <1>4, <1>5, <1>6, <1>7, <1>8, <1>9, <1>10, <1>11, <1>12, <1>13,
     <1>14, <1>15, <1>16, <1>17, <1>18, <1>19, <1>20, <1>21, <1>22, <1>23, <1>24, <1>25, <1>26 DEF Next, Attempt

(* One step of the installer is one step of AtomicInstall, or none.         *)
LEMMA StepRefines ==
  ASSUME Undisturbed, Inv, TargetInv, [Next]_vars
  PROVE  [Atomic!Next]_(Atomic!vars)
<1>0. ActiveChange /\ TargetInv'
  BY LinkNext, TargetNext DEF Inv
<1>T. TypeOK
  BY DEF Inv, ContentInv
<1> USE DEF Atomic!vars, dirs, links, calls, locals
<1>1. CASE \E c \in Callers : Request(c)
  <2>1. PICK c \in Callers : Request(c)
    BY <1>1
  <2>2. Active' = Active
    BY <2>1, <1>0 DEF Request, ActiveChange
  <2>3. Atomic!Ask(c)
    BY <2>1, <2>2 DEF Request, Atomic!Ask
  <2> QED
    BY <2>3 DEF Atomic!Next
<1>2. CASE \E c \in Callers : Lock(c)
  <2>1. PICK c \in Callers : Lock(c)
    BY <1>2
  <2>2. Active' = Active /\ pc = "idle"
    BY <2>1, <1>0, <1>T, NoCallerAssumption DEF Lock, ActiveChange, TypeOK
  <2>3. Atomic!Begin(c)
    BY <2>1, <2>2 DEF Lock, Atomic!Begin, TargetInv
  <2> QED
    BY <2>3 DEF Atomic!Next
<1>3. CASE Reconfigure
  BY <1>3 DEF Reconfigure, Undisturbed
<1>4. CASE Fetch
  BY <1>4, <1>0 DEF Fetch, ActiveChange
<1>P. CASE Parse
  <2>1. Active' = Active /\ installMu # NoCaller /\ info = NoVersion
    BY <1>P, <1>0, <1>T, NoCallerAssumption DEF Parse, ActiveChange, TypeOK, TargetInv
  <2> QED
    BY <1>P, <2>1 DEF Parse, Atomic!Next, Atomic!Announce
<1>5. CASE CheckStatus
  <2>1. Active' = Active /\ info \in Versions
    BY <1>5, <1>0, <1>T DEF CheckStatus, ActiveChange, TypeOK, Announced
  <2> QED
    BY <1>5, <1>0, <2>1 DEF CheckStatus, TargetInv, Atomic!Next, Atomic!Commit
<1>6. CASE Swap
  <2>1. info \in Versions
    BY <1>6, <1>T DEF Swap, TypeOK, Announced
  <2> QED
    BY <1>6, <2>1, SwapCommits DEF Swap, Atomic!Next, Atomic!Commit
<1>7. CASE Clean
  BY <1>7, <1>0 DEF Clean, RemoveAll, ActiveChange
<1>8. CASE ReturnOk
  <2>1. Active' = Active /\ Active = info /\ installMu # NoCaller
    BY <1>8, <1>0, <1>T, NoCallerAssumption
    DEF ReturnOk, ActiveChange, TargetInv, TypeOK
  <2> QED
    BY <1>8, <2>1 DEF ReturnOk, Return, Atomic!Next, Atomic!Succeed, Atomic!End
<1>9. CASE ReturnError
  <2>1. Active' = Active /\ installMu # NoCaller
    BY <1>9, <1>0, <1>T, NoCallerAssumption DEF ReturnError, ActiveChange, TypeOK
  <2> QED
    BY <1>9, <2>1 DEF ReturnError, Return, Atomic!Next, Atomic!Fail, Atomic!End
<1>10. CASE Crash
  <2>1. Active' = Active
    BY <1>10, <1>0 DEF Crash, ActiveChange
  <2> QED
    BY <1>10, <2>1 DEF Crash, Atomic!Next, Atomic!Crash
<1>11. CASE UNCHANGED vars
  BY <1>11, <1>0 DEF vars, ActiveChange
<1>12. CASE Download
  BY <1>12, <1>0 DEF Download, ActiveChange
<1>13. CASE Extract
  BY <1>13, <1>0 DEF Extract, ActiveChange
<1>V. CASE Verify
  BY <1>V, <1>0 DEF Verify, ActiveChange
<1>14. CASE Inspect
  BY <1>14, <1>0 DEF Inspect, ActiveChange
<1>15. CASE ClearNew
  BY <1>15, <1>0 DEF ClearNew, RemoveAll, ActiveChange
<1>16. CASE Stage
  BY <1>16, <1>0 DEF Stage, RenameWorks, RenameFails, ActiveChange
<1>17. CASE ClearOld
  BY <1>17, <1>0 DEF ClearOld, RemoveAll, ActiveChange
<1>18. CASE Backup
  BY <1>18, <1>0 DEF Backup, RenameWorks, RenameFails, ActiveChange
<1>19. CASE Place
  BY <1>19, <1>0 DEF Place, RenameWorks, RenameFails, ActiveChange
<1>20. CASE DropStaged
  BY <1>20, <1>0 DEF DropStaged, RemoveAll, ActiveChange
<1>21. CASE Validate
  BY <1>21, <1>0 DEF Validate, ActiveChange
<1>22. CASE LinkPrior
  BY <1>22, <1>0 DEF LinkPrior, ReplaceCurrentLink, ActiveChange
<1>23. CASE LinkAgent
  BY <1>23, <1>0 DEF LinkAgent, EnsureStableBinLink, ActiveChange
<1>24. CASE LinkCursorAgent
  BY <1>24, <1>0 DEF LinkCursorAgent, EnsureStableBinLink, ActiveChange
<1>25. CASE UndoDir
  BY <1>25, <1>0 DEF UndoDir, RemoveAll, AfterUndo, ActiveChange
<1>26. CASE UndoBackup
  BY <1>26, <1>0 DEF UndoBackup, AfterUndo, RenameWorks, RenameFails, ActiveChange
<1>27. CASE UndoAgent
  BY <1>27, <1>0 DEF UndoAgent, UndoLink, ActiveChange
<1>28. CASE UndoCursorAgent
  BY <1>28, <1>0 DEF UndoCursorAgent, UndoLink, ActiveChange
<1>29. CASE UndoCurrent
  BY <1>29, <1>0 DEF UndoCurrent, ActiveChange
<1> QED
  BY <1>1, <1>P, <1>V, <1>2, <1>3, <1>4, <1>5, <1>6, <1>7, <1>8, <1>9, <1>10, <1>11, <1>12, <1>13,
     <1>14, <1>15, <1>16, <1>17, <1>18, <1>19, <1>20, <1>21, <1>22, <1>23, <1>24, <1>25, <1>26, <1>27, <1>28, <1>29 DEF Next, Attempt

(* The file operations implement the abstract installation: the active      *)
(* version changes in one step and only to the announced one, success means *)
(* it is active, and failure, rollback and crash change nothing.            *)
THEOREM InstallIsAtomic ==
  ASSUME Undisturbed PROVE Spec => ImplementsAtomicInstall
<1>1. Init => Atomic!Init /\ TargetInv
  <2> SUFFICES ASSUME Init PROVE Atomic!Init /\ TargetInv
    OBVIOUS
  <2>1. Active \in Versions \cup {NoVersion}
    BY LinkInit, ActiveType
  <2> QED
    BY <2>1 DEF Init, Atomic!Init, TargetInv
<1>2. Inv /\ TargetInv /\ [Next]_vars => TargetInv'
  BY TargetNext
<1>3. Inv /\ TargetInv /\ [Next]_vars => [Atomic!Next]_(Atomic!vars)
  BY StepRefines
<1> QED
  BY <1>1, <1>2, <1>3, InvAlways, PTL DEF Spec, ImplementsAtomicInstall, Atomic!Spec
=============================================================================
