------------------------ MODULE InstallObserverProofs ------------------------
(***************************************************************************)
(* Proofs about InstallObserver: what a reader without a lock may rely on. *)
(***************************************************************************)
EXTENDS InstallObserver, ManagedInstallProofs, FiniteSetTheorems

Reading == {"link", "current", "dir"}
Outcome == [kind : {"found"}, ver : Versions, rel : Layouts]
             \cup {Missing, Outside}

ReaderTypeOK ==
  /\ walk \in {"idle", "done"} \cup Reading
  /\ link \in BinNames
  /\ seen \subseteq Versions \cup {NoVersion}
  /\ IsFiniteSet(seen)
  /\ found \in [BinNames -> Outcome]

(* What the walk holds was active at some moment of the call: a version     *)
(* read from a link or from current, and a version whose binary was found.  *)
HeldWasActive ==
  walk \in Reading =>
    /\ Active \in seen
    /\ walk \in {"current", "dir"} => ~ForeignShape
    /\ walk = "dir" => at.ver \in seen
    /\ link = "cursor-agent" /\ found["agent"].kind = "found" =>
         found["agent"].ver \in seen

(* While one version stays active, everything read leads to its binary.     *)
OneVersion(v) ==
  \E r \in Layouts :
    /\ InstalledShape(v, r)
    /\ walk = "current" => at = ViaCurrent(r) /\ current = v
    /\ walk = "dir" => at = Direct(v, r)
    /\ link = "cursor-agent" => found["agent"] = Found(v, r)

(* While none is active, everything read leads nowhere or out of the root.  *)
NoneActive ==
  /\ walk # "dir"
  /\ link = "cursor-agent" =>
       \/ found["agent"] = Outside
       \/ found["agent"] = Missing /\ ~ForeignShape

WalkInv ==
  walk \in Reading =>
    /\ \A v \in Versions : seen = {v} => OneVersion(v)
    /\ seen = {NoVersion} => NoneActive

ReaderInv ==
  ReaderTypeOK /\ HeldWasActive /\ WalkInv /\ StatusTellsActive
-----------------------------------------------------------------------------
(* What one step of the installation does to the links: it writes at most   *)
(* one of the two, never a foreign one, and takes current away only in the  *)
(* rollback of a first installation.                                        *)
LinkWrites ==
  /\ \A n \in BinNames : bin'[n] # Foreign \/ bin'[n] = bin[n]
  /\ \E n \in BinNames : bin'[n] = bin[n]
  /\ current' = NoVersion => current = NoVersion \/ pc = "undoCurrent"

LEMMA StepWrites ==
  ASSUME ContentInv, [Next]_vars
  PROVE  LinkWrites
<1>0. /\ bin \in [BinNames -> Link] /\ prior \in InstallState
      /\ pc = "swap" => info \in Versions
      /\ pc = "linkPrior" => prior.kind = "installed"
  BY DEF ContentInv, TypeOK, Announced, Pipeline
<1>1. ASSUME links' = links PROVE LinkWrites
  BY <1>1 DEF LinkWrites, links, BinNames
<1> USE <1>0, <1>1, RecordFacts, StateFacts, NoVersionAssumption
<1> USE DEF dirs, links
<1>2. CASE \E c \in Callers : Request(c) \/ Lock(c)
  BY <1>2 DEF Request, Lock
<1>3. CASE Reconfigure
  BY <1>3 DEF Reconfigure
<1>4. CASE Fetch
  BY <1>4 DEF Fetch
<1>5. CASE Parse
  BY <1>5 DEF Parse
<1>6. CASE CheckStatus
  BY <1>6 DEF CheckStatus
<1>7. CASE Download
  BY <1>7 DEF Download
<1>8. CASE Extract
  BY <1>8 DEF Extract
<1>9. CASE Verify
  BY <1>9 DEF Verify
<1>10. CASE Inspect
  BY <1>10 DEF Inspect
<1>11. CASE ClearNew
  BY <1>11 DEF ClearNew
<1>12. CASE Stage
  BY <1>12 DEF Stage
<1>13. CASE ClearOld
  BY <1>13 DEF ClearOld
<1>14. CASE Backup
  BY <1>14 DEF Backup
<1>15. CASE Place
  BY <1>15 DEF Place
<1>16. CASE DropStaged
  BY <1>16 DEF DropStaged
<1>17. CASE Validate
  BY <1>17 DEF Validate
<1>18. CASE LinkPrior
  BY <1>18 DEF LinkPrior, ReplaceCurrentLink, LinkWrites, BinNames
<1>19. CASE LinkAgent
  BY <1>19 DEF LinkAgent, EnsureStableBinLink, LinkWrites, BinNames
<1>20. CASE LinkCursorAgent
  BY <1>20 DEF LinkCursorAgent, EnsureStableBinLink, LinkWrites, BinNames
<1>21. CASE Swap
  BY <1>21 DEF Swap, ReplaceCurrentLink, LinkWrites, BinNames
<1>22. CASE Clean
  BY <1>22 DEF Clean
<1>23. CASE UndoDir
  BY <1>23 DEF UndoDir
<1>24. CASE UndoBackup
  BY <1>24 DEF UndoBackup
<1>25. CASE UndoAgent
  BY <1>25 DEF UndoAgent, UndoLink, LinkWrites, BinNames
<1>26. CASE UndoCursorAgent
  BY <1>26 DEF UndoCursorAgent, UndoLink, LinkWrites, BinNames
<1>27. CASE UndoCurrent
  BY <1>27 DEF UndoCurrent, LinkWrites, BinNames
<1>28. CASE ReturnOk
  BY <1>28 DEF ReturnOk
<1>29. CASE ReturnError
  BY <1>29 DEF ReturnError
<1>30. CASE Crash
  BY <1>30 DEF Crash
<1>31. CASE UNCHANGED vars
  BY <1>31 DEF vars
<1> QED
  BY <1>2, <1>3, <1>4, <1>5, <1>6, <1>7, <1>8, <1>9, <1>10, <1>11, <1>12, <1>13,
     <1>14, <1>15, <1>16, <1>17, <1>18, <1>19, <1>20, <1>21, <1>22, <1>23, <1>24, <1>25,
     <1>26, <1>27, <1>28, <1>29, <1>30, <1>31 DEF Next, Attempt

(* As long as a version stays active, so do its path and, once current      *)
(* names it, current; and links that are not foreign do not become so.      *)
LEMMA ActiveKept ==
  ASSUME Undisturbed, Inv, [Next]_vars
  PROVE  /\ ForeignShape' => ForeignShape
         /\ \A v \in Versions, r \in Layouts :
              InstalledShape(v, r) /\ Active' = v =>
                /\ InstalledShape(v, r)'
                /\ current = v => current' = v
<1>1. LinkWrites
  BY StepWrites DEF Inv
<1>2. Shape'
  BY LinkNext DEF Inv, LinkInv
<1>3. (ForeignShape => Active = NoVersion)' /\ (EmptyShape => Active = NoVersion)'
  BY ForeignInspect, EmptyInspect, PTL
<1>4. (\A v \in Versions, r \in Layouts :
         InstalledShape(v, r) => InspectManagedInstall = Installed(v, r) /\ Active = v)'
  BY InstalledInspect, PTL
<1>5. ForeignShape' => ForeignShape
  BY <1>1 DEF LinkWrites, ForeignShape
<1>6. ASSUME NEW v \in Versions, NEW r \in Layouts, InstalledShape(v, r), Active' = v
      PROVE  InstalledShape(v, r)' /\ (current = v => current' = v)
  <2>1. PICK w \in Versions, q \in Layouts : InstalledShape(w, q)'
    BY <1>2, <1>3, <1>6, NoVersionAssumption DEF Shape
  <2>2. w = v
    BY <1>4, <1>6, <2>1
  <2>3. (\A n \in BinNames : bin[n].rel = q)' /\ \A n \in BinNames : bin[n].rel = r
    BY <1>6, <2>1, RecordFacts DEF InstalledShape
  <2>4. q = r
    BY <1>1, <2>3 DEF LinkWrites
  <2>5. pc # "undoCurrent"
    BY <1>6, InstalledInspect, EmptyInspect, NoVersionAssumption
    DEF Inv, LinkInv, PriorKnown, Mutating, Undoing
  <2>6. current = v => current' = v
    BY <1>1, <2>1, <2>2, <2>5, NoVersionAssumption DEF LinkWrites, InstalledShape
  <2> QED
    BY <2>1, <2>2, <2>4, <2>6
<1> QED
  BY <1>5, <1>6

-----------------------------------------------------------------------------
(* A result that may be recorded for a link.                                *)
GoodResult(x) ==
  /\ x \in Outcome
  /\ x.kind = "found" => x.ver \in seen
  /\ \A v \in Versions : seen = {v} =>
       \E r \in Layouts : InstalledShape(v, r) /\ x = Found(v, r)
  /\ seen = {NoVersion} => x = Outside \/ (x = Missing /\ ~ForeignShape)

(* The files, and with them the shape of the links, as the reader finds     *)
(* them.                                                                    *)
LEMMA FilesStill ==
  ASSUME UNCHANGED vars
  PROVE  /\ Active' = Active
         /\ ForeignShape' = ForeignShape
         /\ \A v \in Versions, r \in Layouts :
              InstalledShape(v, r) => InstalledShape(v, r)'
         /\ current' = current
BY DEF vars, Active, InspectManagedInstall, EvalSymlinks, FollowTo, ForeignShape,
       InstalledShape

LEMMA ResolvedKeeps ==
  ASSUME NEW x, ReaderInv, walk \in Reading, GoodResult(x), Resolved(x),
         UNCHANGED <<vars, seen>>
  PROVE  ReaderInv'
<1> USE FilesStill, RecordFacts
<1>1. /\ found' = [found EXCEPT ![link] = x] /\ seen' = seen /\ at' = NoLink
      /\ found \in [BinNames -> Outcome] /\ link \in BinNames
  BY DEF Resolved, ReaderInv, ReaderTypeOK
<1>2. CASE link = "agent"
  <2>1. walk' = "link" /\ link' = "cursor-agent" /\ found'["agent"] = x
    BY <1>1, <1>2 DEF Resolved
  <2>2. ReaderTypeOK'
    BY <1>1, <2>1 DEF ReaderInv, ReaderTypeOK, Reading, BinNames, GoodResult
  <2>3. HeldWasActive'
    BY <1>1, <2>1 DEF ReaderInv, HeldWasActive, GoodResult
  <2>4. WalkInv'
    BY <1>1, <2>1 DEF WalkInv, OneVersion, NoneActive, GoodResult
  <2>5. StatusTellsActive'
    BY <2>1 DEF StatusTellsActive
  <2> QED
    BY <2>2, <2>3, <2>4, <2>5 DEF ReaderInv
<1>3. CASE link = "cursor-agent"
  <2>1. /\ walk' = "done" /\ link' = link
        /\ answer' = Combine(found["agent"], x)
        /\ found'["agent"] = found["agent"] /\ found'["cursor-agent"] = x
    BY <1>1, <1>3 DEF Resolved, BinNames
  <2>2. ReaderTypeOK'
    BY <1>1, <2>1 DEF ReaderInv, ReaderTypeOK, GoodResult
  <2>3. HeldWasActive' /\ WalkInv'
    BY <2>1 DEF HeldWasActive, WalkInv, Reading
  <2>4. answer'.kind = "installed" => answer'.ver \in seen
    BY <1>3, <2>1 DEF Combine, ReaderInv, HeldWasActive
  <2>5. ASSUME Cardinality(seen) = 1, seen # {NoVersion}
        PROVE  answer'.kind = "installed"
    <3>1. PICK v \in Versions : seen = {v}
      BY <2>5, FS_Singleton DEF ReaderInv, ReaderTypeOK
    <3>2. PICK r \in Layouts : InstalledShape(v, r) /\ found["agent"] = Found(v, r)
      BY <1>3, <3>1 DEF ReaderInv, WalkInv, OneVersion
    <3>3. PICK q \in Layouts : InstalledShape(v, q) /\ x = Found(v, q)
      BY <3>1 DEF GoodResult
    <3>4. q = r
      BY <3>2, <3>3 DEF InstalledShape, HasBinary
    <3> QED
      BY <2>1, <3>2, <3>3, <3>4 DEF Combine
  <2>6. ASSUME seen = {NoVersion}
        PROVE  \/ answer' = NotInstalled
               \/ \E n \in BinNames : found'[n] = Outside
    <3>1. found["agent"] = Outside \/ found["agent"] = Missing
      BY <1>3, <2>6 DEF ReaderInv, WalkInv, NoneActive
    <3>2. x = Outside \/ x = Missing
      BY <2>6 DEF GoodResult
    <3> QED
      BY <2>1, <3>1, <3>2 DEF Combine, BinNames
  <2>7. StatusTellsActive'
    BY <1>1, <2>4, <2>5, <2>6 DEF StatusTellsActive
  <2> QED
    BY <2>2, <2>3, <2>7 DEF ReaderInv
<1> QED
  BY <1>1, <1>2, <1>3 DEF BinNames

-----------------------------------------------------------------------------

(* What is active tells the shape.                                          *)
LEMMA ShapeTells ==
  ASSUME Inv
  PROVE  /\ Active \in Versions \cup {NoVersion}
         /\ Active \in Versions => \E r \in Layouts : InstalledShape(Active, r)
         /\ Active \notin Versions => ForeignShape \/ EmptyShape
         /\ \A v \in Versions, r \in Layouts : InstalledShape(v, r) => Active = v
         /\ ForeignShape \/ EmptyShape => Active = NoVersion
BY ForeignInspect, EmptyInspect, InstalledInspect, NoVersionAssumption
DEF Inv, LinkInv, Shape

LEMMA BeginKeeps ==
  ASSUME Inv, ReaderInv, StatusBegin
  PROVE  ReaderInv'
<1>1. /\ walk' = "link" /\ link' = "agent" /\ seen' = {Active}
      /\ found' = [n \in BinNames |-> Missing]
  BY DEF StatusBegin
<1>2. UNCHANGED vars
  BY DEF StatusBegin
<1>3. ReaderTypeOK'
  BY <1>1, ShapeTells, FS_Singleton
  DEF ReaderTypeOK, Reading, BinNames, Outcome
<1>4. HeldWasActive'
  BY <1>1, <1>2, FilesStill DEF HeldWasActive
<1>5. ASSUME NEW v \in Versions, seen' = {v} PROVE OneVersion(v)'
  <2>1. PICK r \in Layouts : InstalledShape(v, r)
    BY <1>1, <1>5, ShapeTells
  <2> QED
    BY <1>1, <1>2, <2>1, FilesStill DEF OneVersion
<1>6. WalkInv' /\ StatusTellsActive'
  BY <1>1, <1>5 DEF WalkInv, NoneActive, StatusTellsActive
<1> QED
  BY <1>3, <1>4, <1>6 DEF ReaderInv

LEMMA ReadLinkKeeps ==
  ASSUME Inv, ReaderInv, ReadLink
  PROVE  ReaderInv'
<1> USE RecordFacts
<1>1. walk = "link" /\ link \in BinNames /\ Active \in seen
  BY DEF ReadLink, ReaderInv, ReaderTypeOK, HeldWasActive, Reading
<1>2. UNCHANGED <<vars, seen>>
  BY DEF ReadLink
<1>3. \A v \in Versions : seen = {v} => \E r \in Layouts : InstalledShape(v, r)
  BY <1>1 DEF ReaderInv, WalkInv, OneVersion, Reading
<1>4. ASSUME NEW x \in {Missing, Outside}, bin[link].kind \in {"none", "foreign"},
             x = Missing <=> bin[link].kind = "none", Resolved(x)
      PROVE  ReaderInv'
  <2>1. \A v \in Versions, r \in Layouts : ~InstalledShape(v, r)
    BY <1>1, <1>4 DEF InstalledShape
  <2>2. x = Missing => ~ForeignShape
    BY <1>1, <1>4 DEF ForeignShape
  <2>3. GoodResult(x)
    BY <1>3, <1>4, <2>1, <2>2 DEF GoodResult, Outcome
  <2> QED
    BY <1>1, <1>2, <1>4, <2>3, ResolvedKeeps DEF Reading
<1>5. ASSUME bin[link].kind \in {"direct", "current"}, at' = bin[link],
             walk' = IF bin[link].kind = "direct" THEN "dir" ELSE "current",
             UNCHANGED <<link, found, answer>>
      PROVE  ReaderInv'
  <2>1. ReaderTypeOK' /\ StatusTellsActive'
    BY <1>2, <1>5 DEF ReaderInv, ReaderTypeOK, Reading, StatusTellsActive
  <2>2. ~ForeignShape
    BY <1>1, <1>5 DEF ForeignShape
  <2>3. ASSUME bin[link].kind = "direct"
        PROVE  /\ Active \in Versions /\ bin[link].ver = Active
    <3>1. ~EmptyShape
      BY <1>1, <2>3 DEF EmptyShape
    <3>2. PICK v \in Versions, r \in Layouts : InstalledShape(v, r)
      BY <2>2, <3>1 DEF Inv, LinkInv, Shape
    <3> QED
      BY <1>1, <2>3, <3>2, ShapeTells DEF InstalledShape
  <2>4. HeldWasActive'
    BY <1>1, <1>2, <1>5, <2>2, <2>3, FilesStill DEF ReaderInv, HeldWasActive, Reading
  <2>5. ASSUME NEW v \in Versions, seen = {v} PROVE OneVersion(v)'
    <3>1. PICK r \in Layouts : /\ InstalledShape(v, r)
                               /\ link = "cursor-agent" => found["agent"] = Found(v, r)
      BY <1>1, <2>5 DEF ReaderInv, WalkInv, OneVersion, Reading
    <3>2. /\ bin[link].kind = "direct" => bin[link] = Direct(v, r)
          /\ bin[link].kind = "current" => bin[link] = ViaCurrent(r) /\ current = v
      BY <1>1, <3>1 DEF InstalledShape
    <3> QED
      BY <1>2, <1>5, <3>1, <3>2, FilesStill DEF OneVersion
  <2>6. ASSUME seen = {NoVersion} PROVE NoneActive'
    BY <1>1, <1>2, <1>5, <2>2, <2>3, <2>6, FilesStill, NoVersionAssumption
    DEF NoneActive, ReaderInv, WalkInv, Reading
  <2>7. WalkInv'
    BY <1>2, <2>5, <2>6 DEF WalkInv
  <2> QED
    BY <2>1, <2>4, <2>7 DEF ReaderInv
<1> QED
  BY <1>4, <1>5 DEF ReadLink

LEMMA ReadCurrentKeeps ==
  ASSUME Inv, ReaderInv, ReadCurrent
  PROVE  ReaderInv'
<1> USE RecordFacts
<1>1. walk = "current" /\ Active \in seen /\ ~ForeignShape
  BY DEF ReadCurrent, ReaderInv, HeldWasActive, Reading
<1>2. UNCHANGED <<vars, seen>>
  BY DEF ReadCurrent
<1>3. \A v \in Versions : seen = {v} => OneVersion(v)
  BY <1>1 DEF ReaderInv, WalkInv, Reading
<1>4. CASE current = NoVersion /\ Resolved(Missing)
  <2>1. GoodResult(Missing)
    BY <1>1, <1>3, <1>4, NoVersionAssumption DEF GoodResult, OneVersion, Outcome
  <2> QED
    BY <1>1, <1>2, <1>4, <2>1, ResolvedKeeps DEF Reading
<1>5. ASSUME current # NoVersion, at' = Direct(current, at.rel), walk' = "dir",
             UNCHANGED <<link, found, answer>>
      PROVE  ReaderInv'
  <2>1. Active = current /\ Active \in Versions
    BY <1>1, <1>5, ShapeTells DEF Inv, LinkInv, Shape, EmptyShape, InstalledShape
  <2>2. ReaderTypeOK' /\ StatusTellsActive'
    BY <1>2, <1>5 DEF ReaderInv, ReaderTypeOK, Reading, StatusTellsActive
  <2>3. HeldWasActive'
    BY <1>1, <1>2, <1>5, <2>1, FilesStill DEF ReaderInv, HeldWasActive, Reading
  <2>4. ASSUME NEW v \in Versions, seen = {v} PROVE OneVersion(v)'
    BY <1>1, <1>2, <1>3, <1>5, <2>4, FilesStill DEF OneVersion
  <2>5. WalkInv'
    BY <1>1, <1>2, <2>1, <2>4, NoVersionAssumption DEF WalkInv
  <2> QED
    BY <2>2, <2>3, <2>5 DEF ReaderInv
<1> QED
  BY <1>4, <1>5 DEF ReadCurrent

LEMMA ReadDirKeeps ==
  ASSUME Inv, ReaderInv, ReadDir
  PROVE  ReaderInv'
<1> USE RecordFacts
<1> DEFINE x == FollowTo(at.ver, at.rel)
<1>1. walk = "dir" /\ at.ver \in seen /\ Resolved(x) /\ UNCHANGED <<vars, seen>>
  BY DEF ReadDir, ReaderInv, HeldWasActive, Reading
<1>2. x \in Outcome /\ (x.kind = "found" => x.ver \in seen)
  <2>1. CASE x = Missing
    BY <2>1 DEF Outcome
  <2>2. CASE /\ at.ver \in Versions /\ HasBinary(live[at.ver], at.rel)
             /\ x = Found(at.ver, at.rel)
    <3>1. at.rel \in Layouts
      BY <2>2, DirFacts DEF HasBinary, Inv, ContentInv, TypeOK
    <3> QED
      BY <1>1, <2>2, <3>1 DEF Outcome, Found
  <2> QED
    BY <2>1, <2>2 DEF FollowTo
<1>3. ASSUME NEW v \in Versions, seen = {v}
      PROVE  \E r \in Layouts : InstalledShape(v, r) /\ x = Found(v, r)
  <2>1. PICK r \in Layouts : InstalledShape(v, r) /\ at = Direct(v, r)
    BY <1>1, <1>3 DEF ReaderInv, WalkInv, OneVersion, Reading
  <2> QED
    BY <2>1 DEF InstalledShape, FollowTo
<1>4. seen # {NoVersion}
  BY <1>1 DEF ReaderInv, WalkInv, NoneActive, Reading
<1>5. GoodResult(x)
  BY <1>2, <1>3, <1>4 DEF GoodResult
<1> QED
  BY <1>1, <1>5, ResolvedKeeps DEF Reading

LEMMA WatchedKeeps ==
  ASSUME Undisturbed, Inv, ReaderInv, Watched
  PROVE  ReaderInv'
<1>1. UNCHANGED <<walk, link, at, found, answer>>
  BY DEF Watched
<1>2. Inv'
  BY ContentNext, LinkNext DEF Watched, Inv
<1>3. (Active \in Versions \cup {NoVersion})'
  BY <1>2, ShapeTells, PTL
<1>4. CASE walk \in {"idle", "done"}
  <2>1. seen' = seen
    BY <1>4 DEF Watched
  <2> QED
    BY <1>1, <1>4, <2>1
    DEF ReaderInv, ReaderTypeOK, HeldWasActive, WalkInv, Reading, StatusTellsActive
<1>5. CASE walk \in Reading
  <2>1. seen' = seen \cup {Active'} /\ Active \in seen
    BY <1>5 DEF Watched, Reading, ReaderInv, HeldWasActive
  <2>2. ReaderTypeOK'
    BY <1>1, <1>3, <2>1, FS_AddElement DEF ReaderInv, ReaderTypeOK
  <2>3. StatusTellsActive'
    BY <1>1, <1>5 DEF StatusTellsActive, Reading
  <2>4. ForeignShape' => ForeignShape
    BY ActiveKept DEF Watched
  <2>5. HeldWasActive'
    BY <1>1, <1>5, <2>1, <2>4 DEF ReaderInv, HeldWasActive
  <2>6. ASSUME NEW v \in Versions, seen' = {v} PROVE OneVersion(v)'
    <3>1. seen = {v} /\ Active' = v
      BY <2>1, <2>6
    <3>2. PICK r \in Layouts :
            /\ InstalledShape(v, r)
            /\ walk = "current" => at = ViaCurrent(r) /\ current = v
            /\ walk = "dir" => at = Direct(v, r)
            /\ link = "cursor-agent" => found["agent"] = Found(v, r)
      BY <1>5, <3>1 DEF ReaderInv, WalkInv, OneVersion
    <3>3. InstalledShape(v, r)' /\ (current = v => current' = v)
      BY <3>1, <3>2, ActiveKept DEF Watched
    <3> QED
      BY <1>1, <3>2, <3>3 DEF OneVersion
  <2>7. ASSUME seen' = {NoVersion} PROVE NoneActive'
    <3>1. seen = {NoVersion}
      BY <2>1, <2>7
    <3> QED
      BY <1>1, <1>5, <2>4, <3>1 DEF ReaderInv, WalkInv, NoneActive
  <2> QED
    BY <2>2, <2>3, <2>5, <2>6, <2>7 DEF ReaderInv, WalkInv
<1> QED
  BY <1>4, <1>5 DEF ReaderInv, ReaderTypeOK

-----------------------------------------------------------------------------
(* As long as re-reads do not fail and the root is not reconfigured, a      *)
(* reader that takes no lock tells a version that was active during its     *)
(* call, the active version if there was one throughout, and nothing        *)
(* installed if there was none: it never reports the links as incomplete    *)
(* or mixed, whatever rename of the attempt beside it fails, whatever it    *)
(* rolls back, and wherever the process dies.                               *)
THEOREM StatusAlwaysTellsActive ==
  ASSUME Undisturbed PROVE ObserverSpec => []StatusTellsActive
<1>1. ObserverInit => Inv /\ ReaderInv
  <2> SUFFICES ASSUME ObserverInit PROVE Inv /\ ReaderInv
    OBVIOUS
  <2>1. Inv
    BY ContentInit, LinkInit DEF ObserverInit, Inv
  <2>2. ReaderInv
    BY FS_EmptySet
    DEF ObserverInit, ReaderInv, ReaderTypeOK, HeldWasActive, WalkInv, Reading,
        StatusTellsActive, BinNames, Outcome
  <2> QED
    BY <2>1, <2>2
<1>2. Inv /\ ReaderInv /\ [ObserverNext]_observerVars => Inv' /\ ReaderInv'
  <2> SUFFICES ASSUME Inv, ReaderInv, [ObserverNext]_observerVars
               PROVE  Inv' /\ ReaderInv'
    OBVIOUS
  <2>1. [Next]_vars
    BY DEF ObserverNext, StatusBegin, ReadLink, ReadCurrent, ReadDir, Watched, observerVars
  <2>2. Inv'
    BY <2>1, ContentNext, LinkNext DEF Inv
  <2>3. CASE UNCHANGED observerVars
    <3>1. UNCHANGED vars /\ UNCHANGED <<walk, link, at, found, answer, seen>>
      BY <2>3 DEF observerVars, readerVars
    <3> QED
      BY <2>2, <3>1, FilesStill
      DEF ReaderInv, ReaderTypeOK, HeldWasActive, WalkInv, OneVersion, NoneActive,
          StatusTellsActive
  <2> QED
    BY <2>2, <2>3, BeginKeeps, ReadLinkKeeps, ReadCurrentKeeps, ReadDirKeeps, WatchedKeeps
    DEF ObserverNext
<1>3. ReaderInv => StatusTellsActive
  BY DEF ReaderInv
<1> QED
  BY <1>1, <1>2, <1>3, PTL DEF ObserverSpec
=============================================================================
