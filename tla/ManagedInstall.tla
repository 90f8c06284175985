--------------------------- MODULE ManagedInstall ---------------------------
(***************************************************************************)
(* The managed installation of the Cursor Agent CLI: what                  *)
(* Service.InstallOfficialCursorAgent (installer.go) and its helpers       *)
(* (installer_transactional.go) do to the files under the managed root.    *)
(*                                                                         *)
(* Every step that changes the file system is an action of its own, so     *)
(* that an I/O error, a crash of the process or a lock-free reader can     *)
(* fall between any two of them.  The file system is the only state that   *)
(* survives a crash.  The local variables of the method are single         *)
(* variables here because the method runs under installMu.                 *)
(***************************************************************************)
EXTENDS Naturals

CONSTANTS
  Versions,      \* version names the official installer may announce
  Layouts,       \* archive-relative paths of the agent binary in a package
  Callers,       \* concurrent management requests
  NoVersion,     \* "no version": an absent link, an unset local
  NoCaller,      \* installMu is free
  Disturbances   \* which of AllDisturbances may happen

AllDisturbances ==
  { "rename",      \* os.Rename (or the symlink it moves) fails
    "remove",      \* os.RemoveAll stops half-way; its error is ignored
    "check",       \* a re-read after a change (EvalSymlinks) fails
    "reconfigure"  \* Configure changes managed_install_root meanwhile
  }

ASSUME DisturbancesAssumption == Disturbances \subseteq AllDisturbances
ASSUME NoVersionAssumption == NoVersion \notin Versions
ASSUME NoCallerAssumption == NoCaller \notin Callers

VARIABLES
  live,      \* versions/<v>        : directory state, per version
  staged,    \* versions/<v>.new    : directory state, per version
  backup,    \* versions/<v>.old    : directory state, per version
  tmp,       \* .cursor-agent-install-* of the newest attempt
  current,   \* the version the share/cursor-agent/current link names
  bin,       \* the two links in .local/bin
  req,       \* the state of each management request
  installMu, \* the caller that holds Service.installMu
  pc,        \* where the holder is in InstallOfficialCursorAgent
  info,      \* local: installerInfo.Version
  prior,     \* local: what inspectManagedInstall found
  existed,   \* local: versionDirExisted
  rootMoved, \* Config() no longer names the root this attempt works on
  littered   \* history: a crash or an ignored error may have left files

dirs   == <<live, staged, backup, tmp>>
links  == <<current, bin>>
calls  == <<req, installMu>>
locals == <<info, prior, existed>>
vars   == <<live, staged, backup, tmp, current, bin, req, installMu, pc,
            info, prior, existed, rootMoved, littered>>

-----------------------------------------------------------------------------
(* Directories: a version directory is absent, present without its binary   *)
(* (being created, or partly removed), or a whole package.  A package is    *)
(* known by the version its binary prints and by where the binary lies.     *)

Absent == [kind |-> "absent"]
Broken == [kind |-> "broken"]
Package(v, r) == [kind |-> "full", ver |-> v, rel |-> r]
Packages == [kind : {"full"}, ver : Versions, rel : Layouts]
Dir == Packages \cup {Absent, Broken}

HasBinary(d, r) == d.kind = "full" /\ d.rel = r

(* Links in .local/bin: absent, through current (the layout this code       *)
(* writes), direct to a version (the older layout), or out of the root.     *)

BinNames == {"agent", "cursor-agent"}
NoLink == [kind |-> "none"]
Foreign == [kind |-> "foreign"]
ViaCurrent(r) == [kind |-> "current", rel |-> r]
Direct(v, r) == [kind |-> "direct", ver |-> v, rel |-> r]
Link == [kind : {"current"}, rel : Layouts]
          \cup [kind : {"direct"}, ver : Versions, rel : Layouts]
          \cup {NoLink, Foreign}

(* What filepath.EvalSymlinks finds at the end of a link.                   *)

Missing == [kind |-> "missing"]
Outside == [kind |-> "outside"]
Found(v, r) == [kind |-> "found", ver |-> v, rel |-> r]

FollowTo(v, r) ==
  IF v \in Versions /\ HasBinary(live[v], r) THEN Found(v, r) ELSE Missing

EvalSymlinks(l) ==
  IF l.kind = "none" THEN Missing
  ELSE IF l.kind = "foreign" THEN Outside
  ELSE IF l.kind = "direct" THEN FollowTo(l.ver, l.rel)
  ELSE FollowTo(current, l.rel)

(* inspectManagedInstall: not installed when both links are missing, an     *)
(* error when they are incomplete, mixed or leave the versions directory.   *)

NotInstalled == [kind |-> "none"]
Installed(v, r) == [kind |-> "installed", ver |-> v, rel |-> r]
InspectError == [kind |-> "error"]
InstallState == [kind : {"installed"}, ver : Versions, rel : Layouts]
                  \cup {NotInstalled, InspectError}

Combine(a, c) ==
  IF a.kind = "missing" /\ c.kind = "missing" THEN NotInstalled
  ELSE IF a.kind = "found" /\ c = a THEN Installed(a.ver, a.rel)
  ELSE InspectError

InspectManagedInstall ==
  Combine(EvalSymlinks(bin["agent"]), EvalSymlinks(bin["cursor-agent"]))

(* The version both links run, if any.                                      *)
Active == IF InspectManagedInstall.kind = "installed"
          THEN InspectManagedInstall.ver ELSE NoVersion

-----------------------------------------------------------------------------
(* Initial states: an empty root, the older layout with direct links, and   *)
(* links somebody else owns.                                                *)

EmptyRoot ==
  /\ live = [v \in Versions |-> Absent]
  /\ bin = [n \in BinNames |-> NoLink]

DirectLayout ==
  \E v \in Versions, r \in Layouts :
    /\ live = [w \in Versions |-> IF w = v THEN Package(v, r) ELSE Absent]
    /\ bin = [n \in BinNames |-> Direct(v, r)]

ForeignLinks ==
  /\ live = [v \in Versions |-> Absent]
  /\ bin = [n \in BinNames |-> Foreign]

Init ==
  /\ EmptyRoot \/ DirectLayout \/ ForeignLinks
  /\ staged = [v \in Versions |-> Absent]
  /\ backup = [v \in Versions |-> Absent]
  /\ tmp = Absent
  /\ current = NoVersion
  /\ req = [c \in Callers |-> "idle"]
  /\ installMu = NoCaller
  /\ pc = "idle"
  /\ info = NoVersion
  /\ prior = NotInstalled
  /\ existed = FALSE
  /\ rootMoved = FALSE
  /\ littered = FALSE

-----------------------------------------------------------------------------
(* Requests.                                                                *)

(* HandleManagement: without {"confirm": true} nothing is attempted.        *)
Request(c) ==
  /\ req[c] \notin {"waiting", "running"}
  /\ \E confirm \in BOOLEAN :
       req' = [req EXCEPT ![c] = IF confirm THEN "waiting" ELSE "rejected"]
  /\ UNCHANGED <<dirs, links, installMu, pc, locals, rootMoved, littered>>

(* installMu.Lock(), then the configuration is read once.  From here on tmp *)
(* stands for this attempt's directory (os.MkdirTemp picks a fresh name); a *)
(* leftover of an earlier one is remembered by littered only.               *)
Lock(c) ==
  /\ installMu = NoCaller
  /\ req[c] = "waiting"
  /\ installMu' = c
  /\ req' = [req EXCEPT ![c] = "running"]
  /\ pc' = "fetch"
  /\ info' = NoVersion
  /\ prior' = NotInstalled
  /\ existed' = FALSE
  /\ rootMoved' = FALSE
  /\ tmp' = Absent
  /\ UNCHANGED <<live, staged, backup, links, littered>>

(* A Configure with another managed_install_root, during an attempt.        *)
Reconfigure ==
  /\ "reconfigure" \in Disturbances
  /\ pc # "idle"
  /\ ~rootMoved
  /\ rootMoved' = TRUE
  /\ UNCHANGED <<dirs, links, calls, pc, locals, littered>>

-----------------------------------------------------------------------------
(* The attempt, up to the first change of the versions directory.           *)

(* fetchBounded: the official installer script arrives, or it does not (a   *)
(* status that is not 2xx, a script over the limit, no network).            *)
Fetch ==
  /\ pc = "fetch"
  /\ pc' \in {"parse", "fail"}
  /\ UNCHANGED <<dirs, links, calls, locals, rootMoved, littered>>

(* parseOfficialInstaller: the script names one version, or is refused.     *)
ParseAcceptingNoVersion ==
  /\ pc = "parse"
  /\ \/ /\ info' \in Versions \cup {NoVersion}
        /\ pc' = "status"
     \/ /\ pc' = "fail"
        /\ UNCHANGED info
  /\ UNCHANGED <<dirs, links, calls, prior, existed, rootMoved, littered>>

Parse ==
  /\ pc = "parse"
  /\ \/ /\ info' \in Versions
        /\ pc' = "status"
     \/ /\ pc' = "fail"
        /\ UNCHANGED info
  /\ UNCHANGED <<dirs, links, calls, prior, existed, rootMoved, littered>>

(* InstallStatus reads the configuration again: after a Reconfigure its     *)
(* answer is about another root, and may be anything.                       *)
InstallStatusAnswers ==
  IF rootMoved
  THEN {NotInstalled} \cup {Installed(info, r) : r \in Layouts}
  ELSE {InspectManagedInstall}

CheckStatusIgnoringVersion ==
  /\ pc = "status"
  /\ \E st \in InstallStatusAnswers :
       pc' = IF st.kind = "installed" THEN "ok" ELSE "download"
  /\ UNCHANGED <<dirs, links, calls, locals, rootMoved, littered>>

CheckStatus ==
  /\ pc = "status"
  /\ \E st \in InstallStatusAnswers :
       pc' = IF st.kind = "installed" /\ st.ver = info
             THEN "ok" ELSE "download"
  /\ UNCHANGED <<dirs, links, calls, locals, rootMoved, littered>>

(* Fetch the package and create the temporary directory.                    *)
Download ==
  /\ pc = "download"
  /\ \/ /\ tmp' = Broken
        /\ pc' = "extract"
     \/ /\ pc' = "fail"
        /\ UNCHANGED tmp
  /\ UNCHANGED <<live, staged, backup, links, calls, locals, rootMoved,
                 littered>>

(* safeExtractTarGz: a package, of whatever version, is extracted, or the   *)
(* archive is refused with some of it extracted.                            *)
Extract ==
  /\ pc = "extract"
  /\ \/ /\ tmp' \in Packages
        /\ pc' = "verify"
     \/ /\ tmp' \in Packages \cup {Broken}
        /\ pc' = "fail"
  /\ UNCHANGED <<live, staged, backup, links, calls, locals, rootMoved,
                 littered>>

(* verifyAgentVersion runs the binary, whose output must contain the        *)
(* version announced.  (A package's ver is the version its output names; an *)
(* output that contains two names is not modelled.)                         *)
VerifyThatItRuns ==
  /\ pc = "verify"
  /\ pc' \in {"inspect", "fail"}
  /\ UNCHANGED <<dirs, links, calls, locals, rootMoved, littered>>

Verify ==
  /\ pc = "verify"
  /\ \/ tmp.ver = info /\ pc' = "inspect"
     \/ pc' = "fail"
  /\ UNCHANGED <<dirs, links, calls, locals, rootMoved, littered>>

(* inspectManagedInstall, and the refusal to change the binary's path.      *)
Inspect ==
  /\ pc = "inspect"
  /\ \/ /\ InspectManagedInstall # InspectError
        /\ InspectManagedInstall.kind = "installed"
             => InspectManagedInstall.rel = tmp.rel
        /\ prior' = InspectManagedInstall
        /\ pc' = "clearNew"
     \/ /\ pc' = "fail"
        /\ UNCHANGED prior
  /\ UNCHANGED <<dirs, links, calls, info, existed, rootMoved, littered>>

-----------------------------------------------------------------------------
(* os.RemoveAll on a directory in state d that ends in state d1: it removes *)
(* piece by piece, and its error is ignored by every caller.                *)
RemoveAll(d, d1, next) ==
  \/ /\ d.kind = "full"
     /\ d1 = Broken
     /\ pc' = pc
     /\ UNCHANGED littered
  \/ /\ d1 = Absent
     /\ pc' = next
     /\ UNCHANGED littered
  \/ /\ "remove" \in Disturbances
     /\ d # Absent
     /\ d1 = d
     /\ pc' = next
     /\ littered' = TRUE

(* os.Rename of a directory: onto a whole package it fails, onto remains it *)
(* may work or not.                                                         *)
RenameWorks(dst) == dst.kind # "full"
RenameFails(dst) == dst # Absent \/ "rename" \in Disturbances

ClearNew ==
  /\ pc = "clearNew"
  /\ \E d1 \in {Absent, Broken, staged[info]} :
       /\ RemoveAll(staged[info], d1, "stage")
       /\ staged' = [staged EXCEPT ![info] = d1]
  /\ UNCHANGED <<live, backup, tmp, links, calls, locals, rootMoved>>

Stage ==
  /\ pc = "stage"
  /\ \/ /\ RenameWorks(staged[info])
        /\ staged' = [staged EXCEPT ![info] = tmp]
        /\ tmp' = Absent
        /\ pc' = "clearOld"
     \/ /\ RenameFails(staged[info])
        /\ pc' = "fail"
        /\ UNCHANGED <<staged, tmp>>
  /\ UNCHANGED <<live, backup, links, calls, locals, rootMoved, littered>>

ClearOld ==
  /\ pc = "clearOld"
  /\ \E d1 \in {Absent, Broken, backup[info]} :
       /\ RemoveAll(backup[info], d1, "backup")
       /\ backup' = [backup EXCEPT ![info] = d1]
  /\ UNCHANGED <<live, staged, tmp, links, calls, locals, rootMoved>>

(* os.Stat(versionDir), whose every error reads as "not there", and the     *)
(* rename of what is there to <v>.old.  The deferred rollback is not        *)
(* registered yet.                                                          *)
Backup ==
  /\ pc = "backup"
  /\ \/ /\ live[info] = Absent \/ "check" \in Disturbances
        /\ existed' = FALSE
        /\ pc' = "place"
        /\ UNCHANGED <<live, backup>>
     \/ /\ live[info] # Absent
        /\ existed' = TRUE
        /\ \/ /\ RenameWorks(backup[info])
              /\ backup' = [backup EXCEPT ![info] = live[info]]
              /\ live' = [live EXCEPT ![info] = Absent]
              /\ pc' = "place"
           \/ /\ RenameFails(backup[info])
              /\ pc' = "dropThenFail"
              /\ UNCHANGED <<live, backup>>
  /\ UNCHANGED <<staged, tmp, links, calls, info, prior, rootMoved, littered>>

Place ==
  /\ pc = "place"
  /\ \/ /\ RenameWorks(live[info])
        /\ live' = [live EXCEPT ![info] = staged[info]]
        /\ staged' = [staged EXCEPT ![info] = Absent]
        /\ pc' = "validate"
     \/ /\ RenameFails(live[info])
        /\ pc' = "dropThenUndo"
        /\ UNCHANGED <<live, staged>>
  /\ UNCHANGED <<backup, tmp, links, calls, locals, rootMoved, littered>>

(* The os.RemoveAll(staged) of the two error returns above.                 *)
DropStagedForgotten ==
  /\ \/ pc = "dropThenFail" /\ pc' = "fail"
     \/ pc = "dropThenUndo" /\ pc' = "undoDir"
  /\ UNCHANGED <<dirs, links, calls, locals, rootMoved, littered>>

DropStaged ==
  /\ pc \in {"dropThenFail", "dropThenUndo"}
  /\ \E d1 \in {Absent, Broken, staged[info]} :
       /\ RemoveAll(staged[info], d1,
                    IF pc = "dropThenFail" THEN "fail" ELSE "undoDir")
       /\ staged' = [staged EXCEPT ![info] = d1]
  /\ UNCHANGED <<live, backup, tmp, links, calls, locals, rootMoved>>

-----------------------------------------------------------------------------
(* Activation.                                                              *)

Validate ==
  /\ pc = "validate"
  /\ \/ pc' = IF prior.kind = "installed" THEN "linkPrior" ELSE "linkAgent"
     \/ "check" \in Disturbances /\ pc' = "undoDir"
  /\ UNCHANGED <<dirs, links, calls, locals, rootMoved, littered>>

(* replaceCurrentLink: nothing to do when current already resolves to v;    *)
(* otherwise a new symlink is renamed over it and then resolved again.      *)
ReplaceCurrentLink(v, next) ==
  \/ /\ current = v /\ live[v] # Absent
     /\ pc' = next
     /\ UNCHANGED current
  \/ /\ ~(current = v /\ live[v] # Absent)
     /\ \/ /\ "rename" \in Disturbances
           /\ pc' = "undoDir"
           /\ UNCHANGED current
        \/ /\ live[v] # Absent
           /\ current' = v
           /\ pc' = next
        \/ /\ "check" \in Disturbances \/ live[v] = Absent
           /\ current' = v
           /\ pc' = "undoDir"

(* Before the links may go through current, current names what they run.    *)
LinkPriorSkipped ==
  /\ pc = "linkPrior"
  /\ pc' = "linkAgent"
  /\ UNCHANGED <<dirs, links, calls, locals, rootMoved, littered>>

LinkPrior ==
  /\ pc = "linkPrior"
  /\ ReplaceCurrentLink(prior.ver, "linkAgent")
  /\ UNCHANGED <<dirs, bin, calls, locals, rootMoved, littered>>

(* ensureStableBinLinks, one link after the other.                          *)
EnsureStableBinLink(at, name, next) ==
  /\ pc = at
  /\ \/ /\ bin' = [bin EXCEPT ![name] = ViaCurrent(live[info].rel)]
        /\ pc' = next
     \/ /\ "rename" \in Disturbances
        /\ pc' = "undoDir"
        /\ UNCHANGED bin
  /\ UNCHANGED <<dirs, current, calls, locals, rootMoved, littered>>

LinkAgent == EnsureStableBinLink("linkAgent", "agent", "linkCursorAgent")
LinkCursorAgent ==
  EnsureStableBinLink("linkCursorAgent", "cursor-agent", "swap")

(* The commit point.                                                        *)
Swap ==
  /\ pc = "swap"
  /\ ReplaceCurrentLink(info, "clean")
  /\ UNCHANGED <<dirs, bin, calls, locals, rootMoved, littered>>

(* The deferred os.RemoveAll(backup) once activated.                        *)
Clean ==
  /\ pc = "clean"
  /\ \E d1 \in {Absent, Broken, backup[info]} :
       /\ RemoveAll(backup[info], d1, "ok")
       /\ backup' = [backup EXCEPT ![info] = d1]
  /\ UNCHANGED <<live, staged, tmp, links, calls, locals, rootMoved>>

-----------------------------------------------------------------------------
(* The deferred rollback of an attempt that was not activated.              *)

AfterUndo == IF prior.kind = "installed" THEN "fail" ELSE "undoAgent"

UndoDir ==
  /\ pc = "undoDir"
  /\ \E d1 \in {Absent, Broken, live[info]} :
       /\ RemoveAll(live[info], d1, IF existed THEN "undoBackup" ELSE AfterUndo)
       /\ live' = [live EXCEPT ![info] = d1]
  /\ UNCHANGED <<staged, backup, tmp, links, calls, locals, rootMoved>>

(* The rollback that forgets to ask whether an older version is installed.  *)
UndoBackupAlwaysUnlinks ==
  /\ pc = "undoBackup"
  /\ live' = [live EXCEPT ![info] = backup[info]]
  /\ backup' = [backup EXCEPT ![info] = Absent]
  /\ pc' = "undoAgent"
  /\ UNCHANGED <<staged, tmp, links, calls, locals, rootMoved, littered>>

UndoBackup ==
  /\ pc = "undoBackup"
  /\ \/ /\ RenameWorks(live[info])
        /\ live' = [live EXCEPT ![info] = backup[info]]
        /\ backup' = [backup EXCEPT ![info] = Absent]
        /\ UNCHANGED littered
     \/ /\ RenameFails(live[info])
        /\ littered' = TRUE
        /\ UNCHANGED <<live, backup>>
  /\ pc' = AfterUndo
  /\ UNCHANGED <<staged, tmp, links, calls, locals, rootMoved>>

(* cleanupInitialInstallLinks: only links that go through current are       *)
(* removed, and each os.Remove may fail unnoticed.                          *)
UndoLink(at, name, next) ==
  /\ pc = at
  /\ pc' = next
  /\ \/ /\ bin' = IF bin[name].kind = "current"
                  THEN [bin EXCEPT ![name] = NoLink] ELSE bin
        /\ UNCHANGED littered
     \/ /\ "remove" \in Disturbances
        /\ littered' = TRUE
        /\ UNCHANGED bin
  /\ UNCHANGED <<dirs, current, calls, locals, rootMoved>>

UndoAgent == UndoLink("undoAgent", "agent", "undoCursorAgent")
UndoCursorAgent == UndoLink("undoCursorAgent", "cursor-agent", "undoCurrent")

UndoCurrent ==
  /\ pc = "undoCurrent"
  /\ pc' = "fail"
  /\ \/ /\ current' = NoVersion
        /\ UNCHANGED littered
     \/ /\ "remove" \in Disturbances
        /\ littered' = TRUE
        /\ UNCHANGED current
  /\ UNCHANGED <<dirs, bin, calls, locals, rootMoved>>

-----------------------------------------------------------------------------
(* Returning: the deferred os.RemoveAll(tmp), then installMu.Unlock().      *)

ReturnKeepingLock(answer) ==
  /\ req' = [req EXCEPT ![installMu] = answer]
  /\ pc' = "idle"
  /\ info' = NoVersion
  /\ prior' = NotInstalled
  /\ existed' = FALSE
  /\ rootMoved' = FALSE
  /\ UNCHANGED installMu

Return(answer) ==
  /\ req' = [req EXCEPT ![installMu] = answer]
  /\ installMu' = NoCaller
  /\ pc' = "idle"
  /\ info' = NoVersion
  /\ prior' = NotInstalled
  /\ existed' = FALSE
  /\ rootMoved' = FALSE

ReturnOk ==
  /\ pc = "ok"
  /\ Return("ok")
  /\ UNCHANGED <<dirs, links, littered>>

ReturnError ==
  /\ pc = "fail"
  /\ Return("failed")
  /\ \/ /\ tmp' = Absent
        /\ UNCHANGED littered
     \/ /\ "remove" \in Disturbances
        /\ tmp' \in {tmp, Broken}
        /\ tmp # Absent
        /\ littered' = TRUE
  /\ UNCHANGED <<live, staged, backup, links>>

-----------------------------------------------------------------------------
(* The process dies and is started again: only the files are left.          *)
Crash ==
  /\ req' = [c \in Callers |-> "idle"]
  /\ installMu' = NoCaller
  /\ pc' = "idle"
  /\ info' = NoVersion
  /\ prior' = NotInstalled
  /\ existed' = FALSE
  /\ rootMoved' = FALSE
  /\ littered' = TRUE
  /\ UNCHANGED <<dirs, links>>

(* The steps of the caller that holds installMu.                            *)
Attempt ==
  \/ Fetch \/ Parse \/ CheckStatus \/ Download \/ Extract \/ Verify \/ Inspect
  \/ ClearNew \/ Stage \/ ClearOld \/ Backup \/ Place \/ DropStaged
  \/ Validate \/ LinkPrior \/ LinkAgent \/ LinkCursorAgent \/ Swap \/ Clean
  \/ UndoDir \/ UndoBackup \/ UndoAgent \/ UndoCursorAgent \/ UndoCurrent
  \/ ReturnOk \/ ReturnError

Next ==
  \/ \E c \in Callers : Request(c) \/ Lock(c)
  \/ Reconfigure
  \/ Attempt
  \/ Crash

Spec == Init /\ [][Next]_vars

(* The HTTP client, the version probe and every system call return, so the  *)
(* holder of the mutex keeps going; sync.Mutex does not starve a waiter.    *)
Fairness ==
  /\ WF_vars(Attempt)
  /\ \A c \in Callers : SF_vars(Lock(c))

FairSpec == Spec /\ Fairness

-----------------------------------------------------------------------------
(* Properties.                                                              *)

Announced == {"status", "download", "extract", "verify", "inspect", "clearNew",
              "stage", "clearOld", "backup", "place", "dropThenFail", "dropThenUndo",
              "validate", "linkPrior", "linkAgent", "linkCursorAgent", "swap",
              "clean", "undoDir", "undoBackup", "undoAgent",
              "undoCursorAgent", "undoCurrent", "ok"}
Phases == Announced \cup {"idle", "fetch", "parse", "fail"}

(* Type correctness of the files, the locals and the requests; past the     *)
(* parse of the installer script an attempt always has a version to name    *)
(* its directories with.                                                    *)
TypeOK ==
  /\ live \in [Versions -> Dir]
  /\ staged \in [Versions -> Dir]
  /\ backup \in [Versions -> Dir]
  /\ tmp \in Dir
  /\ current \in Versions \cup {NoVersion}
  /\ bin \in [BinNames -> Link]
  /\ req \in [Callers -> {"idle", "rejected", "waiting", "running", "ok",
                          "failed"}]
  /\ installMu \in Callers \cup {NoCaller}
  /\ pc \in Phases
  /\ info \in Versions \cup {NoVersion}
  /\ prior \in InstallState
  /\ existed \in BOOLEAN
  /\ rootMoved \in BOOLEAN
  /\ littered \in BOOLEAN
  /\ pc \in Announced => info \in Versions
  /\ pc # "idle" => installMu \in Callers

(* Whatever is found under versions/<v> prints v: no directory is ever      *)
(* placed, restored or left by a crash that verifyAgentVersion has not      *)
(* seen (installer.go:249 before :299).                                     *)
PlacedIsVerified ==
  \A v \in Versions : live[v].kind = "full" => live[v].ver = v

(* At every instant, crashes and half-done attempts included, the two bin   *)
(* links run the same version or neither runs anything, so the next         *)
(* attempt is never refused for "incomplete" or "mixed" links               *)
(* (installer_transactional.go:57, :72).                                    *)
LinksAgree ==
  \/ \E n \in BinNames : bin[n].kind = "foreign"
  \/ InspectManagedInstall # InspectError

(* Once an agent is installed, no step of an attempt, of its rollback, or   *)
(* of a crash takes it away: a request that runs .local/bin/agent meanwhile *)
(* finds a whole binary.                                                    *)
AgentNeverDisappears ==
  [][Active # NoVersion => Active' # NoVersion]_vars

(* An upgrade that fails gives back the version it found, whichever of its  *)
(* steps failed (the rollback at installer.go:282-298).                     *)
FailedUpgradePreservesInstall ==
  pc = "fail" /\ prior.kind = "installed" => Active = prior.ver

(* When no attempt runs and nothing went wrong that the code ignores, the   *)
(* root holds no temporary, .new or .old directory, however many renames    *)
(* failed and were rolled back.                                             *)
NoLitter ==
  pc = "idle" /\ ~littered =>
    /\ tmp = Absent
    /\ \A v \in Versions : staged[v] = Absent /\ backup[v] = Absent

(* A confirmed request is answered, or lost with the process: no path       *)
(* leaves installMu locked.                                                 *)
RequestsAnswered ==
  \A c \in Callers : req[c] = "waiting" ~> req[c] \in {"ok", "failed", "idle"}

(* The file operations implement AtomicInstall: the version both links run  *)
(* changes in one step, Swap, to the announced version; success means it is *)
(* active, and neither a failed attempt, nor its rollback, nor a crash      *)
(* changes it (installer.go:306-318 with the rollback at :282-298).         *)
Atomic == INSTANCE AtomicInstall WITH
            active <- Active,
            holder <- installMu,
            target <- info,
            committed <- pc \in {"clean", "ok"}

ImplementsAtomicInstall == Atomic!Spec
=============================================================================
