--------------------------- MODULE InstallObserver ---------------------------
(***************************************************************************)
(* InstallStatus takes no lock: a GET of the status route, or the status   *)
(* the setup page polls, reads the links while an attempt changes them.    *)
(* inspectManagedInstall resolves one link, then the other, and resolving  *)
(* a link is three reads: the link, the current link if it goes through    *)
(* it, and the version directory.                                          *)
(***************************************************************************)
EXTENDS ManagedInstall, FiniteSets

VARIABLES
  walk,    \* where the reader is: "idle", "link", "current", "dir", "done"
  link,    \* the bin link being resolved
  at,      \* what the walk has read of it so far
  found,   \* the results of the links resolved
  answer,  \* what InstallStatus returns
  seen     \* history: the versions active at some moment of the call

readerVars == <<walk, link, at, found, answer, seen>>
observerVars == <<vars, readerVars>>

ObserverInit ==
  /\ Init
  /\ walk = "idle"
  /\ link = "agent"
  /\ at = NoLink
  /\ found = [n \in BinNames |-> Missing]
  /\ answer = NotInstalled
  /\ seen = {}

StatusBegin ==
  /\ walk \in {"idle", "done"}
  /\ walk' = "link"
  /\ link' = "agent"
  /\ at' = NoLink
  /\ found' = [n \in BinNames |-> Missing]
  /\ answer' = NotInstalled
  /\ seen' = {Active}
  /\ UNCHANGED vars

(* One link is resolved; after the second the answer is put together.       *)
Resolved(result) ==
  /\ found' = [found EXCEPT ![link] = result]
  /\ at' = NoLink
  /\ IF link = "agent"
     THEN /\ link' = "cursor-agent"
          /\ walk' = "link"
          /\ UNCHANGED answer
     ELSE /\ answer' = Combine(found["agent"], result)
          /\ walk' = "done"
          /\ UNCHANGED link

ReadLink ==
  /\ walk = "link"
  /\ \/ /\ bin[link].kind = "none"
        /\ Resolved(Missing)
     \/ /\ bin[link].kind = "foreign"
        /\ Resolved(Outside)
     \/ /\ bin[link].kind \in {"direct", "current"}
        /\ at' = bin[link]
        /\ walk' = IF bin[link].kind = "direct" THEN "dir" ELSE "current"
        /\ UNCHANGED <<link, found, answer>>
  /\ UNCHANGED <<vars, seen>>

ReadCurrent ==
  /\ walk = "current"
  /\ \/ /\ current = NoVersion
        /\ Resolved(Missing)
     \/ /\ current # NoVersion
        /\ at' = Direct(current, at.rel)
        /\ walk' = "dir"
        /\ UNCHANGED <<link, found, answer>>
  /\ UNCHANGED <<vars, seen>>

ReadDir ==
  /\ walk = "dir"
  /\ Resolved(FollowTo(at.ver, at.rel))
  /\ UNCHANGED <<vars, seen>>

(* A step of the installation, watched.                                     *)
Watched ==
  /\ Next
  /\ seen' = IF walk \in {"idle", "done"} THEN seen ELSE seen \cup {Active'}
  /\ UNCHANGED <<walk, link, at, found, answer>>

ObserverNext ==
  StatusBegin \/ ReadLink \/ ReadCurrent \/ ReadDir \/ Watched

ObserverSpec == ObserverInit /\ [][ObserverNext]_observerVars

-----------------------------------------------------------------------------
(* A version InstallStatus reports was active at some moment of the call,   *)
(* and when the active version did not change meanwhile the answer is that  *)
(* version: an attempt that is preparing, failing or rolling back beside    *)
(* the reader is not seen as incomplete or mixed links.                     *)
StatusTellsActive ==
  walk = "done" =>
    /\ answer.kind = "installed" => answer.ver \in seen
    /\ Cardinality(seen) = 1 /\ seen # {NoVersion} =>
         answer.kind = "installed"
    /\ seen = {NoVersion} =>
         \/ answer = NotInstalled
         \/ \E n \in BinNames : found[n] = Outside
=============================================================================
