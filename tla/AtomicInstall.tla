---------------------------- MODULE AtomicInstall ----------------------------
(***************************************************************************)
(* What the management API promises about an installation, without any     *)
(* file: one version, or none, is active; an attempt changes it at most    *)
(* once, in one step, and only to the version the official installer       *)
(* announced; an attempt that reports success leaves that version active,  *)
(* and one that reports failure has changed nothing.                       *)
(***************************************************************************)
CONSTANTS Versions, Callers, NoVersion, NoCaller

VARIABLES
  active,    \* the version that runs when an agent is started, or NoVersion
  req,       \* the state of each management request
  holder,    \* the caller whose attempt runs
  target,    \* the version announced to that attempt
  committed  \* whether the attempt has taken effect

vars == <<active, req, holder, target, committed>>

Init ==
  /\ active \in Versions \cup {NoVersion}
  /\ req = [c \in Callers |-> "idle"]
  /\ holder = NoCaller
  /\ target = NoVersion
  /\ committed = FALSE

Ask(c) ==
  /\ req[c] \notin {"waiting", "running"}
  /\ \E r \in {"waiting", "rejected"} : req' = [req EXCEPT ![c] = r]
  /\ UNCHANGED <<active, holder, target, committed>>

Begin(c) ==
  /\ holder = NoCaller
  /\ req[c] = "waiting"
  /\ req' = [req EXCEPT ![c] = "running"]
  /\ holder' = c
  /\ UNCHANGED <<active, target, committed>>

Announce ==
  /\ holder # NoCaller
  /\ target = NoVersion
  /\ target' \in Versions
  /\ UNCHANGED <<active, req, holder, committed>>

(* The only step that changes the active version.  Installing the version   *)
(* that is active already changes nothing.                                  *)
Commit ==
  /\ target \in Versions
  /\ ~committed
  /\ active' = target
  /\ committed' = TRUE
  /\ UNCHANGED <<req, holder, target>>

End(answer) ==
  /\ holder # NoCaller
  /\ req' = [req EXCEPT ![holder] = answer]
  /\ holder' = NoCaller
  /\ target' = NoVersion
  /\ committed' = FALSE
  /\ UNCHANGED active

Succeed == committed /\ active = target /\ End("ok")
Fail == ~committed /\ End("failed")

(* The process dies: the attempt has taken effect or not, nothing between.  *)
Crash ==
  /\ req' = [c \in Callers |-> "idle"]
  /\ holder' = NoCaller
  /\ target' = NoVersion
  /\ committed' = FALSE
  /\ UNCHANGED active

Next ==
  \/ \E c \in Callers : Ask(c) \/ Begin(c)
  \/ Announce \/ Commit \/ Succeed \/ Fail \/ Crash

Spec == Init /\ [][Next]_vars
=============================================================================
