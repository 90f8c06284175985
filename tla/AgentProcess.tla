---------------------------- MODULE AgentProcess ----------------------------
(***************************************************************************)
(* One agent run: from cmd.Start to the return of runAgent                 *)
(* (cursor_cli.go:116-154).  Four parties act on the agent's process: the  *)
(* select of runAgent, the goroutine that calls cmd.Wait, the goroutines   *)
(* of os/exec that kill the leader when the context ends and copy the      *)
(* output into a limitedBuffer (external), and the processes themselves,   *)
(* which may fork descendants that inherit the output pipes and may leave  *)
(* the process group (external).  Of stdout only the number of bytes       *)
(* matters; stderr only ends up in messages.                               *)
(***************************************************************************)
EXTENDS Integers

CONSTANTS
  Descendants,  \* processes the agent may fork
  Limits,       \* values of max_stdout_bytes that ParseConfig accepts
  MaxPrinted    \* bound: units of output the processes write

ASSUME LimitsAssumption == Limits \subseteq Nat \ {0}
ASSUME OutputAssumption == MaxPrinted \in Nat

VARIABLES
  leader,  \* the started process: "alive", "zombie" (dead, unreaped), "reaped"
  child,   \* each descendant: "none", "alive", "dead"
  inGroup, \* the descendants that stayed in the leader's process group
  onPipe,  \* the descendants that kept stdout or stderr open
  ctx,     \* runCtx: "live" or "done"
  wait,    \* cmd.Wait: "running", or "done" once its result is in the channel
  failed,  \* cmd.Wait will return, or has returned, an error
  printed, \* history: what the processes have written to stdout
  inPipe,  \* what of it nobody has copied yet
  stdout,  \* the limitedBuffer: [limit, len, truncated]
  runner,  \* runAgent: "none", "select", "kill", "grace", then how it returned
  result   \* what it returned: "ok" or the code of its error

output == <<printed, inPipe, stdout>>
processes == <<leader, child, inGroup, onPipe, failed>>
process == <<processes, output, ctx, wait, runner, result>>

Returned == {"exited", "timedOut", "abandoned"}

EmptyBuffer(limit) == [limit |-> limit, len |-> 0, truncated |-> FALSE]

Init ==
  /\ leader = "none"
  /\ child = [d \in Descendants |-> "none"]
  /\ inGroup = {}
  /\ onPipe = {}
  /\ failed = FALSE
  /\ ctx = "done"
  /\ wait = "done"
  /\ printed = 0
  /\ inPipe = 0
  /\ stdout = EmptyBuffer(0)
  /\ runner = "none"
  /\ result = "none"

(* A run that has returned is forgotten, with what it may have left behind. *)
Forgotten ==
  /\ leader' = "none"
  /\ child' = [d \in Descendants |-> "none"]
  /\ inGroup' = {}
  /\ onPipe' = {}
  /\ failed' = FALSE
  /\ ctx' = "done"
  /\ wait' = "done"
  /\ printed' = 0
  /\ inPipe' = 0
  /\ stdout' = EmptyBuffer(0)
  /\ runner' = "none"
  /\ result' = "none"

(* cmd.Start, the goroutine that waits, and the new buffers; limit is       *)
(* max_stdout_bytes.                                                        *)
Start(limit) ==
  /\ leader' = "alive"
  /\ child' = [d \in Descendants |-> "none"]
  /\ inGroup' = {}
  /\ onPipe' = {}
  /\ failed' = FALSE
  /\ ctx' = "live"
  /\ wait' = "running"
  /\ printed' = 0
  /\ inPipe' = 0
  /\ stdout' = EmptyBuffer(limit)
  /\ runner' = "select"
  /\ result' = "none"

-----------------------------------------------------------------------------
(* The processes.                                                           *)

Fork(d) ==
  /\ leader = "alive"
  /\ child[d] = "none"
  /\ child' = [child EXCEPT ![d] = "alive"]
  /\ \E stays \in BOOLEAN : inGroup' = IF stays THEN inGroup \cup {d} ELSE inGroup
  /\ \E keeps \in BOOLEAN : onPipe' = IF keeps THEN onPipe \cup {d} ELSE onPipe
  /\ UNCHANGED <<leader, failed, output, ctx, wait, runner, result>>

Writers == {d \in onPipe : child[d] = "alive"}

(* One unit of output, by anyone who has stdout open.                       *)
WriteStdout ==
  /\ leader = "alive" \/ Writers # {}
  /\ printed < MaxPrinted
  /\ printed' = printed + 1
  /\ inPipe' = inPipe + 1
  /\ UNCHANGED <<processes, stdout, ctx, wait, runner, result>>

LeaderExit ==
  /\ leader = "alive"
  /\ leader' = "zombie"
  /\ failed' \in BOOLEAN
  /\ UNCHANGED <<child, inGroup, onPipe, output, ctx, wait, runner, result>>

ChildExit(d) ==
  /\ child[d] = "alive"
  /\ child' = [child EXCEPT ![d] = "dead"]
  /\ UNCHANGED <<leader, inGroup, onPipe, failed, output, ctx, wait, runner,
                 result>>

-----------------------------------------------------------------------------
(* os/exec.                                                                 *)

(* exec.CommandContext: when the context ends before the leader is reaped   *)
(* it is killed, and cmd.Wait will return an error even if it had exited.   *)
WatchCtx ==
  /\ ctx = "done"
  /\ leader \in {"alive", "zombie"}
  /\ leader' = "zombie"
  /\ failed' = TRUE
  /\ UNCHANGED <<child, inGroup, onPipe, output, ctx, wait, runner, result>>

(* limitedBuffer.Write of n units: whatever does not fit is dropped, and    *)
(* the writer is told that everything was written.                          *)
LimitedWriteOffByOne(b, n) ==
  LET remain == b.limit - b.len IN
  IF b.limit <= 0 THEN b
  ELSE IF n >= remain THEN [b EXCEPT !.len = b.limit, !.truncated = TRUE]
  ELSE [b EXCEPT !.len = @ + n]

LimitedWrite(b, n) ==
  LET remain == b.limit - b.len IN
  IF b.limit <= 0 THEN b
  ELSE IF n > remain THEN [b EXCEPT !.len = b.limit, !.truncated = TRUE]
  ELSE [b EXCEPT !.len = @ + n]

(* The goroutine that copies stdout.                                        *)
Copy ==
  /\ \E n \in 1 .. inPipe :
       /\ inPipe' = inPipe - n
       /\ stdout' = LimitedWrite(stdout, n)
  /\ UNCHANGED <<processes, printed, ctx, wait, runner, result>>

(* cmd.Wait: first the leader is reaped ...                                 *)
Reap ==
  /\ leader = "zombie"
  /\ leader' = "reaped"
  /\ UNCHANGED <<child, inGroup, onPipe, failed, output, ctx, wait, runner,
                 result>>

PipesClosed == inPipe = 0 /\ \A d \in onPipe : child[d] = "dead"

(* ... then the copying of the output ends, when the last writer is gone.   *)
WaitReturns ==
  /\ wait = "running"
  /\ leader = "reaped"
  /\ PipesClosed
  /\ wait' = "done"
  /\ UNCHANGED <<processes, output, ctx, runner, result>>

-----------------------------------------------------------------------------
(* runAgent.                                                                *)

TimeoutExpires ==
  /\ ctx = "live"
  /\ runner = "select"
  /\ ctx' = "done"
  /\ UNCHANGED <<processes, output, wait, runner, result>>

(* An output that was cut is an error whatever the exit status.             *)
SelectDone ==
  /\ runner = "select"
  /\ wait = "done"
  /\ runner' = "exited"
  /\ result' = IF stdout.truncated THEN "cursor_stdout_limit"
               ELSE IF failed THEN "cursor_agent_error" ELSE "ok"
  /\ ctx' = "done"           \* the deferred cancel()
  /\ UNCHANGED <<processes, output, wait>>

SelectTimeout ==
  /\ runner = "select"
  /\ ctx = "done"
  /\ runner' = "kill"
  /\ UNCHANGED <<processes, output, ctx, wait, result>>

(* killProcessGroup: syscall.Getpgid knows the leader until it is reaped.   *)
(* Without a group, cmd.Process.Kill finds the process already waited for.  *)
KillNothing ==
  /\ runner = "kill"
  /\ runner' = "grace"
  /\ UNCHANGED <<processes, output, ctx, wait, result>>

KillProcessGroup ==
  /\ runner = "kill"
  /\ runner' = "grace"
  /\ \/ /\ leader # "reaped"
        /\ leader' = "zombie"
        /\ failed' = (failed \/ leader = "alive")
        /\ child' = [d \in Descendants |->
                       IF d \in inGroup THEN "dead" ELSE child[d]]
     \/ /\ leader = "reaped"
        /\ UNCHANGED <<leader, failed, child>>
  /\ UNCHANGED <<inGroup, onPipe, output, ctx, wait, result>>

TimesOut(how) ==
  /\ runner = "grace"
  /\ runner' = how
  /\ result' = "cursor_timeout"
  /\ UNCHANGED <<processes, output, ctx, wait>>

GraceDoneEarly == TimesOut("timedOut")

GraceDone == wait = "done" /\ TimesOut("timedOut")

(* The two seconds after the kill, with cmd.Wait still running.             *)
GraceOverOnlyWhenDone == wait = "done" /\ TimesOut("abandoned")

GraceOver == TimesOut("abandoned")

RunAgent ==
  SelectDone \/ SelectTimeout \/ KillProcessGroup \/ GraceDone \/ GraceOver

ProcessStep ==
  \/ \E d \in Descendants : Fork(d) \/ ChildExit(d)
  \/ WriteStdout \/ LeaderExit \/ WatchCtx \/ Copy \/ Reap \/ WaitReturns
  \/ TimeoutExpires \/ RunAgent

(* One run after the other; what comes before and after is the caller's.    *)
ProcessNext ==
  \/ runner = "none" /\ \E limit \in Limits : Start(limit)
  \/ runner # "none" /\ ProcessStep
  \/ runner \in Returned /\ Forgotten

ProcessSpec == Init /\ [][ProcessNext]_process

-----------------------------------------------------------------------------
(* Properties.                                                              *)

(* When runAgent has returned the agent is dead, on every path, so neither  *)
(* the slot nor the workspace is given away under a running agent: the kill *)
(* comes before the grace period, whoever of runAgent and os/exec is first  *)
(* (cursor_cli.go:127-138).                                                 *)
AgentDeadOnReturn == runner \in Returned => leader # "alive"

(* The output of a call that is not abandoned is read after its last writer *)
(* is gone: the unsynchronised buffers are quiet (cursor_cli.go:137, :139). *)
OutputQuietOnReturn ==
  runner \in {"exited", "timedOut"} =>
    leader = "reaped" /\ inPipe = 0 /\ \A d \in onPipe : child[d] = "dead"

(* A call that ends by itself gives back all that the agent printed, or an  *)
(* error: output is never cut without saying so, a limit that is reached    *)
(* exactly is no error, and neither how the copying splits the output nor   *)
(* descendants that print after the agent's exit change that                *)
(* (cursor_cli.go:34-50, :139-153).                                         *)
OutputWholeOrRefused ==
  runner = "exited" =>
    IF printed > stdout.limit
    THEN result = "cursor_stdout_limit"
    ELSE stdout.len = printed /\ (result = "ok" <=> ~failed)
=============================================================================
