------------------------------ MODULE AgentPool ------------------------------
(***************************************************************************)
(* How Service.runAgent (cursor_cli.go) and runAgentLoginStreaming         *)
(* (auth.go) share the slots of Service.sem, while Configure (service.go)  *)
(* may replace that channel.                                               *)
(*                                                                         *)
(* Every Configure makes a new channel: generation g is the g-th of them.  *)
(* Acquiring a slot is a send on the channel s.sem names when the select   *)
(* starts; giving it back is a receive from the channel s.sem names when   *)
(* the deferred function runs.  A blocked send or receive stays on the     *)
(* channel it started with.                                                *)
(***************************************************************************)
EXTENDS Naturals, FiniteSets

CONSTANTS
  Runs,        \* goroutines that call runAgent or runAgentLoginStreaming
  LoginRuns,   \* those of them that run "agent login"
  Cancellable, \* those of them whose context the caller may cancel (none of
               \* the plugin's: dispatch passes context.Background())
  Capacities,  \* the values max_concurrent may be given
  MaxGen       \* bound: the number of channels ever made

ASSUME RunsAssumption ==
  IsFiniteSet(Runs) /\ LoginRuns \subseteq Runs /\ Cancellable \subseteq Runs
ASSUME CapacitiesAssumption == Capacities \subseteq Nat \ {0}
ASSUME MaxGenAssumption == MaxGen \in Nat \ {0}

Gens == 1 .. MaxGen

VARIABLES
  gen,       \* the generation of the channel in Service.sem
  capacity,  \* the capacity of each channel
  tokens,    \* the number of elements in each channel
  enabled,   \* Config().Enabled
  pc,        \* where each run is
  chan,      \* the channel a run sent to, or waits on
  workspace, \* whether the run's invocation-* directory exists
  proc       \* the agent process: "none", "alive", "killed", "gone"

config == <<gen, capacity, enabled>>
vars == <<gen, capacity, tokens, enabled, pc, chan, workspace, proc>>

Init ==
  /\ gen = 1
  /\ capacity \in [Gens -> Capacities]
  /\ tokens = [g \in Gens |-> 0]
  /\ enabled = TRUE
  /\ pc = [r \in Runs |-> "idle"]
  /\ chan = [r \in Runs |-> 1]
  /\ workspace = [r \in Runs |-> FALSE]
  /\ proc = [r \in Runs |-> "none"]

-----------------------------------------------------------------------------
(* Configure: the new configuration and a new, empty channel.  (Capacities  *)
(* of future generations are chosen in Init.)                               *)
Configure ==
  /\ gen < MaxGen
  /\ gen' = gen + 1
  /\ enabled' \in BOOLEAN
  /\ UNCHANGED <<capacity, tokens, pc, chan, workspace, proc>>

(* The call reads the configuration; disabled, it returns at once.          *)
Call(r) ==
  /\ pc[r] = "idle"
  /\ pc' = [pc EXCEPT ![r] = IF enabled THEN "called" ELSE "idle"]
  /\ proc' = [proc EXCEPT ![r] = "none"]
  /\ UNCHANGED <<config, tokens, chan, workspace>>

(* invocationWorkspace; the select then evaluates s.sem.                    *)
Enter(r) ==
  /\ pc[r] = "called"
  /\ \/ /\ workspace' = [workspace EXCEPT ![r] = TRUE]
        /\ pc' = [pc EXCEPT ![r] = "sending"]
        /\ chan' = [chan EXCEPT ![r] = gen]
     \/ /\ pc' = [pc EXCEPT ![r] = "idle"]
        /\ UNCHANGED <<workspace, chan>>
  /\ UNCHANGED <<config, tokens, proc>>

SendUnbounded(r) ==
  /\ pc[r] = "sending"
  /\ tokens[chan[r]] <= capacity[chan[r]]
  /\ tokens' = [tokens EXCEPT ![chan[r]] = @ + 1]
  /\ pc' = [pc EXCEPT ![r] = "starting"]
  /\ UNCHANGED <<config, chan, workspace, proc>>

Send(r) ==
  /\ pc[r] = "sending"
  /\ tokens[chan[r]] < capacity[chan[r]]
  /\ tokens' = [tokens EXCEPT ![chan[r]] = @ + 1]
  /\ pc' = [pc EXCEPT ![r] = "starting"]
  /\ UNCHANGED <<config, chan, workspace, proc>>

(* ctx.Done() while waiting: no slot was taken, only the workspace goes.    *)
CancelWhileSending(r) ==
  /\ r \in Cancellable
  /\ pc[r] = "sending"
  /\ pc' = [pc EXCEPT ![r] = "cleaning"]
  /\ UNCHANGED <<config, tokens, chan, workspace, proc>>

(* The deferred functions run in reverse order: first the slot is given     *)
(* back, to whatever s.sem is by now, then the workspace is removed.        *)
BeginRelease(r) ==
  /\ pc' = [pc EXCEPT ![r] = "receiving"]
  /\ chan' = [chan EXCEPT ![r] = gen]

(* resolveAgentExecutable, the pipes and cmd.Start: started, or an error.   *)
StartLeakingSlot(r) ==
  /\ pc[r] = "starting"
  /\ \/ /\ proc' = [proc EXCEPT ![r] = "alive"]
        /\ pc' = [pc EXCEPT ![r] = "running"]
        /\ UNCHANGED chan
     \/ /\ pc' = [pc EXCEPT ![r] = "cleaning"]
        /\ UNCHANGED <<proc, chan>>
  /\ UNCHANGED <<config, tokens, workspace>>

Start(r) ==
  /\ pc[r] = "starting"
  /\ \/ /\ proc' = [proc EXCEPT ![r] = "alive"]
        /\ pc' = [pc EXCEPT ![r] = "running"]
        /\ UNCHANGED chan
     \/ /\ BeginRelease(r)
        /\ UNCHANGED proc
  /\ UNCHANGED <<config, tokens, workspace>>

(* The process exits, is reaped and its pipes are closed: cmd.Wait returns. *)
Exit(r) ==
  /\ proc[r] \in {"alive", "killed"}
  /\ proc' = [proc EXCEPT ![r] = "gone"]
  /\ UNCHANGED <<config, tokens, pc, chan, workspace>>

(* waitErr = <-done, and the results.                                       *)
Finish(r) ==
  /\ pc[r] = "running"
  /\ proc[r] = "gone"
  /\ BeginRelease(r)
  /\ UNCHANGED <<config, tokens, workspace, proc>>

(* <-runCtx.Done(): the process group is killed.  The select may take this  *)
(* case although the process is gone.                                       *)
TimeoutWithoutKill(r) ==
  /\ pc[r] = "running"
  /\ pc' = [pc EXCEPT ![r] = "killing"]
  /\ UNCHANGED <<config, tokens, chan, workspace, proc>>

Timeout(r) ==
  /\ pc[r] = "running"
  /\ pc' = [pc EXCEPT ![r] = "killing"]
  /\ proc' = [proc EXCEPT ![r] = IF @ = "alive" THEN "killed" ELSE @]
  /\ UNCHANGED <<config, tokens, chan, workspace>>

(* <-done after the kill.                                                   *)
Killed(r) ==
  /\ pc[r] = "killing"
  /\ proc[r] = "gone"
  /\ BeginRelease(r)
  /\ UNCHANGED <<config, tokens, workspace, proc>>

(* The two seconds are over and cmd.Wait still waits, for a pipe that a     *)
(* descendant holds open.  A login has no such limit.                       *)
GraceOver(r) ==
  /\ r \notin LoginRuns
  /\ pc[r] = "killing"
  /\ BeginRelease(r)
  /\ UNCHANGED <<config, tokens, workspace, proc>>

(* <-s.sem.                                                                 *)
Receive(r) ==
  /\ pc[r] = "receiving"
  /\ tokens[chan[r]] > 0
  /\ tokens' = [tokens EXCEPT ![chan[r]] = @ - 1]
  /\ pc' = [pc EXCEPT ![r] = "cleaning"]
  /\ UNCHANGED <<config, chan, workspace, proc>>

(* cleanup() and the return.                                                *)
CleanUp(r) ==
  /\ pc[r] = "cleaning"
  /\ workspace' = [workspace EXCEPT ![r] = FALSE]
  /\ pc' = [pc EXCEPT ![r] = "idle"]
  /\ UNCHANGED <<config, tokens, chan, proc>>

Step(r) ==
  \/ Call(r) \/ Enter(r) \/ Send(r) \/ CancelWhileSending(r) \/ Start(r)
  \/ Exit(r) \/ Finish(r) \/ Timeout(r) \/ Killed(r) \/ GraceOver(r)
  \/ Receive(r) \/ CleanUp(r)

Next == Configure \/ \E r \in Runs : Step(r)

Spec == Init /\ [][Next]_vars

(* A goroutine that can go on does; blocked sends and receives on a Go      *)
(* channel are served in order, so none is passed over for ever; timers     *)
(* fire.  Nothing makes an agent exit by itself, and cmd.Wait may outlast   *)
(* the kill, except for a login, whose Wait does not wait for the pipes.    *)
Fairness ==
  \A r \in Runs :
    /\ WF_vars(Enter(r)) /\ WF_vars(Start(r)) /\ WF_vars(CleanUp(r))
    /\ WF_vars(Timeout(r) \/ Finish(r))
    /\ WF_vars(Killed(r) \/ GraceOver(r))
    /\ WF_vars(r \in LoginRuns /\ pc[r] = "killing" /\ Exit(r))
    /\ SF_vars(Send(r))
    /\ SF_vars(Receive(r))

FairSpec == Spec /\ Fairness

-----------------------------------------------------------------------------
(* Properties.                                                              *)

(* Between the send and the receive.                                        *)
Holders == {r \in Runs :
              pc[r] \in {"starting", "running", "killing", "receiving"}}
Alive == {r \in Runs : proc[r] = "alive"}

(* The elements in the channels: the i-th of channel g.                     *)
Elements == UNION {{g} \X (1 .. tokens[g]) : g \in Gens}

(* The slots of all channels made so far.                                   *)
Places == UNION {{g} \X (1 .. capacity[g]) : g \in 1 .. gen}

TypeOK ==
  /\ gen \in Gens
  /\ capacity \in [Gens -> Capacities]
  /\ tokens \in [Gens -> Nat]
  /\ \A g \in Gens : tokens[g] <= capacity[g]
  /\ enabled \in BOOLEAN
  /\ pc \in [Runs -> {"idle", "called", "sending", "starting", "running",
                      "killing", "receiving", "cleaning"}]
  /\ chan \in [Runs -> Gens]
  /\ workspace \in [Runs -> BOOLEAN]
  /\ proc \in [Runs -> {"none", "alive", "killed", "gone"}]

(* Over any number of reconfigurations the channels together hold one       *)
(* element for every call that holds a slot: a release that takes another   *)
(* call's element leaves its own behind, and none is ever lost              *)
(* (cursor_cli.go:96-97, service.go:68).                                    *)
TokensConserved == Cardinality(Elements) = Cardinality(Holders)

(* No more agents run than max_concurrent, counting live processes and not  *)
(* calls: no path gives its slot back before its process is dead or killed. *)
(* A reconfiguration adds the slots of its new channel to those of the old  *)
(* ones, which agents may still use, and no more than that.                 *)
SubprocessesBounded == Cardinality(Alive) <= Cardinality(Places)

(* The private workspace exists as long as the agent that runs in it, and   *)
(* is gone when the call has returned, whatever happens to the channels     *)
(* meanwhile (cursor_cli.go:94).                                            *)
WorkspaceCoversRun ==
  \A r \in Runs :
    /\ proc[r] = "alive" => workspace[r]
    /\ pc[r] = "idle" => ~workspace[r]

(* As long as the configuration is not replaced every call returns: waiting *)
(* for a slot, running and giving the slot back all end, although no agent  *)
(* exits by itself and a descendant may hold cmd.Wait up.                   *)
CallsReturnUnlessReplaced ==
  \A r \in Runs : pc[r] = "called" ~> pc[r] = "idle" \/ gen > 1

(* Every call returns ("Maximum runtime for one Cursor CLI execution.").    *)
CallsReturn == \A r \in Runs : pc[r] = "called" ~> pc[r] = "idle"
=============================================================================
