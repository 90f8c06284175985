-------------------------------- MODULE Login --------------------------------
(***************************************************************************)
(* The browser login (auth.go): StartLogin, the goroutine that runs        *)
(* "agent login" (runAgentLoginStreaming) with its two readers of the      *)
(* agent's output, and PollLogin, which any number of requests may call.   *)
(*                                                                         *)
(* PollLogin looks the session up under loginMu and then reads its fields  *)
(* without it.  On amd64, the only build that is released, such a read     *)
(* sees the writes of another goroutine in their order: every write of a   *)
(* field and every read of one is a step of its own here.                  *)
(* How calls share the agent slots is the subject of AgentPool.            *)
(***************************************************************************)
EXTENDS Naturals, FiniteSets

CONSTANTS
  Logins,        \* calls of StartLogin; each has a state string of its own
  Pollers,       \* clients that call PollLogin
  Urls,          \* approval URLs the agent may print
  NoUrl,         \* ""
  Expiry,        \* life of a session (15 minutes in the code)
  AlreadyExpiry, \* life of the session of a CLI logged in already (1 minute)
  Overlong,      \* streams on which the agent may print more than 64 KiB
                 \* without an end of line
  MaxTime        \* bound: the clock

ASSUME UrlsAssumption == NoUrl \notin Urls
ASSUME TimesAssumption == {Expiry, AlreadyExpiry, MaxTime} \subseteq Nat \ {0}

Streams == {"stdout", "stderr"}

VARIABLES
  now,     \* Service.now()
  cliAuth, \* whether "agent status" would say the CLI is authenticated
  known,   \* the keys of Service.logins
  session, \* the loginSession objects
  start,   \* where each StartLogin is, or how it answered
  given,   \* the URL it answered
  urlCh,   \* the channel of capacity one between reader and StartLogin
  run,     \* where runAgentLoginStreaming and the goroutine around it are
  outcome, \* what it returned: "none", "ok", "failed"
  agent,   \* the process: "none", "alive", "zombie", "reaped"
  exit,    \* its exit status: "ok", "bad"
  pipe,    \* per stream: "fresh" (nothing printed), a URL, "spent", "closed"
  reader,  \* per stream: "off", "scanning", "claimed", "sending", "ended"
  once,    \* the URL foundOnce ran for
  poll,    \* per client: where PollLogin is and which login it is about
  result,  \* per client: the answer of its last poll
  printed, \* history: whether the agent has printed a URL
  exposed  \* history: the URLs shown to anybody, per login

startVars == <<start, given>>
runVars == <<run, outcome>>
agentVars == <<agent, exit, printed>>
readVars == <<reader, once>>
pollVars == <<poll, result>>
vars == <<now, cliAuth, known, session, start, given, urlCh, run, outcome,
          agent, exit, pipe, reader, once, poll, result, printed, exposed>>

NewSession(e, d) == [expires |-> e, url |-> NoUrl, err |-> FALSE, done |-> d]

Init ==
  /\ now = 0
  /\ cliAuth \in BOOLEAN
  /\ known = {}
  /\ session = [l \in Logins |-> NewSession(0, FALSE)]
  /\ start = [l \in Logins |-> "idle"]
  /\ given = [l \in Logins |-> NoUrl]
  /\ urlCh = [l \in Logins |-> NoUrl]
  /\ run = [l \in Logins |-> "none"]
  /\ outcome = [l \in Logins |-> "none"]
  /\ agent = [l \in Logins |-> "none"]
  /\ exit = [l \in Logins |-> "ok"]
  /\ pipe = [l \in Logins |-> [s \in Streams |-> "fresh"]]
  /\ reader = [l \in Logins |-> [s \in Streams |-> "off"]]
  /\ once = [l \in Logins |-> NoUrl]
  /\ poll = [p \in Pollers |-> [at |-> "idle"]]
  /\ result = [p \in Pollers |-> [kind |-> "none"]]
  /\ printed = [l \in Logins |-> FALSE]
  /\ exposed = [l \in Logins |-> {}]

-----------------------------------------------------------------------------
(* The world: time, and the CLI's credentials, which the user's approval    *)
(* and other programs change.                                               *)

Tick ==
  /\ now < MaxTime
  /\ now' = now + 1
  /\ UNCHANGED <<cliAuth, known, session, startVars, urlCh, runVars, agentVars,
                 pipe, readVars, pollVars, exposed>>

CliAuthChanges ==
  /\ cliAuth' = ~cliAuth
  /\ UNCHANGED <<now, known, session, startVars, urlCh, runVars, agentVars,
                 pipe, readVars, pollVars, exposed>>

(* Service.Shutdown: clear(s.logins).  The goroutine that ends a session    *)
(* keeps loginMu from its look at the map to its last write.                *)
Shutdown ==
  /\ \A l \in Logins : run[l] # "ending"
  /\ known' = {}
  /\ UNCHANGED <<now, cliAuth, session, startVars, urlCh, runVars, agentVars,
                 pipe, readVars, pollVars, exposed>>

-----------------------------------------------------------------------------
(* StartLogin.                                                              *)

(* resolveAgentExecutable: without an agent the answer is the setup page,   *)
(* and there is no session.                                                 *)
StartLogin(l) ==
  /\ start[l] = "idle"
  /\ \E next \in {"setup", "probing"} : start' = [start EXCEPT ![l] = next]
  /\ UNCHANGED <<now, cliAuth, known, session, given, urlCh, runVars, agentVars,
                 pipe, readVars, pollVars, exposed>>

(* statusStorage says authenticated: a session that is done from the start. *)
StartAlready(l) ==
  /\ start[l] = "probing"
  /\ cliAuth
  /\ start' = [start EXCEPT ![l] = "already"]
  /\ session' = [session EXCEPT ![l] = NewSession(now + AlreadyExpiry, TRUE)]
  /\ known' = known \cup {l}
  /\ UNCHANGED <<now, cliAuth, given, urlCh, runVars, agentVars, pipe, readVars,
                 pollVars, exposed>>

(* It says otherwise, or fails: a new session and the goroutine.            *)
StartRun(l) ==
  /\ start[l] = "probing"
  /\ start' = [start EXCEPT ![l] = "waiting"]
  /\ session' = [session EXCEPT ![l] = NewSession(now + Expiry, FALSE)]
  /\ known' = known \cup {l}
  /\ run' = [run EXCEPT ![l] = "entering"]
  /\ UNCHANGED <<now, cliAuth, given, urlCh, outcome, agentVars, pipe, readVars,
                 pollVars, exposed>>

(* The select between urlCh and the 1200 milliseconds.                      *)
StartUrl(l) ==
  /\ start[l] = "waiting"
  /\ urlCh[l] # NoUrl
  /\ start' = [start EXCEPT ![l] = "answered"]
  /\ given' = [given EXCEPT ![l] = urlCh[l]]
  /\ urlCh' = [urlCh EXCEPT ![l] = NoUrl]
  /\ exposed' = [exposed EXCEPT ![l] = @ \cup {urlCh[l]}]
  /\ UNCHANGED <<now, cliAuth, known, session, runVars, agentVars, pipe,
                 readVars, pollVars>>

StartNoUrl(l) ==
  /\ start[l] = "waiting"
  /\ start' = [start EXCEPT ![l] = "answered"]
  /\ UNCHANGED <<now, cliAuth, known, session, given, urlCh, runVars, agentVars,
                 pipe, readVars, pollVars, exposed>>

-----------------------------------------------------------------------------
(* runAgentLoginStreaming.                                                  *)

Return(l, what) ==
  /\ run' = [run EXCEPT ![l] = "returned"]
  /\ outcome' = [outcome EXCEPT ![l] = what]

(* Everything up to cmd.Start and the two readers: any of it may fail.      *)
RunEnter(l) ==
  /\ run[l] = "entering"
  /\ \/ /\ run' = [run EXCEPT ![l] = "running"]
        /\ agent' = [agent EXCEPT ![l] = "alive"]
        /\ reader' = [reader EXCEPT ![l] = [s \in Streams |-> "scanning"]]
        /\ UNCHANGED outcome
     \/ /\ Return(l, "failed")
        /\ UNCHANGED <<agent, reader>>
  /\ UNCHANGED <<now, cliAuth, known, session, startVars, urlCh, exit, printed,
                 pipe, once, pollVars, exposed>>

(* The agent prints a line that safeApprovalURL accepts, at most one on     *)
(* either stream, and exits.                                                *)
PrintUrl(l, s) ==
  /\ agent[l] = "alive"
  /\ pipe[l][s] = "fresh"
  /\ \E u \in Urls : pipe' = [pipe EXCEPT ![l][s] = u]
  /\ printed' = [printed EXCEPT ![l] = TRUE]
  /\ UNCHANGED <<now, cliAuth, known, session, startVars, urlCh, runVars, agent,
                 exit, readVars, pollVars, exposed>>

AgentExit(l) ==
  /\ agent[l] = "alive"
  /\ agent' = [agent EXCEPT ![l] = "zombie"]
  /\ \E e \in {"ok", "bad"} : exit' = [exit EXCEPT ![l] = e]
  /\ UNCHANGED <<now, cliAuth, known, session, startVars, urlCh, runVars,
                 printed, pipe, readVars, pollVars, exposed>>

(* cmd.Wait in its goroutine: the process is reaped, and the read ends of   *)
(* StdoutPipe and StderrPipe are closed whatever is still in them.          *)
WaitReturns(l) ==
  /\ agent[l] = "zombie"
  /\ agent' = [agent EXCEPT ![l] = "reaped"]
  /\ pipe' = [pipe EXCEPT ![l] = [s \in Streams |-> "closed"]]
  /\ UNCHANGED <<now, cliAuth, known, session, startVars, urlCh, runVars, exit,
                 printed, readVars, pollVars, exposed>>

(* safeApprovalURL: a line with exactly one URL of cursor.com.              *)
SafeApprovalURL(line) == line \in Urls

(* consume: a line is scanned; foundOnce lets the first URL through, and    *)
(* makes a second reader wait until the first has dealt with its own.       *)
ReadLineEach(l, s) ==
  /\ reader[l][s] = "scanning"
  /\ SafeApprovalURL(pipe[l][s])
  /\ \A t \in Streams : reader[l][t] \notin {"claimed", "sending"}
  /\ pipe' = [pipe EXCEPT ![l][s] = "spent"]
  /\ once' = [once EXCEPT ![l] = pipe[l][s]]
  /\ reader' = [reader EXCEPT ![l][s] = "claimed"]
  /\ UNCHANGED <<now, cliAuth, known, session, startVars, urlCh, runVars,
                 agentVars, pollVars, exposed>>

ReadLine(l, s) ==
  /\ reader[l][s] = "scanning"
  /\ SafeApprovalURL(pipe[l][s])
  /\ \A t \in Streams : reader[l][t] \notin {"claimed", "sending"}
  /\ pipe' = [pipe EXCEPT ![l][s] = "spent"]
  /\ \/ /\ once[l] = NoUrl
        /\ once' = [once EXCEPT ![l] = pipe[l][s]]
        /\ reader' = [reader EXCEPT ![l][s] = "claimed"]
     \/ /\ once[l] # NoUrl
        /\ UNCHANGED readVars
  /\ UNCHANGED <<now, cliAuth, known, session, startVars, urlCh, runVars,
                 agentVars, pollVars, exposed>>

(* Under loginMu, into the session if there still is one.                   *)
RecordUrl(l, s) ==
  /\ reader[l][s] = "claimed"
  /\ reader' = [reader EXCEPT ![l][s] = "sending"]
  /\ session' = IF l \in known THEN [session EXCEPT ![l].url = once[l]]
                               ELSE session
  /\ UNCHANGED <<now, cliAuth, known, startVars, urlCh, runVars, agentVars, pipe,
                 once, pollVars, exposed>>

(* The send that never blocks.                                              *)
SendUrl(l, s) ==
  /\ reader[l][s] = "sending"
  /\ reader' = [reader EXCEPT ![l][s] = "scanning"]
  /\ urlCh' = IF urlCh[l] = NoUrl THEN [urlCh EXCEPT ![l] = once[l]] ELSE urlCh
  /\ UNCHANGED <<now, cliAuth, known, session, startVars, runVars, agentVars,
                 pipe, once, pollVars, exposed>>

(* End of file once the agent is dead, or the closed pipe.                  *)
ReaderEnds(l, s) ==
  /\ reader[l][s] = "scanning"
  /\ agent[l] \in {"zombie", "reaped"}
  /\ ~SafeApprovalURL(pipe[l][s])
  /\ reader' = [reader EXCEPT ![l][s] = "ended"]
  /\ UNCHANGED <<now, cliAuth, known, session, startVars, urlCh, runVars,
                 agentVars, pipe, once, pollVars, exposed>>

(* A line above 64 KiB: scanner.Scan() gives up, and what the agent prints  *)
(* after it is never read, although the agent lives on.                     *)
ReaderStops(l, s) ==
  /\ s \in Overlong
  /\ reader[l][s] = "scanning"
  /\ agent[l] \in {"alive", "zombie"}
  /\ reader' = [reader EXCEPT ![l][s] = "ended"]
  /\ UNCHANGED <<now, cliAuth, known, session, startVars, urlCh, runVars,
                 agentVars, pipe, once, pollVars, exposed>>

(* waitErr = <-done, then <-doneRead twice.                                 *)
SelectDone(l) ==
  /\ run[l] = "running"
  /\ agent[l] = "reaped"
  /\ run' = [run EXCEPT ![l] = "draining"]
  /\ UNCHANGED <<now, cliAuth, known, session, startVars, urlCh, outcome,
                 agentVars, pipe, readVars, pollVars, exposed>>

Drained(l) ==
  /\ run[l] = "draining"
  /\ \A s \in Streams : reader[l][s] = "ended"
  /\ Return(l, IF exit[l] = "ok" THEN "ok" ELSE "failed")
  /\ UNCHANGED <<now, cliAuth, known, session, startVars, urlCh, agentVars, pipe,
                 readVars, pollVars, exposed>>

(* <-runCtx.Done(): the group is killed, and <-done has no time limit.      *)
SelectTimeoutWithoutKill(l) ==
  /\ run[l] = "running"
  /\ run' = [run EXCEPT ![l] = "killing"]
  /\ UNCHANGED <<now, cliAuth, known, session, startVars, urlCh, outcome,
                 agentVars, pipe, readVars, pollVars, exposed>>

SelectTimeout(l) ==
  /\ run[l] = "running"
  /\ run' = [run EXCEPT ![l] = "killing"]
  /\ agent' = [agent EXCEPT ![l] = IF @ = "alive" THEN "zombie" ELSE @]
  /\ exit' = [exit EXCEPT ![l] = IF agent[l] = "alive" THEN "bad" ELSE @]
  /\ UNCHANGED <<now, cliAuth, known, session, startVars, urlCh, outcome,
                 printed, pipe, readVars, pollVars, exposed>>

Killed(l) ==
  /\ run[l] = "killing"
  /\ agent[l] = "reaped"
  /\ Return(l, "failed")
  /\ UNCHANGED <<now, cliAuth, known, session, startVars, urlCh, agentVars, pipe,
                 readVars, pollVars, exposed>>

-----------------------------------------------------------------------------
(* The goroutine around it, under loginMu: first sess.err, then sess.done.  *)

WriteErrAfterDone(l) ==
  /\ run[l] = "returned"
  /\ run' = [run EXCEPT ![l] = "ending"]
  /\ session' = IF l \in known THEN [session EXCEPT ![l].done = TRUE]
                               ELSE session
  /\ UNCHANGED <<now, cliAuth, known, startVars, urlCh, outcome, agentVars, pipe,
                 readVars, pollVars, exposed>>

WriteErr(l) ==
  /\ run[l] = "returned"
  /\ run' = [run EXCEPT ![l] = "ending"]
  /\ session' = IF l \in known
                THEN [session EXCEPT ![l].err = outcome[l] = "failed"]
                ELSE session
  /\ UNCHANGED <<now, cliAuth, known, startVars, urlCh, outcome, agentVars, pipe,
                 readVars, pollVars, exposed>>

WriteDone(l) ==
  /\ run[l] = "ending"
  /\ run' = [run EXCEPT ![l] = "ended"]
  /\ session' = IF l \in known THEN [session EXCEPT ![l].done = TRUE]
                               ELSE session
  /\ UNCHANGED <<now, cliAuth, known, startVars, urlCh, outcome, agentVars, pipe,
                 readVars, pollVars, exposed>>

-----------------------------------------------------------------------------
(* PollLogin, for a state string that StartLogin has returned.              *)

At(p, step) == poll[p].at = step
Goto(p, step) ==
  /\ poll' = [poll EXCEPT ![p].at = step]
  /\ UNCHANGED <<result, exposed>>
Answer(p, kind) ==
  /\ poll' = [poll EXCEPT ![p] = [at |-> "idle"]]
  /\ result' = [result EXCEPT ![p] = [kind |-> kind, of |-> poll[p].of]]

pollUnchanged == <<now, cliAuth, known, session, startVars, urlCh, runVars,
                   agentVars, pipe, readVars>>

PollLookup(p, l) ==
  /\ At(p, "idle")
  /\ start[l] \in {"already", "answered"}
  /\ \/ /\ l \in known
        /\ poll' = [poll EXCEPT ![p] = [at |-> "expiry", of |-> l]]
        /\ result' = [result EXCEPT ![p] = [kind |-> "none"]]
     \/ /\ l \notin known
        /\ result' = [result EXCEPT ![p] = [kind |-> "unknown", of |-> l]]
        /\ UNCHANGED poll
  /\ UNCHANGED <<pollUnchanged, exposed>>

PollExpiry(p) ==
  /\ At(p, "expiry")
  /\ \/ /\ now >= session[poll[p].of].expires
        /\ Answer(p, "expired")
        /\ UNCHANGED exposed
     \/ /\ now < session[poll[p].of].expires
        /\ Goto(p, "done")
  /\ UNCHANGED pollUnchanged

PollDone(p) ==
  /\ At(p, "done")
  /\ Goto(p, IF session[poll[p].of].done THEN "err" ELSE "url")
  /\ UNCHANGED pollUnchanged

PollUrl(p) ==
  /\ At(p, "url")
  /\ LET l == poll[p].of IN
     /\ Answer(p, "pending")
     /\ exposed' = [exposed EXCEPT ![l] = @ \cup ({session[l].url} \ {NoUrl})]
  /\ UNCHANGED pollUnchanged

PollErr(p) ==
  /\ At(p, "err")
  /\ \/ /\ session[poll[p].of].err
        /\ Answer(p, "error")
        /\ UNCHANGED exposed
     \/ /\ ~session[poll[p].of].err
        /\ Goto(p, "status")
  /\ UNCHANGED pollUnchanged

(* statusStorage and authData, either of which may fail.                    *)
PollStatus(p) ==
  /\ At(p, "status")
  /\ \E kind \in {"error", IF cliAuth THEN "success" ELSE "unconfirmed"} :
       Answer(p, kind)
  /\ UNCHANGED <<pollUnchanged, exposed>>

-----------------------------------------------------------------------------

Start(l) == StartLogin(l) \/ StartAlready(l) \/ StartRun(l) \/ StartUrl(l)
              \/ StartNoUrl(l)
Read(l, s) == ReadLine(l, s) \/ RecordUrl(l, s) \/ SendUrl(l, s)
                \/ ReaderEnds(l, s)
Run(l) == RunEnter(l) \/ SelectDone(l) \/ Drained(l) \/ SelectTimeout(l)
            \/ Killed(l) \/ WriteErr(l) \/ WriteDone(l)
Poll(p) == PollExpiry(p) \/ PollDone(p) \/ PollUrl(p) \/ PollErr(p)
             \/ PollStatus(p)

Next ==
  \/ Tick \/ CliAuthChanges \/ Shutdown
  \/ \E l \in Logins :
       \/ Start(l) \/ Run(l) \/ AgentExit(l) \/ WaitReturns(l)
       \/ \E s \in Streams : PrintUrl(l, s) \/ Read(l, s) \/ ReaderStops(l, s)
       \/ \E p \in Pollers : PollLookup(p, l)
  \/ \E p \in Pollers : Poll(p)

Spec == Init /\ [][Next]_vars

(* Goroutines that can go on do, the timeout fires, and cmd.Wait returns    *)
(* once the process is dead.  Nothing makes the agent exit, nobody polls    *)
(* and time need not pass.                                                  *)
Fairness ==
  \A l \in Logins :
    /\ WF_vars(Run(l)) /\ WF_vars(WaitReturns(l))
    /\ \A s \in Streams : WF_vars(Read(l, s))

FairSpec == Spec /\ Fairness

-----------------------------------------------------------------------------
(* Properties.                                                              *)

(* Whatever the agent prints on its two streams, one login shows at most    *)
(* one approval URL, in StartLogin's answer and in every poll together      *)
(* ("exposes exactly one Cursor approval URL").                             *)
OneApprovalUrl == \A l \in Logins : Cardinality(exposed[l]) <= 1

(* A poll reports success only for a login that has run to its end without  *)
(* an error, or that found the CLI logged in: although the fields are read  *)
(* without loginMu, a failed run is never read as a finished one            *)
(* (auth.go:77-81 against :103, :109).                                      *)
SuccessOnlyAfterLogin ==
  \A p \in Pollers :
    result[p].kind = "success" =>
      LET l == result[p].of IN
        \/ start[l] = "already"
        \/ run[l] = "ended" /\ outcome[l] = "ok"

(* A login that ended well has recorded the URL line its agent              *)
(* printed ("exposes exactly one Cursor approval URL promptly instead of    *)
(* waiting for process exit").                                              *)
PrintedUrlRecorded ==
  \A l \in known :
    run[l] = "ended" /\ outcome[l] = "ok" /\ printed[l] => session[l].url # NoUrl

(* A login that was started ends: the session is given its result and       *)
(* StartLogin's goroutine is gone, even when the agent never exits by       *)
(* itself and is killed while its output is being read.                     *)
LoginEnds == \A l \in Logins : run[l] = "entering" ~> run[l] = "ended"
=============================================================================
