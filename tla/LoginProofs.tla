----------------------------- MODULE LoginProofs -----------------------------
(***************************************************************************)
(* Proofs about Login, for any number of logins, polling clients and URLs. *)
(***************************************************************************)
EXTENDS Login, FiniteSetTheorems, TLAPS

LoginSession == [expires : Nat, url : Urls \cup {NoUrl}, err : BOOLEAN, done : BOOLEAN]
PollSteps == {"expiry", "done", "url", "err", "status"}
PollRecord == [at : {"idle"}] \cup [at : PollSteps, of : Logins]
ResultRecord ==
  [kind : {"none"}] \cup
  [kind : {"unknown", "expired", "pending", "error", "success", "unconfirmed"}, of : Logins]

LoginTypeOK ==
  /\ now \in Nat
  /\ known \subseteq Logins
  /\ session \in [Logins -> LoginSession]
  /\ start \in [Logins -> {"idle", "setup", "probing", "already", "waiting", "answered"}]
  /\ urlCh \in [Logins -> Urls \cup {NoUrl}]
  /\ run \in [Logins -> {"none", "entering", "running", "draining", "killing",
                         "returned", "ending", "ended"}]
  /\ outcome \in [Logins -> {"none", "ok", "failed"}]
  /\ once \in [Logins -> Urls \cup {NoUrl}]
  /\ poll \in [Pollers -> PollRecord]
  /\ result \in [Pollers -> ResultRecord]
  /\ exposed \in [Logins -> SUBSET Urls]

(* Every place a URL is kept or shown has the one that foundOnce ran for.   *)
OnlyOnceUrl ==
  \A l \in Logins :
    /\ session[l].url \in {NoUrl, once[l]}
    /\ urlCh[l] \in {NoUrl, once[l]}
    /\ exposed[l] \subseteq {once[l]} \ {NoUrl}

(* The goroutine exists only after StartLogin has stored its session.       *)
RunAfterStart ==
  \A l \in Logins :
    start[l] \in {"idle", "setup", "probing", "already"} => run[l] = "none"

(* runAgentLoginStreaming has returned something when its result is used.   *)
OutcomeKnown ==
  \A l \in Logins :
    run[l] \in {"returned", "ending", "ended"} => outcome[l] \in {"ok", "failed"}

(* Between the two writes the session, if it is still known, has the error. *)
ErrWrittenFirst ==
  \A l \in known : run[l] = "ending" => (session[l].err <=> outcome[l] = "failed")

(* A session that is done was done from the start, or its run has ended and *)
(* its error is the outcome's.                                              *)
DoneMeansEnded ==
  \A l \in Logins :
    session[l].done =>
      \/ start[l] = "already"
      \/ run[l] = "ended" /\ (session[l].err <=> outcome[l] = "failed")

(* What a poll has read of a session is still so.                           *)
ReadsStand ==
  \A p \in Pollers :
    /\ poll[p].at \in {"err", "status"} => session[poll[p].of].done
    /\ poll[p].at = "status" => ~session[poll[p].of].err

ResultInv ==
  /\ RunAfterStart
  /\ OutcomeKnown
  /\ ErrWrittenFirst
  /\ DoneMeansEnded
  /\ ReadsStand
  /\ SuccessOnlyAfterLogin

LoginInv == LoginTypeOK /\ OnlyOnceUrl /\ ResultInv

-----------------------------------------------------------------------------
(* A client in the middle of a poll is about a login.                       *)
LEMMA PollOf ==
  ASSUME LoginTypeOK, NEW p \in Pollers, poll[p].at \in PollSteps
  PROVE  poll[p] \in [at : PollSteps, of : Logins] /\ poll[p].of \in Logins
<1>1. poll[p] \in PollRecord
  BY DEF LoginTypeOK
<1>2. poll[p] \notin [at : {"idle"}]
  BY DEF PollSteps
<1> QED
  BY <1>1, <1>2 DEF PollRecord

LEMMA GotoFacts ==
  ASSUME LoginTypeOK, NEW p \in Pollers, poll[p].at \in PollSteps,
         NEW step \in PollSteps, Goto(p, step)
  PROVE  /\ poll' \in [Pollers -> PollRecord]
         /\ poll'[p].at = step /\ poll'[p].of = poll[p].of
         /\ \A q \in Pollers \ {p} : poll'[q] = poll[q]
         /\ UNCHANGED <<result, exposed>>
<1>1. poll[p] \in [at : PollSteps, of : Logins]
  BY PollOf
<1>2. poll \in [Pollers -> PollRecord]
  BY DEF LoginTypeOK
<1>3. poll' = [poll EXCEPT ![p] = [poll[p] EXCEPT !.at = step]]
  BY DEF Goto
<1>4. [poll[p] EXCEPT !.at = step] \in [at : PollSteps, of : Logins]
  BY <1>1
<1>5. poll' \in [Pollers -> PollRecord]
  BY <1>2, <1>3, <1>4 DEF PollRecord
<1>6. poll'[p] = [poll[p] EXCEPT !.at = step]
  BY <1>2, <1>3
<1>7. poll'[p].at = step /\ poll'[p].of = poll[p].of
  BY <1>1, <1>6
<1> QED
  BY <1>2, <1>3, <1>5, <1>7 DEF Goto

LEMMA AnswerFacts ==
  ASSUME LoginTypeOK, NEW p \in Pollers, poll[p].at \in PollSteps,
         NEW kind \in {"expired", "pending", "error", "success", "unconfirmed"},
         Answer(p, kind)
  PROVE  /\ poll' \in [Pollers -> PollRecord] /\ result' \in [Pollers -> ResultRecord]
         /\ poll'[p].at = "idle"
         /\ result'[p].kind = kind /\ result'[p].of = poll[p].of
         /\ \A q \in Pollers \ {p} : poll'[q] = poll[q] /\ result'[q] = result[q]
<1>1. poll[p].of \in Logins
  BY PollOf
<1>2. poll \in [Pollers -> PollRecord] /\ result \in [Pollers -> ResultRecord]
  BY DEF LoginTypeOK
<1>3. [at |-> "idle"] \in PollRecord /\ [kind |-> kind, of |-> poll[p].of] \in ResultRecord
  BY <1>1 DEF PollRecord, ResultRecord
<1>4. poll'[p] = [at |-> "idle"] /\ result'[p] = [kind |-> kind, of |-> poll[p].of]
  BY <1>2 DEF Answer
<1> QED
  BY <1>2, <1>3, <1>4 DEF Answer

(* The two writes of the goroutine, under loginMu.                          *)
LEMMA ErrWritten ==
  ASSUME LoginTypeOK, NEW l \in Logins, WriteErr(l)
  PROVE  /\ \A k \in Logins : /\ session'[k].url = session[k].url
                              /\ session'[k].done = session[k].done
         /\ \A k \in Logins \ {l} : session'[k] = session[k]
         /\ l \in known => (session'[l].err <=> outcome[l] = "failed")
         /\ l \notin known => session' = session
<1>1. CASE l \in known
  <2>1. session \in [Logins -> LoginSession]
    BY DEF LoginTypeOK
  <2>2. session' = [session EXCEPT ![l] = [session[l] EXCEPT !.err = outcome[l] = "failed"]]
    BY <1>1 DEF WriteErr
  <2>3. session'[l] = [session[l] EXCEPT !.err = outcome[l] = "failed"]
    BY <2>1, <2>2
  <2>4. session[l] \in LoginSession
    BY <2>1
  <2>5. /\ session'[l].url = session[l].url /\ session'[l].done = session[l].done
        /\ session'[l].err = (outcome[l] = "failed")
    BY <2>3, <2>4 DEF LoginSession
  <2>6. \A k \in Logins \ {l} : session'[k] = session[k]
    BY <2>1, <2>2
  <2> QED
    BY <1>1, <2>5, <2>6
<1>2. CASE l \notin known
  BY <1>2 DEF WriteErr
<1> QED
  BY <1>1, <1>2

LEMMA DoneWritten ==
  ASSUME LoginTypeOK, NEW l \in Logins, WriteDone(l)
  PROVE  /\ \A k \in Logins : /\ session'[k].url = session[k].url
                              /\ session'[k].err = session[k].err
         /\ \A k \in Logins \ {l} : session'[k] = session[k]
         /\ l \notin known => session' = session
BY DEF WriteDone, LoginTypeOK, LoginSession

-----------------------------------------------------------------------------
LEMMA LoginInit == Init => LoginInv
<1> SUFFICES ASSUME Init PROVE LoginInv
  OBVIOUS
<1>1. NewSession(0, FALSE) \in LoginSession
  BY DEF NewSession, LoginSession
<1>2. [at |-> "idle"] \in PollRecord /\ [kind |-> "none"] \in ResultRecord
  BY DEF PollRecord, ResultRecord
<1>3. LoginTypeOK
  BY <1>1, <1>2 DEF Init, LoginTypeOK
<1>4. \A l \in Logins : /\ session[l].url = NoUrl /\ session[l].done = FALSE
                        /\ urlCh[l] = NoUrl /\ exposed[l] = {} /\ run[l] = "none"
  BY DEF Init, NewSession
<1>5. \A p \in Pollers : poll[p].at = "idle" /\ result[p].kind = "none"
  BY DEF Init
<1>6. OnlyOnceUrl
  BY <1>4 DEF OnlyOnceUrl
<1>7. ResultInv
  BY <1>3, <1>4, <1>5
  DEF LoginTypeOK, ResultInv, RunAfterStart, OutcomeKnown, ErrWrittenFirst, DoneMeansEnded,
      ReadsStand, SuccessOnlyAfterLogin
<1> QED
  BY <1>3, <1>6, <1>7 DEF LoginInv

-----------------------------------------------------------------------------
(* Types.                                                                   *)

LEMMA LoginTypeNext == LoginTypeOK /\ [Next]_vars => LoginTypeOK'
<1> SUFFICES ASSUME LoginTypeOK, [Next]_vars PROVE LoginTypeOK'
  OBVIOUS
<1> USE DEF startVars, runVars, agentVars, readVars, pollVars, pollUnchanged
<1>1. CASE Tick \/ CliAuthChanges \/ Shutdown
  BY <1>1 DEF Tick, CliAuthChanges, Shutdown, LoginTypeOK
<1>2. ASSUME NEW l \in Logins, Start(l) PROVE LoginTypeOK'
  <2>1. CASE StartLogin(l) \/ StartNoUrl(l) \/ StartUrl(l)
    BY <2>1 DEF StartLogin, StartNoUrl, StartUrl, LoginTypeOK
  <2>2. CASE StartAlready(l) \/ StartRun(l)
    <3>1. \A e \in Nat, d \in BOOLEAN : NewSession(e, d) \in LoginSession
      BY DEF NewSession, LoginSession
    <3>2. now + AlreadyExpiry \in Nat /\ now + Expiry \in Nat
      BY TimesAssumption DEF LoginTypeOK
    <3>3. PICK new \in LoginSession : session' = [session EXCEPT ![l] = new]
      BY <2>2, <3>1, <3>2 DEF StartAlready, StartRun
    <3>4. session' \in [Logins -> LoginSession]
      BY <3>3 DEF LoginTypeOK
    <3> QED
      BY <2>2, <3>4 DEF StartAlready, StartRun, LoginTypeOK
  <2> QED
    BY <1>2, <2>1, <2>2 DEF Start
<1>3. ASSUME NEW l \in Logins, Run(l) PROVE LoginTypeOK'
  <2>1. CASE RunEnter(l) \/ SelectDone(l) \/ Drained(l) \/ SelectTimeout(l) \/ Killed(l)
    BY <2>1 DEF RunEnter, SelectDone, Drained, SelectTimeout, Killed, Return, LoginTypeOK
  <2>2. CASE WriteErr(l) \/ WriteDone(l)
    <3>1. session' \in [Logins -> LoginSession]
      <4>1. ASSUME NEW b \in BOOLEAN
            PROVE  /\ [session EXCEPT ![l].err = b] \in [Logins -> LoginSession]
                   /\ [session EXCEPT ![l].done = b] \in [Logins -> LoginSession]
        BY DEF LoginTypeOK, LoginSession
      <4>2. (outcome[l] = "failed") \in BOOLEAN /\ TRUE \in BOOLEAN
        OBVIOUS
      <4> QED
        BY <2>2, <4>1, <4>2 DEF WriteErr, WriteDone, LoginTypeOK
    <3> QED
      BY <2>2, <3>1 DEF WriteErr, WriteDone, LoginTypeOK
  <2> QED
    BY <1>3, <2>1, <2>2 DEF Run
<1>4. ASSUME NEW l \in Logins, AgentExit(l) \/ WaitReturns(l) PROVE LoginTypeOK'
  BY <1>4 DEF AgentExit, WaitReturns, LoginTypeOK
<1>5. ASSUME NEW l \in Logins, NEW s \in Streams, PrintUrl(l, s) \/ Read(l, s) \/ ReaderStops(l, s)
      PROVE  LoginTypeOK'
  <2>1. CASE PrintUrl(l, s) \/ ReaderStops(l, s) \/ ReaderEnds(l, s) \/ SendUrl(l, s)
    BY <2>1 DEF PrintUrl, ReaderStops, ReaderEnds, SendUrl, LoginTypeOK
  <2>2. CASE ReadLine(l, s)
    BY <2>2 DEF ReadLine, SafeApprovalURL, LoginTypeOK
  <2>3. CASE RecordUrl(l, s)
    <3>1. session' \in [Logins -> LoginSession]
      BY <2>3 DEF RecordUrl, LoginTypeOK, LoginSession
    <3> QED
      BY <2>3, <3>1 DEF RecordUrl, LoginTypeOK
  <2> QED
    BY <1>5, <2>1, <2>2, <2>3 DEF Read
<1>6. ASSUME NEW l \in Logins, NEW p \in Pollers, PollLookup(p, l) PROVE LoginTypeOK'
  <2>1. /\ [at |-> "expiry", of |-> l] \in PollRecord
        /\ [kind |-> "none"] \in ResultRecord
        /\ [kind |-> "unknown", of |-> l] \in ResultRecord
    BY DEF PollRecord, PollSteps, ResultRecord
  <2>2. poll' \in [Pollers -> PollRecord] /\ result' \in [Pollers -> ResultRecord]
    BY <1>6, <2>1 DEF PollLookup, LoginTypeOK
  <2> QED
    BY <1>6, <2>2 DEF PollLookup, LoginTypeOK
<1>7. ASSUME NEW p \in Pollers, Poll(p) PROVE LoginTypeOK'
  <2>1. poll[p].at \in PollSteps
    BY <1>7 DEF Poll, PollExpiry, PollDone, PollUrl, PollErr, PollStatus, At, PollSteps
  <2>2. /\ UNCHANGED <<now, known, session, start, urlCh, run, outcome, once>>
        /\ \/ \E step \in PollSteps : Goto(p, step)
           \/ \E kind \in {"expired", "pending", "error", "success", "unconfirmed"} :
                Answer(p, kind)
    BY <1>7 DEF Poll, PollExpiry, PollDone, PollUrl, PollErr, PollStatus, PollSteps
  <2>3. poll' \in [Pollers -> PollRecord] /\ result' \in [Pollers -> ResultRecord]
    BY <2>1, <2>2, GotoFacts, AnswerFacts DEF LoginTypeOK
  <2>4. exposed' \in [Logins -> SUBSET Urls]
    <3>1. CASE PollUrl(p)
      <4>1. session[poll[p].of].url \in Urls \cup {NoUrl}
        BY <2>1, PollOf DEF LoginTypeOK, LoginSession
      <4> QED
        BY <3>1, <4>1 DEF PollUrl, LoginTypeOK
    <3>2. CASE ~PollUrl(p)
      BY <1>7, <3>2 DEF Poll, PollExpiry, PollDone, PollErr, PollStatus, Goto, LoginTypeOK
    <3> QED
      BY <3>1, <3>2
  <2> QED
    BY <2>2, <2>3, <2>4 DEF LoginTypeOK
<1>8. CASE UNCHANGED vars
  BY <1>8 DEF vars, LoginTypeOK
<1> QED
  BY <1>1, <1>2, <1>3, <1>4, <1>5, <1>6, <1>7, <1>8 DEF Next

-----------------------------------------------------------------------------
(* The one URL.                                                             *)

LEMMA UrlNext == LoginTypeOK /\ OnlyOnceUrl /\ [Next]_vars => OnlyOnceUrl'
<1> SUFFICES ASSUME LoginTypeOK, OnlyOnceUrl, [Next]_vars PROVE OnlyOnceUrl'
  OBVIOUS
<1> USE DEF startVars, runVars, agentVars, readVars, pollVars, pollUnchanged
<1>0. ASSUME UNCHANGED <<session, urlCh, once, exposed>> PROVE OnlyOnceUrl'
  BY <1>0 DEF OnlyOnceUrl
<1>1. CASE Tick \/ CliAuthChanges \/ Shutdown \/ UNCHANGED vars
  BY <1>0, <1>1 DEF Tick, CliAuthChanges, Shutdown, vars
<1>2. ASSUME NEW l \in Logins, Start(l) PROVE OnlyOnceUrl'
  <2>1. CASE StartLogin(l) \/ StartNoUrl(l)
    BY <1>0, <2>1 DEF StartLogin, StartNoUrl
  <2>2. CASE StartUrl(l)
    <3>1. UNCHANGED <<session, once>>
      BY <2>2 DEF StartUrl
    <3>2. \A k \in Logins : urlCh'[k] \in {NoUrl, urlCh[k]}
      BY <2>2 DEF StartUrl, LoginTypeOK
    <3>3. \A k \in Logins \ {l} : exposed'[k] = exposed[k]
      BY <2>2 DEF StartUrl, LoginTypeOK
    <3>4. exposed'[l] = exposed[l] \cup {urlCh[l]} /\ urlCh[l] # NoUrl
      BY <2>2 DEF StartUrl, LoginTypeOK
    <3> QED
      BY <3>1, <3>2, <3>3, <3>4 DEF OnlyOnceUrl
  <2>3. CASE StartAlready(l) \/ StartRun(l)
    <3>1. UNCHANGED <<urlCh, once, exposed>>
      BY <2>3 DEF StartAlready, StartRun
    <3>2. \A k \in Logins : session'[k].url \in {NoUrl, session[k].url}
      BY <2>3 DEF StartAlready, StartRun, NewSession, LoginTypeOK
    <3> QED
      BY <3>1, <3>2 DEF OnlyOnceUrl
  <2> QED
    BY <1>2, <2>1, <2>2, <2>3 DEF Start
<1>3. ASSUME NEW l \in Logins, Run(l) PROVE OnlyOnceUrl'
  <2>1. CASE RunEnter(l) \/ SelectDone(l) \/ Drained(l) \/ SelectTimeout(l) \/ Killed(l)
    BY <1>0, <2>1 DEF RunEnter, SelectDone, Drained, SelectTimeout, Killed
  <2>2. CASE WriteErr(l) \/ WriteDone(l)
    <3>1. UNCHANGED <<urlCh, once, exposed>>
      BY <2>2 DEF WriteErr, WriteDone
    <3>3. \A k \in Logins : session'[k].url = session[k].url
      BY <2>2, ErrWritten, DoneWritten
    <3> QED
      BY <3>1, <3>3 DEF OnlyOnceUrl
  <2> QED
    BY <1>3, <2>1, <2>2 DEF Run
<1>4. ASSUME NEW l \in Logins, AgentExit(l) \/ WaitReturns(l) PROVE OnlyOnceUrl'
  BY <1>0, <1>4 DEF AgentExit, WaitReturns
<1>5. ASSUME NEW l \in Logins, NEW s \in Streams, PrintUrl(l, s) \/ Read(l, s) \/ ReaderStops(l, s)
      PROVE  OnlyOnceUrl'
  <2>1. CASE PrintUrl(l, s) \/ ReaderStops(l, s) \/ ReaderEnds(l, s)
    BY <1>0, <2>1 DEF PrintUrl, ReaderStops, ReaderEnds
  <2>2. CASE ReadLine(l, s)
    <3>1. UNCHANGED <<session, urlCh, exposed>>
      BY <2>2 DEF ReadLine
    <3>2. \A k \in Logins : once'[k] = once[k] \/ once[k] = NoUrl
      BY <2>2 DEF ReadLine, LoginTypeOK
    <3> QED
      BY <3>1, <3>2 DEF OnlyOnceUrl
  <2>3. CASE RecordUrl(l, s)
    <3>1. UNCHANGED <<urlCh, once, exposed>>
      BY <2>3 DEF RecordUrl
    <3>2. \A k \in Logins : session'[k].url \in {session[k].url, once[k]}
      BY <2>3 DEF RecordUrl, LoginTypeOK, LoginSession
    <3> QED
      BY <3>1, <3>2 DEF OnlyOnceUrl
  <2>4. CASE SendUrl(l, s)
    <3>1. UNCHANGED <<session, once, exposed>>
      BY <2>4 DEF SendUrl
    <3>2. \A k \in Logins : urlCh'[k] \in {urlCh[k], once[k]}
      BY <2>4 DEF SendUrl, LoginTypeOK
    <3> QED
      BY <3>1, <3>2 DEF OnlyOnceUrl
  <2> QED
    BY <1>5, <2>1, <2>2, <2>3, <2>4 DEF Read
<1>6. ASSUME NEW l \in Logins, NEW p \in Pollers, PollLookup(p, l) PROVE OnlyOnceUrl'
  BY <1>0, <1>6 DEF PollLookup
<1>7. ASSUME NEW p \in Pollers, Poll(p) PROVE OnlyOnceUrl'
  <2>1. CASE PollUrl(p)
    <3>1. UNCHANGED <<session, urlCh, once>>
      BY <2>1 DEF PollUrl
    <3>2. \A k \in Logins : exposed'[k] \subseteq exposed[k] \cup ({session[k].url} \ {NoUrl})
      BY <2>1 DEF PollUrl, LoginTypeOK
    <3> QED
      BY <3>1, <3>2 DEF OnlyOnceUrl
  <2>2. CASE ~PollUrl(p)
    BY <1>0, <1>7, <2>2 DEF Poll, PollExpiry, PollDone, PollErr, PollStatus, Goto
  <2> QED
    BY <2>1, <2>2
<1> QED
  BY <1>1, <1>2, <1>3, <1>4, <1>5, <1>6, <1>7 DEF Next

-----------------------------------------------------------------------------
(* The result.                                                              *)

(* A step that touches login l alone, and not what a poll has read of it.   *)
LEMMA ReadsKept ==
  ASSUME LoginTypeOK, ResultInv, NEW l \in Logins,
         UNCHANGED <<poll, result>>,
         \A k \in Logins \ {l} : /\ session'[k] = session[k] /\ start'[k] = start[k]
                                  /\ run'[k] = run[k] /\ outcome'[k] = outcome[k],
         session[l].done => session'[l].done /\ (session'[l].err <=> session[l].err),
         start[l] = "already" => start'[l] = "already",
         run[l] = "ended" => run'[l] = "ended" /\ outcome'[l] = outcome[l]
  PROVE  ReadsStand' /\ SuccessOnlyAfterLogin'
<1>1. ReadsStand'
  <2> SUFFICES ASSUME NEW p \in Pollers, poll[p].at \in {"err", "status"}
               PROVE  /\ session'[poll[p].of].done
                      /\ poll[p].at = "status" => ~session'[poll[p].of].err
    BY DEF ReadsStand
  <2>1. poll[p].of \in Logins
    BY PollOf DEF PollSteps
  <2>2. /\ session[poll[p].of].done
        /\ poll[p].at = "status" => ~session[poll[p].of].err
    BY DEF ResultInv, ReadsStand
  <2> QED
    BY <2>1, <2>2
<1>2. SuccessOnlyAfterLogin'
  <2> SUFFICES ASSUME NEW p \in Pollers, result[p].kind = "success"
               PROVE  \/ start'[result[p].of] = "already"
                      \/ run'[result[p].of] = "ended" /\ outcome'[result[p].of] = "ok"
    BY DEF SuccessOnlyAfterLogin
  <2>1. result[p] \in ResultRecord
    BY DEF LoginTypeOK
  <2>2. result[p] \notin [kind : {"none"}]
    OBVIOUS
  <2>3. result[p].of \in Logins
    BY <2>1, <2>2 DEF ResultRecord
  <2>4. \/ start[result[p].of] = "already"
        \/ run[result[p].of] = "ended" /\ outcome[result[p].of] = "ok"
    BY DEF ResultInv, SuccessOnlyAfterLogin
  <2> QED
    BY <2>3, <2>4
<1> QED
  BY <1>1, <1>2

LEMMA ResultNext == LoginTypeOK /\ ResultInv /\ [Next]_vars => ResultInv'
<1> SUFFICES ASSUME LoginTypeOK, ResultInv, [Next]_vars PROVE ResultInv'
  OBVIOUS
<1> USE DEF startVars, runVars, agentVars, readVars, pollVars, pollUnchanged
<1>0. ASSUME UNCHANGED <<session, start, run, outcome, poll, result>>, known' \subseteq known
      PROVE  ResultInv'
  BY <1>0
  DEF ResultInv, RunAfterStart, OutcomeKnown, ErrWrittenFirst, DoneMeansEnded, ReadsStand,
      SuccessOnlyAfterLogin
<1>1. CASE Tick \/ CliAuthChanges \/ Shutdown \/ UNCHANGED vars
  BY <1>0, <1>1 DEF Tick, CliAuthChanges, Shutdown, vars
<1>2. ASSUME NEW l \in Logins, Start(l) PROVE ResultInv'
  <2>1. CASE StartLogin(l)
    <3>1. /\ UNCHANGED <<poll, result>>
          /\ \A k \in Logins \ {l} : /\ session'[k] = session[k] /\ start'[k] = start[k]
                                   /\ run'[k] = run[k] /\ outcome'[k] = outcome[k]
      BY <2>1 DEF StartLogin, LoginTypeOK
    <3>0. known' \subseteq known \cup {l}
      BY <2>1 DEF StartLogin
    <3>2. RunAfterStart' /\ OutcomeKnown'
      BY <2>1, <3>1 DEF StartLogin, LoginTypeOK, ResultInv, RunAfterStart, OutcomeKnown
    <3>3. ErrWrittenFirst' /\ DoneMeansEnded'
      BY <2>1, <3>0, <3>1
      DEF StartLogin, LoginTypeOK, LoginSession, ResultInv, RunAfterStart, OutcomeKnown,
          ErrWrittenFirst, DoneMeansEnded
    <3>4. /\ session[l].done => session'[l].done /\ (session'[l].err <=> session[l].err)
          /\ start[l] = "already" => start'[l] = "already"
          /\ run[l] = "ended" => run'[l] = "ended" /\ outcome'[l] = outcome[l]
      BY <2>1 DEF StartLogin, LoginTypeOK, LoginSession, ResultInv, RunAfterStart, DoneMeansEnded
    <3>5. ReadsStand' /\ SuccessOnlyAfterLogin'
      BY <3>1, <3>4, ReadsKept
    <3> QED
      BY <3>2, <3>3, <3>5 DEF ResultInv
  <2>2. CASE StartAlready(l)
    <3>1. /\ UNCHANGED <<poll, result>>
          /\ \A k \in Logins \ {l} : /\ session'[k] = session[k] /\ start'[k] = start[k]
                                   /\ run'[k] = run[k] /\ outcome'[k] = outcome[k]
      BY <2>2 DEF StartAlready, NewSession, LoginTypeOK
    <3>0. known' \subseteq known \cup {l}
      BY <2>2 DEF StartAlready, NewSession
    <3>2. RunAfterStart' /\ OutcomeKnown'
      BY <2>2, <3>1 DEF StartAlready, NewSession, LoginTypeOK, ResultInv, RunAfterStart, OutcomeKnown
    <3>3. ErrWrittenFirst' /\ DoneMeansEnded'
      BY <2>2, <3>0, <3>1
      DEF StartAlready, NewSession, LoginTypeOK, LoginSession, ResultInv, RunAfterStart, OutcomeKnown,
          ErrWrittenFirst, DoneMeansEnded
    <3>4. /\ session[l].done => session'[l].done /\ (session'[l].err <=> session[l].err)
          /\ start[l] = "already" => start'[l] = "already"
          /\ run[l] = "ended" => run'[l] = "ended" /\ outcome'[l] = outcome[l]
      BY <2>2 DEF StartAlready, NewSession, LoginTypeOK, LoginSession, ResultInv, RunAfterStart, DoneMeansEnded
    <3>5. ReadsStand' /\ SuccessOnlyAfterLogin'
      BY <3>1, <3>4, ReadsKept
    <3> QED
      BY <3>2, <3>3, <3>5 DEF ResultInv
  <2>3. CASE StartRun(l)
    <3>1. /\ UNCHANGED <<poll, result>>
          /\ \A k \in Logins \ {l} : /\ session'[k] = session[k] /\ start'[k] = start[k]
                                   /\ run'[k] = run[k] /\ outcome'[k] = outcome[k]
      BY <2>3 DEF StartRun, NewSession, LoginTypeOK
    <3>0. known' \subseteq known \cup {l}
      BY <2>3 DEF StartRun, NewSession
    <3>2. RunAfterStart' /\ OutcomeKnown'
      BY <2>3, <3>1 DEF StartRun, NewSession, LoginTypeOK, ResultInv, RunAfterStart, OutcomeKnown
    <3>3. ErrWrittenFirst' /\ DoneMeansEnded'
      BY <2>3, <3>0, <3>1
      DEF StartRun, NewSession, LoginTypeOK, LoginSession, ResultInv, RunAfterStart, OutcomeKnown,
          ErrWrittenFirst, DoneMeansEnded
    <3>4. /\ session[l].done => session'[l].done /\ (session'[l].err <=> session[l].err)
          /\ start[l] = "already" => start'[l] = "already"
          /\ run[l] = "ended" => run'[l] = "ended" /\ outcome'[l] = outcome[l]
      BY <2>3 DEF StartRun, NewSession, LoginTypeOK, LoginSession, ResultInv, RunAfterStart, DoneMeansEnded
    <3>5. ReadsStand' /\ SuccessOnlyAfterLogin'
      BY <3>1, <3>4, ReadsKept
    <3> QED
      BY <3>2, <3>3, <3>5 DEF ResultInv
  <2>4. CASE StartUrl(l)
    <3>1. /\ UNCHANGED <<poll, result>>
          /\ \A k \in Logins \ {l} : /\ session'[k] = session[k] /\ start'[k] = start[k]
                                   /\ run'[k] = run[k] /\ outcome'[k] = outcome[k]
      BY <2>4 DEF StartUrl, LoginTypeOK
    <3>0. known' \subseteq known \cup {l}
      BY <2>4 DEF StartUrl
    <3>2. RunAfterStart' /\ OutcomeKnown'
      BY <2>4, <3>1 DEF StartUrl, LoginTypeOK, ResultInv, RunAfterStart, OutcomeKnown
    <3>3. ErrWrittenFirst' /\ DoneMeansEnded'
      BY <2>4, <3>0, <3>1
      DEF StartUrl, LoginTypeOK, LoginSession, ResultInv, RunAfterStart, OutcomeKnown,
          ErrWrittenFirst, DoneMeansEnded
    <3>4. /\ session[l].done => session'[l].done /\ (session'[l].err <=> session[l].err)
          /\ start[l] = "already" => start'[l] = "already"
          /\ run[l] = "ended" => run'[l] = "ended" /\ outcome'[l] = outcome[l]
      BY <2>4 DEF StartUrl, LoginTypeOK, LoginSession, ResultInv, RunAfterStart, DoneMeansEnded
    <3>5. ReadsStand' /\ SuccessOnlyAfterLogin'
      BY <3>1, <3>4, ReadsKept
    <3> QED
      BY <3>2, <3>3, <3>5 DEF ResultInv
  <2>5. CASE StartNoUrl(l)
    <3>1. /\ UNCHANGED <<poll, result>>
          /\ \A k \in Logins \ {l} : /\ session'[k] = session[k] /\ start'[k] = start[k]
                                   /\ run'[k] = run[k] /\ outcome'[k] = outcome[k]
      BY <2>5 DEF StartNoUrl, LoginTypeOK
    <3>0. known' \subseteq known \cup {l}
      BY <2>5 DEF StartNoUrl
    <3>2. RunAfterStart' /\ OutcomeKnown'
      BY <2>5, <3>1 DEF StartNoUrl, LoginTypeOK, ResultInv, RunAfterStart, OutcomeKnown
    <3>3. ErrWrittenFirst' /\ DoneMeansEnded'
      BY <2>5, <3>0, <3>1
      DEF StartNoUrl, LoginTypeOK, LoginSession, ResultInv, RunAfterStart, OutcomeKnown,
          ErrWrittenFirst, DoneMeansEnded
    <3>4. /\ session[l].done => session'[l].done /\ (session'[l].err <=> session[l].err)
          /\ start[l] = "already" => start'[l] = "already"
          /\ run[l] = "ended" => run'[l] = "ended" /\ outcome'[l] = outcome[l]
      BY <2>5 DEF StartNoUrl, LoginTypeOK, LoginSession, ResultInv, RunAfterStart, DoneMeansEnded
    <3>5. ReadsStand' /\ SuccessOnlyAfterLogin'
      BY <3>1, <3>4, ReadsKept
    <3> QED
      BY <3>2, <3>3, <3>5 DEF ResultInv
  <2> QED
    BY <1>2, <2>1, <2>2, <2>3, <2>4, <2>5 DEF Start
<1>3. ASSUME NEW l \in Logins, Run(l) PROVE ResultInv'
  <2>1. CASE RunEnter(l)
    <3>1. /\ UNCHANGED <<poll, result>>
          /\ \A k \in Logins \ {l} : /\ session'[k] = session[k] /\ start'[k] = start[k]
                                   /\ run'[k] = run[k] /\ outcome'[k] = outcome[k]
      BY <2>1 DEF RunEnter, Return, LoginTypeOK
    <3>0. known' \subseteq known \cup {l}
      BY <2>1 DEF RunEnter, Return
    <3>2. RunAfterStart' /\ OutcomeKnown'
      BY <2>1, <3>1 DEF RunEnter, Return, LoginTypeOK, ResultInv, RunAfterStart, OutcomeKnown
    <3>3. ErrWrittenFirst' /\ DoneMeansEnded'
      <4>1. /\ known' = known /\ start' = start /\ session' = session
            /\ run[l] = "entering" /\ run'[l] # "ending"
        BY <2>1 DEF RunEnter, Return, LoginTypeOK
      <4>2. ErrWrittenFirst'
        BY <3>1, <4>1 DEF LoginTypeOK, ResultInv, ErrWrittenFirst
      <4>3. ~session[l].done
        BY <4>1 DEF ResultInv, RunAfterStart, DoneMeansEnded
      <4>4. DoneMeansEnded'
        BY <3>1, <4>1, <4>3 DEF ResultInv, DoneMeansEnded
      <4> QED
        BY <4>2, <4>4
    <3>4. /\ session[l].done => session'[l].done /\ (session'[l].err <=> session[l].err)
          /\ start[l] = "already" => start'[l] = "already"
          /\ run[l] = "ended" => run'[l] = "ended" /\ outcome'[l] = outcome[l]
      BY <2>1 DEF RunEnter, Return, LoginTypeOK, LoginSession, ResultInv, RunAfterStart, DoneMeansEnded
    <3>5. ReadsStand' /\ SuccessOnlyAfterLogin'
      BY <3>1, <3>4, ReadsKept
    <3> QED
      BY <3>2, <3>3, <3>5 DEF ResultInv
  <2>2. CASE SelectDone(l)
    <3>1. /\ UNCHANGED <<poll, result>>
          /\ \A k \in Logins \ {l} : /\ session'[k] = session[k] /\ start'[k] = start[k]
                                   /\ run'[k] = run[k] /\ outcome'[k] = outcome[k]
      BY <2>2 DEF SelectDone, LoginTypeOK
    <3>0. known' \subseteq known \cup {l}
      BY <2>2 DEF SelectDone
    <3>2. RunAfterStart' /\ OutcomeKnown'
      BY <2>2, <3>1 DEF SelectDone, LoginTypeOK, ResultInv, RunAfterStart, OutcomeKnown
    <3>3. ErrWrittenFirst' /\ DoneMeansEnded'
      BY <2>2, <3>0, <3>1
      DEF SelectDone, LoginTypeOK, LoginSession, ResultInv, RunAfterStart, OutcomeKnown,
          ErrWrittenFirst, DoneMeansEnded
    <3>4. /\ session[l].done => session'[l].done /\ (session'[l].err <=> session[l].err)
          /\ start[l] = "already" => start'[l] = "already"
          /\ run[l] = "ended" => run'[l] = "ended" /\ outcome'[l] = outcome[l]
      BY <2>2 DEF SelectDone, LoginTypeOK, LoginSession, ResultInv, RunAfterStart, DoneMeansEnded
    <3>5. ReadsStand' /\ SuccessOnlyAfterLogin'
      BY <3>1, <3>4, ReadsKept
    <3> QED
      BY <3>2, <3>3, <3>5 DEF ResultInv
  <2>3. CASE Drained(l)
    <3>1. /\ UNCHANGED <<poll, result>>
          /\ \A k \in Logins \ {l} : /\ session'[k] = session[k] /\ start'[k] = start[k]
                                   /\ run'[k] = run[k] /\ outcome'[k] = outcome[k]
      BY <2>3 DEF Drained, Return, LoginTypeOK
    <3>0. known' \subseteq known \cup {l}
      BY <2>3 DEF Drained, Return
    <3>2. RunAfterStart' /\ OutcomeKnown'
      BY <2>3, <3>1 DEF Drained, Return, LoginTypeOK, ResultInv, RunAfterStart, OutcomeKnown
    <3>3. ErrWrittenFirst' /\ DoneMeansEnded'
      BY <2>3, <3>0, <3>1
      DEF Drained, Return, LoginTypeOK, LoginSession, ResultInv, RunAfterStart, OutcomeKnown,
          ErrWrittenFirst, DoneMeansEnded
    <3>4. /\ session[l].done => session'[l].done /\ (session'[l].err <=> session[l].err)
          /\ start[l] = "already" => start'[l] = "already"
          /\ run[l] = "ended" => run'[l] = "ended" /\ outcome'[l] = outcome[l]
      BY <2>3 DEF Drained, Return, LoginTypeOK, LoginSession, ResultInv, RunAfterStart, DoneMeansEnded
    <3>5. ReadsStand' /\ SuccessOnlyAfterLogin'
      BY <3>1, <3>4, ReadsKept
    <3> QED
      BY <3>2, <3>3, <3>5 DEF ResultInv
  <2>4. CASE SelectTimeout(l)
    <3>1. /\ UNCHANGED <<poll, result>>
          /\ \A k \in Logins \ {l} : /\ session'[k] = session[k] /\ start'[k] = start[k]
                                   /\ run'[k] = run[k] /\ outcome'[k] = outcome[k]
      BY <2>4 DEF SelectTimeout, LoginTypeOK
    <3>0. known' \subseteq known \cup {l}
      BY <2>4 DEF SelectTimeout
    <3>2. RunAfterStart' /\ OutcomeKnown'
      BY <2>4, <3>1 DEF SelectTimeout, LoginTypeOK, ResultInv, RunAfterStart, OutcomeKnown
    <3>3. ErrWrittenFirst' /\ DoneMeansEnded'
      BY <2>4, <3>0, <3>1
      DEF SelectTimeout, LoginTypeOK, LoginSession, ResultInv, RunAfterStart, OutcomeKnown,
          ErrWrittenFirst, DoneMeansEnded
    <3>4. /\ session[l].done => session'[l].done /\ (session'[l].err <=> session[l].err)
          /\ start[l] = "already" => start'[l] = "already"
          /\ run[l] = "ended" => run'[l] = "ended" /\ outcome'[l] = outcome[l]
      BY <2>4 DEF SelectTimeout, LoginTypeOK, LoginSession, ResultInv, RunAfterStart, DoneMeansEnded
    <3>5. ReadsStand' /\ SuccessOnlyAfterLogin'
      BY <3>1, <3>4, ReadsKept
    <3> QED
      BY <3>2, <3>3, <3>5 DEF ResultInv
  <2>5. CASE Killed(l)
    <3>1. /\ UNCHANGED <<poll, result>>
          /\ \A k \in Logins \ {l} : /\ session'[k] = session[k] /\ start'[k] = start[k]
                                   /\ run'[k] = run[k] /\ outcome'[k] = outcome[k]
      BY <2>5 DEF Killed, Return, LoginTypeOK
    <3>0. known' \subseteq known \cup {l}
      BY <2>5 DEF Killed, Return
    <3>2. RunAfterStart' /\ OutcomeKnown'
      BY <2>5, <3>1 DEF Killed, Return, LoginTypeOK, ResultInv, RunAfterStart, OutcomeKnown
    <3>3. ErrWrittenFirst' /\ DoneMeansEnded'
      BY <2>5, <3>0, <3>1
      DEF Killed, Return, LoginTypeOK, LoginSession, ResultInv, RunAfterStart, OutcomeKnown,
          ErrWrittenFirst, DoneMeansEnded
    <3>4. /\ session[l].done => session'[l].done /\ (session'[l].err <=> session[l].err)
          /\ start[l] = "already" => start'[l] = "already"
          /\ run[l] = "ended" => run'[l] = "ended" /\ outcome'[l] = outcome[l]
      BY <2>5 DEF Killed, Return, LoginTypeOK, LoginSession, ResultInv, RunAfterStart, DoneMeansEnded
    <3>5. ReadsStand' /\ SuccessOnlyAfterLogin'
      BY <3>1, <3>4, ReadsKept
    <3> QED
      BY <3>2, <3>3, <3>5 DEF ResultInv
  <2>6. CASE WriteErr(l)
    <3>1. /\ UNCHANGED <<poll, result>>
          /\ \A k \in Logins \ {l} : /\ session'[k] = session[k] /\ start'[k] = start[k]
                                   /\ run'[k] = run[k] /\ outcome'[k] = outcome[k]
      BY <2>6 DEF WriteErr, LoginTypeOK
    <3>0. known' \subseteq known \cup {l}
      BY <2>6 DEF WriteErr
    <3>2. RunAfterStart' /\ OutcomeKnown'
      BY <2>6, <3>1 DEF WriteErr, LoginTypeOK, ResultInv, RunAfterStart, OutcomeKnown
    <3>3. ErrWrittenFirst' /\ DoneMeansEnded'
      <4>1. /\ known' = known /\ start' = start /\ outcome' = outcome
            /\ run[l] = "returned" /\ run'[l] = "ending"
        BY <2>6 DEF WriteErr, LoginTypeOK
      <4>2. ErrWrittenFirst'
        BY <2>6, <3>1, <4>1, ErrWritten DEF LoginTypeOK, ResultInv, ErrWrittenFirst
      <4>3. ~session[l].done
        BY <4>1 DEF ResultInv, RunAfterStart, DoneMeansEnded
      <4>4. DoneMeansEnded'
        BY <2>6, <3>1, <4>1, <4>3, ErrWritten DEF ResultInv, DoneMeansEnded
      <4> QED
        BY <4>2, <4>4
    <3>4. /\ session[l].done => session'[l].done /\ (session'[l].err <=> session[l].err)
          /\ start[l] = "already" => start'[l] = "already"
          /\ run[l] = "ended" => run'[l] = "ended" /\ outcome'[l] = outcome[l]
      BY <2>6 DEF WriteErr, LoginTypeOK, LoginSession, ResultInv, RunAfterStart, DoneMeansEnded
    <3>5. ReadsStand' /\ SuccessOnlyAfterLogin'
      BY <3>1, <3>4, ReadsKept
    <3> QED
      BY <3>2, <3>3, <3>5 DEF ResultInv
  <2>7. CASE WriteDone(l)
    <3>1. /\ UNCHANGED <<poll, result>>
          /\ \A k \in Logins \ {l} : /\ session'[k] = session[k] /\ start'[k] = start[k]
                                   /\ run'[k] = run[k] /\ outcome'[k] = outcome[k]
      BY <2>7 DEF WriteDone, LoginTypeOK
    <3>0. known' \subseteq known \cup {l}
      BY <2>7 DEF WriteDone
    <3>2. RunAfterStart' /\ OutcomeKnown'
      BY <2>7, <3>1 DEF WriteDone, LoginTypeOK, ResultInv, RunAfterStart, OutcomeKnown
    <3>3. ErrWrittenFirst' /\ DoneMeansEnded'
      BY <2>7, <3>0, <3>1
      DEF WriteDone, LoginTypeOK, LoginSession, ResultInv, RunAfterStart, OutcomeKnown,
          ErrWrittenFirst, DoneMeansEnded
    <3>4. /\ session[l].done => session'[l].done /\ (session'[l].err <=> session[l].err)
          /\ start[l] = "already" => start'[l] = "already"
          /\ run[l] = "ended" => run'[l] = "ended" /\ outcome'[l] = outcome[l]
      BY <2>7 DEF WriteDone, LoginTypeOK, LoginSession, ResultInv, RunAfterStart, DoneMeansEnded
    <3>5. ReadsStand' /\ SuccessOnlyAfterLogin'
      BY <3>1, <3>4, ReadsKept
    <3> QED
      BY <3>2, <3>3, <3>5 DEF ResultInv
  <2> QED
    BY <1>3, <2>1, <2>2, <2>3, <2>4, <2>5, <2>6, <2>7 DEF Run
<1>4. ASSUME NEW l \in Logins, AgentExit(l) \/ WaitReturns(l) PROVE ResultInv'
  BY <1>0, <1>4 DEF AgentExit, WaitReturns
<1>5. ASSUME NEW l \in Logins, NEW s \in Streams, PrintUrl(l, s) \/ Read(l, s) \/ ReaderStops(l, s)
      PROVE  ResultInv'
  <2>1. CASE PrintUrl(l, s) \/ ReaderStops(l, s) \/ ReaderEnds(l, s) \/ ReadLine(l, s) \/ SendUrl(l, s)
    BY <1>0, <2>1 DEF PrintUrl, ReaderStops, ReaderEnds, ReadLine, SendUrl
  <2>2. CASE RecordUrl(l, s)
    <3>1. UNCHANGED <<start, run, outcome, poll, result, known>>
      BY <2>2 DEF RecordUrl
    <3>2. \A k \in Logins : /\ session'[k].done = session[k].done
                            /\ session'[k].err = session[k].err
      BY <2>2 DEF RecordUrl, LoginTypeOK, LoginSession
    <3>3. RunAfterStart' /\ OutcomeKnown' /\ ErrWrittenFirst' /\ DoneMeansEnded'
      BY <3>1, <3>2
      DEF LoginTypeOK, ResultInv, RunAfterStart, OutcomeKnown, ErrWrittenFirst, DoneMeansEnded
    <3>4. \A k \in Logins \ {l} : session'[k] = session[k]
      BY <2>2 DEF RecordUrl, LoginTypeOK
    <3>5. ReadsStand' /\ SuccessOnlyAfterLogin'
      BY <3>1, <3>2, <3>4, ReadsKept
    <3> QED
      BY <3>3, <3>5 DEF ResultInv
  <2> QED
    BY <1>5, <2>1, <2>2 DEF Read
<1>P. ASSUME UNCHANGED <<known, session, start, run, outcome>>, NEW p \in Pollers,
             \A q \in Pollers \ {p} : poll'[q] = poll[q] /\ result'[q] = result[q],
             poll'[p].at \in {"err", "status"} => session[poll'[p].of].done,
             poll'[p].at = "status" => ~session[poll'[p].of].err,
             result'[p].kind = "success" =>
               \/ start[result'[p].of] = "already"
               \/ run[result'[p].of] = "ended" /\ outcome[result'[p].of] = "ok"
      PROVE  ResultInv'
  <2>1. RunAfterStart' /\ OutcomeKnown' /\ ErrWrittenFirst' /\ DoneMeansEnded'
    BY <1>P DEF ResultInv, RunAfterStart, OutcomeKnown, ErrWrittenFirst, DoneMeansEnded
  <2>2. ReadsStand'
    BY <1>P DEF ResultInv, ReadsStand
  <2>3. SuccessOnlyAfterLogin'
    BY <1>P DEF ResultInv, SuccessOnlyAfterLogin
  <2> QED
    BY <2>1, <2>2, <2>3 DEF ResultInv
<1>6. ASSUME NEW l \in Logins, NEW p \in Pollers, PollLookup(p, l) PROVE ResultInv'
  <2>1. poll[p].at = "idle" /\ UNCHANGED <<known, session, start, run, outcome>>
    BY <1>6 DEF PollLookup, At
  <2>2. \A q \in Pollers \ {p} : poll'[q] = poll[q] /\ result'[q] = result[q]
    BY <1>6 DEF PollLookup, LoginTypeOK
  <2>3. poll'[p].at \in {"idle", "expiry"}
    BY <1>6, <2>1 DEF PollLookup, LoginTypeOK
  <2>4. result'[p].kind \in {"none", "unknown"}
    BY <1>6 DEF PollLookup, LoginTypeOK
  <2> QED
    BY <2>1, <2>2, <2>3, <2>4, <1>P
<1>7. ASSUME NEW p \in Pollers, Poll(p) PROVE ResultInv'
  <2>1. poll[p].at \in PollSteps
    BY <1>7 DEF Poll, PollExpiry, PollDone, PollUrl, PollErr, PollStatus, At, PollSteps
  <2>2. UNCHANGED <<known, session, start, run, outcome>>
    BY <1>7 DEF Poll, PollExpiry, PollDone, PollUrl, PollErr, PollStatus
  <2>3. poll[p].of \in Logins
    BY <2>1, PollOf
  <2>4. ASSUME NEW kind \in {"expired", "pending", "error", "unconfirmed"}, Answer(p, kind)
        PROVE  ResultInv'
    BY <1>P, <2>1, <2>2, <2>4, AnswerFacts
  <2>5. ASSUME NEW step \in PollSteps, Goto(p, step),
               step \in {"err", "status"} => session[poll[p].of].done,
               step = "status" => ~session[poll[p].of].err
        PROVE  ResultInv'
    <3>1. /\ poll'[p].at = step /\ poll'[p].of = poll[p].of
          /\ \A q \in Pollers \ {p} : poll'[q] = poll[q]
          /\ result' = result
      BY <2>1, <2>5, GotoFacts
    <3>2. result[p].kind = "success" =>
            \/ start[result[p].of] = "already"
            \/ run[result[p].of] = "ended" /\ outcome[result[p].of] = "ok"
      BY DEF ResultInv, SuccessOnlyAfterLogin
    <3> QED
      BY <1>P, <2>2, <2>5, <3>1, <3>2
  <2>6. CASE PollExpiry(p)
    BY <2>4, <2>5, <2>6 DEF PollExpiry, PollSteps
  <2>7. CASE PollDone(p)
    BY <2>5, <2>7 DEF PollDone, PollSteps
  <2>8. CASE PollUrl(p)
    BY <2>4, <2>8 DEF PollUrl
  <2>9. CASE PollErr(p)
    <3>1. session[poll[p].of].done
      BY <2>9 DEF PollErr, At, ResultInv, ReadsStand
    <3> QED
      BY <2>4, <2>5, <2>9, <3>1 DEF PollErr, PollSteps
  <2>10. CASE PollStatus(p)
    <3>1. session[poll[p].of].done /\ ~session[poll[p].of].err
      BY <2>10 DEF PollStatus, At, ResultInv, ReadsStand
    <3>2. \/ start[poll[p].of] = "already"
          \/ run[poll[p].of] = "ended" /\ outcome[poll[p].of] = "ok"
      BY <2>3, <3>1 DEF ResultInv, DoneMeansEnded, OutcomeKnown
    <3>3. CASE Answer(p, "success")
      <4>1. /\ poll'[p].at = "idle" /\ result'[p].of = poll[p].of
            /\ \A q \in Pollers \ {p} : poll'[q] = poll[q] /\ result'[q] = result[q]
        BY <2>1, <3>3, AnswerFacts
      <4> QED
        BY <1>P, <2>2, <3>2, <4>1
    <3> QED
      BY <2>4, <2>10, <3>3 DEF PollStatus
  <2> QED
    BY <1>7, <2>6, <2>7, <2>8, <2>9, <2>10 DEF Poll
<1> QED
  BY <1>1, <1>2, <1>3, <1>4, <1>5, <1>6, <1>7 DEF Next

LEMMA LoginAlways == Spec => []LoginInv
<1>1. LoginInv /\ [Next]_vars => LoginInv'
  BY LoginTypeNext, UrlNext, ResultNext DEF LoginInv
<1> QED
  BY <1>1, LoginInit, PTL DEF Spec

-----------------------------------------------------------------------------
(* One login shows at most one approval URL, whatever its agent prints on   *)
(* both streams, in the answer and in all polls together (auth.go: foundOnce*)
(* in runAgentLoginStreaming).                                              *)
THEOREM AtMostOneUrl == Spec => []OneApprovalUrl
<1>1. LoginInv => OneApprovalUrl
  <2> SUFFICES ASSUME LoginInv, NEW l \in Logins PROVE Cardinality(exposed[l]) <= 1
    BY DEF OneApprovalUrl
  <2>1. exposed[l] \subseteq {once[l]}
    BY DEF LoginInv, OnlyOnceUrl
  <2>2. IsFiniteSet({once[l]}) /\ Cardinality({once[l]}) = 1
    BY FS_Singleton
  <2> QED
    BY <2>1, <2>2, FS_Subset
<1> QED
  BY <1>1, LoginAlways, PTL

(* A poll that reports success is about a login that ended without an error *)
(* or that found the CLI logged in, for any interleaving of unlocked reads  *)
(* and locked writes (auth.go:77-81 against :103, :109).                    *)
THEOREM NoFalseSuccess == Spec => []SuccessOnlyAfterLogin
<1>1. LoginInv => SuccessOnlyAfterLogin
  BY DEF LoginInv, ResultInv
<1> QED
  BY <1>1, LoginAlways, PTL
=============================================================================
