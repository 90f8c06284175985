------------------------- MODULE AgentProcessProofs --------------------------
(***************************************************************************)
(* Proofs about AgentProcess, for any set of descendants, any limits and   *)
(* any amount of output.  Plugin implements ProcessSpec (RunsAreProcesses, *)
(* a property of the run plugin), so the theorems hold of its runs.        *)
(***************************************************************************)
EXTENDS AgentProcess, TLAPS

ProcessTypeOK ==
  /\ leader \in {"none", "alive", "zombie", "reaped"}
  /\ child \in [Descendants -> {"none", "alive", "dead"}]
  /\ inGroup \subseteq Descendants
  /\ onPipe \subseteq Descendants
  /\ failed \in BOOLEAN
  /\ ctx \in {"live", "done"}
  /\ wait \in {"running", "done"}
  /\ printed \in Nat
  /\ inPipe \in Nat
  /\ stdout \in [limit : Nat, len : Nat, truncated : BOOLEAN]
  /\ runner \in {"none", "select", "kill", "grace"} \cup Returned

(* Once the group has been killed the leader does not run any more.         *)
KilledBeforeGrace ==
  runner \in {"grace", "timedOut", "abandoned"} => leader # "alive"

(* The result of cmd.Wait is there only when the leader is reaped and every *)
(* writer is gone; neither ever comes back.                                 *)
WaitedForAll == runner # "none" /\ wait = "done" => leader = "reaped" /\ PipesClosed

(* The ways back that read the result of cmd.Wait.                          *)
ReturnsAfterWait == runner \in {"exited", "timedOut"} => wait = "done"

(* What was copied is in the buffer up to the limit, and only an excess     *)
(* marks the buffer: however the copying was split.                         *)
Copied == printed - inPipe

BufferHoldsCopied ==
  runner # "none" =>
    /\ inPipe <= printed
    /\ stdout.limit > 0
    /\ stdout.len = IF Copied <= stdout.limit THEN Copied ELSE stdout.limit
    /\ stdout.truncated <=> Copied > stdout.limit

(* The result that runAgent computed stays the one its sources give.        *)
ResultStands ==
  runner = "exited" =>
    result = IF stdout.truncated THEN "cursor_stdout_limit"
             ELSE IF failed THEN "cursor_agent_error" ELSE "ok"

ProcessInv ==
  /\ ProcessTypeOK
  /\ KilledBeforeGrace
  /\ WaitedForAll
  /\ ReturnsAfterWait
  /\ BufferHoldsCopied
  /\ ResultStands

-----------------------------------------------------------------------------
LEMMA ProcessInit == Init => ProcessInv
<1> SUFFICES ASSUME Init PROVE ProcessInv
  OBVIOUS
<1>1. ProcessTypeOK
  BY DEF Init, ProcessTypeOK, EmptyBuffer
<1> QED
  BY <1>1
  DEF Init, ProcessInv, KilledBeforeGrace, WaitedForAll, ReturnsAfterWait,
      BufferHoldsCopied, ResultStands

(* What limitedBuffer.Write does to a buffer that holds the first c bytes   *)
(* up to its limit: it then holds the first c + n.                          *)
LEMMA LimitedWriteHolds ==
  ASSUME NEW b \in [limit : Nat, len : Nat, truncated : BOOLEAN],
         NEW c \in Nat, NEW n \in Nat, b.limit > 0,
         b.len = IF c <= b.limit THEN c ELSE b.limit,
         b.truncated <=> c > b.limit
  PROVE  LET w == LimitedWrite(b, n) IN
         /\ w \in [limit : Nat, len : Nat, truncated : BOOLEAN]
         /\ w.limit = b.limit
         /\ w.len = IF c + n <= b.limit THEN c + n ELSE b.limit
         /\ w.truncated <=> c + n > b.limit
<1>1. CASE n > b.limit - b.len
  <2>1. LimitedWrite(b, n) = [b EXCEPT !.len = b.limit, !.truncated = TRUE]
    BY <1>1 DEF LimitedWrite
  <2>2. b.limit \in Nat /\ b.len \in Nat
    OBVIOUS
  <2>3. c + n > b.limit
    <3>1. CASE c <= b.limit
      BY <1>1, <2>2, <3>1
    <3>2. CASE ~(c <= b.limit)
      BY <2>2, <3>2
    <3> QED
      BY <3>1, <3>2
  <2>4. LimitedWrite(b, n).len = b.limit /\ LimitedWrite(b, n).truncated
    BY <2>1
  <2>5. LimitedWrite(b, n) \in [limit : Nat, len : Nat, truncated : BOOLEAN]
    BY <2>1, <2>2
  <2>6. LimitedWrite(b, n).limit = b.limit
    BY <2>1
  <2> QED
    BY <2>2, <2>3, <2>4, <2>5, <2>6
<1>2. CASE ~(n > b.limit - b.len)
  <2>1. LimitedWrite(b, n) = [b EXCEPT !.len = @ + n]
    BY <1>2 DEF LimitedWrite
  <2> QED
    BY <1>2, <2>1
<1> QED
  BY <1>1, <1>2

(* Steps of the processes and of runAgent leave the buffer alone.           *)
LEMMA BufferKept ==
  ASSUME BufferHoldsCopied, UNCHANGED output, runner # "none"
  PROVE  BufferHoldsCopied'
BY DEF BufferHoldsCopied, Copied, output

LEMMA ProcessNextInv == ProcessInv /\ [ProcessNext]_process => ProcessInv'
<1> SUFFICES ASSUME ProcessInv, [ProcessNext]_process PROVE ProcessInv'
  OBVIOUS
<1> USE DEF Returned, processes
<1>T. ProcessTypeOK
  BY DEF ProcessInv
<1>1. CASE runner = "none" /\ \E limit \in Limits : Start(limit)
  <2>1. PICK limit \in Limits : Start(limit)
    BY <1>1
  <2>2. limit \in Nat /\ limit > 0
    BY LimitsAssumption
  <2>3. ProcessTypeOK'
    BY <2>1, <2>2 DEF Start, EmptyBuffer, ProcessTypeOK
  <2>4. BufferHoldsCopied'
    BY <2>1, <2>2 DEF Start, EmptyBuffer, BufferHoldsCopied, Copied
  <2> QED
    BY <2>1, <2>3, <2>4
    DEF Start, ProcessInv, KilledBeforeGrace, WaitedForAll, ReturnsAfterWait, ResultStands
<1>2. CASE runner \in Returned /\ Forgotten
  BY <1>2
  DEF Forgotten, EmptyBuffer, ProcessInv, ProcessTypeOK, KilledBeforeGrace,
      WaitedForAll, ReturnsAfterWait, BufferHoldsCopied, ResultStands
<1>3. CASE runner # "none" /\ ProcessStep
  <2>1. CASE \E d \in Descendants : Fork(d)
    <3>1. PICK d \in Descendants : Fork(d)
      BY <2>1
    <3>2. ProcessTypeOK'
      BY <1>T, <3>1 DEF Fork, output, ProcessTypeOK
    <3>3. BufferHoldsCopied'
      BY <1>3, <3>1, BufferKept DEF Fork, ProcessInv
    <3>4. KilledBeforeGrace' /\ ReturnsAfterWait' /\ ResultStands'
      BY <1>T, <1>3, <3>1
      DEF Fork, output, ProcessInv, ProcessTypeOK, KilledBeforeGrace, WaitedForAll,
          ReturnsAfterWait, ResultStands
    <3>5. WaitedForAll'
      BY <1>T, <1>3, <3>1
      DEF Fork, output, ProcessInv, ProcessTypeOK, WaitedForAll, PipesClosed
    <3> QED
      BY <3>2, <3>3, <3>4, <3>5 DEF ProcessInv
  <2>2. CASE \E d \in Descendants : ChildExit(d)
    <3>1. PICK d \in Descendants : ChildExit(d)
      BY <2>2
    <3>2. ProcessTypeOK'
      BY <1>T, <3>1 DEF ChildExit, output, ProcessTypeOK
    <3>3. BufferHoldsCopied'
      BY <1>3, <3>1, BufferKept DEF ChildExit, ProcessInv
    <3>4. KilledBeforeGrace' /\ ReturnsAfterWait' /\ ResultStands'
      BY <1>T, <1>3, <3>1
      DEF ChildExit, output, ProcessInv, ProcessTypeOK, KilledBeforeGrace, WaitedForAll,
          ReturnsAfterWait, ResultStands
    <3>5. WaitedForAll'
      BY <1>T, <1>3, <3>1
      DEF ChildExit, output, ProcessInv, ProcessTypeOK, WaitedForAll, PipesClosed
    <3> QED
      BY <3>2, <3>3, <3>4, <3>5 DEF ProcessInv
  <2>3. CASE WriteStdout
    <3>2. ProcessTypeOK'
      BY <1>T, <2>3 DEF WriteStdout, Writers, output, ProcessTypeOK
    <3>3. BufferHoldsCopied'
      BY <1>T, <1>3, <2>3
      DEF WriteStdout, ProcessInv, ProcessTypeOK, BufferHoldsCopied, Copied
    <3>4. KilledBeforeGrace' /\ ReturnsAfterWait' /\ ResultStands'
      BY <1>T, <1>3, <2>3
      DEF WriteStdout, Writers, output, ProcessInv, ProcessTypeOK, KilledBeforeGrace, WaitedForAll,
          ReturnsAfterWait, ResultStands
    <3>5. WaitedForAll'
      BY <1>T, <1>3, <2>3
      DEF WriteStdout, Writers, output, ProcessInv, ProcessTypeOK, WaitedForAll, PipesClosed
    <3> QED
      BY <3>2, <3>3, <3>4, <3>5 DEF ProcessInv
  <2>4. CASE LeaderExit
    <3>2. ProcessTypeOK'
      BY <1>T, <2>4 DEF LeaderExit, output, ProcessTypeOK
    <3>3. BufferHoldsCopied'
      BY <1>3, <2>4, BufferKept DEF LeaderExit, ProcessInv
    <3>4. KilledBeforeGrace' /\ ReturnsAfterWait' /\ ResultStands'
      BY <1>T, <1>3, <2>4
      DEF LeaderExit, output, ProcessInv, ProcessTypeOK, KilledBeforeGrace, WaitedForAll,
          ReturnsAfterWait, ResultStands
    <3>5. WaitedForAll'
      BY <1>T, <1>3, <2>4
      DEF LeaderExit, output, ProcessInv, ProcessTypeOK, WaitedForAll, PipesClosed
    <3> QED
      BY <3>2, <3>3, <3>4, <3>5 DEF ProcessInv
  <2>5. CASE WatchCtx
    <3>2. ProcessTypeOK'
      BY <1>T, <2>5 DEF WatchCtx, output, ProcessTypeOK
    <3>3. BufferHoldsCopied'
      BY <1>3, <2>5, BufferKept DEF WatchCtx, ProcessInv
    <3>4. KilledBeforeGrace' /\ ReturnsAfterWait' /\ ResultStands'
      BY <1>T, <1>3, <2>5
      DEF WatchCtx, output, ProcessInv, ProcessTypeOK, KilledBeforeGrace, WaitedForAll,
          ReturnsAfterWait, ResultStands
    <3>5. WaitedForAll'
      BY <1>T, <1>3, <2>5
      DEF WatchCtx, output, ProcessInv, ProcessTypeOK, WaitedForAll, PipesClosed
    <3> QED
      BY <3>2, <3>3, <3>4, <3>5 DEF ProcessInv
  <2>6. CASE Copy
    <3>1. PICK n \in 1 .. inPipe : inPipe' = inPipe - n /\ stdout' = LimitedWrite(stdout, n)
      BY <2>6 DEF Copy
    <3>2. UNCHANGED <<leader, child, inGroup, onPipe, failed, printed, ctx, wait, runner, result>>
      BY <2>6 DEF Copy
    <3>3. n \in Nat /\ inPipe \in Nat /\ inPipe' \in Nat /\ printed \in Nat
      BY <1>T, <3>1 DEF ProcessTypeOK
    <3>4. inPipe <= printed /\ stdout.limit > 0
      BY <1>3 DEF ProcessInv, BufferHoldsCopied
    <3>5. Copied \in Nat /\ Copied' = Copied + n /\ inPipe' <= printed'
      BY <3>1, <3>2, <3>3, <3>4 DEF Copied
    <3>6. stdout.len = (IF Copied <= stdout.limit THEN Copied ELSE stdout.limit)
      BY <1>3 DEF ProcessInv, BufferHoldsCopied
    <3>7. stdout.truncated <=> Copied > stdout.limit
      BY <1>3 DEF ProcessInv, BufferHoldsCopied
    <3>8. stdout \in [limit : Nat, len : Nat, truncated : BOOLEAN]
      BY <1>T DEF ProcessTypeOK
    <3>9. /\ stdout' \in [limit : Nat, len : Nat, truncated : BOOLEAN]
          /\ stdout'.limit = stdout.limit
          /\ stdout'.len = (IF Copied + n <= stdout.limit THEN Copied + n ELSE stdout.limit)
          /\ stdout'.truncated <=> Copied + n > stdout.limit
      <4> DEFINE w == LimitedWrite(stdout, n)
                 c == Copied
      <4>1. c \in Nat /\ n \in Nat
        BY <3>3, <3>5
      <4>2. stdout.limit > 0 /\ (stdout.truncated <=> c > stdout.limit)
        BY <3>4, <3>7
      <4>3. stdout.len = IF c <= stdout.limit THEN c ELSE stdout.limit
        BY <3>6
      <4> HIDE DEF c
      <4>4. /\ w \in [limit : Nat, len : Nat, truncated : BOOLEAN]
            /\ w.limit = stdout.limit
            /\ w.len = IF c + n <= stdout.limit THEN c + n ELSE stdout.limit
            /\ w.truncated <=> c + n > stdout.limit
        BY <3>8, <4>1, <4>2, <4>3, LimitedWriteHolds, Zenon
      <4>5. stdout' = w
        BY <3>1
      <4> HIDE DEF w
      <4> QED
        BY <4>4, <4>5 DEF c
    <3>10. ProcessTypeOK'
      BY <1>T, <3>2, <3>3, <3>9 DEF ProcessTypeOK
    <3>11. BufferHoldsCopied'
      BY <3>4, <3>5, <3>9 DEF BufferHoldsCopied
    <3>12. ~(wait = "done")
      BY <1>3, <3>1, <3>3 DEF ProcessInv, WaitedForAll, PipesClosed
    <3>13. KilledBeforeGrace' /\ WaitedForAll' /\ ReturnsAfterWait' /\ ResultStands'
      BY <3>2, <3>12
      DEF ProcessInv, KilledBeforeGrace, WaitedForAll, ReturnsAfterWait, ResultStands
    <3> QED
      BY <3>10, <3>11, <3>13 DEF ProcessInv
  <2>7. CASE Reap
    <3>2. ProcessTypeOK'
      BY <1>T, <2>7 DEF Reap, output, ProcessTypeOK
    <3>3. BufferHoldsCopied'
      BY <1>3, <2>7, BufferKept DEF Reap, ProcessInv
    <3>4. KilledBeforeGrace' /\ ReturnsAfterWait' /\ ResultStands'
      BY <1>T, <1>3, <2>7
      DEF Reap, output, ProcessInv, ProcessTypeOK, KilledBeforeGrace, WaitedForAll,
          ReturnsAfterWait, ResultStands
    <3>5. WaitedForAll'
      BY <1>T, <1>3, <2>7
      DEF Reap, output, ProcessInv, ProcessTypeOK, WaitedForAll, PipesClosed
    <3> QED
      BY <3>2, <3>3, <3>4, <3>5 DEF ProcessInv
  <2>8. CASE WaitReturns
    <3>2. ProcessTypeOK'
      BY <1>T, <2>8 DEF WaitReturns, output, ProcessTypeOK
    <3>3. BufferHoldsCopied'
      BY <1>3, <2>8, BufferKept DEF WaitReturns, ProcessInv
    <3>4. KilledBeforeGrace' /\ ReturnsAfterWait' /\ ResultStands'
      BY <1>T, <1>3, <2>8
      DEF WaitReturns, output, ProcessInv, ProcessTypeOK, KilledBeforeGrace, WaitedForAll,
          ReturnsAfterWait, ResultStands
    <3>5. WaitedForAll'
      BY <1>T, <1>3, <2>8
      DEF WaitReturns, output, ProcessInv, ProcessTypeOK, WaitedForAll, PipesClosed
    <3> QED
      BY <3>2, <3>3, <3>4, <3>5 DEF ProcessInv
  <2>9. CASE TimeoutExpires
    <3>2. ProcessTypeOK'
      BY <1>T, <2>9 DEF TimeoutExpires, output, ProcessTypeOK
    <3>3. BufferHoldsCopied'
      BY <1>3, <2>9, BufferKept DEF TimeoutExpires, ProcessInv
    <3>4. KilledBeforeGrace' /\ ReturnsAfterWait' /\ ResultStands'
      BY <1>T, <1>3, <2>9
      DEF TimeoutExpires, output, ProcessInv, ProcessTypeOK, KilledBeforeGrace, WaitedForAll,
          ReturnsAfterWait, ResultStands
    <3>5. WaitedForAll'
      BY <1>T, <1>3, <2>9
      DEF TimeoutExpires, output, ProcessInv, ProcessTypeOK, WaitedForAll, PipesClosed
    <3> QED
      BY <3>2, <3>3, <3>4, <3>5 DEF ProcessInv
  <2>10. CASE SelectDone
    <3>2. ProcessTypeOK'
      BY <1>T, <2>10 DEF SelectDone, output, ProcessTypeOK
    <3>3. BufferHoldsCopied'
      BY <1>3, <2>10, BufferKept DEF SelectDone, ProcessInv
    <3>4. KilledBeforeGrace' /\ ReturnsAfterWait' /\ ResultStands'
      BY <1>T, <1>3, <2>10
      DEF SelectDone, output, ProcessInv, ProcessTypeOK, KilledBeforeGrace, WaitedForAll,
          ReturnsAfterWait, ResultStands
    <3>5. WaitedForAll'
      BY <1>T, <1>3, <2>10
      DEF SelectDone, output, ProcessInv, ProcessTypeOK, WaitedForAll, PipesClosed
    <3> QED
      BY <3>2, <3>3, <3>4, <3>5 DEF ProcessInv
  <2>11. CASE SelectTimeout
    <3>2. ProcessTypeOK'
      BY <1>T, <2>11 DEF SelectTimeout, output, ProcessTypeOK
    <3>3. BufferHoldsCopied'
      BY <1>3, <2>11, BufferKept DEF SelectTimeout, ProcessInv
    <3>4. KilledBeforeGrace' /\ ReturnsAfterWait' /\ ResultStands'
      BY <1>T, <1>3, <2>11
      DEF SelectTimeout, output, ProcessInv, ProcessTypeOK, KilledBeforeGrace, WaitedForAll,
          ReturnsAfterWait, ResultStands
    <3>5. WaitedForAll'
      BY <1>T, <1>3, <2>11
      DEF SelectTimeout, output, ProcessInv, ProcessTypeOK, WaitedForAll, PipesClosed
    <3> QED
      BY <3>2, <3>3, <3>4, <3>5 DEF ProcessInv
  <2>12. CASE KillProcessGroup
    <3>2. ProcessTypeOK'
      BY <1>T, <2>12 DEF KillProcessGroup, output, ProcessTypeOK
    <3>3. BufferHoldsCopied'
      BY <1>3, <2>12, BufferKept DEF KillProcessGroup, ProcessInv
    <3>4. KilledBeforeGrace' /\ ReturnsAfterWait' /\ ResultStands'
      BY <1>T, <1>3, <2>12
      DEF KillProcessGroup, output, ProcessInv, ProcessTypeOK, KilledBeforeGrace, WaitedForAll,
          ReturnsAfterWait, ResultStands
    <3>5. WaitedForAll'
      BY <1>T, <1>3, <2>12
      DEF KillProcessGroup, output, ProcessInv, ProcessTypeOK, WaitedForAll, PipesClosed
    <3> QED
      BY <3>2, <3>3, <3>4, <3>5 DEF ProcessInv
  <2>13. CASE GraceDone
    <3>2. ProcessTypeOK'
      BY <1>T, <2>13 DEF GraceDone, TimesOut, output, ProcessTypeOK
    <3>3. BufferHoldsCopied'
      BY <1>3, <2>13, BufferKept DEF GraceDone, TimesOut, ProcessInv
    <3>4. KilledBeforeGrace' /\ ReturnsAfterWait' /\ ResultStands'
      BY <1>T, <1>3, <2>13
      DEF GraceDone, TimesOut, output, ProcessInv, ProcessTypeOK, KilledBeforeGrace, WaitedForAll,
          ReturnsAfterWait, ResultStands
    <3>5. WaitedForAll'
      BY <1>T, <1>3, <2>13
      DEF GraceDone, TimesOut, output, ProcessInv, ProcessTypeOK, WaitedForAll, PipesClosed
    <3> QED
      BY <3>2, <3>3, <3>4, <3>5 DEF ProcessInv
  <2>14. CASE GraceOver
    <3>2. ProcessTypeOK'
      BY <1>T, <2>14 DEF GraceOver, TimesOut, output, ProcessTypeOK
    <3>3. BufferHoldsCopied'
      BY <1>3, <2>14, BufferKept DEF GraceOver, TimesOut, ProcessInv
    <3>4. KilledBeforeGrace' /\ ReturnsAfterWait' /\ ResultStands'
      BY <1>T, <1>3, <2>14
      DEF GraceOver, TimesOut, output, ProcessInv, ProcessTypeOK, KilledBeforeGrace, WaitedForAll,
          ReturnsAfterWait, ResultStands
    <3>5. WaitedForAll'
      BY <1>T, <1>3, <2>14
      DEF GraceOver, TimesOut, output, ProcessInv, ProcessTypeOK, WaitedForAll, PipesClosed
    <3> QED
      BY <3>2, <3>3, <3>4, <3>5 DEF ProcessInv
  <2> QED
    BY <1>3, <2>1, <2>2, <2>3, <2>4, <2>5, <2>6, <2>7, <2>8, <2>9, <2>10, <2>11, <2>12, <2>13, <2>14 DEF ProcessStep, RunAgent
<1>4. CASE UNCHANGED process
  BY <1>4
  DEF process, output, ProcessInv, ProcessTypeOK, KilledBeforeGrace, WaitedForAll,
      PipesClosed, ReturnsAfterWait, BufferHoldsCopied, Copied, ResultStands
<1> QED
  BY <1>1, <1>2, <1>3, <1>4 DEF ProcessNext

LEMMA ProcessInvariant == ProcessSpec => []ProcessInv
BY ProcessInit, ProcessNextInv, PTL DEF ProcessSpec

-----------------------------------------------------------------------------
(* When runAgent has returned the agent is dead, whoever of runAgent, the   *)
(* goroutines of os/exec and the processes was first                        *)
(* (cursor_cli.go:127-138).                                                 *)
THEOREM NoAgentSurvives == ProcessSpec => []AgentDeadOnReturn
<1>1. ProcessInv => AgentDeadOnReturn
  BY DEF ProcessInv, KilledBeforeGrace, WaitedForAll, ReturnsAfterWait,
         AgentDeadOnReturn, Returned
<1> QED
  BY <1>1, ProcessInvariant, PTL

(* The output of a call that was not abandoned has no writer left when it   *)
(* is read (cursor_cli.go:137, :139).                                       *)
THEOREM BuffersQuiet == ProcessSpec => []OutputQuietOnReturn
<1>1. ProcessInv => OutputQuietOnReturn
  BY DEF ProcessInv, WaitedForAll, PipesClosed, ReturnsAfterWait, OutputQuietOnReturn
<1> QED
  BY <1>1, ProcessInvariant, PTL

(* A call that ends by itself gives back all that was printed or an error,  *)
(* for every limit and every way to split the copying                       *)
(* (cursor_cli.go:34-50, :139-153).                                         *)
THEOREM NothingCutSilently == ProcessSpec => []OutputWholeOrRefused
<1>1. ProcessInv => OutputWholeOrRefused
  <2> SUFFICES ASSUME ProcessInv, runner = "exited"
               PROVE  IF printed > stdout.limit
                      THEN result = "cursor_stdout_limit"
                      ELSE stdout.len = printed /\ (result = "ok" <=> ~failed)
    BY DEF OutputWholeOrRefused
  <2>1. inPipe = 0
    BY DEF ProcessInv, ReturnsAfterWait, WaitedForAll, PipesClosed
  <2>2. Copied = printed
    BY <2>1 DEF ProcessInv, ProcessTypeOK, Copied
  <2>3. stdout.truncated <=> printed > stdout.limit
    BY <2>2 DEF ProcessInv, BufferHoldsCopied
  <2>4. printed <= stdout.limit => stdout.len = printed
    BY <2>2 DEF ProcessInv, BufferHoldsCopied
  <2> QED
    BY <2>3, <2>4 DEF ProcessInv, ProcessTypeOK, ResultStands
<1> QED
  BY <1>1, ProcessInvariant, PTL
=============================================================================
