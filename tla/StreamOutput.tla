----------------------------- MODULE StreamOutput -----------------------------
(***************************************************************************)
(* A streaming request: ExecuteStream (executor.go), the goroutine it      *)
(* leaves behind, streamCursorJSON (cursor_cli.go), and the host callbacks *)
(* it calls, which a shutdown of the plugin takes away (main.go).          *)
(*                                                                         *)
(* The agent (external) says a text, chunk by chunk.  Its lines carry      *)
(* either the chunk ("delta") or all of the text so far ("cumulative"),    *)
(* and any line may be followed by one that repeats the whole text.  The   *)
(* terminal line carries the canonical text, which may differ.  A text is  *)
(* a sequence of characters.                                               *)
(***************************************************************************)
EXTENDS Naturals, Sequences, SequencesExt

CONSTANTS
  Chars,     \* characters
  Blank,     \* the white space among them
  Canonical, \* texts the terminal line may carry
  Chunks,    \* chunks the agent may add to its text
  MaxText,   \* bound: the length of the text
  MaxLines   \* bound: the lines of the agent's output

ASSUME BlankAssumption == Blank \in Chars
ASSUME ChunksAssumption == Chunks \subseteq Seq(Chars) \ {<<>>}
ASSUME CanonicalAssumption == Canonical \subseteq Seq(Chars) \ {<<>>}

VARIABLES
  style,    \* what this agent puts in its partial lines
  form,     \* where it puts it: a text "field", or a "message" with parts
  said,     \* the text the agent has said
  lines,    \* how many lines were decoded
  pc,       \* where the request is
  answered, \* what ExecuteStream returned to the host: "no", "headers", "error"
  emitted,  \* local: the text emitted so far
  terminal, \* local: the text of the last result line
  message,  \* local: the error CloseOutput will carry, FALSE for ""
  hostUp,   \* stored_host is set
  out,      \* what the host received for the stream: the events, then "close"
  received, \* history: the deltas among them, put together as a client does
  ambiguous \* history: a line whose text the code cannot tell from none, or
            \* from a repetition

agentVars == <<style, form, said, lines>>
stream == <<out, received>>
vars == <<style, form, said, lines, pc, answered, emitted, terminal, message,
          hostUp, out, received, ambiguous>>

Init ==
  /\ style \in {"delta", "cumulative"}
  /\ form \in {"field", "message"}
  /\ said = <<>>
  /\ lines = 0
  /\ pc = "idle"
  /\ answered = "no"
  /\ emitted = <<>>
  /\ terminal = <<>>
  /\ message = FALSE
  /\ hostUp = TRUE
  /\ out = <<>>
  /\ received = <<>>
  /\ ambiguous = FALSE

Delta(t) == [kind |-> "delta", text |-> t]
Final(t) == [kind |-> "final", text |-> t]
Close(failed) == [kind |-> "close", failed |-> failed]

-----------------------------------------------------------------------------
(* ExecuteStream: the checks of the request, any of which refuses it, with  *)
(* an error and without a stream; or the goroutine, and then the headers,   *)
(* which the host may get after the first events.                           *)

ExecuteStream ==
  /\ pc = "idle"
  /\ \/ /\ pc' = "refused"
        /\ answered' = "error"
     \/ /\ pc' = "running"
        /\ UNCHANGED answered
  /\ UNCHANGED <<agentVars, emitted, terminal, message, hostUp, stream, ambiguous>>

ReturnHeaders ==
  /\ pc \notin {"idle", "refused"}
  /\ answered = "no"
  /\ answered' = "headers"
  /\ UNCHANGED <<agentVars, pc, emitted, terminal, message, hostUp, stream,
                 ambiguous>>

(* The goroutine: runAgent fails, or returns all of the output.             *)
RunAgentWithoutMessage ==
  /\ pc = "running"
  /\ pc' \in {"decoding", "closing"}
  /\ UNCHANGED <<agentVars, answered, emitted, terminal, message, hostUp, stream,
                 ambiguous>>

RunAgentWithoutClose ==
  /\ pc = "running"
  /\ pc' \in {"decoding", "returned"}
  /\ UNCHANGED <<agentVars, answered, emitted, terminal, message, hostUp, stream,
                 ambiguous>>

RunAgent ==
  /\ pc = "running"
  /\ \/ /\ pc' = "decoding"
        /\ UNCHANGED message
     \/ /\ pc' = "closing"
        /\ message' = TRUE
  /\ UNCHANGED <<agentVars, answered, emitted, terminal, hostUp, stream, ambiguous>>

-----------------------------------------------------------------------------
(* streamCursorJSON.                                                        *)

(* callHost: without a host the call is an error, and the host may refuse   *)
(* an event (the client is gone).  An error ends the stream.  The host      *)
(* (external) answers with an error only for an event it has not taken.     *)
Emit(event) ==
  \/ /\ hostUp
     /\ out' = Append(out, event)
     /\ received' = IF event.kind = "delta" THEN received \o event.text ELSE received
     /\ UNCHANGED message
  \/ /\ message' = TRUE
     /\ UNCHANGED stream

Fails(next) == pc' = IF message' THEN "closing" ELSE next

(* cursorText: a field of white space alone counts as absent.               *)
CursorText(text) ==
  IF form = "field" /\ ToSet(text) \subseteq {Blank} THEN <<>> ELSE text

NewPartIgnoringEmitted(text) == text

(* The part of a partial line that is new, as the code works it out.        *)
NewPart(text) ==
  IF IsPrefix(emitted, text) THEN SubSeq(text, Len(emitted) + 1, Len(text))
                             ELSE text

(* A line with the text of an assistant: what is new is emitted.            *)
PartialLine(line) ==
  LET text == CursorText(line) IN
  /\ lines' = lines + 1
  /\ \/ /\ text = <<>> \/ NewPart(text) = <<>>
        /\ UNCHANGED <<pc, emitted, message, stream>>
     \/ /\ text # <<>> /\ NewPart(text) # <<>>
        /\ emitted' = emitted \o NewPart(text)
        /\ Emit(Delta(NewPart(text)))
        /\ Fails("decoding")
  /\ UNCHANGED <<style, form, answered, terminal, hostUp>>

DecodeChunk ==
  /\ pc = "decoding" /\ lines < MaxLines
  /\ \E c \in Chunks :
       LET line == IF style = "delta" THEN c ELSE said \o c IN
       /\ Len(said \o c) <= MaxText
       /\ said' = said \o c
       /\ ambiguous' = \/ ambiguous
                       \/ CursorText(line) # line
                       \/ style = "delta" /\ said # <<>> /\ IsPrefix(said, c)
       /\ PartialLine(line)

DecodeRepeat ==
  /\ pc = "decoding" /\ lines < MaxLines
  /\ said # <<>>
  /\ PartialLine(said)
  /\ UNCHANGED <<said, ambiguous>>

(* A result line, with text or, seldom, without any.                        *)
DecodeResult ==
  /\ pc = "decoding" /\ lines < MaxLines
  /\ lines' = lines + 1
  /\ terminal' \in Canonical \cup {<<>>}
  /\ UNCHANGED <<style, form, said, pc, answered, emitted, message, hostUp, stream,
                 ambiguous>>

(* A line of another type, or an assistant's without text.                  *)
DecodeOther ==
  /\ pc = "decoding" /\ lines < MaxLines
  /\ lines' = lines + 1
  /\ UNCHANGED <<style, form, said, pc, answered, emitted, terminal, message,
                 hostUp, stream, ambiguous>>

DecodeMalformed ==
  /\ pc = "decoding"
  /\ pc' = "closing"
  /\ message' = TRUE
  /\ UNCHANGED <<agentVars, answered, emitted, terminal, hostUp, stream, ambiguous>>

DecodeEOF ==
  /\ pc = "decoding"
  /\ \/ /\ terminal = <<>>
        /\ message' = TRUE
        /\ UNCHANGED stream
     \/ /\ terminal # <<>>
        /\ Emit(Final(terminal))
  /\ pc' = "closing"
  /\ UNCHANGED <<agentVars, answered, emitted, terminal, hostUp, ambiguous>>

-----------------------------------------------------------------------------
(* The deferred CloseOutput, whose error is ignored.                        *)
CloseOutput ==
  /\ pc = "closing"
  /\ pc' = "closed"
  /\ out' = IF hostUp THEN Append(out, Close(message)) ELSE out
  /\ UNCHANGED <<agentVars, answered, emitted, terminal, message, hostUp,
                 received, ambiguous>>

(* cliproxyPluginShutdown waits for no stream.                              *)
Shutdown ==
  /\ hostUp
  /\ hostUp' = FALSE
  /\ UNCHANGED <<agentVars, pc, answered, emitted, terminal, message, stream,
                 ambiguous>>

Goroutine ==
  \/ RunAgent \/ DecodeChunk \/ DecodeRepeat \/ DecodeResult \/ DecodeOther
  \/ DecodeMalformed \/ DecodeEOF \/ CloseOutput

Next == ExecuteStream \/ ReturnHeaders \/ Goroutine \/ Shutdown

Spec == Init /\ [][Next]_vars

(* runAgent returns (AgentPool, AgentProcess), its output is finite, and    *)
(* the host's callbacks return.                                             *)
FairSpec == Spec /\ WF_vars(Goroutine)

-----------------------------------------------------------------------------
(* Properties.                                                              *)

Closes == {i \in DOMAIN out : out[i].kind = "close"}
Finals == {i \in DOMAIN out : out[i].kind = "final"}

(* The host sees deltas, at most one final event, at most one close, in     *)
(* this order, and nothing after the close; the close is free of an error   *)
(* exactly when the final event with a canonical text came right before it  *)
(* ("terminal result/usage treated as canonical").                          *)
StreamWellFormed ==
  /\ \A i \in Closes :
       /\ i = Len(out)
       /\ ~out[i].failed <=> (i - 1) \in Finals
  /\ \A i \in Finals : out[i].text \in Canonical /\ i >= Len(out) - 1

(* As long as nothing has failed, the deltas spell what the agent has said, *)
(* with every repetition suppressed, for an agent that writes either the    *)
(* chunks or the whole text, unless some line could not be told from a      *)
(* repetition or from one without text.                                     *)
DeltasSpellText == ~message /\ ~ambiguous => received = said

(* Every stream that was started is closed, and the host is told, unless    *)
(* the plugin was shut down meanwhile.                                      *)
StreamCloses ==
  pc = "running" ~> pc = "closed" /\ (Closes # {} \/ ~hostUp)
=============================================================================
