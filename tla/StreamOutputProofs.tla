------------------------- MODULE StreamOutputProofs --------------------------
(***************************************************************************)
(* Proofs about StreamOutput, for any alphabet, any chunks and canonical   *)
(* texts and output of any length.                                         *)
(***************************************************************************)
EXTENDS StreamOutput, SequenceTheorems, TLAPS

Event == [kind : {"delta"}, text : Seq(Chars)] \cup [kind : {"final"}, text : Canonical]
           \cup [kind : {"close"}, failed : BOOLEAN]

StreamTypeOK ==
  /\ said \in Seq(Chars)
  /\ emitted \in Seq(Chars)
  /\ received \in Seq(Chars)
  /\ terminal \in Canonical \cup {<<>>}
  /\ message \in BOOLEAN
  /\ out \in Seq(Event)
  /\ pc \in {"idle", "refused", "running", "decoding", "closing", "closed"}

(* Until the goroutine closes, nothing has failed and the host has deltas.  *)
DeltasFirst ==
  pc \notin {"closing", "closed"} =>
    ~message /\ \A i \in 1 .. Len(out) : out[i].kind = "delta"

(* When it closes, the host has its final event, or the close will carry an *)
(* error; never both, never neither.                                        *)
FinalOrError ==
  pc = "closing" =>
    /\ \A i \in 1 .. Len(out) :
         \/ out[i].kind = "delta"
         \/ out[i].kind = "final" /\ out[i].text \in Canonical /\ i = Len(out)
    /\ ~message <=> Len(out) \in Finals

(* What the code believes it has emitted is what the client has, and what   *)
(* the agent has said.                                                      *)
EmittedSpellsText ==
  /\ ~message => emitted = received
  /\ ~message /\ ~ambiguous => emitted = said

StreamInv ==
  /\ StreamTypeOK
  /\ DeltasFirst
  /\ FinalOrError
  /\ StreamWellFormed
  /\ EmittedSpellsText

-----------------------------------------------------------------------------
(* Sequences.                                                               *)

(* One event more.                                                          *)
LEMMA EventAdded ==
  ASSUME NEW o \in Seq(Event), NEW e \in Event
  PROVE  LET n == Append(o, e) IN
         /\ n \in Seq(Event) /\ Len(n) = Len(o) + 1 /\ Len(o) \in Nat
         /\ DOMAIN n = 1 .. Len(o) + 1
         /\ n[Len(o) + 1] = e
         /\ \A i \in 1 .. Len(o) : n[i] = o[i]
<1>1. Append(o, e) \in Seq(Event)
  BY AppendProperties
<1> QED
  BY <1>1, AppendProperties, LenProperties

(* Of a text that begins with what was emitted, the rest is new ...         *)
LEMMA NewPartOfLonger ==
  ASSUME emitted \in Seq(Chars), NEW c \in Seq(Chars)
  PROVE  NewPart(emitted \o c) = c
<1> DEFINE t == emitted \o c
<1>1. /\ t \in Seq(Chars) /\ Len(t) = Len(emitted) + Len(c)
      /\ Len(emitted) \in Nat /\ Len(c) \in Nat
  BY ConcatProperties, LenProperties
<1>2. SubSeq(emitted, 1, Len(emitted)) = emitted
  BY SubSeqFull
<1>3. SubSeq(t, 1, Len(emitted)) = emitted
  <2>1. CASE emitted = <<>>
    BY <2>1, <1>1, SubSeqEmpty
  <2>2. CASE emitted # <<>>
    <3>1. Len(emitted) \in 1 .. Len(emitted) /\ 1 \in 1 .. Len(emitted)
      BY <2>2, EmptySeq
    <3> QED
      BY <1>2, <3>1, SubSeqOfConcat1
  <2> QED
    BY <2>1, <2>2
<1>4. IsPrefix(emitted, t)
  BY <1>1, <1>2, <1>3 DEF IsPrefix
<1>5. SubSeq(t, Len(emitted) + 1, Len(t)) = c
  <2>1. CASE c = <<>>
    BY <2>1, <1>1, SubSeqEmpty
  <2>2. CASE c # <<>>
    <3>0. Len(c) \in Nat \ {0}
      BY <2>2, EmptySeq
    <3>1. /\ Len(t) \in Len(emitted) + 1 .. Len(emitted) + Len(c)
          /\ Len(emitted) + 1 \in Len(emitted) + 1 .. Len(emitted) + Len(c)
      BY <1>1, <3>0
    <3>2. SubSeq(t, Len(emitted) + 1, Len(t)) =
            SubSeq(c, Len(emitted) + 1 - Len(emitted), Len(t) - Len(emitted))
      BY <3>1, SubSeqOfConcat2
    <3>3. Len(emitted) + 1 - Len(emitted) = 1 /\ Len(t) - Len(emitted) = Len(c)
      BY <1>1
    <3> QED
      BY <3>2, <3>3, SubSeqFull
  <2> QED
    BY <2>1, <2>2
<1> QED
  BY <1>4, <1>5 DEF NewPart

(* ... of a repetition nothing is, and of any other text all of it.         *)
LEMMA NewPartOfSame ==
  ASSUME emitted \in Seq(Chars)
  PROVE  NewPart(emitted) = <<>>
<1>1. emitted \o <<>> = emitted /\ <<>> \in Seq(Chars)
  BY ConcatEmptySeq, EmptySeq
<1> QED
  BY <1>1, NewPartOfLonger

LEMMA NewPartOfOther ==
  ASSUME emitted \in Seq(Chars), NEW c \in Seq(Chars),
         ~(emitted # <<>> /\ IsPrefix(emitted, c))
  PROVE  NewPart(c) = c
<1>1. CASE emitted = <<>>
  <2>1. emitted \o c = c
    BY <1>1, ConcatEmptySeq
  <2> QED
    BY <2>1, NewPartOfLonger
<1>2. CASE emitted # <<>>
  BY <1>2 DEF NewPart
<1> QED
  BY <1>1, <1>2

LEMMA NewPartType ==
  ASSUME emitted \in Seq(Chars), NEW t \in Seq(Chars)
  PROVE  NewPart(t) \in Seq(Chars)
<1>1. CASE IsPrefix(emitted, t)
  <2>1. Len(emitted) \in Nat /\ Len(t) \in Nat /\ t \in [1 .. Len(t) -> Chars]
    BY LenProperties
  <2>2. \A i \in Len(emitted) + 1 .. Len(t) : t[i] \in Chars
    BY <2>1
  <2>3. SubSeq(t, Len(emitted) + 1, Len(t)) \in Seq(Chars)
    BY <2>1, <2>2, SubSeqProperties
  <2> QED
    BY <1>1, <2>3 DEF NewPart
<1>2. CASE ~IsPrefix(emitted, t)
  BY <1>2 DEF NewPart
<1> QED
  BY <1>1, <1>2

-----------------------------------------------------------------------------
(* Steps.                                                                   *)

LEMMA DeltasWellFormed ==
  ASSUME out \in Seq(Event), \A i \in 1 .. Len(out) : out[i].kind = "delta"
  PROVE  Closes = {} /\ Finals = {} /\ StreamWellFormed
<1>1. DOMAIN out = 1 .. Len(out)
  BY LenProperties
<1> QED
  BY <1>1 DEF Closes, Finals, StreamWellFormed

(* A step that leaves the texts and the events alone.                       *)
LEMMA QuietStep ==
  ASSUME StreamInv, UNCHANGED <<said, emitted, received, message, out, ambiguous>>,
         terminal' \in Canonical \cup {<<>>},
         pc' \in {"idle", "refused", "running", "decoding", "closing", "closed"},
         pc' = pc \/ {pc, pc'} \subseteq {"idle", "refused", "running", "decoding"}
  PROVE  StreamInv'
<1>1. StreamTypeOK'
  BY DEF StreamInv, StreamTypeOK
<1>2. Closes' = Closes /\ Finals' = Finals
  BY DEF Closes, Finals
<1>3. DeltasFirst' /\ FinalOrError'
  BY <1>2 DEF StreamInv, DeltasFirst, FinalOrError
<1>4. StreamWellFormed'
  BY <1>2 DEF StreamInv, StreamWellFormed
<1> QED
  BY <1>1, <1>3, <1>4 DEF StreamInv, EmittedSpellsText

(* An error before the end of the stream.                                   *)
LEMMA FailStep ==
  ASSUME StreamInv, pc \in {"running", "decoding"}, pc' = "closing", message' = TRUE,
         UNCHANGED out
  PROVE  DeltasFirst' /\ FinalOrError' /\ StreamWellFormed'
<1>1. /\ out \in Seq(Event)
      /\ \A i \in 1 .. Len(out) : out[i].kind = "delta"
  BY DEF StreamInv, StreamTypeOK, DeltasFirst
<1>2. Finals = {} /\ Closes = {}
  BY <1>1, DeltasWellFormed
<1>3. Finals' = Finals /\ Closes' = Closes
  BY DEF Finals, Closes
<1>4. StreamWellFormed'
  BY <1>2, <1>3 DEF StreamWellFormed
<1> QED
  BY <1>1, <1>2, <1>3, <1>4 DEF DeltasFirst, FinalOrError

(* A partial line, whatever it carries.                                     *)
LEMMA PartialStep ==
  ASSUME StreamInv, pc = "decoding", NEW line \in Seq(Chars), PartialLine(line)
  PROVE  /\ emitted' \in Seq(Chars) /\ received' \in Seq(Chars) /\ out' \in Seq(Event)
         /\ message' \in BOOLEAN /\ pc' \in {"decoding", "closing"} /\ terminal' = terminal
         /\ DeltasFirst' /\ FinalOrError' /\ StreamWellFormed'
         /\ ~message' => emitted' = received'
         /\ emitted' = IF CursorText(line) = <<>> THEN emitted
                       ELSE emitted \o NewPart(CursorText(line))
<1> DEFINE text == CursorText(line)
           new == NewPart(text)
<1>1. /\ emitted \in Seq(Chars) /\ received \in Seq(Chars) /\ out \in Seq(Event)
      /\ ~message /\ emitted = received /\ message \in BOOLEAN
      /\ \A i \in 1 .. Len(out) : out[i].kind = "delta"
  BY DEF StreamInv, StreamTypeOK, DeltasFirst, EmittedSpellsText
<1>2. text \in Seq(Chars)
  BY EmptySeq DEF CursorText
<1>3. new \in Seq(Chars)
  BY <1>1, <1>2, NewPartType
<1>4. emitted \o new \in Seq(Chars) /\ received \o new \in Seq(Chars)
  BY <1>1, <1>3, ConcatProperties
<1>5. terminal' = terminal
  BY DEF PartialLine
<1>6. CASE text = <<>> \/ new = <<>>
  <2>1. UNCHANGED <<pc, emitted, message, out, received>>
    BY <1>6 DEF PartialLine, stream
  <2>2. emitted \o <<>> = emitted
    BY <1>1, ConcatEmptySeq
  <2>3. Closes' = Closes /\ Finals' = Finals
    BY <2>1 DEF Closes, Finals
  <2>4. DeltasFirst' /\ FinalOrError' /\ StreamWellFormed'
    BY <2>1, <2>3 DEF StreamInv, DeltasFirst, FinalOrError, StreamWellFormed
  <2> QED
    BY <1>1, <1>5, <1>6, <2>1, <2>2, <2>4
<1>7. CASE ~(text = <<>> \/ new = <<>>)
  <2> DEFINE e == Delta(new)
  <2>1. /\ emitted' = emitted \o new
        /\ Emit(e) /\ pc' = IF message' THEN "closing" ELSE "decoding"
    BY <1>7 DEF PartialLine, Fails
  <2>2. e \in Event /\ e.kind = "delta" /\ e.text = new
    BY <1>3 DEF Delta, Event
  <2>3. CASE hostUp /\ out' = Append(out, e) /\ received' = received \o new /\ message' = message
    <3>1. pc' = "decoding" /\ ~message'
      BY <1>1, <2>1, <2>3
    <3>2. /\ out' \in Seq(Event) /\ Len(out') = Len(out) + 1 /\ Len(out) \in Nat
          /\ out'[Len(out) + 1] = e /\ \A i \in 1 .. Len(out) : out'[i] = out[i]
      BY <1>1, <2>2, <2>3, EventAdded
    <3>3. \A i \in 1 .. Len(out') : out'[i].kind = "delta"
      BY <1>1, <2>2, <3>2
    <3>4. DeltasFirst' /\ FinalOrError'
      BY <3>1, <3>3 DEF DeltasFirst, FinalOrError
    <3>5. StreamWellFormed'
      <4>1. DOMAIN out' = 1 .. Len(out')
        BY <3>2, LenProperties
      <4>2. Closes' = {} /\ Finals' = {}
        BY <3>3, <4>1 DEF Closes, Finals
      <4> QED
        BY <4>2 DEF StreamWellFormed
    <3> QED
      BY <1>1, <1>4, <1>5, <1>7, <2>1, <2>3, <3>1, <3>2, <3>4, <3>5
  <2>4. CASE message' = TRUE /\ UNCHANGED <<out, received>>
    <3>1. pc' = "closing"
      BY <2>1, <2>4
    <3>2. DeltasFirst' /\ FinalOrError' /\ StreamWellFormed'
      BY <2>4, <3>1, FailStep
    <3> QED
      BY <1>1, <1>4, <1>5, <1>7, <2>1, <2>4, <3>1, <3>2
  <2> QED
    BY <2>1, <2>2, <2>3, <2>4 DEF Emit, stream
<1> QED
  BY <1>6, <1>7

LEMMA StreamInit == Init => StreamInv
<1> SUFFICES ASSUME Init PROVE StreamInv
  OBVIOUS
<1>1. StreamTypeOK
  BY EmptySeq DEF Init, StreamTypeOK
<1>2. \A i \in 1 .. Len(out) : out[i].kind = "delta"
  BY EmptySeq DEF Init
<1>3. StreamWellFormed
  BY <1>1, <1>2, DeltasWellFormed DEF StreamTypeOK
<1> QED
  BY <1>1, <1>2, <1>3
  DEF Init, StreamInv, DeltasFirst, FinalOrError, EmittedSpellsText

LEMMA StreamNext == StreamInv /\ [Next]_vars => StreamInv'
<1> SUFFICES ASSUME StreamInv, [Next]_vars PROVE StreamInv'
  OBVIOUS
<1> USE DEF agentVars, stream
<1>T. StreamTypeOK
  BY DEF StreamInv
<1>1. CASE ExecuteStream
  BY <1>1, <1>T, QuietStep DEF ExecuteStream, StreamTypeOK
<1>2. CASE ReturnHeaders \/ Shutdown
  BY <1>2, <1>T, QuietStep DEF ReturnHeaders, Shutdown, StreamTypeOK
<1>3. CASE RunAgent
  <2>1. CASE pc' = "decoding" /\ UNCHANGED message
    BY <1>3, <1>T, <2>1, QuietStep DEF RunAgent, StreamTypeOK
  <2>2. CASE pc' = "closing" /\ message' = TRUE
    <3>1. DeltasFirst' /\ FinalOrError' /\ StreamWellFormed'
      BY <1>3, <2>2, FailStep DEF RunAgent
    <3>2. StreamTypeOK'
      BY <1>3, <1>T, <2>2 DEF RunAgent, StreamTypeOK
    <3> QED
      BY <2>2, <3>1, <3>2 DEF StreamInv, EmittedSpellsText
  <2> QED
    BY <1>3, <2>1, <2>2 DEF RunAgent
<1>4. CASE DecodeChunk
  <2>1. PICK c \in Chunks :
          LET line == IF style = "delta" THEN c ELSE said \o c IN
          /\ said' = said \o c
          /\ ambiguous' = \/ ambiguous
                          \/ CursorText(line) # line
                          \/ style = "delta" /\ said # <<>> /\ IsPrefix(said, c)
          /\ PartialLine(line)
    BY <1>4 DEF DecodeChunk
  <2> DEFINE line == IF style = "delta" THEN c ELSE said \o c
  <2>2. /\ said \in Seq(Chars) /\ emitted \in Seq(Chars) /\ c \in Seq(Chars) /\ c # <<>>
    BY <1>T, ChunksAssumption DEF StreamTypeOK
  <2>3. said \o c \in Seq(Chars) /\ said \o c # <<>>
    BY <2>2, ConcatProperties, ConcatEqualIffEmpty
  <2>4. line \in Seq(Chars) /\ line # <<>>
    BY <2>2, <2>3
  <2>5. pc = "decoding" /\ PartialLine(line)
    BY <1>4, <2>1 DEF DecodeChunk
  <2>6. /\ emitted' \in Seq(Chars) /\ received' \in Seq(Chars) /\ out' \in Seq(Event)
        /\ message' \in BOOLEAN /\ pc' \in {"decoding", "closing"} /\ terminal' = terminal
        /\ DeltasFirst' /\ FinalOrError' /\ StreamWellFormed'
        /\ ~message' => emitted' = received'
        /\ emitted' = IF CursorText(line) = <<>> THEN emitted
                      ELSE emitted \o NewPart(CursorText(line))
    BY <2>4, <2>5, PartialStep
  <2>7. ASSUME ~message', ~ambiguous' PROVE emitted' = said'
    <3>1. ~message /\ ~ambiguous
      BY <2>1, <2>5, <2>7 DEF StreamInv, DeltasFirst
    <3>2. emitted = said
      BY <3>1 DEF StreamInv, EmittedSpellsText
    <3>3. CursorText(line) = line
      BY <2>1, <2>7
    <3>4. emitted' = said \o NewPart(line)
      BY <2>4, <2>6, <3>2, <3>3
    <3>5. CASE style = "delta"
      <4>1. ~(said # <<>> /\ IsPrefix(said, c)) /\ line = c
        BY <2>1, <2>7, <3>5
      <4>2. NewPart(c) = c
        BY <2>2, <3>2, <4>1, NewPartOfOther
      <4> QED
        BY <2>1, <3>4, <4>1, <4>2
    <3>6. CASE style # "delta"
      <4>1. line = emitted \o c
        BY <3>2, <3>6
      <4>2. NewPart(line) = c
        BY <2>2, <4>1, NewPartOfLonger
      <4> QED
        BY <2>1, <3>4, <4>2
    <3> QED
      BY <3>5, <3>6
  <2>8. StreamTypeOK'
    BY <1>T, <2>1, <2>3, <2>6 DEF StreamTypeOK
  <2> QED
    BY <2>6, <2>7, <2>8 DEF StreamInv, EmittedSpellsText
<1>5. CASE DecodeRepeat
  <2>1. pc = "decoding" /\ PartialLine(said) /\ said' = said /\ ambiguous' = ambiguous
    BY <1>5 DEF DecodeRepeat
  <2>2. said \in Seq(Chars) /\ emitted \in Seq(Chars)
    BY <1>T DEF StreamTypeOK
  <2>3. /\ emitted' \in Seq(Chars) /\ received' \in Seq(Chars) /\ out' \in Seq(Event)
        /\ message' \in BOOLEAN /\ pc' \in {"decoding", "closing"} /\ terminal' = terminal
        /\ DeltasFirst' /\ FinalOrError' /\ StreamWellFormed'
        /\ ~message' => emitted' = received'
        /\ emitted' = IF CursorText(said) = <<>> THEN emitted
                      ELSE emitted \o NewPart(CursorText(said))
    BY <2>1, <2>2, PartialStep
  <2>4. ASSUME ~message', ~ambiguous' PROVE emitted' = said'
    <3>1. emitted = said
      BY <2>1, <2>4 DEF StreamInv, DeltasFirst, EmittedSpellsText
    <3>2. CursorText(said) \in {<<>>, said}
      BY DEF CursorText
    <3>3. NewPart(said) = <<>> /\ emitted \o <<>> = emitted
      BY <2>2, <3>1, NewPartOfSame, ConcatEmptySeq
    <3> QED
      BY <2>1, <2>3, <3>1, <3>2, <3>3
  <2>5. StreamTypeOK'
    BY <1>T, <2>1, <2>3 DEF StreamTypeOK
  <2> QED
    BY <2>3, <2>4, <2>5 DEF StreamInv, EmittedSpellsText
<1>6. CASE DecodeResult \/ DecodeOther
  BY <1>6, <1>T, QuietStep DEF DecodeResult, DecodeOther, StreamTypeOK
<1>7. CASE DecodeMalformed \/ (DecodeEOF /\ message' = TRUE /\ UNCHANGED stream)
  <2>1. /\ pc = "decoding" /\ pc' = "closing" /\ message' = TRUE
        /\ UNCHANGED <<said, emitted, terminal, out, received, ambiguous>>
    BY <1>7 DEF DecodeMalformed, DecodeEOF
  <2>2. DeltasFirst' /\ FinalOrError' /\ StreamWellFormed'
    BY <2>1, FailStep
  <2>3. StreamTypeOK'
    BY <1>T, <2>1 DEF StreamTypeOK
  <2> QED
    BY <2>1, <2>2, <2>3 DEF StreamInv, EmittedSpellsText
<1>8. CASE DecodeEOF /\ ~(message' = TRUE /\ UNCHANGED stream)
  <2> DEFINE e == Final(terminal)
  <2>1. /\ pc = "decoding" /\ pc' = "closing" /\ terminal # <<>>
        /\ out' = Append(out, e) /\ UNCHANGED <<said, emitted, terminal, ambiguous, message>>
        /\ received' = received
    BY <1>8 DEF DecodeEOF, Emit, Final
  <2>2. /\ out \in Seq(Event) /\ \A i \in 1 .. Len(out) : out[i].kind = "delta"
        /\ ~message /\ terminal \in Canonical
    BY <1>T, <2>1 DEF StreamInv, StreamTypeOK, DeltasFirst
  <2>3. e \in Event /\ e.kind = "final" /\ e.text = terminal
    BY <2>2 DEF Final, Event
  <2>4. /\ out' \in Seq(Event) /\ Len(out') = Len(out) + 1 /\ Len(out) \in Nat
        /\ DOMAIN out' = 1 .. Len(out) + 1
        /\ out'[Len(out) + 1] = e /\ \A i \in 1 .. Len(out) : out'[i] = out[i]
    BY <2>1, <2>2, <2>3, EventAdded
  <2>5. StreamTypeOK'
    BY <1>T, <2>1, <2>4 DEF StreamTypeOK
  <2>6. \A i \in 1 .. Len(out) : out'[i].kind = "delta"
    BY <2>2, <2>4
  <2>7. Closes' = {} /\ Finals' = {Len(out')}
    BY <2>3, <2>4, <2>6 DEF Closes, Finals
  <2>8. FinalOrError'
    <3>1. \A i \in 1 .. Len(out') :
            \/ out'[i].kind = "delta"
            \/ out'[i].kind = "final" /\ out'[i].text \in Canonical /\ i = Len(out')
      BY <2>2, <2>3, <2>4, <2>6
    <3> QED
      BY <2>1, <2>2, <2>7, <3>1 DEF FinalOrError
  <2>9. StreamWellFormed'
    BY <2>2, <2>3, <2>4, <2>7 DEF StreamWellFormed
  <2> QED
    BY <2>1, <2>5, <2>8, <2>9 DEF StreamInv, DeltasFirst, EmittedSpellsText
<1>9. CASE CloseOutput
  <2>1. /\ pc = "closing" /\ pc' = "closed"
        /\ UNCHANGED <<said, emitted, terminal, message, received, ambiguous>>
    BY <1>9 DEF CloseOutput
  <2>2. CASE ~hostUp
    <3>1. out' = out
      BY <1>9, <2>2 DEF CloseOutput
    <3>2. Closes' = Closes /\ Finals' = Finals
      BY <3>1 DEF Closes, Finals
    <3>3. StreamWellFormed'
      BY <3>1, <3>2 DEF StreamInv, StreamWellFormed
    <3> QED
      BY <1>T, <2>1, <3>1, <3>3
      DEF StreamInv, StreamTypeOK, DeltasFirst, FinalOrError, EmittedSpellsText
  <2>3. CASE hostUp
    <3> DEFINE e == Close(message)
    <3>1. out' = Append(out, e)
      BY <1>9, <2>3 DEF CloseOutput
    <3>2. e \in Event /\ e.kind = "close" /\ e.failed = message
      BY <1>T DEF Close, Event, StreamTypeOK
    <3>3. /\ out \in Seq(Event) /\ DOMAIN out = 1 .. Len(out)
          /\ \A i \in 1 .. Len(out) :
               \/ out[i].kind = "delta"
               \/ out[i].kind = "final" /\ out[i].text \in Canonical /\ i = Len(out)
          /\ ~message <=> Len(out) \in Finals
      BY <1>T, <2>1, LenProperties DEF StreamInv, StreamTypeOK, FinalOrError
    <3>4. /\ out' \in Seq(Event) /\ Len(out') = Len(out) + 1 /\ Len(out) \in Nat
          /\ DOMAIN out' = 1 .. Len(out) + 1
          /\ out'[Len(out) + 1] = e /\ \A i \in 1 .. Len(out) : out'[i] = out[i]
      BY <3>1, <3>2, <3>3, EventAdded
    <3> HIDE DEF e
    <3>5. \A i \in 1 .. Len(out) : out'[i].kind # "close" /\ out'[i].kind = out[i].kind
      BY <3>3, <3>4
    <3>6. out'[Len(out')].kind = "close" /\ out'[Len(out')].failed = message
      BY <3>2, <3>4
    <3>7. Closes' = {Len(out')}
      <4>1. Closes' = {i \in 1 .. Len(out) + 1 : out'[i].kind = "close"}
        BY <3>4 DEF Closes
      <4>2. \A i \in 1 .. Len(out) + 1 : i \in 1 .. Len(out) \/ i = Len(out')
        BY <3>4
      <4> QED
        BY <3>4, <3>5, <3>6, <4>1, <4>2
    <3>8. Finals' = Finals
      <4>1. Finals' = {i \in 1 .. Len(out) + 1 : out'[i].kind = "final"}
        BY <3>4 DEF Finals
      <4>2. Finals = {i \in 1 .. Len(out) : out[i].kind = "final"}
        BY <3>3 DEF Finals
      <4>3. \A i \in 1 .. Len(out) + 1 : i \in 1 .. Len(out) \/ i = Len(out')
        BY <3>4
      <4>4. \A i \in 1 .. Len(out) : i \in 1 .. Len(out) + 1
        BY <3>4
      <4> QED
        BY <3>5, <3>6, <4>1, <4>2, <4>3, <4>4
    <3>9. \A i \in Finals : out'[i].text \in Canonical /\ i = Len(out)
      <4>1. Finals = {i \in 1 .. Len(out) : out[i].kind = "final"}
        BY <3>3 DEF Finals
      <4> QED
        BY <3>3, <3>4, <4>1
    <3>10. StreamWellFormed'
      <4>1. Len(out') - 1 = Len(out)
        BY <3>4
      <4>2. ~out'[Len(out')].failed <=> (Len(out') - 1) \in Finals'
        BY <3>3, <3>6, <3>8, <4>1
      <4>3. \A i \in Finals' : out'[i].text \in Canonical /\ i >= Len(out') - 1
        BY <3>4, <3>8, <3>9, <4>1
      <4> QED
        BY <3>7, <4>2, <4>3 DEF StreamWellFormed
    <3>11. StreamTypeOK'
      BY <1>T, <2>1, <3>4 DEF StreamTypeOK
    <3> QED
      BY <2>1, <3>10, <3>11 DEF StreamInv, DeltasFirst, FinalOrError, EmittedSpellsText
  <2> QED
    BY <2>2, <2>3
<1>10. CASE UNCHANGED vars
  BY <1>10, <1>T, QuietStep DEF vars, StreamTypeOK
<1> QED
  BY <1>1, <1>2, <1>3, <1>4, <1>5, <1>6, <1>7, <1>8, <1>9, <1>10 DEF Next, Goroutine

LEMMA StreamAlways == Spec => []StreamInv
BY StreamInit, StreamNext, PTL DEF Spec

-----------------------------------------------------------------------------
(* The host sees deltas, then at most one final event, then one close, and  *)
(* the close tells success exactly after a canonical final event            *)
(* (executor.go, the goroutine of ExecuteStream; streamCursorJSON).         *)
THEOREM StreamAlwaysWellFormed == Spec => []StreamWellFormed
<1>1. StreamInv => StreamWellFormed
  BY DEF StreamInv
<1> QED
  BY <1>1, StreamAlways, PTL

(* For every alphabet and every way to cut the text into chunks, the deltas *)
(* put together are what the agent has said (streamCursorJSON).             *)
THEOREM DeltasAlwaysSpellText == Spec => []DeltasSpellText
<1>1. StreamInv => DeltasSpellText
  BY DEF StreamInv, EmittedSpellsText, DeltasSpellText
<1> QED
  BY <1>1, StreamAlways, PTL
=============================================================================
