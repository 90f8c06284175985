--------------------------- MODULE AgentPoolProofs ---------------------------
(***************************************************************************)
(* Proofs about AgentPool, for any number of runs, any capacities and any  *)
(* number of reconfigurations.                                             *)
(***************************************************************************)
EXTENDS AgentPool, FiniteSetTheorems, TLAPS

(* A run deals with the present channel or an earlier one; nothing is in a  *)
(* channel that was not made yet.                                           *)
ChannelKnown ==
  /\ \A r \in Runs : chan[r] <= gen
  /\ \A g \in Gens : g > gen => tokens[g] = 0

(* The agent lives only while its run waits for it: every way out of the    *)
(* select finds it gone or kills it.                                        *)
AliveWhileRunning == \A r \in Runs : proc[r] = "alive" => pc[r] = "running"

(* The workspace is there from Enter to CleanUp.                            *)
WorkspaceSpan ==
  \A r \in Runs : workspace[r] <=> pc[r] \notin {"idle", "called"}

(* Every element belongs to a holder, over all channels that ever were.     *)
ElementsCounted == IsFiniteSet(Elements) /\ TokensConserved

PoolInv ==
  /\ TypeOK
  /\ ChannelKnown
  /\ AliveWhileRunning
  /\ WorkspaceSpan
  /\ ElementsCounted

-----------------------------------------------------------------------------

LEMMA HoldersFinite == IsFiniteSet(Holders) /\ Cardinality(Holders) \in Nat
BY FS_Subset, FS_CardinalityType, RunsAssumption DEF Holders

LEMMA GensFacts == 1 \in Gens /\ \A g \in Gens : g \in Nat /\ g >= 1
BY MaxGenAssumption DEF Gens

(* The numbers of a well typed state, one fact per use.                     *)
LEMMA Numbers ==
  ASSUME TypeOK
  PROVE  /\ gen \in Nat /\ gen >= 1
         /\ \A r \in Runs : chan[r] \in Gens /\ chan[r] \in Nat /\ chan[r] >= 1
         /\ \A g \in Gens : tokens[g] \in Nat /\ capacity[g] \in Nat
<1>1. gen \in Gens /\ \A r \in Runs : chan[r] \in Gens
  BY DEF TypeOK
<1>2. \A g \in Gens : capacity[g] \in Capacities /\ tokens[g] \in Nat
  BY DEF TypeOK
<1> QED
  BY <1>1, <1>2, GensFacts, CapacitiesAssumption

LEMMA PoolInit == Init => PoolInv
<1> SUFFICES ASSUME Init PROVE PoolInv
  OBVIOUS
<1>0. \A g \in Gens : capacity[g] \in Nat /\ tokens[g] = 0
  BY CapacitiesAssumption DEF Init
<1>1. TypeOK
  <2>1. tokens \in [Gens -> Nat] /\ \A g \in Gens : tokens[g] <= capacity[g]
    <3>1. tokens \in [Gens -> Nat]
      BY DEF Init
    <3>2. \A g \in Gens : tokens[g] <= capacity[g]
      BY <1>0
    <3> QED
      BY <3>1, <3>2
  <2> QED
    BY <2>1, GensFacts DEF Init, TypeOK
<1>2. Holders = {}
  BY DEF Init, Holders
<1>4. Elements = {}
  <2>1. \A g \in Gens : 1 .. tokens[g] = {}
    BY <1>0
  <2> QED
    BY <2>1 DEF Elements
<1>5. ElementsCounted
  BY <1>2, <1>4, FS_EmptySet DEF ElementsCounted, TokensConserved
<1> QED
  BY <1>0, <1>1, <1>5 DEF Init, PoolInv, ChannelKnown, AliveWhileRunning, WorkspaceSpan

(* A step that leaves the channels and the set of holders alone.            *)
LEMMA SlotsKept ==
  ASSUME PoolInv, tokens' = tokens, gen' = gen, Holders' = Holders
  PROVE  ElementsCounted'
BY DEF PoolInv, ElementsCounted, TokensConserved, Elements

(* One element more, the last of channel c.                                 *)
LEMMA ElementAdded ==
  ASSUME PoolInv, NEW c \in Gens, tokens' = [tokens EXCEPT ![c] = @ + 1]
  PROVE  /\ IsFiniteSet(Elements')
         /\ Cardinality(Elements') = Cardinality(Elements) + 1
<1> DEFINE new == <<c, tokens[c] + 1>>
<1>1. tokens \in [Gens -> Nat] /\ tokens[c] \in Nat
  BY DEF PoolInv, TypeOK
<1>2. \A g \in Gens : 1 .. tokens'[g] = IF g = c THEN (1 .. tokens[g]) \cup {tokens[g] + 1}
                                                ELSE 1 .. tokens[g]
  <2>1. \A g \in Gens : tokens'[g] = IF g = c THEN tokens[g] + 1 ELSE tokens[g]
    BY <1>1
  <2>2. \A n \in Nat : 1 .. (n + 1) = (1 .. n) \cup {n + 1}
    OBVIOUS
  <2> QED
    BY <1>1, <2>1, <2>2
<1>3. Elements' = Elements \cup {new}
  <2>1. ASSUME NEW e PROVE e \in Elements' <=> e \in Elements \/ e = new
    <3>1. e \in Elements <=> \E g \in Gens : \E i \in 1 .. tokens[g] : e = <<g, i>>
      BY DEF Elements
    <3>2. e \in Elements' <=> \E g \in Gens : \E i \in 1 .. tokens'[g] : e = <<g, i>>
      BY DEF Elements
    <3> QED
      BY <1>2, <3>1, <3>2
  <2> QED
    BY <2>1
<1>4. new \notin Elements
  <2>1. tokens[c] + 1 \notin 1 .. tokens[c]
    BY <1>1
  <2>2. ASSUME NEW g \in Gens, new \in {g} \X (1 .. tokens[g]) PROVE FALSE
    <3>1. g = c /\ tokens[c] + 1 \in 1 .. tokens[g]
      BY <2>2
    <3> QED
      BY <2>1, <3>1
  <2> QED
    BY <2>2 DEF Elements
<1> QED
  BY <1>3, <1>4, FS_AddElement DEF PoolInv, ElementsCounted

(* One element less, the last of channel c.                                 *)
LEMMA ElementRemoved ==
  ASSUME PoolInv, NEW c \in Gens, tokens[c] > 0,
         tokens' = [tokens EXCEPT ![c] = @ - 1]
  PROVE  /\ IsFiniteSet(Elements')
         /\ Cardinality(Elements') = Cardinality(Elements) - 1
<1> DEFINE old == <<c, tokens[c]>>
<1>1. tokens \in [Gens -> Nat] /\ tokens[c] \in Nat
  BY DEF PoolInv, TypeOK
<1>2. \A g \in Gens : 1 .. tokens'[g] = IF g = c THEN (1 .. tokens[g]) \ {tokens[g]}
                                                ELSE 1 .. tokens[g]
  <2>1. \A g \in Gens : tokens'[g] = IF g = c THEN tokens[g] - 1 ELSE tokens[g]
    BY <1>1
  <2>2. \A n \in Nat : 1 .. (n - 1) = (1 .. n) \ {n}
    OBVIOUS
  <2> QED
    BY <1>1, <2>1, <2>2
<1>3. Elements' = Elements \ {old}
  <2>1. ASSUME NEW e PROVE e \in Elements' <=> e \in Elements /\ e # old
    <3>1. e \in Elements <=> \E g \in Gens : \E i \in 1 .. tokens[g] : e = <<g, i>>
      BY DEF Elements
    <3>2. e \in Elements' <=> \E g \in Gens : \E i \in 1 .. tokens'[g] : e = <<g, i>>
      BY DEF Elements
    <3>3. ASSUME NEW g \in Gens, NEW i \in 1 .. tokens[g], e = <<g, i>>, e # old
          PROVE  i \in 1 .. tokens'[g]
      BY <1>2, <3>3
    <3>4. ASSUME NEW g \in Gens, NEW i \in 1 .. tokens'[g], e = <<g, i>>
          PROVE  i \in 1 .. tokens[g] /\ e # old
      BY <1>2, <3>4
    <3> QED
      BY <3>1, <3>2, <3>3, <3>4
  <2> QED
    BY <2>1
<1>4. old \in Elements
  <2>1. tokens[c] \in 1 .. tokens[c]
    BY <1>1
  <2>2. old \in {c} \X (1 .. tokens[c])
    BY <2>1
  <2> QED
    BY <2>2 DEF Elements
<1>5. IsFiniteSet(Elements) /\ IsFiniteSet(Elements')
  BY <1>3, FS_RemoveElement DEF PoolInv, ElementsCounted
<1> QED
  BY <1>3, <1>4, <1>5, FS_RemoveElement

LEMMA PoolNext == PoolInv /\ [Next]_vars => PoolInv'
<1> SUFFICES ASSUME PoolInv, [Next]_vars PROVE PoolInv'
  OBVIOUS
<1> USE DEF config
<1>T. TypeOK
  BY DEF PoolInv
<1>1. CASE Configure
  <2>1. gen' # 1 /\ gen' \in Gens /\ gen' = gen + 1
    BY <1>1, <1>T, GensFacts, MaxGenAssumption DEF Configure, TypeOK, Gens
  <2>2. TypeOK'
    BY <1>1, <1>T, <2>1 DEF Configure, TypeOK
  <2>3. ChannelKnown'
    BY <1>1, <1>T, <2>1, Numbers DEF Configure, PoolInv, ChannelKnown
  <2> QED
    BY <1>1, <2>1, <2>2, <2>3
    DEF Configure, PoolInv, AliveWhileRunning, WorkspaceSpan,
        ElementsCounted, TokensConserved, Elements, Holders
<1>2. CASE \E r \in Runs : Call(r)
  <2>1. PICK r \in Runs : Call(r)
    BY <1>2
  <2>2. TypeOK'
    BY <1>T, <2>1, GensFacts DEF Call, TypeOK
  <2>3. ChannelKnown'
    BY <1>T, <2>1, GensFacts DEF Call, PoolInv, ChannelKnown, TypeOK
  <2>4. AliveWhileRunning' /\ WorkspaceSpan'
    BY <1>T, <2>1 DEF Call, PoolInv, AliveWhileRunning, WorkspaceSpan, TypeOK
  <2>5. Holders' = Holders
    BY <1>T, <2>1 DEF Call, Holders, TypeOK
  <2> QED
    BY <2>1, <2>2, <2>3, <2>4, <2>5, SlotsKept DEF Call, PoolInv
<1>3. CASE \E r \in Runs : Enter(r)
  <2>1. PICK r \in Runs : Enter(r)
    BY <1>3
  <2>2. TypeOK'
    BY <1>T, <2>1, GensFacts DEF Enter, TypeOK
  <2>3. ChannelKnown'
    BY <1>T, <2>1, GensFacts DEF Enter, PoolInv, ChannelKnown, TypeOK
  <2>4. AliveWhileRunning' /\ WorkspaceSpan'
    BY <1>T, <2>1 DEF Enter, PoolInv, AliveWhileRunning, WorkspaceSpan, TypeOK
  <2>5. Holders' = Holders
    BY <1>T, <2>1 DEF Enter, Holders, TypeOK
  <2> QED
    BY <2>1, <2>2, <2>3, <2>4, <2>5, SlotsKept DEF Enter, PoolInv
<1>4. CASE \E r \in Runs : CancelWhileSending(r)
  <2>1. PICK r \in Runs : CancelWhileSending(r)
    BY <1>4
  <2>2. TypeOK'
    BY <1>T, <2>1, GensFacts DEF CancelWhileSending, TypeOK
  <2>3. ChannelKnown'
    BY <1>T, <2>1, GensFacts DEF CancelWhileSending, PoolInv, ChannelKnown, TypeOK
  <2>4. AliveWhileRunning' /\ WorkspaceSpan'
    BY <1>T, <2>1 DEF CancelWhileSending, PoolInv, AliveWhileRunning, WorkspaceSpan, TypeOK
  <2>5. Holders' = Holders
    BY <1>T, <2>1 DEF CancelWhileSending, Holders, TypeOK
  <2> QED
    BY <2>1, <2>2, <2>3, <2>4, <2>5, SlotsKept DEF CancelWhileSending, PoolInv
<1>5. CASE \E r \in Runs : Start(r)
  <2>1. PICK r \in Runs : Start(r)
    BY <1>5
  <2>2. TypeOK'
    BY <1>T, <2>1, GensFacts DEF Start, BeginRelease, TypeOK
  <2>3. ChannelKnown'
    BY <1>T, <2>1, GensFacts DEF Start, BeginRelease, PoolInv, ChannelKnown, TypeOK
  <2>4. AliveWhileRunning' /\ WorkspaceSpan'
    BY <1>T, <2>1 DEF Start, BeginRelease, PoolInv, AliveWhileRunning, WorkspaceSpan, TypeOK
  <2>5. Holders' = Holders
    BY <1>T, <2>1 DEF Start, BeginRelease, Holders, TypeOK
  <2> QED
    BY <2>1, <2>2, <2>3, <2>4, <2>5, SlotsKept DEF Start, BeginRelease, PoolInv
<1>6. CASE \E r \in Runs : Exit(r)
  <2>1. PICK r \in Runs : Exit(r)
    BY <1>6
  <2>2. TypeOK'
    BY <1>T, <2>1, GensFacts DEF Exit, TypeOK
  <2>3. ChannelKnown'
    BY <1>T, <2>1, GensFacts DEF Exit, PoolInv, ChannelKnown, TypeOK
  <2>4. AliveWhileRunning' /\ WorkspaceSpan'
    BY <1>T, <2>1 DEF Exit, PoolInv, AliveWhileRunning, WorkspaceSpan, TypeOK
  <2>5. Holders' = Holders
    BY <1>T, <2>1 DEF Exit, Holders, TypeOK
  <2> QED
    BY <2>1, <2>2, <2>3, <2>4, <2>5, SlotsKept DEF Exit, PoolInv
<1>7. CASE \E r \in Runs : Finish(r)
  <2>1. PICK r \in Runs : Finish(r)
    BY <1>7
  <2>2. TypeOK'
    BY <1>T, <2>1, GensFacts DEF Finish, BeginRelease, TypeOK
  <2>3. ChannelKnown'
    BY <1>T, <2>1, GensFacts DEF Finish, BeginRelease, PoolInv, ChannelKnown, TypeOK
  <2>4. AliveWhileRunning' /\ WorkspaceSpan'
    BY <1>T, <2>1 DEF Finish, BeginRelease, PoolInv, AliveWhileRunning, WorkspaceSpan, TypeOK
  <2>5. Holders' = Holders
    BY <1>T, <2>1 DEF Finish, BeginRelease, Holders, TypeOK
  <2> QED
    BY <2>1, <2>2, <2>3, <2>4, <2>5, SlotsKept DEF Finish, BeginRelease, PoolInv
<1>8. CASE \E r \in Runs : Timeout(r)
  <2>1. PICK r \in Runs : Timeout(r)
    BY <1>8
  <2>2. TypeOK'
    BY <1>T, <2>1, GensFacts DEF Timeout, TypeOK
  <2>3. ChannelKnown'
    BY <1>T, <2>1, GensFacts DEF Timeout, PoolInv, ChannelKnown, TypeOK
  <2>4. AliveWhileRunning' /\ WorkspaceSpan'
    BY <1>T, <2>1 DEF Timeout, PoolInv, AliveWhileRunning, WorkspaceSpan, TypeOK
  <2>5. Holders' = Holders
    BY <1>T, <2>1 DEF Timeout, Holders, TypeOK
  <2> QED
    BY <2>1, <2>2, <2>3, <2>4, <2>5, SlotsKept DEF Timeout, PoolInv
<1>9. CASE \E r \in Runs : Killed(r)
  <2>1. PICK r \in Runs : Killed(r)
    BY <1>9
  <2>2. TypeOK'
    BY <1>T, <2>1, GensFacts DEF Killed, BeginRelease, TypeOK
  <2>3. ChannelKnown'
    BY <1>T, <2>1, GensFacts DEF Killed, BeginRelease, PoolInv, ChannelKnown, TypeOK
  <2>4. AliveWhileRunning' /\ WorkspaceSpan'
    BY <1>T, <2>1 DEF Killed, BeginRelease, PoolInv, AliveWhileRunning, WorkspaceSpan, TypeOK
  <2>5. Holders' = Holders
    BY <1>T, <2>1 DEF Killed, BeginRelease, Holders, TypeOK
  <2> QED
    BY <2>1, <2>2, <2>3, <2>4, <2>5, SlotsKept DEF Killed, BeginRelease, PoolInv
<1>10. CASE \E r \in Runs : GraceOver(r)
  <2>1. PICK r \in Runs : GraceOver(r)
    BY <1>10
  <2>2. TypeOK'
    BY <1>T, <2>1, GensFacts DEF GraceOver, BeginRelease, TypeOK
  <2>3. ChannelKnown'
    BY <1>T, <2>1, GensFacts DEF GraceOver, BeginRelease, PoolInv, ChannelKnown, TypeOK
  <2>4. AliveWhileRunning' /\ WorkspaceSpan'
    BY <1>T, <2>1 DEF GraceOver, BeginRelease, PoolInv, AliveWhileRunning, WorkspaceSpan, TypeOK
  <2>5. Holders' = Holders
    BY <1>T, <2>1 DEF GraceOver, BeginRelease, Holders, TypeOK
  <2> QED
    BY <2>1, <2>2, <2>3, <2>4, <2>5, SlotsKept DEF GraceOver, BeginRelease, PoolInv
<1>11. CASE \E r \in Runs : CleanUp(r)
  <2>1. PICK r \in Runs : CleanUp(r)
    BY <1>11
  <2>2. TypeOK'
    BY <1>T, <2>1, GensFacts DEF CleanUp, TypeOK
  <2>3. ChannelKnown'
    BY <1>T, <2>1, GensFacts DEF CleanUp, PoolInv, ChannelKnown, TypeOK
  <2>4. AliveWhileRunning' /\ WorkspaceSpan'
    BY <1>T, <2>1 DEF CleanUp, PoolInv, AliveWhileRunning, WorkspaceSpan, TypeOK
  <2>5. Holders' = Holders
    BY <1>T, <2>1 DEF CleanUp, Holders, TypeOK
  <2> QED
    BY <2>1, <2>2, <2>3, <2>4, <2>5, SlotsKept DEF CleanUp, PoolInv
<1>12. CASE \E r \in Runs : Send(r)
  <2>1. PICK r \in Runs : Send(r)
    BY <1>12
  <2>0. /\ chan[r] \in Gens /\ tokens[chan[r]] \in Nat
        /\ capacity[chan[r]] \in Nat
    BY <1>T, Numbers
  <2>2. TypeOK'
    <3>1. tokens[chan[r]] + 1 \in Nat /\ tokens[chan[r]] + 1 <= capacity[chan[r]]
      BY <1>T, <2>0, <2>1 DEF Send, TypeOK
    <3>2. tokens' \in [Gens -> Nat] /\ \A g \in Gens : tokens'[g] <= capacity[g]
      BY <1>T, <2>0, <2>1, <3>1 DEF Send, TypeOK
    <3>3. pc' \in [Runs -> {"idle", "called", "sending", "starting", "running",
                           "killing", "receiving", "cleaning"}]
      BY <1>T, <2>1 DEF Send, TypeOK
    <3> QED
      BY <1>T, <2>1, <3>2, <3>3 DEF Send, TypeOK
  <2>3. ChannelKnown'
    BY <1>T, <2>1, GensFacts DEF Send, PoolInv, ChannelKnown, TypeOK
  <2>4. AliveWhileRunning' /\ WorkspaceSpan'
    BY <1>T, <2>1 DEF Send, PoolInv, AliveWhileRunning, WorkspaceSpan, TypeOK
  <2>5. Holders' = Holders \cup {r} /\ r \notin Holders
    BY <1>T, <2>1 DEF Send, Holders, TypeOK
  <2>6. Cardinality(Holders') = Cardinality(Holders) + 1
    BY <2>5, HoldersFinite, FS_AddElement
  <2>9. ElementsCounted'
    BY <2>0, <2>1, <2>6, ElementAdded DEF Send, PoolInv, ElementsCounted, TokensConserved
  <2> QED
    BY <2>2, <2>3, <2>4, <2>9 DEF PoolInv
<1>13. CASE \E r \in Runs : Receive(r)
  <2>1. PICK r \in Runs : Receive(r)
    BY <1>13
  <2>0. /\ chan[r] \in Gens /\ tokens[chan[r]] \in Nat
        /\ capacity[chan[r]] \in Nat
    BY <1>T, Numbers
  <2>2. TypeOK'
    <3>1. tokens[chan[r]] - 1 \in Nat /\ tokens[chan[r]] - 1 <= capacity[chan[r]]
      BY <1>T, <2>0, <2>1 DEF Receive, TypeOK
    <3>2. tokens' \in [Gens -> Nat] /\ \A g \in Gens : tokens'[g] <= capacity[g]
      BY <1>T, <2>0, <2>1, <3>1 DEF Receive, TypeOK
    <3>3. pc' \in [Runs -> {"idle", "called", "sending", "starting", "running",
                           "killing", "receiving", "cleaning"}]
      BY <1>T, <2>1 DEF Receive, TypeOK
    <3> QED
      BY <1>T, <2>1, <3>2, <3>3 DEF Receive, TypeOK
  <2>3. ChannelKnown'
    BY <1>T, <2>1, GensFacts DEF Receive, PoolInv, ChannelKnown, TypeOK
  <2>4. AliveWhileRunning' /\ WorkspaceSpan'
    BY <1>T, <2>1 DEF Receive, PoolInv, AliveWhileRunning, WorkspaceSpan, TypeOK
  <2>5. Holders' = Holders \ {r} /\ r \in Holders
    BY <1>T, <2>1 DEF Receive, Holders, TypeOK
  <2>6. Cardinality(Holders') = Cardinality(Holders) - 1
    BY <2>5, HoldersFinite, FS_RemoveElement
  <2>9. ElementsCounted'
    BY <2>0, <2>1, <2>6, ElementRemoved DEF Receive, PoolInv, ElementsCounted, TokensConserved
  <2> QED
    BY <2>2, <2>3, <2>4, <2>9 DEF PoolInv
<1>14. CASE UNCHANGED vars
  BY <1>14 DEF vars, PoolInv, TypeOK, ChannelKnown, AliveWhileRunning, WorkspaceSpan,
               Holders, ElementsCounted, TokensConserved, Elements
<1> QED
  BY <1>1, <1>2, <1>3, <1>4, <1>5, <1>6, <1>7, <1>8, <1>9, <1>10, <1>11, <1>12, <1>13, <1>14 DEF Next, Step

LEMMA PoolAlways == Spec => []PoolInv
BY PoolInit, PoolNext, PTL DEF Spec

(* Every reachable state is well typed: in particular no channel ever holds *)
(* more elements than its capacity, reconfigurations included.              *)
THEOREM PoolTyped == Spec => []TypeOK
<1>1. PoolInv => TypeOK
  BY DEF PoolInv
<1> QED
  BY <1>1, PoolAlways, PTL

(* However often the configuration is replaced, the channels together hold  *)
(* one element per call that holds a slot, for any number of calls and any  *)
(* capacities: slots wander between channels, and none is lost.             *)
THEOREM SlotsConserved == Spec => []TokensConserved
<1>1. PoolInv => TokensConserved
  BY DEF PoolInv, ElementsCounted
<1> QED
  BY <1>1, PoolAlways, PTL

(* The slots of finitely many channels are finitely many.                   *)
LEMMA PlacesFinite == TypeOK => IsFiniteSet(Places)
<1> SUFFICES ASSUME TypeOK PROVE IsFiniteSet(Places)
  OBVIOUS
<1> DEFINE slots(g) == {g} \X (1 .. capacity[g])
           S == {slots(g) : g \in 1 .. gen}
<1>1. gen \in Nat /\ \A g \in 1 .. gen : g \in Gens /\ capacity[g] \in Nat
  BY Numbers, MaxGenAssumption DEF Gens, TypeOK
<1>2. IsFiniteSet(1 .. gen)
  BY <1>1, FS_Interval
<1>3. IsFiniteSet(S)
  <2> DEFINE f == [g \in 1 .. gen |-> slots(g)]
  <2>1. f \in Surjection(1 .. gen, S)
    BY DEF Surjection
  <2> QED
    BY <1>2, <2>1, FS_Surjection
<1>4. \A s \in S : IsFiniteSet(s)
  <2> SUFFICES ASSUME NEW g \in 1 .. gen PROVE IsFiniteSet(slots(g))
    OBVIOUS
  <2>1. IsFiniteSet(1 .. capacity[g])
    <3>1. 1 \in Int /\ capacity[g] \in Int
      BY <1>1
    <3> QED
      BY <3>1, FS_Interval
  <2>2. IsFiniteSet({g})
    BY FS_Singleton
  <2> QED
    BY <2>1, <2>2, FS_Product
<1>5. IsFiniteSet(UNION S)
  BY <1>3, <1>4, FS_UNION
<1> QED
  BY <1>5 DEF Places

(* However often the configuration is replaced, no more agents live than    *)
(* the channels made so far have slots, for any number of calls: before the *)
(* first replacement, max_concurrent.                                       *)
THEOREM AgentsBounded == Spec => []SubprocessesBounded
<1>1. PoolInv => SubprocessesBounded
  <2> SUFFICES ASSUME PoolInv PROVE Cardinality(Alive) <= Cardinality(Places)
    BY DEF SubprocessesBounded
  <2>T. TypeOK
    BY DEF PoolInv
  <2>1. Alive \subseteq Holders
    BY DEF PoolInv, AliveWhileRunning, Alive, Holders
  <2>2. Cardinality(Alive) <= Cardinality(Holders) /\ Cardinality(Alive) \in Nat
    BY <2>1, HoldersFinite, FS_Subset, FS_CardinalityType
  <2>3. Elements \subseteq Places
    <3> SUFFICES ASSUME NEW g \in Gens, NEW i \in 1 .. tokens[g] PROVE <<g, i>> \in Places
      BY DEF Elements
    <3>1. g \in Nat /\ g >= 1 /\ gen \in Nat /\ tokens[g] \in Nat /\ capacity[g] \in Nat
      BY <2>T, Numbers, GensFacts
    <3>2. g <= gen /\ i <= capacity[g]
      BY <3>1 DEF PoolInv, ChannelKnown, TypeOK
    <3>3. g \in 1 .. gen /\ i \in 1 .. capacity[g]
      BY <3>1, <3>2
    <3> QED
      BY <3>3 DEF Places
  <2>4. /\ IsFiniteSet(Places) /\ Cardinality(Places) \in Nat
        /\ Cardinality(Elements) <= Cardinality(Places)
    BY <2>T, <2>3, PlacesFinite, FS_Subset, FS_CardinalityType
  <2>5. Cardinality(Elements) = Cardinality(Holders)
    BY DEF PoolInv, ElementsCounted, TokensConserved
  <2> QED
    BY <2>2, <2>4, <2>5, HoldersFinite
<1> QED
  BY <1>1, PoolAlways, PTL

(* Whatever Configure does to the channels, the private workspace exists as *)
(* long as the agent in it, and is gone when the call has returned.         *)
THEOREM WorkspaceAlwaysCovers == Spec => []WorkspaceCoversRun
<1>1. PoolInv => WorkspaceCoversRun
  BY DEF PoolInv, AliveWhileRunning, WorkspaceSpan, WorkspaceCoversRun
<1> QED
  BY <1>1, PoolAlways, PTL
=============================================================================
