-------------------------- MODULE ModelCacheProofs ---------------------------
(***************************************************************************)
(* Proofs about ModelCache, for any number of concurrent calls, any        *)
(* configurations and any number of times the configuration is replaced.   *)
(***************************************************************************)
EXTENDS ModelCache, TLAPS

ListRecord == [models : SUBSET Models, asked : Nat, gen : Nat, ttl : Nat,
               raced : BOOLEAN]

CacheTypeOK ==
  /\ now \in Nat
  /\ config \in Configs
  /\ gen \in Nat
  /\ configuring \in BOOLEAN
  /\ cache \in ListRecord
  /\ expires \in Nat
  /\ pc \in [Callers -> {"idle", "lookup", "listing"}]
  /\ local \in [Callers -> [cfg : Configs, now : Nat, gen : Nat, calm : BOOLEAN]]
  /\ crossed \in [Callers -> BOOLEAN]
  /\ answer \in [Callers -> ListRecord]
  /\ listedAt \in [Models -> Nat]

(* The cached list expires its TTL after it was asked for.                  *)
ExpiryFromAsked == cache.models # {} => expires = cache.asked + cache.ttl

(* What is cached or answered was printed after it was asked for, and       *)
(* nothing was asked for in the future.                                     *)
ListsPrinted ==
  /\ cache.asked <= now
  /\ \A m \in cache.models : cache.asked < listedAt[m]
  /\ \A c \in Callers :
       /\ local[c].now <= now /\ answer[c].asked <= now
       /\ \A m \in answer[c].models : answer[c].asked < listedAt[m]

(* A generation is one configuration, wherever a call has its copy; and     *)
(* every list was filtered with the configuration of its generation.        *)
OneConfigPerGen ==
  /\ cache.models # {} => cache.gen <= gen
  /\ cache.models # {} /\ cache.gen = gen => cache.models \subseteq config.permits
  /\ \A c \in Callers :
       /\ local[c].gen = gen => local[c].cfg = config
       /\ cache.models # {} /\ cache.gen = local[c].gen =>
            cache.models \subseteq local[c].cfg.permits
       /\ answer[c].models # {} /\ answer[c].gen = local[c].gen =>
            answer[c].models \subseteq local[c].cfg.permits
       /\ answer[c].models # {} /\ ~crossed[c] => answer[c].gen <= local[c].gen
       /\ \A d \in Callers : local[c].gen = local[d].gen => local[c].cfg = local[d].cfg

(* A call that no Configure crossed has the present configuration; no call  *)
(* has a later one.                                                         *)
UncrossedIsCurrent ==
  \A c \in Callers :
    /\ local[c].gen <= gen
    /\ pc[c] # "idle" /\ ~crossed[c] => local[c].gen = gen

(* Outside of Configure the cache is of the present configuration, unless   *)
(* the call that filled it was crossed by one.                              *)
CacheCurrentUnlessRaced ==
  ~configuring /\ cache.models # {} /\ ~cache.raced => cache.gen = gen

(* What a call that began outside of Configure may still find in the cache: *)
(* a later Configure that has not emptied it yet does not make it older.    *)
LookupCurrentUnlessRaced ==
  \A c \in Callers :
    pc[c] = "lookup" /\ local[c].calm =>
      cache.models = {} \/ cache.raced \/ cache.gen >= local[c].gen

(* A call has no answer before it returns.                                  *)
UnansweredUntilReturn == \A c \in Callers : pc[c] # "idle" => answer[c].models = {}

CacheInv ==
  /\ CacheTypeOK
  /\ UnansweredUntilReturn
  /\ ExpiryFromAsked
  /\ ListsPrinted
  /\ OneConfigPerGen
  /\ UncrossedIsCurrent
  /\ CacheCurrentUnlessRaced
  /\ LookupCurrentUnlessRaced
  /\ AnswersFresh
  /\ StaleOnlyIfRaced

-----------------------------------------------------------------------------
LEMMA NoListFacts == NoList \in ListRecord /\ NoList.models = {} /\ NoList.asked = 0 /\ NoList.gen = 0
BY DEF NoList, List, ListRecord

LEMMA CacheInit == Init => CacheInv
<1> SUFFICES ASSUME Init PROVE CacheInv
  OBVIOUS
<1>1. \A c \in Callers : /\ pc[c] = "idle" /\ answer[c] = NoList /\ crossed[c] = FALSE
                         /\ local[c] = [cfg |-> config, now |-> 0, gen |-> 0, calm |-> TRUE]
  BY DEF Init
<1>2. CacheTypeOK
  BY NoListFacts DEF Init, CacheTypeOK
<1>3. UncrossedIsCurrent
  <2>1. gen = 0 /\ \A c \in Callers : local[c].gen = gen
    BY <1>1 DEF Init
  <2>2. gen <= gen
    BY <2>1
  <2> QED
    BY <2>1, <2>2 DEF UncrossedIsCurrent
<1>4. ListsPrinted
  BY <1>1, NoListFacts DEF Init, ListsPrinted
<1>5. OneConfigPerGen
  BY <1>1, NoListFacts DEF Init, OneConfigPerGen
<1> QED
  BY <1>1, <1>2, <1>3, <1>4, <1>5, NoListFacts
  DEF Init, CacheInv, ExpiryFromAsked, CacheCurrentUnlessRaced,
      LookupCurrentUnlessRaced, UnansweredUntilReturn, AnswersFresh, StaleOnlyIfRaced

(* The list that a call makes of what "agent models" printed.               *)
LEMMA ListMade ==
  ASSUME CacheTypeOK, NEW c \in Callers, NEW listed \in ParseModelLines
  PROVE  LET cfg == local[c].cfg
             m == FilterCursorModels(listed, cfg)
             l == List(m, local[c].now, local[c].gen, cfg, crossed[c])
         IN /\ l \in ListRecord
            /\ l.models = m /\ m \subseteq cfg.permits /\ m \subseteq listed
            /\ l.asked = local[c].now /\ l.gen = local[c].gen
            /\ l.ttl = cfg.ttl /\ l.raced = crossed[c]
<1>1. local[c] \in [cfg : Configs, now : Nat, gen : Nat, calm : BOOLEAN]
  BY DEF CacheTypeOK
<1>2. local[c].cfg \in ConfigRecord
  BY <1>1, ConfigsAssumption
<1> QED
  BY <1>1, <1>2
  DEF CacheTypeOK, ParseModelLines, FilterCursorModels, List, ListRecord, ConfigRecord

LEMMA CacheNext == CacheInv /\ [Next]_vars => CacheInv'
<1> SUFFICES ASSUME CacheInv, [Next]_vars PROVE CacheInv'
  OBVIOUS
<1> USE DEF caller
<1>T. CacheTypeOK
  BY DEF CacheInv
<1>1. CASE Tick
  <2>1. ListsPrinted'
    BY <1>1, <1>T DEF Tick, CacheInv, CacheTypeOK, ListRecord, ListsPrinted
  <2>2. OneConfigPerGen'
    BY <1>1 DEF Tick, CacheInv, OneConfigPerGen
  <2> QED
    BY <1>1, <2>1, <2>2
    DEF Tick, CacheInv, CacheTypeOK, ExpiryFromAsked, UncrossedIsCurrent,
      UnansweredUntilReturn, CacheCurrentUnlessRaced, LookupCurrentUnlessRaced, AnswersFresh, StaleOnlyIfRaced
<1>2. CASE Configure
  <2>1. CacheTypeOK'
    BY <1>T, <1>2 DEF Configure, CacheTypeOK
  <2>2. UncrossedIsCurrent'
    <3>1. gen \in Nat /\ gen' = gen + 1 /\ pc' = pc /\ local' = local
      BY <1>T, <1>2 DEF Configure, CacheTypeOK
    <3>2. \A c \in Callers : local[c].gen \in Nat /\ local[c].gen <= gen
      BY <1>T DEF CacheInv, CacheTypeOK, UncrossedIsCurrent
    <3>3. \A c \in Callers : pc[c] # "idle" => crossed'[c]
      BY <1>2 DEF Configure
    <3>4. \A c \in Callers : local'[c].gen <= gen'
      BY <3>1, <3>2
    <3> QED
      BY <3>1, <3>3, <3>4 DEF UncrossedIsCurrent
  <2>3. ListsPrinted'
    BY <1>2 DEF Configure, CacheInv, ListsPrinted
  <2>4. OneConfigPerGen'
    <3>1. gen \in Nat /\ gen' = gen + 1 /\ UNCHANGED <<cache, local, answer>>
      BY <1>T, <1>2 DEF Configure, CacheTypeOK
    <3>2. cache.gen \in Nat /\ \A c \in Callers : local[c].gen \in Nat /\ answer[c].gen \in Nat
      BY <1>T DEF CacheTypeOK, ListRecord
    <3>3. \A c \in Callers : local[c].gen < gen'
      BY <3>1, <3>2 DEF CacheInv, UncrossedIsCurrent
    <3>4. cache.models # {} => cache.gen < gen'
      BY <3>1, <3>2 DEF CacheInv, OneConfigPerGen
    <3>5. \A c \in Callers : crossed[c] => crossed'[c]
      BY <1>2 DEF Configure
    <3>6. \A c \in Callers : answer[c].models # {} /\ ~crossed'[c] => answer[c].gen <= local[c].gen
      BY <3>5 DEF CacheInv, OneConfigPerGen
    <3>7. \A c \in Callers : local[c].gen # gen'
      BY <3>1, <3>2, <3>3
    <3>8. cache.models # {} => cache.gen <= gen' /\ cache.gen # gen'
      BY <3>1, <3>2, <3>4
    <3> QED
      BY <3>1, <3>6, <3>7, <3>8 DEF CacheInv, OneConfigPerGen
  <2> QED
    BY <1>2, <2>1, <2>2, <2>3, <2>4
    DEF Configure, CacheInv, ExpiryFromAsked, CacheCurrentUnlessRaced,
        LookupCurrentUnlessRaced, UnansweredUntilReturn, AnswersFresh, StaleOnlyIfRaced
<1>3. CASE ConfigureClears \/ Shutdown
  <2>1. CacheTypeOK'
    <3>1. /\ cache' \in ListRecord /\ expires' \in Nat
          /\ UNCHANGED <<now, config, gen, pc, local, crossed, answer, listedAt>>
      BY <1>3, NoListFacts DEF ConfigureClears, Shutdown, ClearCache
    <3>2. configuring' \in BOOLEAN
      BY <1>T, <1>3, Zenon DEF ConfigureClears, Shutdown, CacheTypeOK
    <3> QED
      BY <1>T, <3>1, <3>2 DEF CacheTypeOK
  <2>2. /\ cache' = NoList
        /\ UNCHANGED <<now, config, gen, pc, local, crossed, answer, listedAt>>
    BY <1>3 DEF ConfigureClears, Shutdown, ClearCache
  <2>3. ListsPrinted'
    BY <1>T, <2>2, NoListFacts DEF CacheInv, CacheTypeOK, ListsPrinted
  <2>4. OneConfigPerGen'
    BY <2>2, NoListFacts DEF CacheInv, OneConfigPerGen
  <2> QED
    BY <1>3, <2>1, <2>3, <2>4, NoListFacts
    DEF ConfigureClears, Shutdown, ClearCache, CacheInv, ExpiryFromAsked,
        UncrossedIsCurrent, CacheCurrentUnlessRaced, LookupCurrentUnlessRaced,
        UnansweredUntilReturn, AnswersFresh, StaleOnlyIfRaced
<1>4. CASE \E c \in Callers : Begin(c)
  <2>1. PICK c \in Callers : Begin(c)
    BY <1>4
  <2>2. CacheTypeOK'
    BY <1>T, <2>1, NoListFacts DEF Begin, CacheTypeOK
  <2>3. \A k \in Callers \ {c} : /\ pc'[k] = pc[k] /\ local'[k] = local[k]
                                 /\ crossed'[k] = crossed[k] /\ answer'[k] = answer[k]
    BY <1>T, <2>1 DEF Begin, CacheTypeOK
  <2>4. /\ answer'[c] = NoList /\ crossed'[c] = FALSE
        /\ local'[c] = [cfg |-> config, now |-> now, gen |-> gen, calm |-> ~configuring]
    BY <1>T, <2>1 DEF Begin, CacheTypeOK
  <2>5. local'[c].gen = gen /\ (local'[c].calm => ~configuring)
    <3>1. local'[c].gen = gen
      BY <2>4
    <3>2. local'[c].calm = ~configuring
      BY <2>4
    <3> QED
      BY <3>1, <3>2
  <2>6. UNCHANGED <<now, config, gen, configuring, cache, expires, listedAt>>
    BY <2>1 DEF Begin
  <2>7. ExpiryFromAsked' /\ CacheCurrentUnlessRaced'
    BY <2>6 DEF CacheInv, ExpiryFromAsked, CacheCurrentUnlessRaced
  <2>8. ListsPrinted' /\ OneConfigPerGen'
    <3>1. local'[c].now = now /\ local'[c].cfg = config /\ answer'[c].models = {}
          /\ answer'[c].asked = 0
      BY <2>4, NoListFacts
    <3>2. now \in Nat /\ gen \in Nat
      BY <1>T DEF CacheTypeOK
    <3>3. ListsPrinted'
      BY <2>3, <2>6, <3>1, <3>2 DEF CacheInv, ListsPrinted
    <3>4. OneConfigPerGen'
      BY <2>3, <2>5, <2>6, <3>1 DEF CacheInv, OneConfigPerGen
    <3> QED
      BY <3>3, <3>4
  <2>9. UncrossedIsCurrent'
    BY <1>T, <2>3, <2>4, <2>5, <2>6 DEF CacheInv, CacheTypeOK, UncrossedIsCurrent
  <2>10. LookupCurrentUnlessRaced'
    BY <1>T, <2>3, <2>5, <2>6
    DEF CacheInv, CacheTypeOK, LookupCurrentUnlessRaced, CacheCurrentUnlessRaced
  <2>11. UnansweredUntilReturn' /\ AnswersFresh' /\ StaleOnlyIfRaced'
    BY <2>3, <2>4, NoListFacts
    DEF CacheInv, UnansweredUntilReturn, AnswersFresh, StaleOnlyIfRaced
  <2> QED
    BY <2>2, <2>7, <2>8, <2>9, <2>10, <2>11 DEF CacheInv
<1>5. CASE \E c \in Callers : Lookup(c)
  <2>1. PICK c \in Callers : Lookup(c)
    BY <1>5
  <2>2. CacheTypeOK'
    BY <1>T, <2>1 DEF Lookup, CacheTypeOK
  <2>3. \A k \in Callers \ {c} : pc'[k] = pc[k] /\ answer'[k] = answer[k]
    BY <1>T, <2>1 DEF Lookup, CacheTypeOK
  <2>4. UNCHANGED <<now, config, gen, configuring, cache, expires, local, crossed, listedAt>>
    BY <2>1 DEF Lookup
  <2>5. \/ Usable(c) /\ answer'[c] = cache /\ pc'[c] = "idle"
        \/ answer'[c] = answer[c] /\ pc'[c] = "listing"
    BY <1>T, <2>1 DEF Lookup, CacheTypeOK
  <2>6. pc[c] = "lookup"
    BY <2>1 DEF Lookup
  <2>7. ExpiryFromAsked' /\ CacheCurrentUnlessRaced'
    BY <2>4 DEF CacheInv, ExpiryFromAsked, CacheCurrentUnlessRaced
  <2>8. ListsPrinted' /\ OneConfigPerGen'
    <3>1. ListsPrinted'
      BY <2>3, <2>4, <2>5 DEF CacheInv, ListsPrinted
    <3>2. ~crossed[c] => local[c].gen = gen
      BY <2>6 DEF CacheInv, UncrossedIsCurrent
    <3>3. OneConfigPerGen'
      BY <2>3, <2>4, <2>5, <3>2 DEF CacheInv, OneConfigPerGen
    <3> QED
      BY <3>1, <3>3
  <2>9. UncrossedIsCurrent'
    BY <2>3, <2>4, <2>6 DEF CacheInv, UncrossedIsCurrent
  <2>10. LookupCurrentUnlessRaced'
    BY <2>3, <2>4, <2>5 DEF CacheInv, LookupCurrentUnlessRaced
  <2>11. AnswersFresh'
    BY <1>T, <2>3, <2>4, <2>5
    DEF CacheInv, CacheTypeOK, ListRecord, AnswersFresh, ExpiryFromAsked, Usable
  <2>12. StaleOnlyIfRaced'
    <3>1. local[c].gen \in Nat /\ cache.gen \in Nat
      BY <1>T DEF CacheTypeOK, ListRecord
    <3> QED
      BY <2>3, <2>4, <2>5, <2>6, <3>1
      DEF CacheInv, StaleOnlyIfRaced, LookupCurrentUnlessRaced
  <2>13. UnansweredUntilReturn'
    BY <2>3, <2>5, <2>6 DEF CacheInv, UnansweredUntilReturn
  <2> QED
    BY <2>2, <2>7, <2>8, <2>9, <2>10, <2>11, <2>12, <2>13 DEF CacheInv
<1>6. CASE \E c \in Callers : Listed(c)
  <2>1. PICK c \in Callers : Listed(c)
    BY <1>6
  <2>2. PICK listed \in ParseModelLines :
          /\ listedAt' = Printed(listed)
          /\ LET m == FilterCursorModels(listed, local[c].cfg)
                 l == List(m, local[c].now, local[c].gen, local[c].cfg, crossed[c])
             IN IF m = {}
                THEN UNCHANGED <<cache, expires, answer>>
                ELSE /\ cache' = l
                     /\ expires' = local[c].now + local[c].cfg.ttl
                     /\ answer' = [answer EXCEPT ![c] = l]
    BY <2>1 DEF Listed
  <2> DEFINE m == FilterCursorModels(listed, local[c].cfg)
             l == List(m, local[c].now, local[c].gen, local[c].cfg, crossed[c])
  <2>3. /\ l \in ListRecord
        /\ l.models = m /\ m \subseteq local[c].cfg.permits /\ m \subseteq listed
        /\ l.asked = local[c].now /\ l.gen = local[c].gen
        /\ l.ttl = local[c].cfg.ttl /\ l.raced = crossed[c]
    BY <1>T, ListMade
  <2>4. \/ m = {} /\ UNCHANGED <<cache, expires, answer>>
        \/ /\ m # {} /\ cache' = l /\ answer' = [answer EXCEPT ![c] = l]
           /\ expires' = local[c].now + local[c].cfg.ttl
    BY <2>2
  <2> HIDE DEF l, m
  <2>5. /\ pc[c] = "listing" /\ pc' = [pc EXCEPT ![c] = "idle"]
        /\ UNCHANGED <<now, config, gen, configuring, local, crossed>>
    BY <2>1 DEF Listed
  <2>6. local[c].now \in Nat /\ local[c].cfg.ttl \in Nat /\ local[c].gen \in Nat
    BY <1>T, ConfigsAssumption DEF CacheTypeOK, ConfigRecord
  <2>0. /\ listedAt' \in [Models -> Nat]
        /\ \A x \in Models : listedAt'[x] = IF x \in listed THEN now + 1 ELSE listedAt[x]
    BY <1>T, <2>2 DEF Printed, CacheTypeOK
  <2>7. CacheTypeOK'
    BY <1>T, <2>0, <2>3, <2>4, <2>5, <2>6 DEF CacheTypeOK
  <2>8. \A k \in Callers \ {c} : pc'[k] = pc[k] /\ answer'[k] = answer[k]
    BY <1>T, <2>4, <2>5 DEF CacheTypeOK
  <2>9. pc'[c] = "idle" /\ (answer'[c].models = {} \/ answer'[c] = l)
    BY <1>T, <2>4, <2>5 DEF CacheInv, CacheTypeOK, UnansweredUntilReturn
  <2>10. ExpiryFromAsked'
    BY <2>3, <2>4, <2>5 DEF CacheInv, ExpiryFromAsked
  <2>11. ListsPrinted' /\ OneConfigPerGen'
    <3>1. /\ now \in Nat /\ local[c].now <= now
          /\ \A x \in Models : listedAt[x] \in Nat
      BY <1>T DEF CacheInv, CacheTypeOK, ListsPrinted
    <3>2. ASSUME NEW t \in Nat, t <= now, NEW x \in Models, x \in listed \/ t < listedAt[x]
          PROVE  t < listedAt'[x]
      BY <2>0, <3>1, <3>2
    <3>3. /\ cache.models \subseteq Models /\ cache.asked \in Nat /\ m \subseteq Models
          /\ \A k \in Callers : answer[k].models \subseteq Models /\ answer[k].asked \in Nat
      BY <1>T, <2>3 DEF CacheTypeOK, ListRecord
    <3>4. /\ \A x \in m : local[c].now < listedAt'[x]
          /\ \A x \in cache.models : cache.asked < listedAt'[x]
          /\ \A k \in Callers : \A x \in answer[k].models : answer[k].asked < listedAt'[x]
      BY <2>3, <2>6, <3>1, <3>2, <3>3 DEF CacheInv, ListsPrinted
    <3>5. answer'[c] = l \/ answer'[c] = answer[c]
      BY <1>T, <2>4 DEF CacheTypeOK
    <3>6. cache' = l \/ cache' = cache
      BY <2>4
    <3>7. ListsPrinted'
      <4>1. cache'.asked <= now' /\ \A x \in cache'.models : cache'.asked < listedAt'[x]
        BY <2>3, <2>5, <3>1, <3>4, <3>6 DEF CacheInv, ListsPrinted
      <4>2. ASSUME NEW k \in Callers
            PROVE  /\ local'[k].now <= now' /\ answer'[k].asked <= now'
                   /\ \A x \in answer'[k].models : answer'[k].asked < listedAt'[x]
        BY <2>3, <2>5, <2>8, <3>1, <3>4, <3>5 DEF CacheInv, ListsPrinted
      <4> QED
        BY <4>1, <4>2 DEF ListsPrinted
    <3>8. OneConfigPerGen'
      <4>1. local[c].gen <= gen /\ (local[c].gen = gen => local[c].cfg = config)
        BY DEF CacheInv, UncrossedIsCurrent, OneConfigPerGen
      <4>2. /\ cache'.models # {} => cache'.gen <= gen'
            /\ cache'.models # {} /\ cache'.gen = gen' => cache'.models \subseteq config'.permits
        BY <2>3, <2>5, <3>6, <4>1 DEF CacheInv, OneConfigPerGen
      <4>3. ASSUME NEW k \in Callers
            PROVE  cache'.models # {} /\ cache'.gen = local'[k].gen =>
                     cache'.models \subseteq local'[k].cfg.permits
        BY <2>3, <2>5, <3>6 DEF CacheInv, OneConfigPerGen
      <4>4. ASSUME NEW k \in Callers
            PROVE  /\ answer'[k].models # {} /\ answer'[k].gen = local'[k].gen =>
                        answer'[k].models \subseteq local'[k].cfg.permits
                   /\ answer'[k].models # {} /\ ~crossed'[k] => answer'[k].gen <= local'[k].gen
        BY <2>3, <2>5, <2>6, <2>8, <3>5 DEF CacheInv, OneConfigPerGen
      <4> QED
        BY <2>5, <4>2, <4>3, <4>4 DEF CacheInv, OneConfigPerGen
    <3> QED
      BY <3>7, <3>8
  <2>12. UncrossedIsCurrent'
    BY <2>5, <2>8, <2>9 DEF CacheInv, UncrossedIsCurrent
  <2>13. CacheCurrentUnlessRaced'
    BY <2>3, <2>4, <2>5 DEF CacheInv, CacheCurrentUnlessRaced, UncrossedIsCurrent
  <2>14. LookupCurrentUnlessRaced'
    BY <2>3, <2>4, <2>5, <2>8, <2>9
    DEF CacheInv, LookupCurrentUnlessRaced, UncrossedIsCurrent
  <2>15. AnswersFresh'
    BY <2>3, <2>5, <2>8, <2>9 DEF CacheInv, AnswersFresh
  <2>16. StaleOnlyIfRaced'
    BY <2>3, <2>5, <2>6, <2>8, <2>9 DEF CacheInv, StaleOnlyIfRaced
  <2>17. UnansweredUntilReturn'
    BY <2>8, <2>9 DEF CacheInv, UnansweredUntilReturn
  <2> QED
    BY <2>17, <2>7, <2>10, <2>11, <2>12, <2>13, <2>14, <2>15, <2>16 DEF CacheInv
<1>7. CASE UNCHANGED vars
  BY <1>7
  DEF vars, CacheInv, CacheTypeOK, ExpiryFromAsked, ListsPrinted, OneConfigPerGen, UncrossedIsCurrent,
      UnansweredUntilReturn, CacheCurrentUnlessRaced, LookupCurrentUnlessRaced, AnswersFresh, StaleOnlyIfRaced
<1> QED
  BY <1>1, <1>2, <1>3, <1>4, <1>5, <1>6, <1>7 DEF Next

LEMMA CacheAlways == Spec => []CacheInv
BY CacheInit, CacheNext, PTL DEF Spec

-----------------------------------------------------------------------------
(* However concurrent discoveries overlap, no answer is older than the TTL  *)
(* it was stored with, counted from before "agent models" ran               *)
(* (models.go:36, :55).                                                     *)
THEOREM AnswersAlwaysFresh == Spec => []AnswersFresh
<1>1. CacheInv => AnswersFresh
  BY DEF CacheInv
<1> QED
  BY <1>1, CacheAlways, PTL

(* A call that begins outside of Configure gets an older configuration's    *)
(* list only if a Configure crossed the call that made it                   *)
(* (service.go:70-73).                                                      *)
THEOREM StaleOnlyByRace == Spec => []StaleOnlyIfRaced
<1>1. CacheInv => StaleOnlyIfRaced
  BY DEF CacheInv
<1> QED
  BY <1>1, CacheAlways, PTL

(* However calls, Configure and Shutdown overlap, resolveModel finds only   *)
(* models that "agent models" printed less than the TTL before the call or  *)
(* later, and, unless a Configure crossed this call or the one that made    *)
(* the list, only such as the configuration of this call lets pass          *)
(* (models.go:20-24, :36-57, :150).                                         *)
THEOREM ResolvesOnlyListed == Spec => []OnlyListedResolve
<1>1. CacheInv => OnlyListedResolve
  <2> SUFFICES ASSUME CacheInv, NEW c \in Callers, pc[c] = "idle", NEW m \in answer[c].models
               PROVE  /\ listedAt[m] > 0
                      /\ \/ local[c].now < listedAt[m]
                         \/ local[c].now + 1 < listedAt[m] + answer[c].ttl
                      /\ local[c].calm /\ ~crossed[c] /\ ~answer[c].raced =>
                           m \in local[c].cfg.permits
    BY DEF OnlyListedResolve, ResolveModel
  <2>1. /\ local[c].now \in Nat /\ local[c].gen \in Nat
        /\ answer[c].asked \in Nat /\ answer[c].ttl \in Nat /\ answer[c].gen \in Nat
        /\ m \in Models /\ listedAt[m] \in Nat
    <3>1. answer[c] \in ListRecord
      BY DEF CacheInv, CacheTypeOK
    <3> QED
      BY <3>1 DEF CacheInv, CacheTypeOK, ListRecord
  <2>2. answer[c].asked < listedAt[m]
    BY DEF CacheInv, ListsPrinted
  <2>3. \/ local[c].now < answer[c].asked + answer[c].ttl
        \/ local[c].now = answer[c].asked
    BY DEF CacheInv, AnswersFresh
  <2>4. ASSUME local[c].calm, ~crossed[c], ~answer[c].raced PROVE m \in local[c].cfg.permits
    <3>1. ~(answer[c].gen < local[c].gen)
      BY <2>4 DEF CacheInv, StaleOnlyIfRaced
    <3>2. answer[c].gen <= local[c].gen
      BY <2>4 DEF CacheInv, OneConfigPerGen
    <3>3. answer[c].gen = local[c].gen
      BY <2>1, <3>1, <3>2
    <3> QED
      BY <3>3 DEF CacheInv, OneConfigPerGen
  <2>5. listedAt[m] > 0
    BY <2>1, <2>2
  <2>6. \/ local[c].now < listedAt[m]
        \/ local[c].now + 1 < listedAt[m] + answer[c].ttl
    BY <2>1, <2>2, <2>3
  <2> QED
    BY <2>4, <2>5, <2>6
<1> QED
  BY <1>1, CacheAlways, PTL
=============================================================================
