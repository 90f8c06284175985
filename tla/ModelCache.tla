------------------------------ MODULE ModelCache ------------------------------
(***************************************************************************)
(* Model discovery and its cache (models.go), with Configure and Shutdown  *)
(* (service.go).  discoverModels reads the configuration and the clock,    *)
(* looks at the cache under modelMu, and otherwise runs "agent models"     *)
(* without any lock; the list it filtered is stored under modelMu again.   *)
(* Configure replaces the configuration under configMu and then empties    *)
(* the cache under modelMu.  A call is ModelsForAuth, which falls back to  *)
(* the default model, or resolveModel, which does not.                     *)
(***************************************************************************)
EXTENDS Naturals

CONSTANTS
  Callers,   \* calls of discoverModels
  Listers,   \* those of ModelsForAuth; the others are of resolveModel
  Models,    \* model IDs that "agent models" may list
  AutoModel, \* the ID of the default model
  Configs,   \* configurations: see ConfigRecord
  MaxTime,   \* bound: the clock
  MaxGen     \* bound: configurations ever installed

(* permits stands for allowed_models, denied_models and                     *)
(* excluded_model_prefixes together: the IDs filterCursorModels lets pass.  *)
ConfigRecord == [enabled : BOOLEAN, permits : SUBSET Models, ttl : Nat]

ASSUME ConfigsAssumption == Configs \subseteq ConfigRecord /\ Configs # {}
ASSUME CallsAssumption == Listers \subseteq Callers /\ AutoModel \in Models
ASSUME BoundsAssumption == MaxTime \in Nat /\ MaxGen \in Nat

VARIABLES
  now,         \* Service.now()
  config,      \* Service.config
  gen,         \* how many times the configuration was replaced
  configuring, \* Configure has not emptied the cache yet
  cache,       \* modelsCache, with the history of the listing behind it
  expires,     \* modelExpires
  pc,          \* where each call is
  local,       \* its locals: cfg and now; as history, the generation of cfg
               \* and whether the call began outside of any Configure
  crossed,     \* history: a Configure came before the call returned
  answer,      \* the models the call returned, with their history
  listedAt     \* history: when "agent models" last printed each model, plus
               \* one; 0 for never

vars == <<now, config, gen, configuring, cache, expires, pc, local, crossed,
          answer, listedAt>>
caller == <<pc, local, crossed, answer>>

(* A list of models, when it was asked for, the generation and the TTL of   *)
(* the configuration it was filtered with, and whether a Configure fell     *)
(* between that and the moment it was stored.                               *)
List(m, t, g, cfg, c) ==
  [models |-> m, asked |-> t, gen |-> g, ttl |-> cfg.ttl, raced |-> c]
NoList == List({}, 0, 0, [ttl |-> 0], FALSE)

Init ==
  /\ now = 0
  /\ config \in Configs
  /\ gen = 0
  /\ configuring = FALSE
  /\ cache = NoList
  /\ expires = 0
  /\ pc = [c \in Callers |-> "idle"]
  /\ local = [c \in Callers |-> 
              [cfg |-> config, now |-> 0, gen |-> 0, calm |-> TRUE]]
  /\ crossed = [c \in Callers |-> FALSE]
  /\ answer = [c \in Callers |-> NoList]
  /\ listedAt = [m \in Models |-> 0]

Tick ==
  /\ now < MaxTime
  /\ now' = now + 1
  /\ UNCHANGED <<config, gen, configuring, cache, expires, caller, listedAt>>

-----------------------------------------------------------------------------
(* The service.                                                             *)

(* Configure up to configMu.Unlock().                                       *)
Configure ==
  /\ ~configuring
  /\ gen < MaxGen
  /\ config' \in Configs
  /\ gen' = gen + 1
  /\ configuring' = TRUE
  /\ crossed' = [c \in Callers |-> crossed[c] \/ pc[c] # "idle"]
  /\ UNCHANGED <<now, cache, expires, pc, local, answer, listedAt>>

ClearCache ==
  /\ cache' = NoList
  /\ expires' = 0

(* The rest of Configure.                                                   *)
ConfigureClearsKeepingCache ==
  /\ configuring
  /\ configuring' = FALSE
  /\ UNCHANGED <<now, config, gen, cache, expires, caller, listedAt>>

ConfigureClears ==
  /\ configuring
  /\ configuring' = FALSE
  /\ ClearCache
  /\ UNCHANGED <<now, config, gen, caller, listedAt>>

Shutdown ==
  /\ ClearCache
  /\ UNCHANGED <<now, config, gen, configuring, caller, listedAt>>

-----------------------------------------------------------------------------
(* discoverModels.                                                          *)

(* cfg := s.Config(); now := s.now(): disabled, the call ends here.         *)
Begin(c) ==
  /\ pc[c] = "idle"
  /\ pc' = [pc EXCEPT ![c] = IF config.enabled THEN "lookup" ELSE "idle"]
  /\ local' = [local EXCEPT ![c] = [cfg |-> config, now |-> now, gen |-> gen,
                                    calm |-> ~configuring]]
  /\ crossed' = [crossed EXCEPT ![c] = FALSE]
  /\ answer' = [answer EXCEPT ![c] = NoList]
  /\ UNCHANGED <<now, config, gen, configuring, cache, expires, listedAt>>

Usable(c) ==
  /\ local[c].cfg.ttl > 0
  /\ cache.models # {}
  /\ expires > local[c].now

(* The look at the cache, under modelMu.                                    *)
Lookup(c) ==
  /\ pc[c] = "lookup"
  /\ \/ /\ Usable(c)
        /\ answer' = [answer EXCEPT ![c] = cache]
        /\ pc' = [pc EXCEPT ![c] = "idle"]
     \/ /\ ~Usable(c)
        /\ pc' = [pc EXCEPT ![c] = "listing"]
        /\ UNCHANGED answer
  /\ UNCHANGED <<now, config, gen, configuring, cache, expires, local, crossed,
                 listedAt>>

(* parseModelLines: whatever the agent prints, a list of distinct IDs.      *)
ParseModelLines == SUBSET Models

FilterCursorModels(listed, cfg) == listed \cap cfg.permits

Printed(listed) == [m \in Models |-> IF m \in listed THEN now + 1 ELSE listedAt[m]]

(* runAgent "models" ends, with an error, with nothing usable, or with a    *)
(* list, which is stored and returned.                                      *)
ListedExpiringFromStore(c) ==
  /\ pc[c] = "listing"
  /\ pc' = [pc EXCEPT ![c] = "idle"]
  /\ \E listed \in ParseModelLines :
       /\ listedAt' = Printed(listed)
       /\ LET m == FilterCursorModels(listed, local[c].cfg)
              l == List(m, local[c].now, local[c].gen, local[c].cfg, crossed[c])
          IN IF m = {}
             THEN UNCHANGED <<cache, expires, answer>>
             ELSE /\ cache' = l
                  /\ expires' = now + local[c].cfg.ttl
                  /\ answer' = [answer EXCEPT ![c] = l]
  /\ UNCHANGED <<now, config, gen, configuring, local, crossed>>

ListedCachingDefault(c) ==
  /\ pc[c] = "listing"
  /\ pc' = [pc EXCEPT ![c] = "idle"]
  /\ \E listed \in ParseModelLines :
       /\ listedAt' = Printed(listed)
       /\ LET m == FilterCursorModels(listed, local[c].cfg)
              l == List(IF m = {} THEN {AutoModel} ELSE m, local[c].now, local[c].gen,
                        local[c].cfg, crossed[c])
          IN /\ cache' = l
             /\ expires' = local[c].now + local[c].cfg.ttl
             /\ answer' = [answer EXCEPT ![c] = l]
  /\ UNCHANGED <<now, config, gen, configuring, local, crossed>>

Listed(c) ==
  /\ pc[c] = "listing"
  /\ pc' = [pc EXCEPT ![c] = "idle"]
  /\ \E listed \in ParseModelLines :
       /\ listedAt' = Printed(listed)
       /\ LET m == FilterCursorModels(listed, local[c].cfg)
              l == List(m, local[c].now, local[c].gen, local[c].cfg, crossed[c])
          IN IF m = {}
             THEN UNCHANGED <<cache, expires, answer>>
             ELSE /\ cache' = l
                  /\ expires' = local[c].now + local[c].cfg.ttl
                  /\ answer' = [answer EXCEPT ![c] = l]
  /\ UNCHANGED <<now, config, gen, configuring, local, crossed>>

Next ==
  \/ Tick \/ Configure \/ ConfigureClears \/ Shutdown
  \/ \E c \in Callers : Begin(c) \/ Lookup(c) \/ Listed(c)

Spec == Init /\ [][Next]_vars

-----------------------------------------------------------------------------
(* What the callers of discoverModels make of its answer.                   *)

DefaultCursorModels == {AutoModel}

(* ModelsForAuth: any error is answered with the default.                   *)
ModelsForAuth(c) ==
  IF answer[c].models = {} THEN DefaultCursorModels ELSE answer[c].models

(* resolveModel: the models that it would have found.                       *)
ResolveModel(c) == answer[c].models

Served(c) == IF c \in Listers THEN ModelsForAuth(c) ELSE ResolveModel(c)

-----------------------------------------------------------------------------
(* Properties.                                                              *)

(* A returned list was asked for less than the TTL before the call that     *)
(* returns it, or by that call: concurrent discoveries that finish in any   *)
(* order never make a list outlive the TTL it was stored with, because it   *)
(* is counted from before "agent models" ran (models.go:36, :55).           *)
AnswersFresh ==
  \A c \in Callers :
    pc[c] = "idle" /\ answer[c].models # {} =>
      \/ local[c].now < answer[c].asked + answer[c].ttl
      \/ local[c].now = answer[c].asked

(* A call that began after a Configure had finished gets a list filtered    *)
(* with an older configuration only if that list was being made while       *)
(* Configure ran: emptying the cache covers everything else                 *)
(* (service.go:70-73).                                                      *)
StaleOnlyIfRaced ==
  \A c \in Callers :
    pc[c] = "idle" /\ local[c].calm /\ answer[c].gen < local[c].gen =>
      answer[c].models = {} \/ answer[c].raced

(* resolveModel finds only models that "agent models" printed less than the *)
(* TTL before the call, or later: neither an old list nor the default that  *)
(* ModelsForAuth falls back to is ever taken for a listed model, by any     *)
(* call.  And unless a Configure crossed this call or the one that made the *)
(* list, the configuration of this call lets each of them pass ("Cursor     *)
(* model is not present in `agent models` catalog", models.go:150; :20-24,  *)
(* :36-57).                                                                 *)
OnlyListedResolve ==
  \A c \in Callers \ Listers :
    pc[c] = "idle" =>
      \A m \in ResolveModel(c) :
        /\ listedAt[m] > 0
        /\ \/ local[c].now < listedAt[m]
           \/ local[c].now + 1 < listedAt[m] + answer[c].ttl
        /\ local[c].calm /\ ~crossed[c] /\ ~answer[c].raced =>
             m \in local[c].cfg.permits

(* A call that begins after Configure returned, and sees no other one,      *)
(* never answers with a model its configuration excludes ("Optional         *)
(* denylist of Cursor model IDs from agent models.").                       *)
DeniedNotServed ==
  \A c \in Callers :
    pc[c] = "idle" /\ local[c].calm /\ local[c].gen = gen =>
      Served(c) \subseteq local[c].cfg.permits
=============================================================================
