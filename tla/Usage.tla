-------------------------------- MODULE Usage --------------------------------
(***************************************************************************)
(* The usage counters (usage.go).  The host hands a record of every        *)
(* request to usage.handle, in whatever order requests end, and            *)
(* RecordUsage adds it to the entry of its model under usageMu; Shutdown   *)
(* starts over.  The sums are int64 and wrap.                              *)
(***************************************************************************)
EXTENDS Integers, Sequences, FiniteSets, Functions

CONSTANTS
  Models,   \* names of models
  NoName,   \* the blank name
  Half      \* int64 reaches from -Half to Half - 1

ASSUME HalfAssumption == Half \in Nat \ {0}
ASSUME NoNameAssumption == NoName \notin Models

VARIABLES
  usageStarted, \* the zero time is 0
  usageByModel  \* an entry for each model seen

usage == <<usageStarted, usageByModel>>

Kinds == {"input", "output", "reasoning", "cached", "cacheRead",
          "cacheCreation", "total"}

(* What the host sends; a time of 0 is the zero time.                       *)
UsageRecord ==
  [cursor : BOOLEAN, model : Models \cup {NoName}, alias : Models \cup {NoName},
   failed : BOOLEAN, requestedAt : Nat, detail : [Kinds -> Int]]

Wrap(n) == ((n + Half) % (2 * Half)) - Half

SumOf(detail, kinds) == Wrap(SumFunctionOnSet(detail, kinds))

(* A total the host did not fill in is made up from its parts, and from the *)
(* cache counters only when there is nothing else.                          *)
NormalizedTotalTokensWithCache(detail) ==
  IF detail.total > 0 THEN detail.total ELSE SumOf(detail, Kinds \ {"total"})

NormalizedTotalTokens(detail) ==
  LET total == SumOf(detail, {"input", "output", "reasoning"}) IN
  IF detail.total > 0 THEN detail.total
  ELSE IF total > 0 THEN total
  ELSE SumOf(detail, {"cacheRead", "cacheCreation", "cached"})

Added(detail) == [detail EXCEPT !.total = NormalizedTotalTokens(detail)]

NewEntry == [requests |-> 0, failures |-> 0, lastUsed |-> 0,
             tokens |-> [k \in Kinds |-> 0]]

InitUsage ==
  /\ usageStarted = 0
  /\ usageByModel = [m \in {} |-> NewEntry]

(* A record that is counted: of this provider, and with a name of some kind.*)
ModelOf(record) == IF record.model # NoName THEN record.model ELSE record.alias
Counts(record) == record.cursor /\ ModelOf(record) # NoName

UsedAt(record, now) == IF record.requestedAt = 0 THEN now ELSE record.requestedAt

(* One record, under usageMu; first as if only the latest were of interest. *)
AddToIfLatest(entry, record, at) ==
  IF at < entry.lastUsed THEN entry
  ELSE [requests |-> entry.requests + 1,
        failures |-> entry.failures + IF record.failed THEN 1 ELSE 0,
        lastUsed |-> at,
        tokens   |-> [k \in Kinds |->
                        Wrap(entry.tokens[k] + Added(record.detail)[k])]]

AddTo(entry, record, at) ==
  [requests |-> entry.requests + 1,
   failures |-> entry.failures + IF record.failed THEN 1 ELSE 0,
   lastUsed |-> IF entry.lastUsed = 0 \/ at > entry.lastUsed
                THEN at ELSE entry.lastUsed,
   tokens   |-> [k \in Kinds |->
                   Wrap(entry.tokens[k] + Added(record.detail)[k])]]

Entry(m) == IF m \in DOMAIN usageByModel THEN usageByModel[m] ELSE NewEntry

(* The observed time begins with the earliest request, not with the first   *)
(* record.                                                                  *)
EarliestOfFirst(at) == IF usageStarted = 0 THEN at ELSE usageStarted
Earliest(at) == IF usageStarted = 0 \/ at < usageStarted THEN at ELSE usageStarted

RecordUsage(record, now) ==
  IF ~Counts(record)
  THEN UNCHANGED usage
  ELSE LET at == UsedAt(record, now)
           m  == ModelOf(record)
       IN /\ usageStarted' = Earliest(at)
          /\ usageByModel' = [x \in DOMAIN usageByModel \cup {m} |->
               IF x = m THEN AddTo(Entry(m), record, at) ELSE usageByModel[x]]

ResetUsage ==
  /\ usageStarted' = 0
  /\ usageByModel' = [m \in {} |-> NewEntry]

(* The totals of a snapshot: sums over the rows, which are the entries.     *)
GatewayUsage ==
  LET rows == DOMAIN usageByModel IN
  [observedSince |-> usageStarted,
   requests |-> SumFunction([m \in rows |-> usageByModel[m].requests]),
   failures |-> SumFunction([m \in rows |-> usageByModel[m].failures]),
   totals   |-> [k \in Kinds |->
                   Wrap(SumFunction([m \in rows |-> usageByModel[m].tokens[k]]))]]
=============================================================================
