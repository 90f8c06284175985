------------------------------- MODULE Plugin --------------------------------
(***************************************************************************)
(* The host calls the plugin: cliproxyPluginCall (main.go) and dispatch    *)
(* (dispatch.go) lead each method to its handler and make an envelope of   *)
(* what it returns.  Handlers that only compute are one step;              *)
(* executor.execute (executor.go) resolves the model, reads the            *)
(* configuration, takes a slot of Service.sem, runs an agent               *)
(* (AgentProcess) and gives the slot back, and a new configuration may     *)
(* come anywhere in between.  One call at a time is followed; of the       *)
(* others, whose steps are the subject of AgentPool, there are the slots   *)
(* they hold.  How models are resolved is the subject of ModelCache.       *)
(***************************************************************************)
EXTENDS AgentProcess, Usage, PluginConfig, TokenCount, AuthStatus, Archive

CONSTANTS
  Requests,  \* executor requests: [format, body, bytes]
  Raws,      \* configurations the host may send
  Records,   \* usage records the host may send
  Clock,     \* what the clock may read when a record has no time of its own
  MaxCalls,  \* bound: calls
  LastRun,   \* bound: calls before the one that executes
  MaxOthers, \* bound: slots that other calls hold
  MaxDuring  \* bound: calls before a configuration that comes during another

ASSUME StdoutAssumption == Ranges["max_stdout_bytes"] \subseteq Limits
ASSUME RecordsAssumption == Records \subseteq UsageRecord
ASSUME ClockAssumption == Clock \subseteq Nat \ {0}

VARIABLES
  config,    \* Service.config
  accepted,  \* history: the configurations accepted so far
  sem,       \* the channels that were Service.sem, the present one last:
             \* how many elements each may hold, and holds
  others,    \* how many slots other calls hold
  pc,        \* "idle", or where the call is: "resolved", "called", "sending",
             \* "executing", "failed", "releasing"; "refreshing"; "unpacking"
  request,   \* the request being executed
  env,       \* the environment of the agent
  copy,      \* the configuration the call works with
  chan,      \* the channel the call waits on
  code,      \* "ok" or the code in the error envelope of the last call
  counted,   \* what the last call counted: [body, segments]
  calls,     \* number of calls
  log        \* history: the records counted since the last shutdown

execution == <<pc, request, env, copy, chan>>
slots == <<sem, others>>
host == <<code, counted, calls>>
configuration == <<config, accepted>>
vars == <<process, usage, auth, archive, configuration, slots, execution, host,
          log>>

NoRequest == [none |-> TRUE]
Malformed == [malformed |-> TRUE]
EmptyBody == [empty |-> TRUE]
ASSUME RequestsAssumption ==
  \A req \in Requests : req.body \in Trees \cup {Malformed, EmptyBody}
NothingCounted == [body |-> Scalar, segments |-> <<>>]

(* make(chan struct{}, cfg.MaxConcurrent)                                   *)
Channel(cfg) == [cap |-> cfg.max_concurrent, len |-> 0]

PluginInit ==
  /\ Init
  /\ InitUsage
  /\ InitAuth
  /\ InitArchive
  /\ config = ParseConfig(NoFields)
  /\ accepted = {NoFields}
  /\ sem = <<Channel(config)>>
  /\ others = 0
  /\ pc = "idle"
  /\ request = NoRequest
  /\ env = NoFields
  /\ copy = NoFields
  /\ chan = 0
  /\ code = "ok"
  /\ counted = NothingCounted
  /\ calls = 0
  /\ log = <<>>

(* A call that is over in one step.                                         *)
Reply(c) ==
  /\ calls < MaxCalls
  /\ calls' = calls + 1
  /\ code' = c
Answer(c) == Reply(c) /\ counted' = NothingCounted

-----------------------------------------------------------------------------
(* plugin.register, plugin.reconfigure: all of the configuration and a new, *)
(* empty channel, or nothing.  (The model cache it empties: ModelCache.)    *)
Reconfigure(raw) ==
  /\ pc # "idle" => calls <= MaxDuring
  /\ Answer(IF ParseConfig(raw) = Invalid THEN "plugin_error" ELSE "ok")
  /\ IF ParseConfig(raw) = Invalid
     THEN UNCHANGED <<configuration, sem>>
     ELSE /\ config' = ParseConfig(raw)
          /\ accepted' = accepted \cup {raw}
          /\ sem' = Append(sem, Channel(ParseConfig(raw)))
  /\ UNCHANGED <<process, usage, auth, archive, log, others, execution>>

UsageHandle(record, now) ==
  /\ pc = "idle"
  /\ Answer("ok")
  /\ RecordUsage(record, now)
  /\ log' = IF Counts(record)
            THEN Append(log, [record EXCEPT !.requestedAt = UsedAt(record, now)])
            ELSE log
  /\ UNCHANGED <<process, auth, archive, configuration, slots, execution>>

(* executor.count_tokens is for Claude requests alone.                      *)
CountTokens(req) ==
  /\ pc = "idle"
  /\ CASE req.format # "claude" -> Answer("unsupported_format")
       [] req.format = "claude" /\ req.body = Malformed -> Answer("invalid_request")
       [] req.format = "claude" /\ req.body = EmptyBody -> Answer("ok")
       [] OTHER ->
            /\ Reply("ok")
            /\ counted' = [body |-> req.body,
                           segments |-> CountClaudeInputTokens(req.body)]
  /\ UNCHANGED <<process, usage, auth, archive, log, configuration, slots, execution>>

(* No method, no such method, a request that does not decode, and           *)
(* executor.http_request.                                                   *)
Refused ==
  /\ pc = "idle"
  /\ \E c \in {"invalid_method", "unknown_method", "plugin_error",
              "unsupported_http"} : Answer(c)
  /\ UNCHANGED <<process, usage, auth, archive, log, configuration, slots, execution>>

(* cliproxyPluginShutdown.  (The model cache, the logins and the host       *)
(* pointer it clears: ModelCache, Login, StreamOutput.)                     *)
Shutdown ==
  /\ pc = "idle"
  /\ Answer(code)
  /\ ResetUsage
  /\ log' = <<>>
  /\ UNCHANGED <<process, auth, archive, configuration, slots, execution>>

(* How a run of the agent that is not followed step by step may fail.       *)
AgentErrors == {"cursor_agent_setup_required", "plugin_error", "cursor_timeout",
                "cursor_stdout_limit", "cursor_agent_error"}

-----------------------------------------------------------------------------
(* auth.refresh.  What the file said before is not read.                    *)

RefreshAuth ==
  /\ pc = "idle"
  /\ calls <= LastRun
  /\ log = <<>>
  /\ \/ /\ config.enabled
        /\ Answer("ok")
        /\ StatusBegin
        /\ pc' = "refreshing"
     \/ /\ ~config.enabled
        /\ Answer("plugin_disabled")
        /\ UNCHANGED <<auth, pc>>
  /\ UNCHANGED <<process, usage, archive, log, configuration, slots, request, env,
                 copy, chan>>

Refreshing ==
  /\ pc = "refreshing"
  /\ StatusStorage
  /\ UNCHANGED <<process, usage, archive, configuration, slots, execution, host, log>>

RefreshReturns ==
  /\ pc = "refreshing"
  /\ refresh \in {"done", "failed"}
  /\ pc' = "idle"
  /\ code' \in IF refresh = "done" THEN {"ok"} ELSE AgentErrors
  /\ StatusForgotten
  /\ UNCHANGED <<process, usage, archive, configuration, slots, request, env, copy,
                 chan, counted, calls, log>>

-----------------------------------------------------------------------------
(* management.handle, the part of an installation that ManagedInstall does  *)
(* not look into: unpacking, with the limits of the configuration that the  *)
(* attempt began with.                                                      *)

Unpack ==
  /\ pc = "idle"
  /\ calls <= LastRun
  /\ log = <<>>
  /\ Answer("ok")
  /\ ExtractBegin
  /\ pc' = "unpacking"
  /\ copy' = config
  /\ UNCHANGED <<process, usage, auth, log, configuration, slots, request, env,
                 chan>>

Unpacking ==
  /\ pc = "unpacking"
  /\ \/ \E h \in Headers :
          ExtractEntry(h, copy.max_archive_entries, copy.max_expanded_bytes)
     \/ ExtractEnd
  /\ UNCHANGED <<process, usage, auth, configuration, slots, execution, host, log>>

UnpackReturns ==
  /\ pc = "unpacking"
  /\ extract \in {"done", "failed"}
  /\ pc' = "idle"
  /\ copy' = NoFields
  /\ ExtractForgotten
  /\ UNCHANGED <<process, usage, auth, configuration, slots, request, env, chan,
                 host, log>>

-----------------------------------------------------------------------------
(* executor.execute.                                                        *)

RequestCheck(req) ==
  CASE req.format = "unknown" -> "unsupported_format"
    [] req.format # "unknown" /\ req.body \in {Malformed, EmptyBody} ->
         "invalid_request"
    [] OTHER -> ValidateRequestPayload(req.body)

(* What resolveModel may answer.                                            *)
Resolutions ==
  {"invalid_request"} \cup
    IF config.enabled
    THEN {"ok", "models_empty", "model_not_found"} \cup AgentErrors
    ELSE {"plugin_disabled"}

(* The checks, and the model under the configuration of that moment.        *)
Execute(req) ==
  /\ pc = "idle"
  /\ calls <= LastRun
  /\ log = <<>>        \* bound: the usage counters do not matter here
  /\ LET refused == RequestCheck(req) IN
     IF refused # "ok"
     THEN Answer(refused) /\ UNCHANGED execution
     ELSE \E resolved \in Resolutions :
            /\ Answer(resolved)
            /\ IF resolved # "ok"
               THEN UNCHANGED execution
               ELSE /\ pc' = "resolved"
                    /\ request' = req
                    /\ UNCHANGED <<env, copy, chan>>
  /\ UNCHANGED <<process, usage, auth, archive, log, configuration, slots>>

(* The preamble and each text of the request, in units of output.           *)
PromptBytes(body) == 1 + Len(CollectPrompt[body])

(* The configuration is read again.                                         *)
SizeCheckRequestOnly(req) ==
  IF req.bytes > config.max_request_bytes THEN "request_too_large" ELSE "ok"

SizeCheck(req) ==
  IF req.bytes > config.max_request_bytes THEN "request_too_large"
  ELSE IF PromptBytes(req.body) > config.max_prompt_bytes THEN "prompt_too_large"
  ELSE "ok"

(* The call works with this configuration from here on.  runAgent refuses   *)
(* when it is disabled.                                                     *)
ExecuteRunAgent ==
  /\ pc = "resolved"
  /\ LET c == IF SizeCheck(request) # "ok" THEN SizeCheck(request)
             ELSE IF ~config.enabled THEN "plugin_disabled" ELSE "ok"
     IN IF c = "ok"
        THEN /\ pc' = "called"
             /\ copy' = config
             /\ UNCHANGED <<request, code>>
        ELSE /\ pc' = "idle"
             /\ code' = c
             /\ request' = NoRequest
             /\ UNCHANGED copy
  /\ UNCHANGED <<process, usage, auth, archive, configuration, slots, env, chan,
                 counted, calls, log>>

(* invocationWorkspace; the select then evaluates s.sem.                    *)
EnterWorkspace ==
  /\ pc = "called"
  /\ \/ /\ pc' = "sending"
        /\ chan' = Len(sem)
        /\ UNCHANGED <<request, copy, code>>
     \/ /\ pc' = "idle"
        /\ code' = "plugin_error"
        /\ request' = NoRequest
        /\ copy' = NoFields
        /\ UNCHANGED chan
  /\ UNCHANGED <<process, usage, auth, archive, configuration, slots, env, counted,
                 calls, log>>

(* The slot (the context, context.Background(), is never done), then all    *)
(* that leads to cmd.Start: an agent, or an error.                          *)
AcquireSlot ==
  /\ pc = "sending"
  /\ sem[chan].len < sem[chan].cap
  /\ sem' = [sem EXCEPT ![chan].len = @ + 1]
  /\ \/ /\ pc' = "executing"
        /\ Start(copy.max_stdout_bytes)
        /\ env' = FilteredEnv(copy.environment_allowlist)
     \/ /\ pc' = "failed"
        /\ UNCHANGED <<process, env>>
  /\ UNCHANGED <<usage, auth, archive, configuration, others, request, copy, chan,
                 host, log>>

Running ==
  /\ pc = "executing"
  /\ ProcessStep
  /\ UNCHANGED <<usage, auth, archive, configuration, slots, execution, host, log>>

(* runAgent has its result, and the deferred function evaluates s.sem.      *)
RunAgentReturnsOnTimeout ==
  /\ \/ pc = "executing" /\ ctx = "done"
     \/ pc = "failed"
  /\ pc' = "releasing"
  /\ chan' = Len(sem)
  /\ UNCHANGED <<process, usage, auth, archive, configuration, slots, request, env,
                 copy, host, log>>

RunAgentReturns ==
  /\ \/ pc = "executing" /\ runner \in Returned
     \/ pc = "failed"
  /\ pc' = "releasing"
  /\ chan' = Len(sem)
  /\ UNCHANGED <<process, usage, auth, archive, configuration, slots, request, env,
                 copy, host, log>>

(* What Execute answers: the output must be JSON and hold a text; without   *)
(* an agent, or when it did not start, there is no output.                  *)
ExecuteCodes ==
  CASE result = "ok" -> {"ok", "cursor_json_parse", "cursor_empty_result"}
    [] result = "none" -> {"cursor_agent_setup_required", "plugin_error"}
    [] OTHER -> {result}

(* A slot is given back, and the call returns.  (What the run has left      *)
(* behind is not followed any further.)                                     *)
ExecuteReturns ==
  /\ pc = "releasing"
  /\ sem[chan].len > 0
  /\ sem' = [sem EXCEPT ![chan].len = @ - 1]
  /\ pc' = "idle"
  /\ code' \in ExecuteCodes
  /\ request' = NoRequest
  /\ env' = NoFields
  /\ copy' = NoFields
  /\ chan' = 0
  /\ IF runner = "none" THEN UNCHANGED process ELSE Forgotten
  /\ UNCHANGED <<usage, auth, archive, configuration, others, counted, calls, log>>

(* Other calls of runAgent and runAgentLoginStreaming take slots, and give  *)
(* them back.                                                               *)
OtherAcquires ==
  /\ others < MaxOthers
  /\ sem[Len(sem)].len < sem[Len(sem)].cap
  /\ sem' = [sem EXCEPT ![Len(sem)].len = @ + 1]
  /\ others' = others + 1
  /\ UNCHANGED <<process, usage, auth, archive, configuration, execution, host, log>>

OtherReleases ==
  /\ others > 0
  /\ sem[Len(sem)].len > 0
  /\ sem' = [sem EXCEPT ![Len(sem)].len = @ - 1]
  /\ others' = others - 1
  /\ UNCHANGED <<process, usage, auth, archive, configuration, execution, host, log>>

Next ==
  \/ \E raw \in Raws : Reconfigure(raw)
  \/ \E record \in Records, now \in Clock : UsageHandle(record, now)
  \/ \E req \in Requests : CountTokens(req) \/ Execute(req)
  \/ Refused \/ Shutdown \/ RefreshAuth \/ Refreshing \/ RefreshReturns
  \/ Unpack \/ Unpacking \/ UnpackReturns
  \/ ExecuteRunAgent \/ EnterWorkspace \/ AcquireSlot \/ Running
  \/ RunAgentReturns \/ ExecuteReturns
  \/ OtherAcquires \/ OtherReleases

Spec == PluginInit /\ [][Next]_vars

(* The timer fires, and the goroutine of the call runs when it can; a send  *)
(* that waits on a Go channel is not passed over for ever; other calls      *)
(* return, and give back their slots (AgentPool: CallsReturnUnlessReplaced).*)
(* The agent and its descendants owe nothing, and no call need come.        *)
FairSpec ==
  Spec /\ WF_vars(ExecuteRunAgent) /\ WF_vars(EnterWorkspace)
       /\ SF_vars(AcquireSlot)
       /\ WF_vars(Refreshing \/ RefreshReturns)
       /\ WF_vars(Unpacking \/ UnpackReturns)
       /\ WF_vars(pc = "executing" /\ TimeoutExpires /\ Running)
       /\ WF_vars(Running /\ RunAgent)
       /\ WF_vars(RunAgentReturns) /\ WF_vars(ExecuteReturns)
       /\ WF_vars(OtherReleases)

-----------------------------------------------------------------------------
(* Properties.                                                              *)

(* What the two validations name never reaches an agent, at whatever depth  *)
(* of lists and maps it lies and whatever lies beside it: tool words as     *)
(* keys or types, attachment keys, and, unless the type of the part is a    *)
(* textual one, media types and MIME types that are not of text             *)
(* (cursor_cli.go:243-315; the tests TestExecuteRejects...                  *)
(* BeforeAgentInvocation look at a few places).  What they do not name is   *)
(* the subject of NonTextNeverDropped.                                      *)
RefusedNeverRuns ==
  pc = "executing" =>
    \A v \in Parts[request.body] :
      IsMap(v) =>
        /\ \A w \in DOMAIN v.map \cup {StrAt(v, "type")} : ~IsToolWord(w)
        /\ DOMAIN v.map \cap UnsupportedKeys = {}
        /\ Lower(StrAt(v, "type")) \notin MediaWords
        /\ Lower(StrAt(v, "type")) \notin TextTypes =>
             {StrAt(v, "mime_type"), StrAt(v, "media_type")} \cap NonTextMimes = {}

(* No agent is run for a request with a part that is not text, by its type  *)
(* or by its MIME type: a prompt has only texts, so such a part would be    *)
(* left out of it ("unsupported non-text content is never silently          *)
(* dropped", README.md:29).                                                 *)
NonTextNeverDropped ==
  pc = "executing" =>
    \A v \in Parts[request.body] :
      /\ StrAt(v, "type") \notin MediaWords \cup {"video_url"}
      /\ {StrAt(v, "mime_type"), StrAt(v, "media_type")} \cap NonTextMimes = {}

(* An agent runs under one configuration that the host sent and ParseConfig *)
(* accepted, never under a mixture of the one its model was resolved with   *)
(* and those that came meanwhile: enabled, sizes, output limit and          *)
(* environment agree (executor.go:34-49, cursor_cli.go:86-118).  And        *)
(* whatever spelling of its name the allowlist has, the API key of the host *)
(* is not in that environment ("CURSOR_API_KEY is always stripped.",        *)
(* dispatch.go:242; cursor_cli.go:189, :196).                               *)
RunsUnderOneConfig ==
  pc = "executing" =>
    /\ \E raw \in accepted :
         LET cfg == Merged(raw) IN
         /\ cfg.enabled
         /\ ~(request.bytes > cfg.max_request_bytes)
         /\ ~(PromptBytes(request.body) > cfg.max_prompt_bytes)
         /\ stdout.limit = cfg.max_stdout_bytes
         /\ DOMAIN env \subseteq ToSet(cfg.environment_allowlist)
                                   \cup {"CURSOR_API_KEY"}
    /\ \A n \in DOMAIN env : Fold[n] = Fold["CURSOR_API_KEY"] => env[n] = ""

(* Whatever else the host calls meanwhile, every run of the agent goes from *)
(* its start through steps of its own to a return of runAgent: nothing else *)
(* touches it, and no call answers before its run has returned.  So what is *)
(* proved of ProcessSpec holds of the plugin (executor.go:49-68,            *)
(* cursor_cli.go:116-154).                                                  *)
RunsAreProcesses == ProcessSpec

(* The shape the Claude API gives a request: text lies in system and in the *)
(* content of messages, and in a part with a type where parts of that type  *)
(* have it.  (The code does not check it, and counts no text elsewhere.)    *)
TextKeys(v) == DOMAIN v.map \cap ToSet(PromptKeys)
PartKeys(type) ==
  CASE type \in ToolResults \cup SearchResults \cup CodeResults \cup {"web_fetch_result"} ->
         {"content"}
    [] type \in ToolUses \cup NotCounted \cup {"thinking", "tool_reference"} -> {}
    [] OTHER -> {"text"}
ClaudeShaped(body) ==
  /\ IsMap(body) /\ TextKeys(body) \subseteq {"system", "messages"}
  /\ Has(body, "system") =>
       \/ IsStr(body.map.system)
       \/ /\ IsList(body.map.system)
          /\ \A part \in Children(body.map.system) :
               IsStr(part) \/ StrAt(part, "type") = "text"
  /\ Has(body, "messages") =>
       /\ IsList(body.map.messages)
       /\ \A m \in Children(body.map.messages) : IsMap(m) /\ TextKeys(m) \subseteq {"content"}
  /\ \A p \in Parts[body] :
       Has(p, "type") => IsStr(p.map.type) /\ TextKeys(p) \subseteq PartKeys(p.map.type.str)

(* Every text that the prompt of a Claude request would hold is in a        *)
(* segment that count_tokens counts: the estimate forgets no text that the  *)
(* agent is given (token_count.go:62-67 beside cursor_cli.go:335-364).      *)
PromptCounted ==
  LET prompt == CollectPrompt[counted.body]
      parts == UNION {Parts[v] : v \in ToSet(counted.segments)}
  IN ClaudeShaped(counted.body) /\ ValidateRequestPayload(counted.body) = "ok" =>
       \A i \in DOMAIN prompt : \E p \in parts : IsStr(p) /\ p.str = prompt[i]

(* No slot is held in a channel that a new configuration has replaced.      *)
Balanced == \A g \in 1 .. Len(sem) - 1 : sem[g].len = 0

(* Every execution, refresh and unpacking is answered, waiting for a slot   *)
(* and giving it back included: whatever the agent and its descendants do,  *)
(* timeout, kill and grace period end the run, other calls give their slots *)
(* back, and no archive has entries without end (cursor_cli.go:95-97,       *)
(* :126-138, installer.go:388-391).  New configurations may come at any     *)
(* point; only one that replaces the channel while a slot of it is held     *)
(* breaks the promise, and AgentPool shows how (CallsReturn).  (Each run of *)
(* the agent in a refresh is taken to end.)                                 *)
CallAnswered == pc # "idle" /\ Balanced ~> pc = "idle" \/ ~Balanced

(* The snapshot adds up to the records the host sent since the last         *)
(* shutdown, in whatever order: each is counted once, under one model, and  *)
(* its total is the given one or made of its parts (usage.go:85-95, :106-   *)
(* 130).                                                                    *)
UsageMatchesRecords ==
  LET snapshot == GatewayUsage
      Total(d) ==
        LET spoken == Wrap(d.input + d.output + d.reasoning) IN
        CASE d.total > 0 -> d.total
          [] d.total <= 0 /\ spoken > 0 -> spoken
          [] OTHER -> d.cacheRead + d.cacheCreation + d.cached
  IN /\ snapshot.requests = Len(log)
     /\ snapshot.failures = Cardinality({i \in DOMAIN log : log[i].failed})
     /\ \A k \in Kinds \ {"total"} :
          snapshot.totals[k] = Wrap(SumFunction([i \in DOMAIN log |-> log[i].detail[k]]))
     /\ snapshot.totals["total"]
          = Wrap(SumFunction([i \in DOMAIN log |-> Total(log[i].detail)]))

(* Each record is counted once, in the entry of its model and in no other,  *)
(* and a failure as a failure, though records of other models and records   *)
(* that come late lie between (usage.go:80-89).                             *)
EachCountedOnce ==
  /\ \A i \in DOMAIN log : ModelOf(log[i]) \in DOMAIN usageByModel
  /\ \A m \in DOMAIN usageByModel :
       LET of == {i \in DOMAIN log : ModelOf(log[i]) = m} IN
       /\ usageByModel[m].requests = Cardinality(of)
       /\ usageByModel[m].failures = Cardinality({i \in of : log[i].failed})

(* The observed time begins with the earliest request and the last use of a *)
(* model is its latest, though records come in any order (usage.go:77-79,   *)
(* :96-98).                                                                 *)
WindowCoversUse ==
  /\ (log = <<>>) <=> usageStarted = 0
  /\ \A i \in DOMAIN log :
       /\ usageStarted <= log[i].requestedAt
       /\ log[i].requestedAt <= usageByModel[ModelOf(log[i])].lastUsed
  /\ log # <<>> => \E i \in DOMAIN log : log[i].requestedAt = usageStarted
  /\ \A m \in DOMAIN usageByModel :
       \E i \in DOMAIN log : /\ ModelOf(log[i]) = m
                             /\ log[i].requestedAt = usageByModel[m].lastUsed
=============================================================================
