# TLA+ specifications of the Cursor plugin for CLIProxyAPI

The plugin lets CLIProxyAPI use the official Cursor Agent CLI: it installs the
CLI, logs it in, lists its models and runs it once per request. It is a C
shared library written in Go. This directory holds TLA+ models of the parts in
which an order of events, a failure, a crash or an unusual input decides about
correctness, the TLC runs that check them on small instances, and TLAPS proofs of the most
important properties for every instance. Source paths are relative to the
repository.

`PROJECT.json` is the index: components, runs, the mutant that each property
must reject, the source lines behind every definition, findings, hazards and
theorems.

## 1. Inventory

| Component | State | Operations | Hard because |
|---|---|---|---|
| Managed installation (`installer.go`, `installer_transactional.go`) | files under the managed root: version directories, `.new`/`.old` copies, `current` link, two bin links; `installMu` | install, roll back, status | crash between two renames; any system call fails; status is read without the lock; Configure moves the root |
| Agent slots and workspaces (`cursor_cli.go:86-154`, `auth.go:126-142`, `service.go:61-78`) | the channel `s.sem`, a private directory per call | acquire, start, finish, time out, give up, release | Configure replaces the channel while calls hold slots |
| Package archive (`installer.go:368-477`) | the temporary directory | check and write an entry | entries are written through links that earlier entries made |
| Agent subprocess (`cursor_cli.go:28-52`, `:108-166`) | leader, descendants, output pipes, bounded buffers, context | start, copy, wait, kill group, grace period | exit, timeout, os/exec and runAgent race; descendants keep pipes open; output is cut |
| Model discovery (`models.go`) | `modelsCache`, `modelExpires` under `modelMu` | lookup, list, store, clear | the lock is not held while `agent models` runs |
| Browser login (`auth.go:50-211`) | `logins` map, session fields, URL channel, two readers | StartLogin, PollLogin, end of run | fields are read without `loginMu`; two readers; Wait closes the pipes |
| Streaming (`executor.go:70-117`, `cursor_cli.go:407-508`) | text emitted so far, terminal text, close message | decode a line, emit, close | untracked goroutine; the host can go away; cumulative and incremental output look alike |
| Usage counters (`usage.go`) | totals per model under `usageMu` | record, snapshot, reset | int64 sums; records come out of order |
| Configuration (`config.go`) | `Service.config` under `configMu` | parse, replace | read at different moments by one request |
| Auth status and files (`auth.go:21-46`, `:229-484`) | none | parse, refresh | JSON walked in map order; conflicting answers |
| Non-streaming execution (`executor.go:25-68`) | none of its own | check, resolve, run | the configuration is read twice |
| Request validation, prompts, responses (`cursor_cli.go:224-445`) | none | pure | nested JSON |
| Token count (`token_count.go`) | none | pure | another walk over the same body than the prompt's |
| Redaction, transport types, logo | none | pure | - |
| Host bridge (`cmd/cliproxyapi-cursor`) | `stored_host` | dispatch, callbacks, shutdown | shutdown while goroutines call back |

Interactions. `dispatch` runs every method of the host on the host's own
threads with `context.Background()`: all service methods may run concurrently,
and nothing cancels them from outside. Execute, ExecuteStream, model discovery,
login and status all go through `runAgent` (or its login twin) and so share the
slots. Configure may come at any time; it replaces the configuration and the
slot channel under `configMu` and empties the model cache under `modelMu`.
Callers copy the configuration at their start and keep the copy. Shutdown
clears caches, sessions and the host pointer and waits for nobody.

What makes each component correct, and what could break it, is the list
`hazards` of `PROJECT.json`; section 3 names the properties.

## 2. Modules

| Module | Models | Composition |
|---|---|---|
| `AtomicInstall` | what an installation promises, without files | abstract |
| `ManagedInstall` | `InstallOfficialCursorAgent` and its helpers, step by step | refines `AtomicInstall` (`ImplementsAtomicInstall`) |
| `InstallObserver` | the lock-free `InstallStatus` beside an attempt | extends `ManagedInstall` |
| `AgentPool` | slots, workspaces and reconfiguration for any number of calls | - |
| `AgentProcess` | one started agent, its descendants, its bounded output, and runAgent's timeout; `ProcessSpec` is one run after the other | the inside of `AgentPool`'s `Start`..`GraceOver`; part of `Plugin`, which implements `ProcessSpec` |
| `Usage` | RecordUsage, GatewayUsage and their reset | part of `Plugin` |
| `PluginConfig` | ParseConfig and filteredEnv | part of `Plugin` |
| `RequestBody`, `TokenCount` | JSON trees: validation, prompt, counted segments | part of `Plugin` |
| `AuthStatus` | statusStorage and the parsers of what the CLI says | part of `Plugin` |
| `Archive` | safeExtractTarGz, entry by entry | part of `Plugin`; the inside of `ManagedInstall`'s `Extract` |
| `Plugin` | the calls of the host: dispatch, Execute, RefreshAuth, CountTokens, usage, reconfiguration, shutdown | composes the seven modules above |
| `ModelCache` | `discoverModels`, Configure, Shutdown, ModelsForAuth and resolveModel | - |
| `Login` | StartLogin, the login goroutines, PollLogin | - |
| `StreamOutput` | ExecuteStream's goroutine and the events the host gets | - |
| `ManagedInstallProofs`, `InstallObserverProofs`, `AgentPoolProofs`, `AgentProcessProofs`, `PluginProofs`, `ModelCacheProofs`, `LoginProofs`, `StreamOutputProofs` | theorems | extend the module they are about; `InstallObserverProofs` also `ManagedInstallProofs`, `PluginProofs` also `AgentProcessProofs` |
| `MC*` | symmetry sets and constant values for TLC | extend the module they check; `AgentPool` and `Login` are run as they are |

### ManagedInstall

A directory is absent, broken (partly created or removed) or a whole package,
which is known by the version its binary names and by where the binary lies. A
bin link is absent, goes through `current`, names a version directly (the older
layout) or leaves the root. `pc` names the next system call of the attempt;
locals of the method are variables because `installMu` admits one attempt.
Every change of the file system is one action, so that `Crash` and a reader can
fall between any two. `os.RemoveAll` of a package takes two steps. What can go
wrong beyond refusals and crashes is a set of *disturbances*, so that a run can
say under which of them a property holds:

- `rename`: a rename, or the creation of the link it moves, fails;
- `remove`: a removal fails, which the code ignores everywhere;
- `check`: reading back what was just written fails;
- `reconfigure`: Configure changes `managed_install_root` meanwhile.

`littered` is a history variable: a crash or an ignored error may have left
files. The symlink under a temporary name and the rename over the real name
(`replaceSymlink`) are one action; a crash between them leaves a stray link
that nothing reads.

### AgentPool and AgentProcess

Generation `g` is the g-th channel that Configure made. `chan[r]` is the channel
a blocked send or receive of run `r` waits on: Go evaluates `s.sem` once, when
the statement starts. The release goes to the channel in `s.sem` at that time,
as in the code. `AgentProcess` opens up the part between cmd.Start and the
return: the leader is alive, a zombie or reaped, descendants stay in or leave
the process group and keep or close the output. Output is counted in units:
processes write into the pipe, the copying goroutine of os/exec moves pieces of
any size into the `limitedBuffer`, and `cmd.Wait` returns when the pipe is empty
and nobody has it open. When the context ends before the leader is reaped,
os/exec kills it, and cmd.Wait returns an error even if it had exited
(`WatchCtx`). `ProcessNext` is the run with the two things its caller
does to it: start it with one of the `Limits` that a configuration may set, and
forget it after it has returned.

### Plugin and its parts

One call of the host is followed at a time; a new configuration may come
between any two steps of it. `Execute` validates the request and
resolves the model under the configuration of that moment (what `resolveModel`
may answer is the set `Resolutions`; `ModelCache` has the inside);
`ExecuteRunAgent` reads the configuration again, checks the sizes and goes on
with that copy of it (`copy`); `EnterWorkspace` makes the workspace and
evaluates `s.sem`; `AcquireSlot` sends to that channel, when it has room, and
starts the agent; then `AgentProcess` runs; `RunAgentReturns` has the result and
evaluates `s.sem` again, and `ExecuteReturns` receives from that channel, as
soon as it holds something, and gives the code of the envelope. `sem` has every
channel that Configure made. Of other executions, logins and discoveries, whose
steps are the subject of `AgentPool`, there are only the slots they hold
(`OtherAcquires`, `OtherReleases`). The constant `MaxDuring` bounds a run: a
configuration comes during another call when there were no more calls than that.
`RefreshAuth` is three runs of the agent in `AuthStatus`, each with any answer
of the instance or an error. `accepted` and `log` are history variables.

A JSON value is a string, a list, a map or another scalar. `Trees` are the
values that may occur, with every value inside them, and `Nesting` says how deep
each one is (encoding/json builds finite trees); the walks of the code are
recursive functions on `Trees`. Words are
compared as wholes: `MediaWords` are those words of the instance that contain
"image", "file" and so on. The order in which Go walks a map is a choice
(`Walks`) where it could matter, in the status answer. In `AuthStatus` the words
"yes" and "no" stand for the spellings that `classifyAuthStatusString` knows.
`CollectPrompt` is the sequence of texts that the prompt is made of; the role
that each is labelled with is left out. `ClaudeShaped` says where the Claude API
lets a request have text: in `system`, in the content of messages, and in a part
with a type where parts of that type have it. The code does not check that, and
counts no text elsewhere, so `PromptCounted` is about requests of that shape.

In `Archive` a path is the sequence of its names, made of the names that the
`Headers` have. `Resolved` is the path resolution of the operating system, name
by name (`Onward`), through links of links, but through 40 at most, as on Linux;
`MkdirAll` and `Create` change the tree as `os.MkdirAll` (which follows links), `O_EXCL` and
`os.Symlink` (which replace nothing) do.

### ModelCache

`permits` stands for the allow list, the deny list and the excluded prefixes
together. The history fields of a list (when it was asked for, under which
configuration, whether a Configure fell between) are not read by any action,
and neither is `listedAt`: when "agent models" last printed each model, whatever
became of it afterwards.
A caller in `Listers` is ModelsForAuth, which answers an error with the default
model; the others are resolveModel.

### Login

PollLogin takes the session pointer under `loginMu` and then reads its fields
without it, so every field access is an action. Reads see writes in their
order, which amd64, the only architecture that is released
(`scripts/package-release.sh`), provides. A torn read of a string is left out.
On the streams in `Overlong` the agent may print a line above 64 KiB, at which
the reader stops for good while the agent lives on (`ReaderStops`).

### StreamOutput

A text is a sequence of characters. The agent says a text chunk by chunk; its
partial lines carry chunks or the whole text so far, and it may repeat the whole
text at any time. `out` is what the host received, and the history variable
`received` the deltas in it, put together. The host is taken to answer
with an error only for an event it has not taken.

## 3. Runs

Passing runs:

| Run | Instance | Shows |
|---|---|---|
| `install` | 2 versions, 1 layout, 1 caller, `rename` and `remove`, one reader of the status | atomicity (refinement), `LinksAgree`, `AgentNeverDisappears`, `PlacedIsVerified`, `NoLitter` with a crash after every step, and `StatusTellsActive` |
| `install_disturbed` | 1 version, 2 callers, all disturbances, fair | `RequestsAnswered`, `NoLitter` |
| `pool` | 3 runs (one a login, cancellable), capacity 1, 2 channels, fair | over a reconfiguration `TokensConserved`, `SubprocessesBounded`, `WorkspaceCoversRun`; until one `CallsReturnUnlessReplaced` |
| `plugin` | 3 calls, 1 execution with 1 descendant and 2 units of output, 6 configurations (before a call, or at any point of the first), 1 slot held by another call, 44 requests, 13 status answers, 5 usage records, 14 archive entries of which 3 fit, fair | of the process `AgentDeadOnReturn`, `OutputQuietOnReturn`, `OutputWholeOrRefused`; that the plugin leads every run as `AgentProcess` has it (`RunsAreProcesses`); of an execution `RefusedNeverRuns`, `RunsUnderOneConfig`; of the counters `EachCountedOnce`, `UsageMatchesRecords`, `WindowCoversUse`; `PromptCounted`, `StatusFailClosed`, `ExtractedInside`, `ExtractedAsListed`; of every call `CallAnswered` |
| `models` | 2 callers (one ModelsForAuth), 2 models, 4 configurations, clock to 1, 2 reconfigurations | `AnswersFresh`, `StaleOnlyIfRaced`, `OnlyListedResolve` |
| `login` | 1 login, 1 client that polls again and again, 2 URLs, one stream with an overlong line, clock to 2, fair | `OneApprovalUrl`, `SuccessOnlyAfterLogin`, `LoginEnds` |
| `stream` | 2 characters (one blank), chunks of 1 and 2, text to 4, 5 lines, fair | `StreamWellFormed`, `DeltasSpellText`, `StreamCloses` |

Runs that refute what a document, a description or a test says (`findings`):

| Run | What happens |
|---|---|
| `install_check` | `current` is moved, reading it back fails, the rollback removes the directory it names and leaves the link |
| `pool_stuck` | an old call waits for ever on the new, empty channel |
| `plugin_dropped` | a part with a textual type passes the validation whatever its MIME type says (`cursor_cli.go:301`), and a type like "video_url" is not on the list of `cursor_cli.go:304`: both are dropped from the prompt without an error |
| `models_denied` | a discovery stores its list after Configure emptied the cache |
| `login_lost_url` | the agent prints its URL and exits; Wait closes the pipe first |

More behaviours of the code are in the models without a run that asks for
them, because no property claims otherwise; the notes of the hazards say where
they bite:

- With `reconfigure`, the "already installed" shortcut (`installer.go:228`) asks
  about another root, and the active version is moved away and installed anew.
- Beyond a reconfiguration an old call takes a new call's slot back
  (`cursor_cli.go:97`), and more agents than the present `max_concurrent` may
  run (`SubprocessesBounded` says how many).
- Once the leader is reaped its process group is not found
  (`cursor_cli.go:160`), and descendants survive the timeout.
- A chunk that begins with all of the text so far is taken for a cumulative line
  (`cursor_cli.go:493`): "a", "a" arrives as "a". `ambiguous` marks it.
- ModelsForAuth offers "auto" also when the plugin is disabled or "auto" denied
  (`models.go:22`); resolveModel never does (`OnlyListedResolve`).
- A refresh does not read the old auth file: when "agent about" fails, the new
  record has no account (`auth.go:398-405`).
- An archive with a "./" entry is refused (`installer.go:473`).
- Of `http_proxy` and `HTTP_PROXY` the allowlist keeps the first
  (`config.go:154`).
- The prompt always holds the plugin's own sentence, so a request without any
  text is run (`cursor_cli.go:326-331`).

Bounds. Two versions are what one attempt can tell apart (the one found and the
one announced), and crashes are unbounded, so leftovers of any number of attempts
combine. With one layout the refusal to move the binary (`installer.go:263-265`)
has no cause of its own, though the early return it leads to is taken; the
theorems about `install` hold for any layouts. Three runs on one slot make one run, one wait and one
arrive; the proofs cover other capacities, more runs and more channels for all
but the liveness. Two discoveries with two reconfigurations give every order of
read, clear and store. Two URLs on two streams make the readers compete. Texts of
four characters contain every relation of prefix, repetition and blank that the
code distinguishes.

In `plugin`, two units of output around limits of 1, 2 and 3 are below, at and
beyond the limit; a descendant may stay in the group or leave it, hold the pipe
or not (the proofs have any number of them); one configuration at any point of a
call, from the default one, is what can change the configuration it reads and the
channel it gives its slot back to, and the slot of another call makes it wait;
three records overflow a 4-bit sum and arrive out of order; three entries are a
file, a link to its directory and the same file through the link, which together
fit the size limit, as a larger file with them does not; the environment and the
allowlist have the key in two spellings. The requests hold each forbidden thing
at some depth (at most `MCDepth`; the proof of `RefusedNeverRuns` has no such
bound). An agent run, a refresh or an unpacking comes only while no usage was
recorded: the counters share no state with them.

The clock of `models` reaches the end of the shorter of the two times to live (a
list asked for at 0 and stored at 1 has expired), that of `login` the end of the
session. Counters are only bounded by the named constants (`MaxGen`, `MaxTime`,
`MaxText`, `MaxLines`, `MaxPrinted`, `MaxCalls`, `LastRun`, `MaxOthers`,
`MaxDuring`). Deadlock is checked except where the modelled requests end
(`plugin`, `stream`) and in the pool, where releases on a replaced channel really
can block every call.

Fairness. Goroutines that can run do (the Go scheduler), timers fire, and
blocked channel operations are served in order (strong fairness of `Send`,
`Receive`, `AcquireSlot` and `Lock`). Nothing makes an agent exit, a user poll, or
time pass. `RequestsAnswered` assumes that the HTTP client (30 seconds) and the
version probe return; `LoginEnds` that a slot is obtained
(`CallsReturnUnlessReplaced`). `CallAnswered` needs the goroutine of the call and
its two timers, that other calls give their slots back (which
`CallsReturnUnlessReplaced` shows of them), and for an unpacking that the
entries of a package in memory are read. It promises nothing once a
configuration has replaced a channel of which a slot was held (`Balanced`):
`pool_stuck` shows what happens then. It takes the answer of resolveModel and of
each run of a refresh as given.

## 4. Proofs

Each theorem is about every value of the constants, within the named `ASSUME`s,
which TLC evaluates in the runs. All safety theorems follow one argument: an
inductive invariant made of named parts, one step of the proof per action of
`Next`, and under it one per part that the action disturbs.

`ManagedInstallProofs`, for every set of versions, layouts and callers:

- `TypeCorrect`, `OnlyVerifiedPlaced`: under every disturbance. `PlacedIsVerified`
  is not inductive: what is placed comes from `.new`, which comes from the
  temporary directory, and the rollback restores `.old`. `ContentInv` adds what
  the pipeline holds at each `pc` and that a backup is verified too.
- `NothingLeftBehind` (`NoLitter`): under every disturbance. `Tidy` says of
  each of the three directories at which `pc` it may exist, and of which version.
- `LinksAlwaysAgree`, `AgentStays`: assuming `Undisturbed` (no failing re-read,
  no moved root; `install_check` and the first of the behaviours above show
  that both are needed). `LinkInv` says that the links always have one of three shapes
  (foreign; nothing reachable; both leading to one whole version, directly or
  through `current`), in which order an attempt changes them, and that the
  version being installed is not the active one until the swap.
- `InstallIsAtomic`: under the same assumption `Spec` implements
  `AtomicInstall!Spec`. Only `Swap` changes the active version (`ActiveChange`);
  `TargetInv` adds that it is the announced one from then on.

`InstallObserverProofs`, assuming `Undisturbed`:

- `StatusAlwaysTellsActive`: the reader holds what it resolved a moment ago while
  the attempt goes on, so the invariant ties the past to the present:
  `HeldWasActive` says that every version it holds is among those that were
  active since its call began, and `WalkInv` that, as long as this was one
  version (or none), everything it has found and will find is that one. Lemma
  `StepWrites` says what a step of the attempt may do to the links between two
  steps of the reader.

`AgentPoolProofs`, for every finite set of runs, capacities and number of
channels:

- `PoolTyped`, `WorkspaceAlwaysCovers`: whatever Configure does.
- `SlotsConserved` (`TokensConserved`): whatever Configure does; the elements in all
  channels, as pairs, are as many as the calls that hold a slot.
- `AgentsBounded` (`SubprocessesBounded`): whatever Configure does. An agent
  lives only in a call that holds a slot, those are as many as the elements in
  the channels, and no channel holds more than its capacity. `PoolInv` adds
  that a run's channel exists, that an agent is alive only
  between start and kill, and the span of the workspace.

`AgentProcessProofs`, about `ProcessSpec`, for any descendants, limits and
amounts of output: `NoAgentSurvives`, `BuffersQuiet`, `NothingCutSilently`.
`ProcessInv` says that the kill comes before the grace period
(`KilledBeforeGrace`), what cmd.Wait has waited for when it returns
(`WaitedForAll`), and that the buffer holds what was copied, up to its limit,
and is marked exactly if there was more (`BufferHoldsCopied`).

`PluginProofs`, for any requests, configurations, records and calls of the host:

- `PluginRunsProcesses`: `Spec` implements `ProcessSpec`; `PluginRunsAreSafe` so
  inherits the three theorems above. There is a process while a call
  executes and, returned, until its slot is given back (`ProcessInCall`); the copy
  of the configuration that a call waits with is an accepted one that allows it
  (`CopyAccepted`), and its output limit is in its range
  (`StdoutAssumption`, `DefaultAssumption`: the defaults pass the
  checks of ParseConfig).
- `OneConfigPerRun`: the configuration in force is always one that ParseConfig
  accepted as a whole (`ConfigAccepted`), so is the copy (`CopyAccepted`), and a
  run keeps what it was started with, whatever comes meanwhile; for every
  allowlist `FilteredEnv` leaves the key out.
- `RefusedNeverReachAgent` (`RefusedNeverRuns`): a resolved request has passed
  the validation (`RequestPassed`), and what passes is clean at every depth
  (`AcceptedIsClean`). The latter is an induction over trees. The provers cannot
  instantiate an induction theorem with a predicate, so `TreeInduction` is
  stated for a set of trees and follows from the least natural number of
  `Nesting`; that the recursive functions of `RequestBody` satisfy their
  definitions (`PartsUnfold`, `ToolShapeUnfolds`, `NotTextUnfolds`) is shown
  by giving a function that does. It covers what the tests of the code name,
  and no more: `plugin_dropped` shows what they leave out.
- `WindowAlwaysCovers`, `RecordsCountedOnce`: for records in any order, assuming
  that a record has the fields of its Go type and the clock is past zero
  (`RecordsAssumption`, `ClockAssumption`).
- `SnapshotAddsUp` (`UsageMatchesRecords`): the snapshot sums over models, the
  property over records, and the counters wrap at every addition. `TotalsInv`
  says that both sums agree after wrapping (`AddsUp`); a step changes one summand
  of either (`SumTakes`, `SumRow`), and `WrapSum` says that it does not matter when one wraps.
- `RecordsFailClosed` (`StatusFailClosed`): `WalkMeetsSignals`, by induction over
  trees, says that every walk collects exactly the signals that lie in the tree,
  whatever the order; so the agreement of a walk is the agreement of the tree.
  It assumes that what the CLI prints is JSON or lines (`StatusesAssumption`).
- `NothingOutside` (`ExtractedInside`) and `FilesAreTheirEntries`
  (`ExtractedAsListed`): neither is inductive. `ArchiveInv` adds that every link
  in the tree is relative and never goes up, so that a lookup that starts below
  the directory stays below it (`FoundBelow`), and that a tree only grows, so
  that what a path once resolved to it still does (`FoundStays`): this is why an
  entry, once written, is found under its name to the end, also through links
  that came before it. `HeadersAssumption`: "/" is only ever the first name of a
  path.
- `EveryTextCounted` (`PromptCounted`): the inductive part is small
  (`CountedInv`: what was counted last is a body with its segments). The work is
  `ContentCovered`, an induction over trees: in content of the Claude shape that
  the validation accepts, every text that `CollectPrompt` finds lies in a segment
  of `ContentSegments`. `KindsAssumption`: a JSON value is of one kind.

The recursive functions in these proofs (`Walks`, `Clean`, `Resolved`,
`MkdirAll`, `CollectPrompt`, `ContentSegments`, sums and concatenations) satisfy
their definitions only if a function exists that does. Lemma `Recursion` gives
one for every recursion along a grounded relation, without an operator as a
parameter: the functional is a function on pairs of an argument and a function.
`TreeRecursion` is the case of JSON values; for a lookup, the number of links
left and then the length of the path go down (`LookupsGrounded`).

`ModelCacheProofs`, for any callers, models and configurations:
`AnswersAlwaysFresh`, `StaleOnlyByRace`, `ResolvesOnlyListed`. `CacheInv` says that the
expiry was counted from before the listing (`ExpiryFromAsked`), that whatever a
list holds was printed by "agent models" after it was asked for and is let
through by the configuration it carries (`ListsPrinted`), that a generation has
one configuration (`OneConfigPerGen`), and that a call which no Configure
crossed has the current one (`UncrossedIsCurrent`), so that a stale list in the
cache or in a caller's hands is marked.

`LoginProofs`, for any logins, clients and URLs: `AtMostOneUrl`,
`NoFalseSuccess`. `OnlyOnceUrl` follows the one URL from the reader that found it
to the session and the answers; `ErrWrittenFirst` and `DoneMeansEnded` say that
done is set last and for what reason; `ReadsStand` that what a poll has read
without the lock is still true of the session when it uses it.

`StreamOutputProofs`, for every alphabet, chunking and set of canonical texts:
`StreamAlwaysWellFormed`, `DeltasAlwaysSpellText`. `FinalOrError` says at which `pc` a
final event or an error is there, `EmittedSpellsText` that `emitted`, the
received deltas and what was said agree until a line is ambiguous.

Only model-checked: all liveness (`RequestsAnswered`, `CallsReturnUnlessReplaced`,
`CallAnswered`, `LoginEnds`, `StreamCloses`), which is out of the prover's reach.
Every safety property that a passing run checks is also a theorem.

## 5. Not modelled

- The bytes: URL patterns of the installer script, YAML and JSON syntax, the
  line syntax of `agent models`, file modes, redaction, the tokenizer.
- `responsePayload` and `usageFromCursor`, which rearrange an answer, `ParseAuth`
  and `authData`, which copy fields, the setup page and the route table: no
  state, and nothing to relate it to.
- The slot of a login (`auth.go:136-137`) in `Login`: it is one of the calls of
  `AgentPool`.
- Process number reuse, torn reads of Go strings, the C-level race on
  `stored_host`.
- The descendants of the version probe, which can hold `installMu`
  (`installer.go:491`), and the documented uninstall by hand (`README.md:120`),
  which leaves the `current` link.
- Keys that a JSON object has twice: of those encoding/json, which makes the
  prompt, keeps the last, and the library that counts tokens reads the first.
- Redaction, transport types, packaging scripts.

## 6. Plan

Done: installation, pool, process, models, login, streaming, the calls of the host
with their parts, and theorems for all safety properties that are checked. What
would come next:

1. Abstract specifications of the slots (a counting semaphore, until a
   reconfiguration) and of a login session, with their refinements.
2. The parts that are only described in section 5: the descendants of the
   version probe and the uninstall by hand.
