# A verification development for wyoming-nanowakeword

TLA+ specifications of the wake word server in `src/wyoming_nanowakeword`, the
TLC instances that model-check them, and theorems about them that TLAPS proves
for every value of the constants. `PROJECT.json` lists the runs, maps every
definition to the source lines it stands for, and lists the findings and the
hazards.

    tlc -workers 2 -config pool_clients.cfg MCInterpreterPool   # one run
    tlapm WakeStreamProofs.tla                                  # one set of proofs

## 1. The system

The server speaks the Wyoming protocol to satellites and to Home Assistant: a
client asks for wake words (`Detect`), streams audio (`AudioStart`, many
`AudioChunk`, `AudioStop`) and gets `Detection` or `NotDetected`. An HTTP API
manages models and settings; a Home Assistant integration uses it. One asyncio
event loop runs everything; loading and inference go to worker threads.

| Component | State | Operations |
| --- | --- | --- |
| Interpreter manager (`interpreters.py`) | pool of idle ONNX interpreters, its generation, a lock | `acquire_for_entry`, `release`, `warm_up` |
| Client handler (`handler.py`), one per connection | detectors, streak and refractory time of each, audio buffer | `Detect`, `AudioStart`, `AudioChunk`, `AudioStop`, `disconnect` |
| Candidate verification (`handler.py`, `asr_verify.py`) | none but the buffer; calls two other servers | `_verify_candidate`, `verify_wake_word` |
| Capture files (`handler.py`) | WAV files in a directory | `_write_capture` |
| Registry (`state.py`, `models.py`) | served and backing models, generation | `refresh`, `get_default_model_id` |
| Scores and events (`state.py`, `http_api.py`) | statistics per model; a queue per subscriber | `update_score`, `record_*`, `publish`, `subscribe`, SSE |
| Settings (`settings.py`) | the options, `settings.json` | `apply`, `save_settings`, `load_settings_overlay` |
| HTTP API (`http_api.py`) | the model directory | upload, delete, restore, refresh, backup, test recording, PATCH settings |
| Score fusion (`fusion.py`) | none | `score_from_result`, `fuse_scores` |
| Server start (`__main__.py`) | none | discovery, warm-up, servers |
| Home Assistant integration (`custom_components`) | the coordinator's data, backup files | polling, entities, services, configuration flow |

How they interact:

* Handlers and the API share one `State`. Everything on the event loop runs
  between two awaits without interruption; worker threads run beside it.
* The *generation* ties them together: every accepted change bumps it, and
  whoever keeps something that was built from models or settings compares.
* The manager's lock is taken by worker threads and, in `release`, by the event
  loop itself.
* A handler reads settings whenever it needs one, so a PATCH falls between two
  reads of the same event wherever it awaits.

Behaviours that are hard: a change in the middle of a load; a recording test
that releases from its thread; a refused change that was applied in part;
ensembles that fail half-way; verifiers that are slow, absent or talk nonsense;
settings that change between a decision and its use; clients that repeat or
interleave their events. `PROJECT.json` has each as a hazard, at its line.

What makes each component correct, where a property states it:

* manager: an interpreter has one user and comes without another's audio
  (`Exclusive`, `OneUserAtATime`); nothing outdated is handed out (`PoolFresh`,
  `StreamsStartFresh`); nobody waits for ever (`EventsHandled`, `LoopFreed`).
* verification: a verdict follows the policy (`FailClosedIsStrict`,
  `FailOpenKeepsDetections`), rests on audio just heard (`ConfirmedOnRecentWord`),
  from every stage (`EveryStageConfirms`), in bounded time (`LatencyBounded`,
  `CandidateDecided`).
* streams: a candidate has its activations in a row (`Consecutive`) and its
  cooldown behind it, within a stream (`CooldownAfterDetection`); the client is told the truth
  (`StopTellsTheTruth`); a change is in force from the next stream on
  (`NextStreamReresolves`).
* model files: a request changes all of its files or none (`KeepsPromise`), and
  what is served is what is stored (`ServedAsStored`); nothing is refused without
  a reason (`RefusedForAReason`), and the server starts (`StartsAnyway`).
* settings: what was patched survives restarts (`PatchesSurvive`).
* discovery: the newest version, its own gate, no ensemble without its files
  (`ServesNewest`, `GatesFit`, `OfferedIsBacked`).
* fusion and transcripts: of audio that it does not alter, the recording test
  tells what happens live (`TestForetellsLive`), confidence never hurts (`MoreConfidentNeverLess`), the
  accidents of order and of word pieces do not matter (`MemberOrderIrrelevant`,
  `CutsDoNotMatter`), the second pass misses nothing the first has found
  (`SecondPassFindsWord`), and one row is enough for an edit distance
  (`DistanceIsLevenshtein`).
* captures, counts and events: rotation converges (`CapturesPruned`), detections
  are counted (`DetectionsCounted`), events arrive in order and once
  (`EventsArrive`), and a listener comes back (`ListensAgain`).
* integration: sensors are those of the last poll (`EntitiesFollow`), and in the
  end Home Assistant shows the server as it is (`CatchesUp`).

## 2. Modules

| Module | Models | Proofs |
| --- | --- | --- |
| `InterpreterPool` | manager, how handlers and recording tests use it, changes that bump the generation | `InterpreterPoolProofs` |
| `InterpreterLease` | abstract: what the pool promises | `InterpreterPoolProofs` |
| `CandidateVerification` | audio buffer and verification | `CandidateVerificationProofs` |
| `WakeStream` | triggers, refractory time and replies of a handler | `WakeStreamProofs` |
| `Discovery` | `discover_models` and `State.refresh` as functions of the directories (no state) | `DiscoveryProofs` |
| `ModelRegistry` | the registry over uploads, deletions and edits of `models.yaml` | `RulesProofs` |
| `ModelStore` | `_apply_changes` and `_rollback` operation by operation, backup, restore, crash, start; uses `Discovery` | `ServerProofs` |
| `AtomicStore` | abstract: what the API promises about files | `ServerProofs` |
| `SettingsFile` | patches, `settings.json`, the command line | `ServerProofs` |
| `ScoreFusion` | `fuse_scores`, live and in a recording test | `RulesProofs` |
| `AsrMatching` | `passes_unbiased`, `passes_prompted`, `_edit_distance` | `CandidateVerificationProofs` |
| `Captures` | `_write_capture` in several threads | `OutputProofs` |
| `Scores` | the scores dict, its threads and `refresh` | `OutputProofs` |
| `EventStream` | subscribers' queues, the SSE stream, the listener in Home Assistant | `OutputProofs` |
| `HomeAssistant` | entry, coordinator, score sensors, changes, Wyoming entry | `OutputProofs` |
| `FoldTheorems` | no code: a fold over a sequence is a loop | itself |

The first four have an `MC...` module that EXTENDS them with values for their
constants (`InterpreterLease` shares the pool's). `MCRules` instantiates discovery, fusion and transcripts, `MCServer` the
model files and settings, `MCOutputs` what leaves the handlers: in each of these
the parts share no state, and a variable `about` chooses at the start which of
them the behaviour is about, so that their states add up instead of multiplying.

The first three state machines are about the same handler and leave out each other's
subject: `WakeStream` takes a load or a verification as one step that ends in
any way, `InterpreterPool` does not look at scores, `CandidateVerification` not
at interpreters. What they share are the points where the handler awaits, for
there the environment acts.

Definitions named `X_Something` beside a definition `X`, with the comment
`mutant`, are plausible wrong versions of it. No specification uses them; each
one, put in the place of `X`, makes TLC find a property violated.

### InterpreterPool

`loop` is who has the event loop; an action of the loop is a stretch of code
between two awaits. `job[t]` is what a worker thread does: `acquire` (about to
take the lock in `_acquire`), `load` (the lock given up, `_load` begins),
`build` (options read, session being built), `failed`; a recording test also
has `queued`, `scored` and `pooling` (inside `release`, after its check).
`holds[p]` is the set of interpreters place `p` refers to, a place being the
pool, a call in progress or a detector; an interpreter is a record of the model,
the versions of the files and options it was built from and whether its buffers
hold audio. `files` and `options` count versions, so that "built from what is in
force" is an equation.

`BeginFallback` and `EndReload` are the two ways on from `AudioStart`; `WordVanished`
is the `KeyError` of line 168. `WriteFiles` followed by `CommitFiles`, `RollBackFiles`
or `EscapeFiles` is `_apply_changes`: it does not await, but worker threads read the
directory meanwhile. `EscapeFiles` is the exception that is not caught
(`http_api.py:513`): the new files stay, and no generation is bumped. Two more steps
change what interpreters are built from, or put it back, without a bump: a PATCH
refused at a later key (`RefuseSettings`) and a rollback into a directory that
`EditByHand`, or an escape, has made unreadable. The history `unannounced` is set by
these three and reset by the next bump.

`InterpreterLease` says what a user of the pool may rely on: an interpreter is
lent to one user, passes to another through the pool only, and is clean when it
is lent. `OneUserAtATime` is that specification under a refinement mapping that
takes a client with all its detectors and its call for one user.

### CandidateVerification

The phase is the await the handler is in: `wav` (encoding the buffer in a
thread), `model`, `unbiased`, `prompted`, or `listening`. Audio is a sequence of
chunks, and all a verifier can tell is whether the word is among those it was
sent; it may miss it but never hears a word that was not said. `heard` is a
history of what the client sent, against which the buffer is judged, and
`policy` collects the values `verify_fail_open` had while the candidate was
verified, since no more than "off throughout" or "on throughout" can be asked of
a verdict that is taken while the setting changes. `Faults` holds
`"unreachable"` (no connection, timeout, error status) and `"malformed"` (an
answer that is no JSON object: an exception that nobody catches, which ends the
connection, so that the verdict is `dropped`). A call takes up to its timeout; a
timeout of 0 is none (`settings.py:83`), and the call takes up to `LongestWait`.

The sequence of chunks sent to the verifiers is read from the buffer in the
later phases; it is what was encoded in the `wav` phase, because the handler
appends nothing until the candidate is decided.

### WakeStream

`mode` is the event being handled (`detect` and `start` await loads), `todo` the
detectors that have not seen the current chunk, `verifying` the one whose
candidate is being verified. A detector keeps `left` (`triggers_left`), `since`
(the age of `last_triggered`), `detected`, and as history `run` (activations in
a row). Histories of the handler are `woken` (the wake words detected in this
stream) and `quiet` (the age of each one's last Detection), which no `AudioStart`,
reload or reconnection resets. Ages saturate at `MaxAge`. `RefusePatch` is a PATCH
refused at a later key: it changes settings without a bump, and `unannounced` says
so until the next one.
Time passes (`Tick`) between chunks and, if `Slow`, while a candidate is
verified. Clients send chunks and `AudioStop` between `AudioStart` and
`AudioStop` only; with `Orderly` they send `Detect` between streams only, as
Home Assistant does. Every wake word stays served: models that vanish are
`InterpreterPool`'s subject.

### Discovery and ModelRegistry

A file name is a record of wake word, version (the parts that `_version_key`
makes of the suffix), spelling (`v2` and `v02` have one key) and whether it ends
in `_lite`; a directory is the set of its names with its
`models.yaml`, which maps ids to whether they are hidden and to members, or is
`Invalid` or `Odd`: the first raises a `ValueError`, the second something that
nobody catches. `Names` has all names in sorted order, in which the code looks
at files, since of two equal versions it decides. The two loops of the code are
one scan: `Scanned` goes through the directories, `ScanDirectory` through the
names, and `ScanFile` is the body, which looks at a gate or at a model file; what
it finds of the one kind does not depend on the other. `ModelRegistry` calls
discovery at every change and states what is expected of the result in other
terms: `Older` compares versions at the first part in which they differ,
`Candidates` knows no order.

### ModelStore and AtomicStore

`phase` is where `_apply_changes` is: `apply` (files are written, then deleted),
`rollback`, or `idle`; `down` and `failed` are the process. `todo` are the files
left, `originals` what was read first. Each operation may fail, a write having
perhaps truncated the file. `Commit`, `Refuse` and `Escape` are the three ends of
`state.refresh()`. `cause` is a history of why the directory may differ from what
was read last. In `AtomicStore` a request is one step on the contents that it
found; `ModelStore` implements it with `contents <- Before`, the originals of the
files touched and the rest of the directory. Its `spoilt` (files the disk has
refused) and `Crash` bound what is promised when things go wrong.

Left out: hand edits between two operations of one request, and the loading of
gates at warm-up. `_apply_changes` has no await, so that requests do not
interleave; that worker threads read the files meanwhile is `InterpreterPool`'s
subject.

### SettingsFile

`apply` sets key after key up to the first it refuses, so an object that is
applied is the function before that key: `PatchRefused` and a file with a bad
value are prefixes. `wish` is the value last accepted for a key; `unsaved` the
keys whose wish is not in the file, `stray` those that something else has set: a
refused patch, or a connection with `--capture-dir`.

### ScoreFusion and AsrMatching

Scores are integers, `Unit` of them the digit at which the test rounds; a fused
score is a fraction. `Live` counts down triggers, `Test` rounds and looks at no
trigger level. A recording has a peak and the length of the chunks it was streamed
in; the test scales it to one peak and cuts it anew (`Normalized`). Only if that
changes nothing (`Verbatim`) do the models give the same scores live; otherwise the
scores there are any, as they are for a model that is a member twice and hears each
chunk twice when live. `AsrMatching` grows a transcript piece by piece; `Text` is what the first
pass sees of it, `Merge` the words of the second, which `AddPiece` begins or
continues. `EditDistance` is the code's one row that is overwritten; `Levenshtein`
the recurrence.

### Captures, Scores, EventStream, HomeAssistant

A capture is named by wake word, second and connection, in the order in which
names sort. A thread writes, lists and unlinks in separate steps; `gone` are the
names removed since the start.

In `Scores` a thread that found no entry (`missed`) inserts one later, over what
is there then. `RefreshRaises` is the `RuntimeError` of a dict that grows while
`refresh` iterates over it.

In `EventStream` an event is its number; `queue` and `wire` are on the way to a
client that is `listening`. A connection ends with a notice (`Break`) or without
one (`BreakSilently`: `deaf`), and the server's task for it ends at its next
write (`unread.late`), or never was in the `try` that unsubscribes
(`unread.leaked`). `expected` collects what a client must get.

`HomeAssistant` is one config entry. `asks` is the GET under way; a change falls
between any two. The server is what its API answers. Setup, polling, retries and
reauthentication follow the documented behaviour of Home Assistant, which is
external: it retries after `ConfigEntryNotReady`, and after
`ConfigEntryAuthFailed` it stops polling and asks the user. Entities are added at
once. `Changed` is `async_notify_model_change`, which all steps of the options
flow, services and the button end with when the server has answered.

## 3. Runs

| Run | Instance | Shows |
| --- | --- | --- |
| `pool_clients` | 2 clients, 1 ensemble of 2 models, 4 interpreters, 1 change | `OneUserAtATime` (refinement of the lease) |
| `pool_edits` | 1 client, a wake word and an ensemble that share a model, 2 changes, refused and failed ones among them | `PoolFresh`, `StreamsStartFresh` |
| `pool_live` | client and recording test, 1 change, refused and failed ones among them, fairness | `TypeOK`, `Exclusive`, `EventsHandled`, `LoopFreed` |
| `verify_patched` | every initial setting with `capture`, every other setting patched at any await, all faults, fairness; buffer of 3 chunks, window of 2, timeouts of 1 tick | `TypeOK`, `FailClosedIsStrict`, `FailOpenKeepsDetections`, `EveryStageConfirms`, `ConfirmedOnRecentWord`, `LatencyBounded`, `CandidateDecided` |
| `stream_handler` | 2 wake words, levels 1 and 2, refractory time of 2 ticks, 2 changes, any refused patches, orderly client, quick verification | `TypeOK`, `Consecutive`, `CooldownAfterDetection`, `StopTellsTheTruth`, `NextStreamReresolves` |
| `rules` | 8 file names of 2 wake words, 6 contents of `models.yaml`, with and without a second directory; 2 members of every role and weight, scores 0 to 5, 4 recordings, 2 of which the test hears as they are; transcripts of up to 4 pieces | `ServesNewest`, `GatesFit`, `OfferedIsBacked`, `TestForetellsLive`, `MoreConfidentNeverLess`, `MemberOrderIrrelevant`, `DistanceIsLevenshtein`, `CutsDoNotMatter`, `SecondPassFindsWord` |
| `store` | 3 model files (one that only a hand could make) and `models.yaml`, 2 requests, 1 crash, 1 hand edit; 2 settings of 2 values without a bound on steps | `StoreTypeOK`, `ServedAsStored`, `RefusedForAReason`, `StartsAnyway`, `PatchesSurvive`, `KeepsPromise` (refinement of `AtomicStore`) |
| `outputs` | captures of 2 connections, 2 wake words, 2 seconds, 2 to keep; 2 threads and 2 detections of each wake word; 2 listeners, 3 events, room for 1, 2 faults; 2 models, 2 tokens, 3 changes, failures or outages; fairness | `CapturesPruned`, `DetectionsCounted`, `EventsArrive`, `EntitiesFollow`, `ListensAgain`, `CatchesUp` |

Each of the following looks for one disagreement between the code and what is
said of it, and finds it; `PROJECT.json` quotes both sides.

| Run | What TLC finds |
| --- | --- |
| `pool_test_race` | `PoolFresh`: a recording test returns an interpreter of replaced files: `release` checks the generation, `_sync_generation` reads it again |
| `verify_asr_alone` | `EveryStageConfirms`: ASR verification without capture has no audio and accepts everything unheard |
| `verify_asr_budget` | `AsrBudget`: two transcriptions take twice `verify_asr_timeout` |
| `store_odd_yaml` | `RolledBackOnErrors`: a `models.yaml` with `trigger_level: [3]` raises a `TypeError` that `_apply_changes` does not catch: the upload ends in an error and the file stays |

The passing runs, and the theorems' hypotheses, leave out what follows. Most of it can
be seen by changing one constant of a run:

* `PoolFresh` and `StreamsStartFresh` say nothing from a change without a bump to
  the next bump (`unannounced`). There are three such changes. A PATCH refused at a
  later key has changed cascade or VAD options (`settings.py:67`). An upload is put
  back while `models.yaml` is broken, and the rollback cannot re-read the directory,
  so that what a thread loaded in between stays current (`http_api.py:529`). And an
  exception that `_apply_changes` does not catch leaves the new files in place, which
  takes two uploads and nothing else: a `models.yaml` with `trigger_level: [3]`, and
  then a new version of a model (`http_api.py:513`); pooled interpreters and running
  detectors of the old file count as current.
* `NextStreamReresolves` has the first of these exceptions: a refused PATCH that has
  set `trigger_level` leaves later streams at the old level until the next bump.
* `FailOpenKeepsDetections` excepts an answer that is no answer: it drops the client,
  and the detection with it, although `verify_fail_open` is on (`asr_verify.py:154`,
  `handler.py:463`).
* `LatencyBounded` and `CandidateDecided` are about timeouts that are set. The API
  accepts a timeout of 0 (`settings.py:83`), which is none to aiohttp.
* `CooldownAfterDetection` is about one stream. `AudioStart` forgets
  `last_triggered` (`handler.py:228`), and so does a reload, so that a wake word can
  fire at once in the next stream, whatever `refractory_seconds` is.
* `EveryStageConfirms` and `ConfirmedOnRecentWord` with `Patchable <- EverySetting`:
  without capture there may be no audio, and capturing switched off and on again
  leaves old audio in the buffer, next to new (`handler.py:132`, `240`).
* `Consecutive` with two `Refractories`: a raised `refractory_seconds` freezes a
  streak, and misses in between do not reset it (`handler.py:253`).
* `StopTellsTheTruth` with `Orderly = FALSE`: a `Detect` in mid-stream releases
  the detector that has detected (`handler.py:492`).
* `CooldownAfterDetection` with `Slow = TRUE`: `last_triggered` is taken before
  the verification, so that one that takes as long as the cooldown leaves none
  (`handler.py:266`).
* `ConfirmedOnRecentWord` does not say in which stream the word was said: the
  buffer survives `AudioStart`, and a word of the last stream confirms
  (`handler.py:205`).
* `PatchesSurvive` excepts `stray` keys: capturing is switched on again by every
  connection of a server with `--capture-dir` (`handler.py:94`).
* `StartsAnyway` excepts a default model that ONNX cannot load: `warm_up` raises
  before the server listens (`__main__.py:218`). `SettingsFile` has a second way
  not to start, `StartRaises`: a `settings.json` that is JSON but no object
  (`settings.py:109`).
* `TestForetellsLive` is about audio at the test's peak, or silent, that is streamed
  in chunks of 1280 samples. The test scores normalized audio in such chunks
  (`http_api.py:352`, `380`), a live detector what the satellite sends
  (`handler.py:237`); of a quiet or hot recording the test may say what no live
  detector sees, as the comment at `http_api.py:42` explains. Excepted besides are
  scores that rounding can move over the threshold, and a model that is a member
  twice (`handler.py:534`).
* `SecondPassFindsWord` excepts keywords with a character that is no letter, such as
  a space, a hyphen or a digit: the second pass compares word by word, and drops
  such characters from the words but not from the keywords (`asr_verify.py:55`,
  `76`), so that it compares "hey" and "nano" each with the whole of "hey nano".
* What the second pass would accept and the first has not found is rejected, for the
  second is made only after the first (`asr_verify.py:155`): it recovers no
  pronunciation that the first rejects, though `README.md:65` says so.
* `CapturesPruned` is about names. That the newest captures are kept, as
  `__main__.py:142` says, holds for one wake word and a clock that is not set
  back (`handler.py:354`).
* `DetectionsCounted` excepts entries that a second thread has written over
  (`state.py:77`).
* `ListensAgain` excepts clients that are `deaf` and listeners that leaked
  (`api.py:91`, `http_api.py:423`).
* `EntitiesFollow` excepts sensors of models that went while the entry was not
  loaded (`sensor.py:40`).

A rejected candidate also starts the cooldown (`Fire` comes before the verdict),
and with `--capture-dir` each connection switches capturing on again
(`SettingsOnConnect`).

Bounds, and why they are enough:

* *Pool.* Two users of one model are the least that can share an interpreter,
  a third adds only another of the same kind. The ensemble has two members
  because the second may fail or be missing when the first is held. `Ids` are as
  many as can be referred to at once; a dropped one is created anew. `MaxEdits`
  counts changes: one overtakes a load, a second the reload that the first causes,
  or makes good for one without a bump. The ensemble of `pool_live` has one member,
  for liveness: that a second member fails is in the other runs.
  Interpreters and clients are interchangeable (symmetry); `pool_live` checks
  liveness and declares no symmetry.
* *Verification.* The buffer is one chunk longer than the window sent to the
  verifiers, so that trimming and cutting differ. With a timeout of one tick a
  call answers at once or takes all it may. No run has a timeout of 0, of which the
  properties say nothing; the theorems include it.
* *Streams.* Two wake words show that a detector's fate is its own and that one
  can be released while another stays; level 2 is the least with a streak. Ages
  are told apart up to the refractory time, since no more is compared. Two
  changes let one fall into the load that another one caused. `MaxChanges` also
  bounds the generation.

* *Rules.* The versions are those that are easily confused: 2 and 10, 2 and 02,
  2 and 2b, none. Scores reach over each threshold and are finer than the
  rounding. Four pieces make two words of two pieces, or one of four.
* *Store.* Two requests: the second finds what a failed first one has left. Three
  of the files belong to one request when an archive is restored. The file that
  cannot be uploaded stays out of the two ensembles of interest.
* *Outputs.* Two connections write over each other's listings with two files to
  keep. A queue with room for one event is full at the second. Two faults let a
  connection end while the server is down, or twice. Three happenings are an
  outage, a change meanwhile and a poll that fails. No action of the environment
  other than those is bounded.

Deadlock is checked in every run but `outputs`: the environment can always act,
only in `outputs` it really may be over, when the events, detections and faults of the
instance are used up and everything has arrived.

Fairness. `pool_live` assumes that worker threads run, and that asyncio runs
every ready callback. Threads, handlers and tests get strong fairness because
each is disabled and enabled again by others holding the lock or the loop;
asyncio's ready queue is first in, first out, and a contended lock is granted in the end. Clients and the API need not do anything. `verify_patched` assumes that
the encoding thread runs and that timeouts that are set fire (the failing answer of
each phase), and nothing of the verifiers. `outputs` assumes weak fairness of the
listener's attempts to connect (a loop with a sleep of ten seconds) and of writes
to a broken connection, which fail at the latest with the keepalive after 30
seconds; of setups, polls, answers of a server that can be reached, and reloads
of the Wyoming entry, all of which Home Assistant repeats by a timer or a queued
task. Users, other clients and outages need not do anything.

## 4. Theorems

All are proved for every value of the constants that satisfies the named
assumption of the module. The ASSUME ... PROVE theorems name what else they
need; section 3 says what happens without it.

`InterpreterPoolProofs`
: `TypeCorrect`, `InterpretersExclusive` (`Exclusive`) and `PoolLeases`
(`OneUserAtATime`: every behaviour of the pool is one of `InterpreterLease`) for
every set of clients, tests and models. The last goes by what a step does
with an interpreter: it stays with its owner, is used or reset there, goes to the
pool, or comes from it clean (`Passes`); every action only passes interpreters or
makes new ones (`Moves`), and what only moves, and is held once, is lent as the
lease says. `PooledInForce` (`PoolFresh`) and `StreamsInForce`
(`StreamsStartFresh`) without recording tests (`NoRecordings`), whatever is refused,
rolled back or escapes. The inductive invariant of the latter two says: no tag is from the future (`TagsBounded`); a thread works
for a client only while its handler awaits it (`CallsAwaited`); and what carries
the current generation, in the pool, in a detector or in a call, was built from
what is in force (`TaggedInForce`), unless a change is under way or unannounced. The
last is what the generation is for; it is not inductive without the other two, since
a bump must leave nothing behind that equals the new generation, and so makes good
for all that was unannounced (`StepAnnounces`).

`CandidateVerificationProofs`
: `TypeCorrect` (with the bound on the buffer), `FailClosed`, `FailOpenKeeps`,
`LatencyIsBounded`; and where audio is buffered from the first chunk on, by a
setting that is not patched, `ConfirmedIsRecent` and `AllStagesConfirm`
(`EveryStageConfirms`, for a buffer of some length). The invariant behind the
first two relates the phase to what has been answered: in the ASR phases the
model has confirmed, or it has failed and `verify_fail_open` was on at that
moment. `ConfirmedIsRecent` aligns the buffer with the audio heard: counted from
the end, what would be sent is what the client sent last. `AllStagesConfirm`
needs that there is audio to verify once a chunk has come. `LatencyIsBounded` adds up
the calls of a candidate, for each timeout that is not 0.

`WakeStreamProofs`
: `TypeCorrect`; `TriggersAreConsecutive` (`Consecutive`) if `refractory_seconds`
has one value: the activations missing from the level have been seen in a row,
and a cooling detector is at its full level; `CoolsDown`
(`CooldownAfterDetection`) if verification takes no time and clients are orderly: of a
wake word detected in this stream, `last_triggered` is no older than the last
Detection; `StopIsTruthful`
(`StopTellsTheTruth`) for orderly clients: a Detection was sent in the stream
exactly if a loaded detector has `is_detected`; `StreamsReresolve`
(`NextStreamReresolves`): what was read in this generation is in force, also by
a load in progress, and a stream that started in it has nothing older, until a
refused patch changes the level without a bump.

`ServerProofs`
: `StoreTypeCorrect`, `StoredIsServed` (`ServedAsStored`), `RefusalsHaveReasons`
(`RefusedForAReason`) and `PromiseKept` (`KeepsPromise`: the initial states are
initial states of `AtomicStore`, every step is a step of it or a stutter), for
any names, contents, directories, archives and bounds. What discovery makes of a
directory is opaque to these: the proofs use only that it is a function of it.
`StartsWhateverIsLeft` (`StartsAnyway`) does look at it: a set of models that
discovery refuses leaves nothing to preload, and of one that it accepts the
default, or each of its members, has a file (`DiscoveryProofs`). The
invariant `StoreInv` says how far a request has come (`Progress`): while it is
applied, a file that is still to do, or that no one has touched, is as it was,
and one that is done is as it is to be; while it is rolled back, what is done is
as it was, but for what the disk has refused. `PatchesAreKept`
(`PatchesSurvive`): the value wished for a key is in force and, unless the key
is `unsaved`, in the file (`SettingsInv`).

`OutputProofs`
: `CapturesArePruned` (`CapturesPruned`) for any connections and files: a thread
decides what goes by a listing that others make outdated, but a file that is gone
or going has at least `capture_keep` files after it, which only become more or
are themselves followed by as many, and once the last thread has listed, those
that are to stay are no more than that (`CapturesInv`). `AllDetectionsCounted`
(`DetectionsCounted`), for a key that is not in the dict has no detections and was
not overwritten; `EntitiesFollowServer` (`EntitiesFollow`), for while the entry is
loaded the known models are those of the last poll, and those of the registry are
these and the orphans; `EventsAlwaysArrive` (`EventsArrive`): what has been
received, is on the wire and waits in the queue is one increasing sequence, none
of it newer than what was published, and what was expected while the client
listens.

`FoldTheorems`
: The loops of the code are folds over sequences, and what a loop computes for
every input needs induction. The induction theorems of the library take an
operator as a parameter, which the provers cannot instantiate; here induction is
over a *set* of numbers (`IntervalByInduction`: a set that has 0, and with a
number below `n` its successor, has all up to `n`), and the operator folded is a
CONSTANT of the module, which an INSTANCE gives. `FoldIsLoop`: a fold has a
function of the values after each step, `IsLoop`, so that a proof about it states
an invariant of the step. `FoldOfPermutation`: if any two steps commute, the
order of the sequence makes no difference.

`DiscoveryProofs`
: `ScanFindsBest`: for any directories the scan ends with the best file of each
wake word, newer than all others or as new and looked at first, and with a gate
for exactly the stems that have one. The invariant of both loops, `ScanInv`, says
that of the files looked at so far. First come the versions, tuples compared part
by part: `Newer` is a strict total order of them (`NewerIsIrreflexive`,
`NewerIsTransitive`, `NewerIsTotal`).

`RulesProofs`
: On those, `NewestServes` (`ServesNewest`), `GatesAreFit` (`GatesFit`) and
`OfferedAreBacked` (`OfferedIsBacked`) for any names, versions, `models.yaml` and
directories: the registry is always what discovery makes of directories that it
does not refuse (`RegistryInv`). `TestAndLiveAgree` (`TestForetellsLive`): the
agreement, on audio that the test leaves as it is, is inductive by itself once the
triggers left are at most one wherever the level is (`FusionInv`), since rounding leaves a score that is half a unit away
from the threshold on its side (`FarFromThreshold`). `FusionIsMonotone` (`MoreConfidentNeverLess`), mode by
mode: a sum, a greatest element and a mean of members that all grow or stay.
`FusionIgnoresOrder` (`MemberOrderIrrelevant`): sums and greatest elements do not
depend on the order, and with one primary neither does the rest.

`CandidateVerificationProofs`, on `AsrMatching`
: `EditDistanceIsLevenshtein`: for any two texts the row that is overwritten ends
with the edit distance. Both are the last entry of a table; that of the code takes
the least of three neighbours even where the letters are equal, the recurrence
takes the upper left one, and these are the same because neighbours in the
table differ by at most one (`ToTheRight`, `Downwards`). `DistancesAreLevenshteins`
(`DistanceIsLevenshtein`) applies it to every word of a transcript, which are texts
by `MatchInv`. `CutsAreNothing` (`CutsDoNotMatter`): from the piece that is cut on,
the words are the same but for the number of their pieces, and sums that grow in
proportion have the same mean. `SecondPassMissesNothing` (`SecondPassFindsWord`): a
run of letters in the transcript lies within one of the merged words, for a space
ends a run as it ends a word; piece after piece (`RunsInMoreWords`), where a run
that reaches the end of the transcript ends the last word.

Only model-checked is liveness, which is out of the prover's reach:
`CandidateDecided`, `EventsHandled`, `LoopFreed`, `ListensAgain` and `CatchesUp`.

## 5. Not modelled

* The listings, info and diagnostics of the API and the integration: they change
  nothing. Authorisation is one comparison; `HomeAssistant` has what follows from
  it.
* Argument parsing, zeroconf and logging (`__main__.py`), packaging and scripts:
  input and output.
* The forms of the configuration flow and its recording test: they are driven by
  Home Assistant and change nothing on the server.
* The rotation of backup files (`helpers.py`): it keeps the ten last names, as
  `Captures` does, in one thread at a time, by local time.
* Peaks, averages and ages of scores: data that decides nothing.
* ONNX inference, audio conversion, the HTTP and Wyoming libraries and Home
  Assistant are external.
