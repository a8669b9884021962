# Formal models of the SoulYatri voice system

This directory holds TLA+ models of the SoulYatri voice stack, the TLC
configurations that check them on small instances, and TLAPS proofs of what matters
most for every value of the constants. `PROJECT.json` lists the components, the runs,
the source lines behind every definition, the hazards and the theorems; this file
explains them.

1. [The system](#1-the-system)
2. [What is modelled, module by module](#2-what-is-modelled-module-by-module)
3. [The runs](#3-the-runs)
4. [Bounds](#4-bounds)
5. [Fairness](#5-fairness)
6. [What is proved](#6-what-is-proved)
7. [Where code and text disagree](#7-where-code-and-text-disagree)
8. [What is not modelled](#8-what-is-not-modelled)
9. [Plan](#9-plan)

To check a model or a proof:

    tlc -workers 2 -config MCTurnMachine.cfg MCTurnMachine
    tlapm TurnMachineProofs.tla

## 1. The system

A user talks to an agent through a browser. Two generations of the backend live in
the repository. The **voice server** (`server/`) is the one the WebSocket endpoint
runs: voice activity detection, speech to text, a reply from a language model, text
to speech, one turn at a time. The **speech-native stack** (`edge/`, `speech/`,
`auxiliary/`, `memory/`, `safety/`, `infra/`) replaces it by an edge tier that decides
about turns and a speech-to-speech runtime behind it. `roadmap/` and `training/` hold
the reference decisions and the gates by which the second is to replace the first.

| component | state | operations | talks to |
|---|---|---|---|
| server turn machine (`server/pipeline/turn_state.py`) | state, previous state, turn id, entry time, one asyncio timeout task | eleven handlers, `reset`, `try_transition` with a repair, the timeout tasks | called by the voice agent; asyncio |
| voice agent and endpoint (`server/agent.py`, `server/main.py`, `features.py`) | dictionaries of machines, sessions and callbacks by session id; one VAD; one barge-in detector; a speaker cache filled by threads | `handle_audio_frame`, `_process_speech_segment`, `handle_session_end`, callbacks; one coroutine per connection | every part of `server/pipeline`, the WebSocket client |
| voice activity detection (`vad.py`) | speaking flag, speech buffer, silence counter, pre-roll ring | `process_frame`, `reset` | called for every frame |
| server barge-in (`barge_in.py`) | agent-speaking flag, frame counter, time of last event | `set_agent_speaking`, `check_barge_in`, `reset` | called while SPEAKING |
| sessions (`session.py`) | sessions by id, gauge, per session history and metadata | create, get, expire, remove, add a turn | the agent |
| STT, LLM, TTS, filler, emotion, speaker | model handles, a stream in progress | one call each, some of them streams | awaited by the agent |
| edge transport gateway (`edge/webrtc_gateway/gateway.py`) | session per id, jitter buffer (cursor, pending), remembered sinks | `open_session`, `ingest`, `disconnect`, `reconnect`, `close_session`, `sweep_expired` | network below, turn detection above |
| edge turn machine (`edge/session`), endpointing, barge-in | polled state, hysteresis counters | transitions, `check_timeout`, one call per frame | the session loop |
| edge planner (`edge/planner`) | the speculation that is active, the filler that plays | classify, start, reconcile, cancel, hand over | turn detection, runtime |
| admission scheduler (`infra/scaling/`) | sessions per worker, sticky routing table, queue and its membership set | `admit`, `release`, promotion | request handlers |
| speech-native runtime (`speech/moshi_runtime`, `speech/decoder`) | turn records, stream controls, decoder and its interruption flag | streams, cancel, restart, barge-in repair, decode | edge, player |
| codec and token stream (`speech/codec`) | carry of samples, bounded queue with a cancel event | encode, put, get, close, cancel | runtime |
| persona (`speech/persona`) | relationship memory per user | observe a turn, adapt, shape, reset | runtime |
| client (`client/src`) | transport with reconnect timers, capture session, playback queue, filler loads | connect, close, retry, start, stop, play, fade, hand off | the endpoint |
| auxiliary brain and transcripts (`auxiliary/`) | job queues and workers, primary/fallback mode | submit, stop, start, health reports | runtime |
| memory (`memory/`) | three tiers, each with a backend and a copy in the process; threads of the tool router | read, write, clear, degrade, summarize, invoke a tool | redis, postgres, qdrant |
| safety (`safety/`) | consents and retained references; gate; mark | decide, judge, embed and check | every output |
| deployment (`infra/deploy`, `infra/regions`) | none between calls | verdict on a canary, choice of a region | operators, request handlers |
| roadmap and training gates (`roadmap/`, `training/`) | consent log, licensing register, review queue | decide, record, flag, resolve, submit, review, run | people and scripts |

**What is hard here.** (1) One process, one event loop, many coroutines: a pipeline
that is suspended in an await holds objects that another connection replaces, and the
agent's VAD and barge-in detector are shared by all of them; in the runtime, a stream
may be cancelled, restarted or overlapped at each of its awaits. (2) Timers: the timeout
tasks of the turn machine run between any two awaits, the edge's timeouts are polled
late, the client's reconnect timers outlive what they were set for. (3) A coroutine
reads no frame while its own pipeline runs. (4) Threads with a time limit outlive what
asked for them: feature extraction, tool handlers. (5) Frames come late, twice or never,
around drops, closes and sweeps. (6) Several records of one fact have to agree under any
order of calls: the scheduler's four, the memory's six, the licensing register and its
gates. (7) Backends fail before or after they took effect, and processes restart.
`PROJECT.json` lists the hazards one by one, each with the properties that would catch
it going wrong.

**What makes each modelled part correct.**

- *turn machines*: one timer watches a timed state and never acts on another stay; a turn
  that everyone forgot comes back to rest; a turn id is one turn;
- *voice agent*: every path closes its turn, answers follow the turn they answer,
  output goes to the session it belongs to, and a connection that is gone leaves
  nothing behind and is always cleaned up;
- *detectors*: the VAD and the endpointing find exactly the utterances of the stream, the
  barge-in counters mean one definite thing, whatever the agent does in between;
- *gateway*: an ordered channel without duplicates or silent loss;
- *scheduler*: envelopes, no idle slot while somebody waits, first come first served,
  and nobody waits for ever;
- *runtime*: no chunk after a cancel, a barge-in cuts off the decoder, no packet or sample
  lost on the way, and nobody is left parked on a queue;
- *client*: one live socket, no frame lost in silence but by the bound of the buffer, chunks
  played in order, and whatever sounds can be interrupted;
- *planner*: a speculation is resolved once, and only what is surely understood is
  answered early; filler and answer hand over once;
- *services*: a job or tool call that was accepted is answered; memory returns what was
  written and nothing that was forgotten; safety fails closed; a verdict never improves
  by worse evidence;
- *gates*: what is blocked stays blocked while a reason stands, and what is trained on,
  spoken in or rolled out has its consent.

## 2. What is modelled, module by module

    TurnTable -------------+--> TurnMachine --> MCTurnMachine, TurnMachineProofs
    SpeechDetectors -------+--> VoiceAgent --> MCVoiceAgent, VoiceAgentProofs
               \----------> DetectorStreams ---------------------------+
    EdgeDetectors -----------------------------------------------------+
    Fillers, ModelStreams, AudioFeatures, SessionMemory,               |
    RoadmapReferences, ModelPlanning, TrainingData ----> Helpers ------+--> MCComponents
    DetectorStreams, EdgeDetectors, Helpers --> ComponentProofs
    OrderedDelivery <= TransportGateway --+
    EdgeTurnMachine, EdgePlanner ---------+--> MCEdge
    TransportGateway, EdgePlanner --> EdgeProofs
    SessionScheduler --> MCSessionScheduler, SessionSchedulerProofs
    SpeechRuntime --> SpeechDecoder ----------------------------------+
    SpeechCodec, ClientConnection, StreamPlayer ----------------------+--> MCMedia
    SpeechCodec, ClientConnection, StreamPlayer --> MediaProofs
    SpeechDecoder --> SpeechDecoderProofs
    SupportJobs, SpeechSupport, MemoryStore, MemoryTools,
    SafetyGates, Deployment ----------------> Services --> MCSupport
    Services --> SupportProofs

(`-->` is EXTENDS, `<=` is "implements". SpeechSupport also takes operators from an
instance of SupportJobs.)

Components that share no state are checked **side by side** in one run: the variable
`part` (or `side`) of the composing module is chosen in the first state and says which of
them moves; the others stay at their start. That is one run of TLC for several
independent state spaces, not a claim that they interact.

### The voice server

The modules on the left hold components as **values and operators**, so that
both a model of the component alone and the model of the whole server use one
translation of the code.

**TurnTable** – a turn machine as a record (`state`, `prev`, `turn`): the transition
table, `try_transition` with its repair, each handler, `reset`, and what a timeout
does. **TurnMachine** adds what makes the class concurrent: the asyncio tasks. A task
is a record of the state it watches and the time since the entry it was started for;
every accepted transition cancels the task `_timeout_task` points to and starts
another. Time is relative. `age` is the time since `_state_entered_at`, so the code's
comparison of two `entered_at` stamps is a comparison of `age` with a task's `elapsed`.
A due task is run before time goes on (`Tick` waits for it): a stay is bounded up to
the latency of the event loop.

**SpeechDetectors** is `process_frame` of the VAD on a detector record, where the network's
verdict on a frame is its input, and `set_agent_speaking`, `check_barge_in` and `reset` of
the barge-in detector with the time since the last event. **DetectorStreams** feeds the
first every stream of speech and silence and drives the second with frames, pauses and
resets.

**VoiceAgent** is the server. Each connection's coroutine stands at one point: in
`receive()`, or in one of the awaits of `_process_speech_segment`. An action is the
code from one await to the next:

| action | code |
|---|---|
| `Connect`, `Send`, `HangUp` | the WebSocket client (the environment) |
| `ReadFrame` | one iteration of the endpoint's loop and `handle_audio_frame` up to the first await |
| `SttReturns`, `SttFails` | transcription; text, nothing or an exception |
| `Route...` | the filler router: a filler with audio, one without, a stalling phrase, the pipeline |
| `FillerPlayed`, `FillerTextSent`, `StallPlayed` | sends of the filler branches |
| `LlmReturns`, `LlmFails`, `AssistantTextSent`, `TtsReturns`, `TtsFails`, `Played` | the answer |
| `CheckFeatures`, `FeaturesArrive`, `FeaturesFail`, `FeatureTimeout`, `MetadataSent` | `wait_for` on the extraction and what follows |
| `Disconnect` | the endpoint's `finally` and `handle_session_end` |
| `ExtractionEnds` | a feature thread finishes, perhaps after its session |
| `TurnTimeout` | a machine's timer, at any await |

A send with no callback registered does not suspend, so the coroutine goes on before
any other may run (`GoesOn`, `RunsAt`). Machines and session objects are referred to by
number, so a pipeline keeps the objects it resolved when the dictionaries drop them.
Which timers are live is not kept here: TurnMachine shows that a machine has one timer
exactly in its timed states, and VoiceAgent lets it end at any time. A WebSocket message carries
one VAD frame. The router's choice and the outcome of each model call are free.

What the agent awaits has models of its own, next to what the rest of the system has of
the same kind. **ModelStreams**: the synthesis with its blocks that decode or are dropped, the
reply's stream of lines and the recogniser's segments, each breaking off anywhere.
**Fillers**: the server's phrase bank and router, and the client's filler from routing and
load to barge-in and handoff. **AudioFeatures**: emotion and speaker, at the server and at
the edge, with a model, without one, and with one that fails. **SessionMemory**: the
server's sessions as objects that a caller may still hold when the manager has dropped
them, the persona's memory of a user, and how retrieved memories become the context of a
prompt.

### The edge

**TransportGateway** is one session id: its `GatewaySession` with the jitter buffer and
the remembered sink. Any frame may arrive at any time, which covers delay, reordering,
duplication and loss. **OrderedDelivery** is what a reorder buffer promises, in terms of
the frames held and handed on only; TransportGateway is checked to implement it.
**EdgeTurnMachine** is the table, handlers and polling of the edge's turn machine; a poll may come any
time after the limit. **EdgePlanner** classifies a partial transcript, starts, confirms and
cancels an early onset, and hands a filler over to the answer. **EdgeDetectors** are
endpointing and the edge's barge-in detector over every stream of frames.

**SessionScheduler** is `admit`, `release` and promotion. Each call runs under the one
lock, so each is one step.

### Speech-native media and the client

**SpeechRuntime** has the `stream_reply()` generators of one session, from one await or
`yield` to the next (`Chunk`, `EnterReply`, `Emit`, `Pull`, `Drop`, `Abandon`), the turn records, and
`cancel`, `release` and `restart` at any moment. **SpeechDecoder** is the consumer of these
generators: `stream_decode()` with the waveform joiner by its numbers of samples, on one interruption
controller that a barge-in sets and the start of each stream clears. **SpeechCodec** holds the
re-blocking of samples and the token stream: a bounded queue with a producer, a consumer and
a cancel. Each put and get is a race of the queue's own task and the cancel event, so task
and caller are steps of their own. **ClientConnection** is the transport with its sockets and
reconnect timers and the session's `start()`, `stop()` and teardown on top of it; **StreamPlayer** is
the playback queue with its nodes, callbacks, fades and the session's own playing flag.

### Services

**SupportJobs** is the text brain's pool with `submit`, `stop` and `start`, which may overlap;
**SpeechSupport** has the same for recordings: it takes the steps that the code shares in form
from an instance of SupportJobs and has its own where a job fails or the service stops, and the controller of primary and fallback mode. **MemoryStore** has the
three tiers, each a backend that works, fails, or takes effect and then fails, with the copy in the process
and restarts in between, and the store that merges what they find. **MemoryTools** has tool calls,
retries and handler threads that hang.
**SafetyGates** is the policy of cloned voices, the moderation gate and the watermark; **Deployment**
the verdict on a canary and the choice of a region.

### Decisions of the roadmap and of training

**RoadmapReferences**: full-duplex decisions, the guard of voices and crises, and the licensing
register with the gates that read it. **ModelPlanning**: compute budget, exclusion and choice of
models. **TrainingData**: intake, review, export and the two training scripts up to the gate.

## 3. The runs

| run | question | answer |
|---|---|---|
| `turn_machine` | do handlers and timeout tasks, interleaved in every way over three turns, keep one timer on the machine, bound every stay, and let it recover? | yes, also from BARGE_IN, by way of LISTENING |
| `components` | are segments exactly the utterances, and counters what they are meant to be? Are a turn's helpers and the tools beside the system right whatever fails and in whatever order they are called? | yes, against definitions that mention no detector and no register |
| `agent_one_client` | with a failure at every await, a timeout at any, features that never come: is every turn closed, every answer recorded after its turn, every connection cleaned up? | yes |
| `agent_shared` | two sessions at once, or one session that returns while its old connection still works: is every turn closed, and do the sessions keep apart? | yes |
| `edge` | does the gateway implement an ordered channel, does the polled turn machine settle, are speculation and handover resolved once? | yes |
| `scheduler` | do records, envelopes, queue order and progress survive every order of calls? | yes |
| `media` | does a cancel silence a reply at any await, does a barge-in cut the decoder off, does the token stream lose or strand nobody, do transport and player stay in order? | yes |
| `support` | are accepted jobs and calls answered, does memory keep its word around failing backends, does safety fail closed? | yes |
| `agent_shared_vad` | is a segment made of one session's frames? | no (section 7) |
| `agent_barge_in` | is a frame sent over a response checked for barge-in? | no |
| `agent_features` | does a connection end only because its client left? | no |
| `client_stop` | does `stop()` release the microphone? | no |

The properties of a run name what they are conjunctions of; each conjunct has its own
comment in the module of its component:

| property | parts |
|---|---|
| `ConversationIsKept`, `TurnsAreClosed`, `SessionsKeepApart` (VoiceAgent) | prompt and history against the turn they belong to; machine and detector flag between frames; routing of output and what a connection leaves behind |
| `PlannerIsSound` | resolved once, played on good grounds, heard once |
| `AudioIsComplete`, `ConnectionIsSound`, `PlaybackIsSound` (MCMedia) | packets and samples accounted for, blocks independent of framing; sockets, buffer and session; order of chunks and interruptibility |
| `HelpersAreSound`, `ToolingIsExact` (Helpers) | one conjunct per part |
| `MemoryKeepsItsWord` (MemoryStore), `SafetyFailsClosed` (SafetyGates), `ServicesAreSound`, `ServicesAnswer` (Services) | whatever is asked, whichever backend fails; no use without consent, no text unjudged, no audio unmarked; one conjunct per part |

Each property of a passing run has a *mutant* in `PROJECT.json`: an operator such as
`ForgetTask` or `ReconnectAfter`, marked "a plausible slip", "a mutation" or "a faulty ...",
that stands in for the one it names. The property fails with it, so it does depend on that
piece of code.

Deadlock is checked in `turn_machine` and `scheduler`. In the others the system rightly stops: when all
connections have ended and all threads are done, and at the end of a bounded stream of frames,
packets, jobs or calls.

## 4. Bounds

- `MCTurnMachine`: the eight timeouts are scaled to 1–6 ticks and keep their order and
  their ties, so every order in which two timers could end occurs; three turns let an
  earlier turn's timer meet a later one. `AgeCap` stops `age` above the longest timeout,
  where no comparison can tell its values apart.
- `MCComponents`, detectors: every stream of up to 12 frames with closing silence 2, pre-roll 2 and
  minimum 5: room for utterances that are kept, dropped, adjacent, and closer than a
  pre-roll. (With the default settings the minimum is less than the closing silence and
  nothing is ever dropped; the configuration makes both outcomes happen.) Barge-in threshold 3,
  cooldown 2, seven frames heard in one stretch: two events and a partial third. At the edge onset 2,
  offset 2 and hangover 3 over 11 frames, and threshold 2 with cooldown 3 over ten time steps.
- `MCComponents`, helpers: five phrases of which some lack a language or a tone; five
  chunks with a flush after two, so a block of leftovers remains; three lines of a reply; one user with two
  session objects and a history of one; two plays of a filler against barge-in, handoff and a stale load;
  two users of the persona with a history of two and three turns. Values are exact fractions
  scaled to integers.
- `MCComponents`, tools: times 0–3 around deadlines of 1 and 2; two speakers and two requests with
  any log between; two components, two criteria with values that hold, fail, are NaN or missing; the
  GPU ladder of the code with claims at, below and between its rungs; lists of at most two candidates
  over all scores 0–2, and equal ids; eight raw records, which differ in origin, consent, proof and
  right to train; two records taken in, four review actions and datasets of up to three.
- `VoiceAgentOneClient`: five frames are two utterances and a rest; history 2 makes the
  second utterance trim. One frame of speech and one of silence make an utterance, since
  lengths are the matter of DetectorStreams. `MayExpire` lets the session expire between frames.
- `VoiceAgentShared`: two connections (`MaxConns`) out of three, two of which have the
  same session id, and two frames on each. Two utterances at the same time are the
  interesting case, and frames of one may close the utterance of the other. The two
  connections of one session are symmetric; the run has no liveness property.
- `MCEdge`: the gateway with numbers 0–5 and a buffer of two reaches overflow, overflow onto a
  second gap, final frames behind gaps and re-opening; the TTL is one tick. The edge's time limits are
  scaled to small numbers in their order. Two speculations: one may follow, replace or
  outlive the other. Texts of up to three words, with a dash, let a filler be a prefix of the answer, equal to it, or
  overlap it in part.
- `MCSessionScheduler`: six sessions, two workers of one and two slots, a queue of two:
  full pool, full queue and rejection are all reached, with promotion on either worker.
- `MCMedia`: two streams with one chunk of input and two of reply: overlapping turns, a
  restart, a cancel at every await. Four packets through a queue of two: the producer parks on a full queue and the
  consumer on an empty one. Blocks of four samples from frames of 0, 1, 3 and 6 up to 12 samples: carries, whole
  blocks and several blocks at once. Five sockets, a buffer of two frames and three attempts:
  overflow and the end of reconnecting. Three numbers and a window of one: a gap is skipped.
  `StopEarly = FALSE` and `Retry = FALSE` leave out the two calls that section 7 shows to break the
  client's session, a `stop()` while the microphone is asked for and a second `start()` after a failure.
- `MCSupport`: two jobs, two workers and two starts (a stop that overlaps a start); failover after three
  failures and back after two probes; two sessions with two records and rings of two, one time step of
  life, so one record expires; two calls on one handler thread with two attempts; one voice, two
  actions and two consents; three regions of which two tie; two recordings and one worker.

## 5. Fairness

- *TurnMachine*: `WF(Tick)` and `WF(TimerFires)`: time passes, and the event loop runs a
  task whose sleep has ended. Nothing is assumed of callers: `AbandonedTurnSettles` is
  about a machine nobody calls any more.
- *VoiceAgent*: weak fairness of each connection's coroutine. Every await of it ends:
  the model calls return or raise (the LLM client has a 60 s timeout), a send completes
  or raises, `wait_for` limits the features to five seconds. Clients, feature threads and turn timers
  get no fairness. `GoneIsCleanedUp` therefore holds with threads that never finish.
- *SessionScheduler*: weak fairness of releasing a live session: calls end, and the request handlers
  then call `release`. Without it a queued session may wait for ever, as it should.
- *EdgeTurnMachine*: weak fairness of polling and of time: the session loop polls for as long as
  it lives. Handlers get none: `EdgeTurnsSettle` is about a turn whose user has gone.
- *SpeechCodec* (`TokFairness`): the event loop runs every task that can go on, and consumer and
  producer go on with what they began. Nobody needs to cancel or to close.
- *SupportJobs, SpeechSupport*: workers take jobs and finish the ones they have (a model call
  returns or raises). Nobody needs to call `stop` or `start`.
- *MemoryTools*: each tool call's result or its time-out comes; handlers get none and may hang for ever.
- *All others*: none; their properties are safety.

## 6. What is proved

The theorems hold for every value of the constants that satisfies the named
assumptions. Each follows the same argument: `Init => IInv`,
`IInv /\ [Next]_vars => IInv'`, `IInv =>` the property, with one lemma per action.

**TurnMachineProofs** (`TimeoutAssumption`: every timeout is a positive number below
`AgeCap`). `IInv` is `TypeOK /\ OneTimer /\ BoundedStay`. `BoundedStay` is not inductive
alone: only because the state's one task was started at its present entry (`OneTimer`)
does the task come due exactly when the allowance is used up. `TimerDiscipline`,
`StayIsBounded`, the action property `RecoveryAfterFullStay` and `TurnIdDiscipline`
follow; the last rests on a lemma about what any handler may return.

**EdgeProofs**, the gateway (`GatewayAssumption`: a buffer of at least one frame).
`IInv` is the conjunction of the run's invariants but the one about sinks, which adds
facts of its own. They need one another: frames come out in order because what is held lies beyond the cursor
(`HeldBehindGap`), overflow skips only to the lowest held frame and so empties at least
one slot, and a stream can restart only because a session that is let go holds nothing
(`ReleasedHoldsNothing`). The lemmas are about sequences of frames (`Follows`,
`SortedType`, `RunType`) and about counting what is drained (`Drained`).
`GatewayImplementsChannel` proves the refinement of OrderedDelivery step by step:
ingest is an accept, an accept with a skip, or a refusal of the channel, close and sweep
are its release, and the rest leaves it as it is. `SinkIsKept` is the property about sinks.

**VoiceAgentProofs** (`VoiceAgentAssumption`: connections have sessions, a history holds
at least one turn). Any number of connections, sessions, frames and history entries.
`EveryTurnIsClosed` is far from inductive: "between frames no session is left busy" says
nothing of a machine while its pipeline awaits. `IInv` says who owes what:

- an object machine that has left rest is ended, or some pipeline stands before the await
  after which it closes it (`OpenTurnsHaveOwners`), and the objects a pipeline refers to
  exist (`RefsExist`);
- a registered machine has not ended, is registered for one session, and a pipeline that works
  on it is of that session (`MachinesKeptApart`), also when a client comes back while its old
  coroutine still runs;
- a session's callbacks, and the connection a pipeline took from them, are of that
  session (`CallbacksKeptApart`, `RoutedToOwnSession`), and when its last connection has
  ended none is registered (`NothingLeftBehind`);
- while the detector believes the agent to speak, some pipeline plays (`NoPhantomSpeaker`).

`SessionsApart` follows from the same invariant. `ConversationsAreKept` has the further
hypothesis `OneConnectionEach`, that no two connections have the same session: without it
TLC finds a client that comes back while its last pipeline still runs, so that two pipelines
append to one history. The run that checks it (`VoiceAgentOneClient.cfg`) has one connection;
the theorem allows any number of sessions with one each.

**SpeechDecoderProofs** (`RuntimeAssumption`: finitely many streams, a history of at least
one record; `DecoderAssumption`: a crossfade of at least one sample). Any number of
overlapping streams of one session, any number of chunks, over `ReplySpec`, the
specification of the runtime and the decoder without the other parts of the run `media`.
`IInv` has three parts besides the types:

- *`Runs`*: turn ids are distinct (`Numbered`; the counter counts the streams that have begun),
  the place a generator stands at tells how much its consumer has heard (`InStep`), and the
  control of a turn counts the same (`Counts`);
- *`CutsHold`*: how far a decode stream that was cut may still get, per place it stands at;
- *`Records`*: the newest record is that of the stream nobody overlapped, and it fits what that
  stream has taken in and given out. `TurnsAreRecorded` alone is not inductive, since a
  record is written at the end of the history, whoever's it is.

`BargeInIsHeard` and `RecordsAreTrue` follow, and the action property `CancelledIsSilent`
from a case distinction over the awaits a cancellation may fall into.

**SessionSchedulerProofs** (`SchedulerAssumption`). `IInv` adds to the invariants that
each worker's sessions are a finite set. `NoIdleSlotWhileWaiting` is what makes
`FirstComeFirstServed` true: `admit` does not look at the queue, but a free slot
implies an empty queue, because `release` refills its slot under the same lock and
only a release frees one.

**MediaProofs**, the codec (`TokenAssumption`: a queue of at least one place;
`BlockAssumption`: a frame of at least one sample, frames of any lengths). Two facts:

- *The token stream.* `TokIInv` adds to the counts of `StreamIsSound` that a put or get's
  task is under way only while its caller waits (`CallersWait`), and what the queue looks
  like: without a cancel it holds exactly the numbers sent and not yet received, in order,
  with the sentinel last (`LiveQueue`); after one the sentinel is its head, or was taken
  (`CancelledQueue`). The counts alone are not inductive: a packet may be in or out of the
  queue before its caller counts it, so what `cancel` drains must be known by place.
  Packets are counted as a set of places (`Buffered`), so that the finite-set theorems
  give what a put, a get and a drain change.
- *The blocks.* `BlkIInv`: while frames come, the blocks are the full ones of the samples
  so far and the carry is their rest; after the end they are `ChunksOf` the samples. It
  rests on the uniqueness of quotient and remainder (`DivisionUnique`), proved from
  `Scaled`.

`AllAudioArrives` states both of the run's `AudioIsComplete`. Its specification is the
conjunction of the two components', which share no variable.

**ComponentProofs**, the detectors (`VadConfigAssumption`, `BargeInAssumption`, `EndpointingAssumption`,
`EdgeBargeInAssumption`: the counts that start, end or interrupt and the server's pre-roll are positive;
minimum speech, hangover and cooldowns may be nothing) is about streams of any length.

- *Voice activity.* The reference (`Ends`, `Utterance`) reads the stream and knows no detector.
  `VadInv` ties the two: with z the end of the last utterance, the detector either rests, nothing
  since z was voiced and its pre-roll is the last `PreRollFrames` frames after z; or it talks,
  its buffer is the block of frames from the pre-roll of the first voiced frame on, and its count of
  silence is the distance to the last voiced one. A frame then ends an utterance for the reference
  exactly when it does for the detector (`EndsWhenSilent`); the utterance is the buffer
  (`UtteranceIs`), and earlier utterances do not change (`UtteranceStays`). That the segments are as
  many as the utterances needs that each lies before z (`Handed`).
- *Barge-in.* The detector keeps one number; the property is about all stretches of frames.
  `CountIsBest` shows that `CountFrame` is the recurrence of the best balance: a frame moves
  every balance by one, and the empty stretch keeps it from falling below nothing. `DetInv` adds that
  the model's `gap` is the detector's own clock and that a silent agent's count is 0.
- *Endpointing at the edge.* The reference (`RunOf`, `Speaking`) looks at stretches of the frames
  heard; the detector has two run counters, a sum of speech and three flags. `EpInv` says that the
  counters are exactly the runs the frames end in (`Trailing`), that an utterance which may still end
  has begun after the last confirmation (`OpenSince`), and, what makes a turn's end unavoidable, that
  enough speech followed by silence shorter than the wait has been noted and is not yet
  confirmed (`StaysDue`). The last is needed because the code checks an offset, a candidate and a
  confirmation in one frame, at three different counts.
- *Barge-in at the edge.* `EdgeBargeInv`: the onset is one of this playback and as many frames back
  as are counted at least, so that a detection's delay is never shorter than what is needed to detect it.

**ComponentProofs**, the turn's helpers (`PhraseAssumption`, `FillerAssumption`, `EmotionAssumption`,
`SessionAssumption`: texts have a number of words, phrases a priority and a confidence, scores add up to one,
a history has a place). `HelpersStaySound` has one inductive invariant per part:

- *Phrases and fillers.* `BestOf` gives a finite set with values its first best member, so every choice of a
  phrase exists and matches; `FillerInv` adds to the property that the generations of loads are distinct and none is
  ahead of the engine's, which is why a load that comes back late can tell that it is stale.
- *Speech and replies.* `Whole`: the chunks that came are those heard, given up and still held, all held ones are newer than
  those heard or given up, and each list rises; a flush moves the block that is held to one of the other two.
  `LlmInv` ties the text so far to the lines it came from.
- *Features.* `Founded` says what a feeling was made of; that the dimensions of a sure label are that label's own comes out of
  the weighted sum with one weight, written out over the seven labels. Likeness is bilinear, so
  a zero vector is like nothing (`Likeness`).
- *Sessions.* The manager's table maps ids to objects one to one onto the active ones; the gauge is the cardinality of its ids
  (`HeldAreTaken`, a bijection); a history is the newest turns, numbered without a gap (`HistoryGrows` on a
  window that slides). An expired object that a caller still holds may be talked to and changes none of that.

**ComponentProofs**, the tools beside the system. `ToolsStayExact` has one inductive invariant per tool, from
`PersonaAssumption` (the scale is integers, a history has a place, the weight of the new is a share, no user is called
"none"), `SummaryAssumption` (lengths and budgets are numbers, sentences end at words), `GuardAssumption` (a missing speaker is nobody),
`BudgetAssumption` (memory is counted in whole GB, and a CPU is among the hardware), `ChoiceAssumption` (scores and their weighted sums are integers,
no candidate is called as the outcome "retain" is) and `TrainingAssumption` (what a submission declares):

- *Persona.* `Remembers` relates a profile to the turns since the reset, `AfterTurn` one more turn to it. The
  trajectory is the arousals of the newest turns that were felt (`KeepsNewest`), which needs how many turns felt follow each (`FeltGrows`, by bijections).
  The preferred tone stays between the signals (`ToneBetween`) since a weighted mean, rounded down, lies between what it is made
  of (`MeanIsBetween`). That a calm user is not calmed needs that sums of what is not positive are not positive: `Sums` is a recursive function, and the proof finds
  its values, and that it exists, by a least counterexample in place of an induction (`SumExists`, `SumsAre`).
- *Context.* A list of records is ordered by sets of pairs, each a strict order of the places
  (`OrdersAre`; a tie falls to the next order, the last to the place). The first n of a finite set in such an order are n, or all of them (`ForemostCounts`, again
  by a least counterexample), and ahead of the others (`ForemostAreAhead`). The digest tells
  a set that has, with a record, all newer candidates; so it is everything up to its last record, whose total was tested (`DigestTellsTheNewest`).
  These lemmas hold for any list of records and any time; the specification hands over three records at most.
- *References and gates.* `LogIs`: the consent log is, for each speaker, whether an agreement comes after the last retirement among all requests so far.
  `LicenseInv`: a component without a license has a warning; what a gate names is computed from the register as it is, because each change of
  the register makes the last result void in the model.
- *Budget, choice and training.* The last of the best steps of the ladder exists and fits (`LastOfBest`, `LadderFits`); a candidate's aggregate is its own if ids are unique (`AggregateIs`), runs that are all near the first are near each other
  (`NearToOneIsNear`). `ReviewIsFair` ties the state of a review to its history: a verdict follows a claim and is last. `DatasetIsCounted`: no line of a dataset is lost
  between eligible and refused, because an eligible record comes from one line only.

**MediaProofs**, the client (`ConnectionAssumption`, `PlayerAssumption`: numbers are numbers). Two facts
about the browser's side:

- *The connection.* The run's two properties need each other and two more facts. A buffer is
  flushed onto `this.transport` whichever socket opens, so order rests on `OneLiveSocket`;
  a frame is sent past the buffer when the transport is connected, so order rests on
  `FlushedWhenOpen`; and `start()` does not close the socket it replaces, so there is only one
  because a session it may be called from holds none (`StartsAfresh`). The hypothesis `~Retry`
  (`start()` is not called again after it has failed) is necessary for that: after a failed start
  the transport keeps reconnecting, and a second start leaves the old socket listening (section 7).
  The run has the same value.
- *The player.* `PlayInv` adds to the run's property where the nodes of the present turn lie on the
  audio clock (`Placed`) and that every number scheduled is behind the expected one
  (`Passed`). That a full window gives way by at least one place rests on `RunEndIsGap`: the run
  that is released ends at a number that is missing, which a counting argument finds.

**SupportProofs**, the memory (`HotAssumption`: a ring has a place; `ScoreAssumption`: scores are numbers,
and two hits of one query never tie) is about three tiers with a backend each:

- *The merge.* Every tier cuts its list to k, then the merge keeps each record's best hit and cuts again.
  `MergeIsExact` says that the first cuts lose nothing. A record cut off in its tier has k better hits there
  (`CutOff`), these are different records, and a list that names each record once has no more hits above a score
  than the best hits of all lists have (`BestDominate`, an injection from the one to the other); so the record
  would have been cut off at the end anyway. `TopSize` counts what a cut leaves by ranks, without induction.
  Ties are excluded because the model leaves out which of equals the code's sort puts first.
- *The tiers.* `MemoryInv` says that each tier and each copy in the process holds only records that were written and
  not forgotten, of the kinds routed there. `ProfileIsLatest` is what survives degradation: the copy in
  the process never holds a value that a later write replaced, and neither do the rows while Postgres works; once it
  failed they may, but the process reads them no more. `HotIsSound`, `ProfileIsSound` and `SemanticIsSound` include that
  a working tier has no copies, without which a first failure would bring old ones up.
- *The ring.* `LiveFirst`: records expire in the order they were pushed, so the ones that live are a prefix of the ring,
  which is how `LiveRing` has the code's filter.

**SupportProofs**, the gates of safety (`VoiceAssumption`: no reference is not a voice; `CategoryAssumption`: the categories
differ, and the words of crisis are not one of them) is about what stands before a voice, a text or an
audio:

- *Voices.* `VerdictIsTrue` holds of the verdict because of what is stored, so `PolicyInv` needs
  `RetainedByConsent`: a revocation drops the reference whatever other consents it has, and a new
  consent takes it up again. `DiagnosisIsTrue`: the reason given for a refusal is true of some
  consent, and "no consent" of all, because a consent without a flaw is an active one.
- *Texts.* `TopIsHighest`: the first of the highest flagged scores exists and bounds all others.
- *Audio.* `MarkInv`: a result that is compliant is one of the audio as it is now.

**SupportProofs**, the services (`PoolAssumption`, `ServiceAssumption`, `FailoverAssumption`, `ToolAssumption`,
`ReleaseAssumption`, `RegionAssumption`: a pool has a worker, a job can be tried, thresholds and latencies are numbers).
`ServicesKeepTheirWord`, for any jobs, recordings, workers, tools, probes and regions:

- *Pools.* `PoolInv` places every job: unborn, in the queue once, with one worker, or done. Without the places, the property that
  a job is done once is not inductive. Stop puts one end marker per worker into the queue and start may run before
  they are taken, so markers and workers that are to end are counted together (`Owed`). The second pool takes the lemmas
  of the first by way of its instance, and adds why a transcript is degraded.
- *Failover.* `goodRun`, the run of good probes at the end of what was probed, is below `RecoveryProbes` exactly in fallback, where the
  controller's own counter is that run and the reason of the fallback is kept.
- *Tools.* A handler thread that hangs keeps its attempt's number, so that an answer of an earlier attempt is told from the present one's.
- *Release and regions.* A verdict depends on whether a limit is broken and on the number of samples, in that order; a promoted release broke none.
  The route stays the answer to the last question on the present health and pools, as each change of these forgets it; the region of a route is the
  first of the best usable ones (`BestOf`'s argument again).

*Only model-checked:* everything about liveness (`AbandonedTurnSettles`,
`GoneIsCleanedUp`, `QueuedIsServed`, `EdgeTurnsSettle`, `StreamNeverHangs`,
`ServicesAnswer`), since the prover has no rule for fairness or
ENABLED; and the turn machine in `edge`. The modules with theorems declare nothing recursive of their own.

## 7. Where code and text disagree

Each of these is a run whose property TLC refutes with a short trace.

- `agent_shared_vad`: the agent has one `SileroVAD`. Two clients that talk at the same
  time fill one buffer, and the pipeline of whoever's frame closes it answers a segment
  made of both (`agent.py:237`, against `agent.py:92-94`).
- `agent_barge_in`: the endpoint awaits the pipeline before it reads the next frame, so
  frames sent over a response are read when the machine has left SPEAKING and nothing
  checks them (`main.py:231`, against `barge_in.py:77`).
- `agent_features`: after five seconds `wait_for` cancels the extraction; the cancelled
  future is `done()`, its `result()` raises `CancelledError`, which `except Exception`
  lets through, and the connection ends (`agent.py:549`, against `agent.py:342`).
- `client_stop`: `stop()` during the capture's start finds nothing to stop and ends; the awaited
  `capture.start()` then turns the microphone on, in a session that is stopped (`session.ts:255`,
  against `session.ts:250`).

Smaller ones that no run states, of the voice server:

- `agent.py:596`: the cleanup of an old connection is keyed by session id and removes
  the callbacks of the connection that replaced it (against `agent.py:152-153`).
- `features.py:143`: a feature thread that ends after its session writes into the cleared
  speaker cache, for good (against `features.py:172`).
- `agent.py:389`: the branch for a filler without audio cannot be reached; a filler-only
  decision always has audio.
- `barge_in.py:101-104` speaks of consecutive speech frames, while a silent frame only
  lowers the count by one. `CountIsBestBalance` says what the count means instead.
- `vad.py:40` calls a setting the minimum of speech to keep; the length compared at
  `vad.py:177` includes pre-roll and closing silence. `UtterancesAreKept` uses the
  code's length.
- `turn_state.py:40` says that SPEAKING is when audio is played; if a timer has sent the
  machine to IDLE during a slow pipeline, the response is played all the same.
- `tts.py:320` announces to keep buffering after a block that does not decode; the buffer is reset
  in the next line and its audio is lost. `SpeechIsInOrder` allows this loss and no other.
- A language model's stream that ends without `done` is taken as a whole reply; `get_phrase` falls back to
  other languages when the phrases of the right tone have no audio.

Of the edge and the client:

- `gateway.py:245` says that `ingest` returns the frames released; those that a final
  frame flushes are delivered and not returned.
- `gateway.py:369-370` says that a client that reconnects is never left without a sink;
  `sweep_expired` forgets the remembered sink, so after a sweep `reconnect` without one
  makes a session that delivers to nobody. `DeliversToKeptSink` is about the sink that is
  remembered.
- `gateway.py:388`: a late frame of a closed session opens a new stream, by design.
- `speech_ms` of the endpointing is described as the length of the speech; it also counts the blips before it.
- A word of punctuation only is not removed as a duplicate at the seam of filler and answer.
- `session.ts:244`: with a second `start()` after a failed one (`Retry`) two sockets can be alive, which is why the
  passing run has `Retry = FALSE`.
- `filler_engine.ts`: a stale load that fails forgets the phrase of a newer filler; after the fade a handoff may clear a
  newer filler; `play()` without a loader, and the end of a playback, leave the phrase set; a user who is
  distressed but not understood is answered by silence (`classifyAudio`).
- `useVoiceStream.ts` (not modelled): `connect()` replaces a socket that is still connecting, `disconnect()` sends on
  one that may not be open, and the close event of an old socket marks a new one as disconnected.

Of the services and gates:

- `release_policy.yaml` asks for at least 200 samples of a canary before it is promoted; with the number of
  samples absent the verdict is still to promote.
- The regions' `affinity` is described as healthy and warm; warmth is not needed, and the bonus never decides.
- The policy answers an allowed request with `retained=True` although an earlier refusal or revocation may have purged the
  reference; expiry purges nothing. The moderation's `fail_closed` setting is not read: it always fails closed.
- `ToolRouter.invoke` "never raises", but does after `close()`; a tool registered anew as unsafe stays on the automatic
  allowlist; hung handlers hold the four threads.
- Memory: a backend that failed once is not used again by its process; `clear` of everything drops the Qdrant
  collection, which only a new process makes again. An irrelevant first duplicate hides a relevant later one;
  a summary may exceed its limit by the ellipsis and a digest by its newlines.
- `SupportJobs`: a `start()` during an unfinished `stop()` leaves workers that nobody will stop; jobs are served all
  the same.
- `RegressionGate` without samples passes; a duplicate id of a candidate overwrites the aggregate of the first.
- Recording a license anew clears its restrictions; a warning can be resolved without a license.
- `duplex_manager.py`: a core that fails for another reason than latency still counts as late if it has sent no token.
- The persona's blend drops the label, and a field that is NaN becomes the low end of its range.
- `CollectionIntake.submit`: a refusal for consent comes out of the schema as a `ValidationError`, which is raised but not
  recorded among the rejected; a record whose consent was revoked is refused as a duplicate when it comes again, so the approved one stays exported.

## 8. What is not modelled

- Within the modelled parts: transition callbacks of the turn machine (no code registers
  one), logging and metrics, start-up and shutdown of the server, HTTP routes.
  `_quick_vad_check` runs the recurrent VAD network an extra time during SPEAKING; since the
  network's verdict is free, this is not visible; the two verdicts on one frame are
  taken to be the same. Voices, texts and audio samples are
  abstracted to who said what in which turn. Two gateway sessions do not interact, so one is
  modelled. What `ingest` returns and the gateway's counters for logs are left out, and so is the
  telemetry of the scheduler. Of the runtime, the token transformation, the choice of a backend, the decoder's
  cache of chunks and the batch decode; of memory, scores of similarity and relevance (inputs, without ties), the closing of the store, and the databases
  (external); of safety, classifier scores and signals (inputs).
- Signals: resampling, quantization, crossfade curves, acoustic features, the tokenizer, style vectors. They are numerical
  code without state that another step could disturb.
- Data classes and documents: shared contracts, construction checks of records, wording of reasons, the roadmap's documents, traceability
  and text heuristics. Offline tools: evaluation metrics, the synthetic data generator, the classic baseline (three calls in a row).
- The user interface and the older hook `useVoiceStream.ts`; monitoring exporters, which only read.

## 9. Plan

Done: server turn machine, detectors, voice agent, gateway, scheduler with their first proofs; runtime, decoder, codec,
client, edge turn machine and planner, services, safety, deployment, the decisions of the roadmap and of training.

Left, the most useful first:

1. The recoveries of `EdgeTurnMachine` as theorems.
2. An abstract first-in first-out pool that the scheduler implements.
3. One abstract turn lifecycle, implemented by both turn machines, which differ in how BARGE_IN recovers.
4. The client's transport composed with the endpoint's connection.
