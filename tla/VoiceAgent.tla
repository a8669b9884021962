---------------------------- MODULE VoiceAgent -----------------------------
(***************************************************************************)
(* The voice server: one VoiceAgent (server/agent.py) behind the WebSocket *)
(* endpoint of server/main.py.  Every connection has a coroutine that      *)
(* reads one frame at a time and awaits handle_audio_frame on it, so the   *)
(* pipeline of an utterance runs to its end before the connection's next   *)
(* frame is read.  All connections share the agent: its VAD, its barge-in  *)
(* detector, and its dictionaries of turn machines, sessions and callbacks *)
(* keyed by session id.  A step of a coroutine is the code between two     *)
(* awaits that may suspend it.                                             *)
(*                                                                         *)
(* Turn machines and SessionState objects are referred to by number: a     *)
(* pipeline keeps the objects it began with when the dictionaries drop     *)
(* them.  A timer of a machine may end during any await (TurnMachine shows *)
(* that a machine has one live timer exactly in the timed states).         *)
(***************************************************************************)
EXTENDS TurnTable, SpeechDetectors, FiniteSets

CONSTANTS
    Sessions,       \* session ids
    Conns,          \* WebSocket connections
    SessionOf,      \* the session id in the URL of a connection
    MaxFrames,      \* bound: frames a client sends over one connection
    MaxConns,       \* bound: connections that are ever made
    MaxHistory,     \* settings.session.max_conversation_history
    MayExpire,      \* whether a session may outlive settings.session.timeout_seconds
    None            \* no connection

ASSUME VoiceAgentAssumption ==
    /\ SessionOf \in [Conns -> Sessions]
    /\ MaxFrames \in Nat /\ MaxConns \in Nat /\ MaxHistory \in Nat \ {0}
    /\ MayExpire \in BOOLEAN
    /\ None \notin Conns

VARIABLES
    client,         \* per connection: "new", "open" or "gone", as the client sees it
    sent,           \* per connection: frames sent, up to MaxFrames
    inbox,          \* per connection: frames the server has not read
    h,              \* per connection: the coroutine of the endpoint
    machines,       \* the TurnStateMachine objects, in order of creation
    objects,        \* the SessionState objects, in order of creation
    machineOf,      \* _turn_machines: session id to machine, 0 if none
    objectOf,       \* SessionManager._sessions: session id to object, 0 if none
    callbacks,      \* the three callback dictionaries, as the connection they reach
    vad,            \* the one SileroVAD; a frame is the session id it came from
    barge,          \* the one BargeInDetector
    threads,        \* feature extractions in the executor: <<connection, utterance>>
    speakers        \* keys of FeatureExtractor._speaker_cache

clientVars == <<client, sent, inbox>>
registry == <<machineOf, objectOf, callbacks>>
vars == <<client, sent, inbox, h, machines, objects, machineOf, objectOf,
          callbacks, vad, barge, threads, speakers>>

\* Where a coroutine stands: before accept(), in receive(), or in an await of
\* _process_speech_segment.  At a SendAt point it awaits a callback, if the
\* pipeline found one; "features" is where it looks at the feature task.
PlayAt == {"filler", "stall", "play"}
SendAt == PlayAt \cup {"userText", "fillerText", "assistantText", "metadata"}
PipelineAt == SendAt \cup {"stt", "llm", "tts", "features", "featureWait"}
At == {"unborn", "receive", "ended"} \cup PipelineAt

\* The locals of the pipeline that the properties need: the utterance, whose
\* frames it is made of, the objects and callbacks resolved at its start, and
\* whether its feature extraction is not started, running or finished.
Utterance == [number : Nat, sources : SUBSET Sessions, machine : Nat, object : Nat,
              sink : Conns \cup {None}, feature : {"off", "running", "done"}]

NoUtterance(n) == [number |-> n, sources |-> {}, machine |-> 0, object |-> 0,
                   sink |-> None, feature |-> "off"]

Turn == [role : {"user", "assistant"}, by : Conns, number : Nat]

Frame == [voiced : BOOLEAN, over : BOOLEAN]

\* The types of the state, with the bound of a session's history.
TypeOK ==
    /\ client \in [Conns -> {"new", "open", "gone"}]
    /\ sent \in [Conns -> 0 .. MaxFrames]
    /\ inbox \in [Conns -> Seq(Frame)]
    /\ h \in [Conns -> [at : At, u : Utterance]]
    /\ machines \in Seq(Machine)
    /\ objects \in Seq(Seq(Turn))
    /\ \A o \in DOMAIN objects : Len(objects[o]) <= MaxHistory
    /\ machineOf \in [Sessions -> 0 .. Len(machines)]
    /\ objectOf \in [Sessions -> 0 .. Len(objects)]
    /\ callbacks \in [Sessions -> Conns \cup {None}]
    /\ vad.buffer \in Seq(Sessions) /\ vad.preRoll \in Seq(Sessions)
    /\ barge \in [speaking : BOOLEAN, count : 0 .. BargeInFrames - 1, quiet : 0 .. Cooldown]
    /\ threads \subseteq Conns \X Nat
    /\ speakers \subseteq Sessions

Init ==
    /\ client = [c \in Conns |-> "new"]
    /\ sent = [c \in Conns |-> 0]
    /\ inbox = [c \in Conns |-> <<>>]
    /\ h = [c \in Conns |-> [at |-> "unborn", u |-> NoUtterance(0)]]
    /\ machines = <<>>
    /\ objects = <<>>
    /\ machineOf = [s \in Sessions |-> 0]
    /\ objectOf = [s \in Sessions |-> 0]
    /\ callbacks = [s \in Sessions |-> None]
    /\ vad = VadReset
    /\ barge = DetectorReset
    /\ threads = {}
    /\ speakers = {}

Running(c) == h[c].at \in PipelineAt

HasSink(c) == h[c].u.sink # None

\* The coroutine does not suspend here: it goes on before any other may run.
GoesOn(c) ==
    \/ h[c].at \in SendAt /\ ~HasSink(c)
    \/ h[c].at = "features"

\* The event loop is free: every coroutine is suspended.
Suspended == \A c \in Conns : ~GoesOn(c)

\* The coroutine of c stands at a point and may run.
RunsAt(c, at) == h[c].at = at /\ (Suspended \/ GoesOn(c))

-----------------------------------------------------------------------------
(* The client of a connection *)

\* A session's id is used again only after the connection that used it is gone.
Connect(c) ==
    /\ Suspended /\ client[c] = "new"
    /\ Cardinality({d \in Conns : client[d] # "new"}) < MaxConns
    /\ \A d \in Conns : SessionOf[d] = SessionOf[c] => client[d] # "open"
    /\ client' = [client EXCEPT ![c] = "open"]
    /\ h' = [h EXCEPT ![c].at = "receive"]
    /\ callbacks' = [callbacks EXCEPT ![SessionOf[c]] = c]
    /\ UNCHANGED <<sent, inbox, machines, objects, machineOf, objectOf, vad, barge,
                   threads, speakers>>

\* "over": the frame is sent while the server sends a response to this session.
Send(c, voiced) ==
    /\ Suspended /\ client[c] = "open" /\ h[c].at # "ended"
    /\ sent[c] < MaxFrames
    /\ sent' = [sent EXCEPT ![c] = @ + 1]
    /\ inbox' = [inbox EXCEPT ![c] = Append(@,
                    [voiced |-> voiced,
                     over |-> \E d \in Conns : /\ SessionOf[d] = SessionOf[c]
                                               /\ h[d].at = "play"])]
    /\ UNCHANGED <<client, h, machines, objects, registry, vad, barge, threads, speakers>>

\* {"type": "end"}, a close, or a dropped socket; the frames sent before it are
\* still read.
HangUp(c) ==
    /\ Suspended /\ client[c] = "open"
    /\ client' = [client EXCEPT ![c] = "gone"]
    /\ UNCHANGED <<sent, inbox, h, machines, objects, registry, vad, barge, threads,
                   speakers>>

-----------------------------------------------------------------------------
(* handle_audio_frame *)

\* The machine when a segment is complete: the user's turn is over.
SegmentComplete(m) ==
    OnTurnConfirmed(OnSpeechEnd(IF m.state = "idle" THEN OnSpeechStart(m) ELSE m))

\* Barge-in is only looked for while the machine says that the agent speaks.
BargeInCheck(m, voiced, passed) ==
    LET d == Elapse(barge, passed) IN
    IF m.state = "speaking" THEN CheckBargeIn(d, voiced) ELSE Verdict(d, FALSE)

InterruptedBy(m, v) ==
    IF v.event THEN OnBargeInHandled(OnSpeechStart(m)) ELSE m

\* The callbacks that a pipeline resolves once, when it starts.
SinkFor(s) == callbacks[s]

\* The next frame of c is read.  The session object is made when the id has none,
\* or has one without a turn for timeout_seconds; the machine when it has none.
\* If the frame completes a segment the pipeline starts, with the callbacks now
\* registered for the id; "passed" is the time since the detector was last used.
HandleFrame(c, expired, passed) ==
    LET s == SessionOf[c]
        f == Head(inbox[c])
        newObject == objectOf[s] = 0 \/ expired
        os == IF newObject THEN Append(objects, <<>>) ELSE objects
        o == IF newObject THEN Len(os) ELSE objectOf[s]
        newMachine == machineOf[s] = 0
        ms == IF newMachine THEN Append(machines, NewMachine) ELSE machines
        m == IF newMachine THEN Len(ms) ELSE machineOf[s]
        check == BargeInCheck(ms[m], f.voiced, passed)
        listening == InterruptedBy(ms[m], check)
        r == ProcessFrame(vad, s, f.voiced)
        complete == r.segment # NoSegment
    IN
    /\ RunsAt(c, "receive") /\ inbox[c] # <<>>
    /\ expired => MayExpire /\ objectOf[s] # 0
    /\ inbox' = [inbox EXCEPT ![c] = Tail(@)]
    /\ objects' = os
    /\ objectOf' = [objectOf EXCEPT ![s] = o]
    /\ machines' = [ms EXCEPT ![m] = IF complete THEN SegmentComplete(listening)
                                     ELSE listening]
    /\ machineOf' = [machineOf EXCEPT ![s] = m]
    /\ barge' = check.detector
    /\ vad' = r.vad
    /\ h' = IF complete
            THEN [h EXCEPT ![c] =
                    [at |-> "stt",
                     u |-> [number |-> h[c].u.number + 1, sources |-> Range(r.segment),
                            machine |-> m, object |-> o, sink |-> SinkFor(s),
                            feature |-> "off"]]]
            ELSE h
    /\ UNCHANGED <<client, sent, callbacks, threads, speakers>>

-----------------------------------------------------------------------------
(* _process_speech_segment, from one await to the next *)

\* A plausible slip: a full history keeps its oldest turns.
KeepOldest(history, turn) ==
    LET longer == Append(history, turn) IN
    IF Len(longer) > MaxHistory THEN SubSeq(longer, 1, MaxHistory) ELSE longer

\* A plausible slip: trimming one turn late.
TrimLate(history, turn) ==
    LET longer == Append(history, turn) IN
    IF Len(longer) > MaxHistory + 1 THEN Tail(longer) ELSE longer

AddTurn(history, turn) ==
    LET longer == Append(history, turn) IN
    IF Len(longer) > MaxHistory
    THEN SubSeq(longer, Len(longer) - MaxHistory + 1, Len(longer))
    ELSE longer

TurnOf(c, role) == [role |-> role, by |-> c, number |-> h[c].u.number]

Record(c, role) ==
    objects' = [objects EXCEPT ![h[c].u.object] = AddTurn(@, TurnOf(c, role))]

Goto(c, at) == h' = [h EXCEPT ![c].at = at]

MachineOf(c) == machines[h[c].u.machine]

SetMachine(c, m) == machines' = [machines EXCEPT ![h[c].u.machine] = m]

\* _process_speech_segment returns: the coroutine goes back to receive().
Return(c) ==
    h' = [h EXCEPT ![c] = [at |-> "receive", u |-> NoUtterance(h[c].u.number)]]

\* A plausible slip: a failed turn is not closed.
ReturnOnly(c) == Return(c) /\ UNCHANGED machines

\* An exception or an empty result: on_error, and return.
Fail(c) == Return(c) /\ SetMachine(c, OnError(MachineOf(c)))

SttFails(c) ==
    /\ RunsAt(c, "stt")
    /\ Fail(c)
    /\ UNCHANGED <<clientVars, objects, registry, vad, barge, threads, speakers>>

SttReturns(c) ==
    /\ RunsAt(c, "stt")
    /\ Goto(c, "userText")
    /\ UNCHANGED <<clientVars, machines, objects, registry, vad, barge, threads, speakers>>

\* A plausible slip: only answers are recorded.
RouteUnrecorded(c, at, m, b) ==
    /\ RunsAt(c, "userText")
    /\ threads' = threads \cup {<<c, h[c].u.number>>}
    /\ h' = [h EXCEPT ![c].at = at, ![c].u.feature = "running"]
    /\ SetMachine(c, m)
    /\ barge' = b
    /\ UNCHANGED <<clientVars, objects, registry, vad, speakers>>

\* The user's transcript has been sent: the turn is recorded, the extraction of
\* its features starts in the executor, and the filler router has decided for ...
Route(c, at, m, b) ==
    /\ RunsAt(c, "userText")
    /\ Record(c, "user")
    /\ threads' = threads \cup {<<c, h[c].u.number>>}
    /\ h' = [h EXCEPT ![c].at = at, ![c].u.feature = "running"]
    /\ SetMachine(c, m)
    /\ barge' = b
    /\ UNCHANGED <<clientVars, registry, vad, speakers>>

\* ... a cached phrase as the whole answer: the turn is closed, then it is played;
RouteToFiller(c) ==
    Route(c, "filler", OnFillerSelected(MachineOf(c)), SetAgentSpeaking(barge, TRUE))

\* ... a cached phrase that has no audio: nothing is played, said or recorded;
RouteToSilentFiller(c) ==
    Route(c, "features", OnFillerSelected(MachineOf(c)), barge)

\* ... a stalling phrase to play while the pipeline has yet to answer;
RouteToStall(c) ==
    Route(c, "stall", OnPipelineNeeded(MachineOf(c)), SetAgentSpeaking(barge, TRUE))

\* ... or the pipeline at once.
RouteToPipeline(c) ==
    Route(c, "llm", OnPipelineStart(OnPipelineNeeded(MachineOf(c))), barge)

FillerPlayed(c) ==
    /\ RunsAt(c, "filler")
    /\ barge' = SetAgentSpeaking(barge, FALSE)
    /\ Goto(c, "fillerText")
    /\ UNCHANGED <<clientVars, machines, objects, registry, vad, threads, speakers>>

FillerTextSent(c) ==
    /\ RunsAt(c, "fillerText")
    /\ Record(c, "assistant")
    /\ Goto(c, "features")
    /\ UNCHANGED <<clientVars, machines, registry, vad, barge, threads, speakers>>

StallPlayed(c) ==
    /\ RunsAt(c, "stall")
    /\ barge' = SetAgentSpeaking(barge, FALSE)
    /\ SetMachine(c, OnPipelineStart(MachineOf(c)))
    /\ Goto(c, "llm")
    /\ UNCHANGED <<clientVars, objects, registry, vad, threads, speakers>>

\* The HTTP request to the model failed, or its answer is empty.
LlmFails(c) ==
    /\ RunsAt(c, "llm")
    /\ Fail(c)
    /\ UNCHANGED <<clientVars, objects, registry, vad, barge, threads, speakers>>

LlmReturns(c) ==
    /\ RunsAt(c, "llm")
    /\ Goto(c, "assistantText")
    /\ UNCHANGED <<clientVars, machines, objects, registry, vad, barge, threads, speakers>>

AssistantTextSent(c) ==
    /\ RunsAt(c, "assistantText")
    /\ Record(c, "assistant")
    /\ Goto(c, "tts")
    /\ UNCHANGED <<clientVars, machines, registry, vad, barge, threads, speakers>>

TtsFails(c) ==
    /\ RunsAt(c, "tts")
    /\ Fail(c)
    /\ UNCHANGED <<clientVars, objects, registry, vad, barge, threads, speakers>>

TtsReturns(c) ==
    /\ RunsAt(c, "tts")
    /\ SetMachine(c, OnResponseReady(MachineOf(c)))
    /\ barge' = SetAgentSpeaking(barge, TRUE)
    /\ Goto(c, "play")
    /\ UNCHANGED <<clientVars, objects, registry, vad, threads, speakers>>

Played(c) ==
    /\ RunsAt(c, "play")
    /\ barge' = SetAgentSpeaking(barge, FALSE)
    /\ SetMachine(c, OnSpeakingDone(MachineOf(c)))
    /\ Goto(c, "features")
    /\ UNCHANGED <<clientVars, objects, registry, vad, threads, speakers>>

\* The feature task is looked at: finished, or awaited for up to five seconds.
CheckFeatures(c) ==
    /\ RunsAt(c, "features")
    /\ Goto(c, IF h[c].u.feature = "done" THEN "metadata" ELSE "featureWait")
    /\ UNCHANGED <<clientVars, machines, objects, registry, vad, barge, threads, speakers>>

FeaturesArrive(c) ==
    /\ RunsAt(c, "featureWait") /\ h[c].u.feature = "done"
    /\ Goto(c, "metadata")
    /\ UNCHANGED <<clientVars, machines, objects, registry, vad, barge, threads, speakers>>

\* An exception of the extraction is raised by wait_for, outside the handler that
\* would only log it.
FeaturesFail(c) ==
    /\ RunsAt(c, "featureWait") /\ h[c].u.feature = "done"
    /\ Fail(c)
    /\ UNCHANGED <<clientVars, objects, registry, vad, barge, threads, speakers>>

MetadataSent(c) ==
    /\ RunsAt(c, "metadata")
    /\ Return(c)
    /\ UNCHANGED <<clientVars, machines, objects, registry, vad, barge, threads, speakers>>

-----------------------------------------------------------------------------
(* The end of a connection *)

\* A plausible slip: the session is dropped but its machine stays registered.
KeepMachine(s) ==
    /\ machines' = machines
    /\ machineOf' = machineOf

EndMachine(s) ==
    IF machineOf[s] = 0 THEN UNCHANGED <<machines, machineOf>>
    ELSE /\ machines' = [machines EXCEPT ![machineOf[s]] = OnSessionEnd(@)]
         /\ machineOf' = [machineOf EXCEPT ![s] = 0]

\* handle_session_end, which the endpoint's "finally" calls: whatever is kept
\* under the session id is dropped, and the shared detectors are reset.
EndSession(c) ==
    LET s == SessionOf[c] IN
    /\ EndMachine(s)
    /\ speakers' = speakers \ {s}
    /\ callbacks' = [callbacks EXCEPT ![s] = None]
    /\ objectOf' = [objectOf EXCEPT ![s] = 0]
    /\ vad' = VadReset
    /\ barge' = DetectorReset
    /\ h' = [h EXCEPT ![c] = [at |-> "ended", u |-> NoUtterance(h[c].u.number)]]
    /\ UNCHANGED <<clientVars, objects, threads>>

\* receive() reports the end that the client has put after its last frame.
Disconnect(c) ==
    /\ RunsAt(c, "receive") /\ inbox[c] = <<>> /\ client[c] = "gone"
    /\ EndSession(c)

\* A plausible slip: the features are awaited without a limit.
NoFeatureTimeout(c) == FALSE

\* The five seconds are over: wait_for cancels the task, TimeoutError is caught,
\* and the cancelled task is done(), so result() is called on it.  It raises
\* CancelledError, which no "except Exception" catches, and the endpoint ends.
FeatureTimeout(c) ==
    /\ RunsAt(c, "featureWait") /\ h[c].u.feature = "running"
    /\ EndSession(c)

-----------------------------------------------------------------------------
(* The executor and the clock *)

\* extract_features finishes in its thread, with a usable speaker embedding or
\* without; the task that the pipeline may still hold is done.
ExtractionEnds(j, usable) ==
    LET c == j[1] IN
    /\ Suspended /\ j \in threads
    /\ threads' = threads \ {j}
    /\ speakers' = IF usable THEN speakers \cup {SessionOf[c]} ELSE speakers
    /\ h' = IF Running(c) /\ h[c].u.number = j[2]
            THEN [h EXCEPT ![c].u.feature = "done"] ELSE h
    /\ UNCHANGED <<clientVars, machines, objects, registry, vad, barge>>

\* A machine's timer ends.
TurnTimeout(i) ==
    /\ Suspended /\ machines[i].state \in TimedStates
    /\ machines' = [machines EXCEPT ![i] = OnTimeout(@)]
    /\ UNCHANGED <<clientVars, h, objects, registry, vad, barge, threads, speakers>>

-----------------------------------------------------------------------------
\* What the coroutine of c does when it runs.
ReadFrame(c) ==
    \E expired \in BOOLEAN, passed \in {0, Cooldown} : HandleFrame(c, expired, passed)

Proceed(c) ==
    \/ SttReturns(c) \/ SttFails(c)
    \/ RouteToFiller(c) \/ RouteToSilentFiller(c) \/ RouteToStall(c) \/ RouteToPipeline(c)
    \/ FillerPlayed(c) \/ FillerTextSent(c) \/ StallPlayed(c)
    \/ LlmReturns(c) \/ LlmFails(c) \/ AssistantTextSent(c)
    \/ TtsReturns(c) \/ TtsFails(c) \/ Played(c)
    \/ CheckFeatures(c) \/ FeaturesArrive(c) \/ FeaturesFail(c) \/ MetadataSent(c)
    \/ FeatureTimeout(c)
    \/ Disconnect(c)

Coroutine(c) == ReadFrame(c) \/ Proceed(c)

Next ==
    \/ \E c \in Conns : \/ Connect(c) \/ HangUp(c) \/ Coroutine(c)
                        \/ \E voiced \in BOOLEAN : Send(c, voiced)
    \/ \E j \in threads, usable \in BOOLEAN : ExtractionEnds(j, usable)
    \/ \E i \in DOMAIN machines : TurnTimeout(i)

Spec == Init /\ [][Next]_vars

\* The event loop resumes a coroutine whose await has ended, and every await of
\* the endpoint ends: inference and the two network calls return or fail, a send
\* completes, the features are awaited for five seconds at most.  Nothing is
\* assumed of clients, of the feature threads or of the machines' timers.
Fairness == \A c \in Conns : WF_vars(Coroutine(c))

FairSpec == Spec /\ Fairness

-----------------------------------------------------------------------------
(* Properties *)

\* A connection that waits for a frame has left no turn open: along every path of
\* the pipeline, with every timeout of the machine at any await, the machine of
\* its session is at rest, unless another connection of the session is at work.
TurnClosedBetweenFrames ==
    \A c \in Conns :
        LET m == machineOf[SessionOf[c]] IN
        /\ h[c].at = "receive" /\ m # 0
        /\ \A d \in Conns : SessionOf[d] = SessionOf[c] => ~Running(d)
        => machines[m].state = "idle"

\* The prompt is built from the history without its last entry, "[:-1]", which
\* must be the user's turn that is being answered: neither another utterance nor
\* the trimming of the history may have moved it.
PromptOmitsOwnTurn ==
    \A c \in Conns :
        h[c].at \in {"stall", "llm"} =>
            LET history == objects[h[c].u.object] IN
            history # <<>> /\ Last(history) = TurnOf(c, "user")

\* In a conversation every answer directly follows the turn it answers.
AnswersFollowTheirTurn ==
    \A o \in DOMAIN objects : \A i \in 2 .. Len(objects[o]) :
        objects[o][i].role = "assistant" =>
            objects[o][i - 1] = [objects[o][i] EXCEPT !.role = "user"]

\* What is said stays in order and within its bounds: the prompt ends before the
\* turn it answers, and the answer is recorded right behind it (agent.py:463,
\* session.py:70).
ConversationIsKept == TypeOK /\ PromptOmitsOwnTurn /\ AnswersFollowTheirTurn

\* register_callbacks keys the sinks by session id "so that concurrent sessions
\* never overwrite one another's response sink": whatever a pipeline sends goes
\* to a connection of the session whose frame completed the segment, or nowhere.
RoutedToOwnSession ==
    \A c \in Conns : h[c].u.sink # None => SessionOf[h[c].u.sink] = SessionOf[c]

\* The detector believes the agent to speak only while some pipeline plays audio:
\* no path leaves it believing so for the next turn.
NoPhantomSpeaker ==
    barge.speaking => \E c \in Conns : h[c].at \in PlayAt

\* Every path of the pipeline closes what it opened, the turn and the detector's
\* belief that the agent speaks (agent.py:570).
TurnsAreClosed == TurnClosedBetweenFrames /\ NoPhantomSpeaker

\* Once the last connection of a session has ended, whatever the order in which
\* the connections of one session id came and went, nothing is registered for it.
NothingLeftBehind ==
    \A s \in Sessions :
        (\A c \in Conns : SessionOf[c] = s => h[c].at \in {"unborn", "ended"}) =>
            machineOf[s] = 0 /\ objectOf[s] = 0 /\ callbacks[s] = None

\* Sessions keep apart: what is spoken goes to the session it is for, and when the
\* last connection of a session has ended nothing stays registered for it.
SessionsKeepApart == RoutedToOwnSession /\ NothingLeftBehind

\* Every connection whose client is gone is eventually cleaned up, through a
\* pipeline it was in, the frames it had sent, and features that never arrive.
GoneIsCleanedUp ==
    \A c \in Conns : client[c] = "gone" ~> h[c].at = "ended"

\* "route their audio/transcripts/metadata to the correct socket": an utterance
\* that a session's pipeline processes is made of that session's audio.
SegmentFromOwnSession ==
    \A c \in Conns : h[c].u.sources \subseteq {SessionOf[c]}

\* check_barge_in "Should be called for every VAD frame while the agent is
\* speaking": a frame the user sent while a response was played is checked.
FramesOverSpeechAreChecked ==
    [][\A c \in Conns :
          Len(inbox'[c]) < Len(inbox[c]) /\ Head(inbox[c]).over
              => /\ machineOf[SessionOf[c]] # 0
                 /\ machines[machineOf[SessionOf[c]]].state = "speaking"]_vars

\* "Feature extraction (parallel, non-blocking)": a slow extraction costs no more
\* than its metadata, so a connection is ended only when its client has left.
EndsOnlyWhenClientLeft ==
    \A c \in Conns : h[c].at = "ended" => client[c] = "gone"
=============================================================================
