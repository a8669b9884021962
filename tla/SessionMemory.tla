------------------------------ MODULE SessionMemory ------------------------------
(* What is kept of a user: the server's sessions, the persona's memory, and the *)
(* context that retrieved memories become.                                      *)
EXTENDS Integers, Sequences, FiniteSets, FiniteSetsExt

-----------------------------------------------------------------------------
(* The server's sessions (server/pipeline/session.py): what is kept of a        *)
(* conversation, for how long, and how many sessions are active.  Sessions are  *)
(* objects: a caller may still hold one that the manager has dropped.           *)

CONSTANTS SessionIds,
          MaxHistory,   \* settings.session.max_conversation_history
          IdleLimit,    \* settings.session.timeout_seconds
          MaxObjects,   \* bound: sessions created
          MaxTurns,     \* bound: turns of one session
          MaxClock      \* bound: the time

ASSUME SessionAssumption == IsFiniteSet(SessionIds) /\ MaxHistory \in Nat \ {0}

VARIABLES clock,
          sessionOf,    \* _sessions: id -> object, 0 for none
          session,      \* the objects
          gauge,        \* active_sessions
          given         \* what get_session returned last: [id, object]

sessionVars == <<clock, sessionOf, session, gauge, given>>

NoSession == 0
NewSession(id) == [id |-> id, active |-> TRUE, last |-> clock, history |-> <<>>, total |-> 0,
                   language |-> "None", metadata |-> <<>>]

SessionInit ==
    /\ clock = 0
    /\ sessionOf = [id \in SessionIds |-> NoSession]
    /\ session = <<>>
    /\ gauge = 0
    /\ given = [id |-> "none", object |-> NoSession]

IsExpired(o) == clock - session[o].last > IdleLimit

Window(seq, n) == IF Len(seq) > n THEN SubSeq(seq, Len(seq) - n + 1, Len(seq)) ELSE seq

\* remove_session for every id of ids, which the manager has.
Drop(ids) ==
    LET gone == {sessionOf[id] : id \in ids}
    IN /\ session' = [o \in DOMAIN session |-> [session[o] EXCEPT !.active = @ /\ o \notin gone]]
       /\ sessionOf' = [id \in SessionIds |-> IF id \in ids THEN NoSession ELSE sessionOf[id]]
       /\ gauge' = gauge - Cardinality(ids)

\* create_session does not look whether the id is taken.
CreateSession(id) ==
    /\ Len(session) < MaxObjects
    /\ session' = Append(session, NewSession(id))
    /\ sessionOf' = [sessionOf EXCEPT ![id] = Len(session) + 1]
    /\ gauge' = gauge + 1

\* get_session: an expired session is removed on the way.
GetSession(id) ==
    LET o == sessionOf[id]
    IN /\ IF o # NoSession /\ IsExpired(o) THEN Drop({id})
          ELSE UNCHANGED <<sessionOf, session, gauge>>
       /\ given' = [id |-> id, object |-> IF o # NoSession /\ ~IsExpired(o) THEN o ELSE NoSession]
       /\ UNCHANGED clock

\* get_or_create_session: an expired one is replaced by a new one.
GetOrCreateSession(id) ==
    LET o == sessionOf[id]
        fresh == o # NoSession /\ ~IsExpired(o)
    IN /\ IF fresh THEN UNCHANGED <<sessionOf, session, gauge>>
          ELSE /\ Len(session) < MaxObjects
               /\ session' = Append([i \in DOMAIN session |->
                                 [session[i] EXCEPT !.active = @ /\ i # o]], NewSession(id))
               /\ sessionOf' = [sessionOf EXCEPT ![id] = Len(session) + 1]
               /\ gauge' = IF o = NoSession THEN gauge + 1 ELSE gauge
       /\ given' = [id |-> id, object |-> sessionOf'[id]]
       /\ UNCHANGED clock

RemoveSession(id) ==
    /\ IF sessionOf[id] # NoSession THEN Drop({id}) ELSE UNCHANGED <<sessionOf, session, gauge>>
    /\ given' = [id |-> "none", object |-> NoSession]
    /\ UNCHANGED clock

CleanupExpired ==
    /\ Drop({id \in SessionIds : sessionOf[id] # NoSession /\ IsExpired(sessionOf[id])})
    /\ given' = [id |-> "none", object |-> NoSession]
    /\ UNCHANGED clock

\* add_turn: a turn is its number and its role; the user's language is preferred.
AddTurn(o, role, language) ==
    /\ session[o].total < MaxTurns
    /\ session' = [session EXCEPT ![o].total = @ + 1, ![o].last = clock,
                      ![o].history = Window(Append(@, [role |-> role, n |-> session[o].total + 1]),
                                            MaxHistory),
                      ![o].language = IF role = "user" THEN language ELSE @]
    /\ UNCHANGED <<clock, sessionOf, gauge, given>>

\* add_turn_metadata: as many as turns, and it does not renew the session.
AddTurnMetadata(o) ==
    /\ session[o].total > 0
    /\ ~\E i \in DOMAIN session[o].metadata : session[o].metadata[i] = session[o].total
    /\ session' = [session EXCEPT ![o].metadata = Window(Append(@, session[o].total), MaxHistory)]
    /\ UNCHANGED <<clock, sessionOf, gauge, given>>

ClockTicks ==
    /\ clock < MaxClock
    /\ clock' = clock + 1
    /\ UNCHANGED <<sessionOf, session, gauge, given>>

SessionNext ==
    \/ \E id \in SessionIds :
          \/ sessionOf[id] = NoSession /\ CreateSession(id) /\ UNCHANGED <<clock, given>>
          \/ GetSession(id) \/ GetOrCreateSession(id) \/ RemoveSession(id)
    \/ CleanupExpired
    \/ \E o \in DOMAIN session :
          \/ \E role \in {"user", "assistant"} : AddTurn(o, role, "hi")
          \/ AddTurnMetadata(o)
    \/ ClockTicks

SessionSpec == SessionInit /\ [][SessionNext]_sessionVars

-----------------------------------------------------------------------------
Held == {o \in DOMAIN session : \E id \in SessionIds : sessionOf[id] = o}

\* The gauge counts the sessions the manager has, and those are the active ones,
\* whatever was expired, replaced, removed or swept in which order; a session is
\* given out only under its own id and before it expires; and the model is told
\* the newest turns of it, all of them while they fit.
SessionsAreKept ==
    /\ gauge = Cardinality(Held)
    /\ \A o \in DOMAIN session : session[o].active <=> o \in Held
    /\ \A o \in Held : sessionOf[session[o].id] = o
    /\ given.object # NoSession =>
          session[given.object].id = given.id
    /\ \A o \in DOMAIN session :
          /\ Len(session[o].history) = Min({session[o].total, MaxHistory})
          /\ \A i \in DOMAIN session[o].history :
                session[o].history[i].n = session[o].total - Len(session[o].history) + i
          /\ (session[o].language = "None") => \A i \in DOMAIN session[o].history :
                session[o].history[i].role # "user"
          /\ Len(session[o].metadata) <= MaxHistory

-----------------------------------------------------------------------------
(* The persona (speech/persona): what is remembered of how a user talks         *)
(* (relationship.py), how the next reply's emotion follows from it, and the     *)
(* controller that shapes emotion but not identity (controller.py), on top of   *)
(* the arithmetic of emotion_schema.py.  Of the eight fields of an emotion the  *)
(* model keeps three; one is 10000.                                             *)

CONSTANTS Users,        \* session ids
          History,      \* _history: emotions remembered
          Alpha,        \* _alpha, in tenths: the weight of a new turn
          Moods,        \* the emotions turns and targets have: [arousal, warmth, intensity]
          MaxObserved   \* bound: turns of all users

One == 10000
Fields == {"arousal", "warmth", "intensity"}
NoMood == [arousal |-> One + 1, warmth |-> One + 1, intensity |-> One + 1]
DefaultMood == [arousal |-> 0, warmth |-> One \div 2, intensity |-> One \div 2]
Lowest(f) == IF f = "arousal" THEN -One ELSE 0
InScale(m) == \A f \in Fields : m[f] \in Lowest(f) .. One
NoLength == -1
Stranger == [tone |-> DefaultMood, length |-> NoLength, trajectory |-> <<>>, turns |-> 0]

\* An EmotionState is on its scale or raises; the store lifts history to 1 and
\* clamps alpha.
EmotionStates == {m \in [Fields -> Int] : InScale(m)}
ASSUME PersonaAssumption ==
    /\ History \in Nat \ {0} /\ Alpha \in 0 .. 10
    /\ Moods \subseteq EmotionStates
    /\ "none" \notin Users

VARIABLES profile,   \* the backend: user -> RelationshipProfile, Stranger for none
          adapted,   \* the last adapt_emotion: [user, target, result], user "none" before
          shaped,    \* the last PersonaState: [persona, emotion]
          observed   \* the turns observed since the user's last reset: [mood, tone]

personaVars == <<profile, adapted, shaped, observed>>

NotAdapted == [user |-> "none", target |-> DefaultMood, result |-> DefaultMood]

PersonaInit ==
    /\ profile = [u \in Users |-> Stranger]
    /\ adapted = NotAdapted
    /\ shaped = [persona |-> "default", emotion |-> DefaultMood]
    /\ observed = [u \in Users |-> <<>>]

-----------------------------------------------------------------------------
\* clamp_value to the field's range; what is no number is its lower end.
ClampField(f, x) == IF x < Lowest(f) THEN Lowest(f) ELSE IF x > One THEN One ELSE x
ClampEmotion(m) == [f \in Fields |-> ClampField(f, m[f])]

\* blend and nudge; a weight is in tenths.
Blend(a, b, weight) ==
    ClampEmotion([f \in Fields |-> (a[f] * (10 - weight) + b[f] * weight) \div 10])
Nudge(m, deltas) == ClampEmotion([f \in Fields |-> m[f] + deltas[f]])

-----------------------------------------------------------------------------
Newest(seq) == Window(seq, History)

\* The sums of the first numbers of a list.
Sums(list) ==
    LET sum[k \in 0 .. Len(list)] == IF k = 0 THEN 0 ELSE sum[k - 1] + list[k]
    IN sum

\* stress_level: the mean of the remembered arousal on a scale from 0 to One.
StressLevel(p) ==
    IF p.trajectory = <<>> THEN One \div 2
    ELSE (Sums(p.trajectory)[Len(p.trajectory)] + Len(p.trajectory) * One)
         \div (2 * Len(p.trajectory))

\* The profile after a turn: a tone preference is what was asked for, else how
\* the user feels.
AfterTurn(p, mood, length, tone) ==
    LET signal == IF tone # NoMood THEN tone ELSE mood
    IN [turns |-> p.turns + 1,
        tone |-> IF signal = NoMood THEN p.tone
                 ELSE IF p.turns = 0 THEN ClampEmotion(signal) ELSE Blend(p.tone, signal, Alpha),
        length |-> IF length = NoLength THEN p.length
                   ELSE IF p.length = NoLength THEN length
                   ELSE (p.length * (10 - Alpha) + length * Alpha) \div 10,
        trajectory |-> IF mood = NoMood THEN p.trajectory
                       ELSE Newest(Append(p.trajectory, mood.arousal))]

\* observe_turn
ObserveTurn(u, mood, length, tone) ==
    /\ Cardinality({t \in Users \X (1 .. MaxObserved) : t[2] \in DOMAIN observed[t[1]]}) < MaxObserved
    /\ profile' = [profile EXCEPT ![u] = AfterTurn(profile[u], mood, length, tone)]
    /\ observed' = [observed EXCEPT ![u] = Append(@, [mood |-> mood, tone |-> tone])]
    /\ adapted' = NotAdapted
    /\ UNCHANGED shaped

\* A user under stress, above six tenths, is answered more warmly and calmly.
Calming(stress) ==
    LET strength == IF stress > 6000 THEN (stress - 6000) \div 4 ELSE 0  \* 1000 at full stress
    IN [arousal |-> -(3 * strength), warmth |-> 2 * strength, intensity |-> -strength]

Adapted(p, target) ==
    IF p.turns = 0 THEN ClampEmotion(target)
    ELSE Nudge(Blend(target, p.tone, 5), Calming(StressLevel(p)))

AdaptEmotion(u, target) ==
    /\ adapted' = [user |-> u, target |-> target, result |-> Adapted(profile[u], target)]
    /\ UNCHANGED <<profile, shaped, observed>>

ResetUser(u) ==
    /\ profile' = [profile EXCEPT ![u] = Stranger]
    /\ observed' = [observed EXCEPT ![u] = <<>>]
    /\ adapted' = NotAdapted
    /\ UNCHANGED shaped

\* shape: the controller's identity around the emotion, blended with the base if asked.
Shape(emotion, blended) ==
    /\ shaped' = [persona |-> "default",
                  emotion |-> IF blended THEN Blend(shaped.emotion, emotion, 5) ELSE ClampEmotion(emotion)]
    /\ shaped.emotion = DefaultMood
    /\ UNCHANGED <<profile, adapted, observed>>

PersonaNext ==
    \/ \E u \in Users :
          \/ \E mood \in Moods \union {NoMood}, length \in {NoLength, 20}, tone \in {NoMood, DefaultMood} :
                ObserveTurn(u, mood, length, tone)
          \/ \E target \in Moods : AdaptEmotion(u, target)
          \/ ResetUser(u)
    \/ profile = [u \in Users |-> Stranger] /\ \E m \in Moods, b \in BOOLEAN : Shape(m, b)

PersonaSpec == PersonaInit /\ [][PersonaNext]_personaVars

-----------------------------------------------------------------------------
SignalOf(t) == IF t.tone # NoMood THEN t.tone ELSE t.mood
\* What a user's preference can have come from: the signals, and the neutral
\* start when the first turn gave none.
Signals(turns) == {SignalOf(turns[i]) : i \in DOMAIN turns} \ {NoMood}
Sources(turns) == Signals(turns) \union
    (IF turns = <<>> \/ SignalOf(turns[1]) = NoMood THEN {DefaultMood} ELSE {})
Felt(turns) == {i \in DOMAIN turns : turns[i].mood # NoMood}
FeltAfter(turns, i) == Cardinality({j \in Felt(turns) : j > i})

Remembers(p, turns) ==
    /\ p.turns = Len(turns)
    /\ Len(p.trajectory) = Min({History, Cardinality(Felt(turns))})
    /\ \A i \in Felt(turns) : FeltAfter(turns, i) < History =>
          p.trajectory[Len(p.trajectory) - FeltAfter(turns, i)] = turns[i].mood.arousal
    /\ \A f \in Fields : /\ \E s \in Sources(turns) : s[f] <= p.tone[f]
                         /\ \E s \in Sources(turns) : s[f] >= p.tone[f]

FollowsFrom(p, target, result) ==
    /\ InScale(result)
    /\ p.turns = 0 => result = target
    /\ p.turns > 0 => result.arousal <= target.arousal \/ result.arousal <= p.tone.arousal
    /\ p.turns > 0 /\ (\A i \in DOMAIN p.trajectory : p.trajectory[i] <= 0)
          => result = Blend(target, p.tone, 5)

\* What is remembered of a user is what that user said since the last reset: the
\* newest feelings, and a preference between the signals, so that no sequence of
\* turns takes it off the scale or beyond what was ever asked for.  A stranger
\* gets the emotion that was meant; a calm user is not calmed; one under stress
\* gets nothing more aroused than both the target and the user's preference.
PersonaKnowsItsUser ==
    /\ \A u \in Users : Remembers(profile[u], observed[u])
    /\ adapted.user \in Users => FollowsFrom(profile[adapted.user], adapted.target, adapted.result)
    /\ InScale(shaped.emotion)
-----------------------------------------------------------------------------
(***************************************************************************)
(* How retrieved memories become context for a prompt                      *)
(* (memory/summarizer/pipeline.py).  A text is the lengths of its words,   *)
(* a word with the full stop after it, and which of them end a sentence; a *)
(* record is [text, ts, score], score what score_relevance gives it; what  *)
(* is made of a list of records is told by their places in the list.       *)
(***************************************************************************)
CONSTANTS SummaryTexts,  \* the texts records may have: [words, ends]
          PieceMax,      \* max_chars of one piece of the digest
          DigestMax,     \* max_chars of the digest
          ContextMax,    \* max_records
          MinRelevance, MaxAge, MaxKeep

ASSUME SummaryAssumption ==
    /\ \A text \in SummaryTexts : text.words \in Seq(Nat) /\ text.ends \subseteq DOMAIN text.words
    /\ {PieceMax, DigestMax, ContextMax, MaxKeep} \subseteq Nat
    /\ {MinRelevance, MaxAge} \subseteq Int

VARIABLE memories  \* the records handed to the pipeline

summaryVars == <<memories>>

SummaryInit == memories = <<>>

EmptyText == [words |-> <<>>, ends |-> {}]

Remember(text, ts, score) ==
    /\ Len(memories) < 3
    /\ memories' = Append(memories, [text |-> text, ts |-> ts, score |-> score])

SummaryNext == \E text \in SummaryTexts \union {EmptyText}, ts \in 0 .. 2, score \in 0 .. 1 :
                  Remember(text, ts, score)

SummarySpec == SummaryInit /\ [][SummaryNext]_summaryVars

\* The length of the first i words, each with the space after it.
Reach(text, i) == Sums(text.words)[i] + i
LengthOf(text) == IF text.words = <<>> THEN 0 ELSE Reach(text, Len(text.words)) - 1

\* The first i words of a text.
Until(text, i) == [words |-> SubSeq(text.words, 1, i), ends |-> text.ends \intersect (1 .. i)]

\* The sentences that fit, each with the space after it.
FittingSentences(text, budget) == {e \in text.ends : Reach(text, e) <= budget}

\* clean[:max].rsplit(" ", 1)[0]: up to the last space among the first max
\* characters, or all of them when there is none.
WordCut(text, budget) ==
    LET inside == {i \in DOMAIN text.words : i < Len(text.words) /\ Reach(text, i) - 1 < budget}
    IN IF inside = {} THEN [said |-> [words |-> <<budget>>, ends |-> {}], length |-> budget + 2]
       ELSE [said |-> Until(text, Max(inside)), length |-> Reach(text, Max(inside)) - 1 + 2]

\* compress_turn, as what it says and the length of that: an ellipsis of two
\* characters takes the place of the last full stop.
CompressTurn(text, budget) ==
    LET fitting == FittingSentences(text, budget)
    IN IF LengthOf(text) <= budget THEN [said |-> text, length |-> LengthOf(text)]
       ELSE IF fitting # {}
       THEN [said |-> Until(text, Max(fitting)), length |-> Reach(text, Max(fitting)) - 1 - 1 + 2]
       ELSE WordCut(text, budget)

\* Orders of the records of a list, as sets of pairs: as given; the later first,
\* equal times by another order; the more relevant first.
PairsOf(recs) == (DOMAIN recs) \X (DOMAIN recs)
AsGiven(recs) == {p \in PairsOf(recs) : p[1] < p[2]}
NewerFirst(recs, ties) ==
    {p \in PairsOf(recs) : \/ recs[p[1]].ts > recs[p[2]].ts
                           \/ recs[p[1]].ts = recs[p[2]].ts /\ p \in ties}
BestFirst(recs) ==
    {p \in PairsOf(recs) : \/ recs[p[1]].score > recs[p[2]].score
                           \/ recs[p[1]].score = recs[p[2]].score /\ p[1] < p[2]}

\* The first n of S in an order.
Foremost(S, order, n) == {i \in S : Cardinality({j \in S : <<j, i>> \in order}) < n}

\* rerank: the first record of each text, if it is relevant enough.
Relevant(recs) ==
    {i \in DOMAIN recs : /\ recs[i].score >= MinRelevance
                         /\ recs[i].text = EmptyText \/ \A j \in 1 .. i - 1 : recs[j].text # recs[i].text}

\* build_context: the best of them.
Chosen(recs) == Foremost(Relevant(recs), BestFirst(recs), ContextMax)

\* summarize_memories of these, newest first: one line of each piece.
DigestOrder(recs) == NewerFirst(recs, BestFirst(recs))
PieceOf(rec) == CompressTurn(rec.text, PieceMax)
Candidates(recs) ==
    {i \in Chosen(recs) :
        /\ recs[i].text # EmptyText
        /\ \A j \in Chosen(recs) : <<j, i>> \in DigestOrder(recs) => PieceOf(recs[j]) # PieceOf(recs[i])}

LinePrefix == 3
LineLength(rec) == LinePrefix + PieceOf(rec).length
TotalOf(recs, S) == Sums([i \in DOMAIN recs |-> IF i \in S THEN LineLength(recs[i]) ELSE 0])[Len(recs)]

\* Lines are added until one does not fit what is left.
UpTo(recs, i) == {i} \union {j \in Candidates(recs) : <<j, i>> \in DigestOrder(recs)}
SummarizeMemories(recs) ==
    {i \in Candidates(recs) : \A j \in UpTo(recs, i) : TotalOf(recs, UpTo(recs, j)) <= DigestMax}

\* prune: the too old are dropped first, then all but the freshest MaxKeep.
Young(recs, now) == {i \in DOMAIN recs : now - recs[i].ts <= MaxAge}
Retained(recs, now) == Foremost(Young(recs, now), NewerFirst(recs, AsGiven(recs)), MaxKeep)
Pruned(recs, now) == (DOMAIN recs \ Young(recs, now)) \union (Young(recs, now) \ Retained(recs, now))

-----------------------------------------------------------------------------
\* A piece keeps within its budget, or exceeds it by at most the ellipsis when
\* not even one sentence fits.
PieceFits(text) ==
    LET piece == CompressTurn(text, PieceMax)
    IN /\ piece.length <= PieceMax + 2
       /\ piece.length > PieceMax => \A e \in text.ends : Reach(text, e) > PieceMax

\* The lines keep within the digest's budget but for the breaks between them,
\* tell nothing twice though the order of time comes after that of relevance,
\* and what is left out of the end is the oldest.
DigestFits(recs) ==
    LET told == SummarizeMemories(recs)
    IN /\ TotalOf(recs, told) <= DigestMax
       /\ \A i, j \in told : i # j => PieceOf(recs[i]) # PieceOf(recs[j])
       /\ \A i \in told, j \in Candidates(recs) \ told : recs[i].ts >= recs[j].ts

\* The context is compact and loses only what is less relevant, or a text whose
\* first record was not relevant.
ContextIsBest(recs) ==
    /\ Cardinality(Chosen(recs)) <= ContextMax
    /\ \A i \in DOMAIN recs : recs[i].score >= MinRelevance =>
          \/ \E k \in Chosen(recs) : recs[k].text = recs[i].text
          \/ Cardinality(Chosen(recs)) = ContextMax
          \/ \E j \in 1 .. i - 1 : recs[j].text = recs[i].text
    /\ \A k \in Chosen(recs), i \in Relevant(recs) \ Chosen(recs) : recs[k].score >= recs[i].score

\* Pruning loses no record, keeps as many as it may of the young and none while
\* dropping a fresher.
PruningIsFair(recs, now) ==
    /\ Retained(recs, now) \union Pruned(recs, now) = DOMAIN recs
    /\ Retained(recs, now) \intersect Pruned(recs, now) = {}
    /\ Cardinality(Retained(recs, now)) = Min({MaxKeep, Cardinality(Young(recs, now))})
    /\ \A k \in Retained(recs, now), d \in Pruned(recs, now) : recs[k].ts >= recs[d].ts

\* The context made of memories is compact and faithful.
ContextIsFaithful ==
    /\ \A text \in SummaryTexts : PieceFits(text)
    /\ DigestFits(memories)
    /\ ContextIsBest(memories)
    /\ PruningIsFair(memories, 2)
=============================================================================
