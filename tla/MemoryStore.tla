------------------------------ MODULE MemoryStore ------------------------------
(* The memory of the conversation (memory/): three tiers, each with its own     *)
(* backend and what the process keeps without it, and the store over them.      *)
EXTENDS Integers, Sequences, SequencesExt, FiniteSets, FiniteSetsExt

-----------------------------------------------------------------------------
(* The session tier of the memory (memory/redis/hot_cache.py): a list of the    *)
(* newest records of each session, kept in Redis until the first failure of     *)
(* Redis and in the process afterwards.  The cache is a record [conn, remote,   *)
(* until, local]; an operation maps it, and what Redis does with the call, to   *)
(* the next one.  Records are [id, session, kind]; ids grow with time.          *)

CONSTANTS MemSessions, HotMax, HotTtl

ASSUME HotAssumption == HotMax \in Nat \ {0} /\ HotTtl \in Nat

\* What a backend does with a call: it works, fails before it takes effect
\* (a refused connection among others), or takes effect and fails after.
Faults == {"ok", "fails", "lost"}

NewHotCache == [conn |-> "unknown", remote |-> [s \in MemSessions |-> <<>>],
                until |-> [s \in MemSessions |-> 0], local |-> [s \in MemSessions |-> <<>>]]

\* Mutant of ConnAfter: a later success takes the connection up again.
ReconnectAfter(conn, fault) == IF fault = "ok" THEN "up" ELSE "down"

\* The connection after a call: the first failure is final for the process.
ConnAfter(conn, fault) == IF conn # "down" /\ fault = "ok" THEN "up" ELSE "down"
Reaches(conn, fault) == conn # "down" /\ fault # "fails"

PushRing(ring, entry) == SubSeq(<<entry>> \o ring, 1, IF Len(ring) < HotMax THEN Len(ring) + 1
                                                      ELSE HotMax)

\* _write_redis: push, trim, and give the whole key a new lifetime.
WriteRedis(h, rec, now) ==
    LET live == IF h.until[rec.session] > now THEN h.remote[rec.session] ELSE <<>>
        pushed == [h EXCEPT !.remote[rec.session] = PushRing(live, rec)]
    IN [pushed EXCEPT !.until[rec.session] = now + HotTtl]

\* _write_memory: every record has a lifetime of its own.
WriteRing(h, rec, now) ==
    [h EXCEPT !.local[rec.session] = PushRing(@, [rec |-> rec, expires |-> now + HotTtl])]

HotWrite(h, rec, now, fault) ==
    LET remote == IF Reaches(h.conn, fault) THEN WriteRedis(h, rec, now) ELSE h
        whole == IF h.conn # "down" /\ fault = "ok" THEN remote ELSE WriteRing(remote, rec, now)
    IN [whole EXCEPT !.conn = ConnAfter(h.conn, fault)]

LoadRedis(h, s, now) == IF h.until[s] > now THEN Range(h.remote[s]) ELSE {}

\* The newest come first, so those that have not expired are the first of the ring.
LiveRing(h, s, now) ==
    SubSeq(h.local[s], 1, Cardinality({i \in DOMAIN h.local[s] : h.local[s][i].expires > now}))
LoadRing(h, s, now) == {e.rec : e \in Range(LiveRing(h, s, now))}

\* _load: the records it returns, and the cache it leaves.
HotLoad(h, s, now, fault) ==
    IF h.conn # "down" /\ fault = "ok" THEN LoadRedis(h, s, now) ELSE LoadRing(h, s, now)

HotAfterRead(h, s, now, fault) ==
    IF h.conn # "down" /\ fault = "ok" THEN [h EXCEPT !.conn = "up"]
    ELSE [h EXCEPT !.conn = "down", !.local[s] = LiveRing(h, s, now)]

HotHealthcheck(h, fault) == [h EXCEPT !.conn = ConnAfter(@, fault)]

\* clear: a failed delete neither stops the clearing nor ends the connection.
HotClear(h, ss, fault) ==
    [h EXCEPT !.conn = IF @ = "unknown" THEN ConnAfter(@, fault) ELSE @,
              !.remote = [s \in MemSessions |->
                             IF s \in ss /\ Reaches(h.conn, fault) THEN <<>> ELSE @[s]],
              !.local = [s \in MemSessions |-> IF s \in ss THEN <<>> ELSE @[s]]]

\* A new process knows nothing of the old one but what Redis holds.
HotRestart(h) == [h EXCEPT !.conn = "unknown", !.local = [s \in MemSessions |-> <<>>]]

-----------------------------------------------------------------------------
(* The durable tier of the memory (memory/postgres/profile_store.py): one record *)
(* per session, kind and key, in Postgres until it first fails and in the        *)
(* process afterwards.  The key is abstracted to the kind, as for a record whose *)
(* content names none.                                                           *)

ProfileFaults == {"ok", "fails", "lost"}

NewProfileStore == [conn |-> "unknown", rows |-> {}, bucket |-> {}]

ProfileKey(rec) == <<rec.session, rec.kind>>

\* ON CONFLICT DO UPDATE: the new record replaces the one with its key.
Upsert(rows, rec) == {r \in rows : ProfileKey(r) # ProfileKey(rec)} \union {rec}

ProfileConnAfter(conn, fault) == IF conn # "down" /\ fault = "ok" THEN "up" ELSE "down"

WritePg(p, rec, fault) ==
    IF p.conn # "down" /\ fault # "fails" THEN [p EXCEPT !.rows = Upsert(@, rec)] ELSE p

WriteBucket(p, rec, fault) ==
    IF p.conn # "down" /\ fault = "ok" THEN p ELSE [p EXCEPT !.bucket = Upsert(@, rec)]

ProfileWrite(p, rec, fault) ==
    [WriteBucket(WritePg(p, rec, fault), rec, fault)
        EXCEPT !.conn = ProfileConnAfter(p.conn, fault)]

LoadPg(p, s, kinds) == {r \in p.rows : r.session = s /\ r.kind \in kinds}
LoadBucket(p, s, kinds) == {r \in p.bucket : r.session = s /\ r.kind \in kinds}

ProfileLoad(p, s, kinds, fault) ==
    IF p.conn # "down" /\ fault = "ok" THEN LoadPg(p, s, kinds) ELSE LoadBucket(p, s, kinds)

\* healthcheck, and the connection a read leaves.
ProfileHealthcheck(p, fault) == [p EXCEPT !.conn = ProfileConnAfter(@, fault)]

ProfileClear(p, ss, fault) ==
    [p EXCEPT !.conn = IF @ = "unknown" THEN ProfileConnAfter(@, fault) ELSE @,
              !.rows = IF p.conn # "down" /\ fault # "fails" THEN {r \in @ : r.session \notin ss}
                       ELSE @,
              !.bucket = {r \in @ : r.session \notin ss}]

ProfileRestart(p) == [p EXCEPT !.conn = "unknown", !.bucket = {}]

-----------------------------------------------------------------------------
(* The long-term tier of the memory (memory/qdrant/semantic_memory.py): vectors  *)
(* in a Qdrant collection until it first fails and in the process afterwards.    *)
(* Clearing everything drops the collection, which only a new connection makes   *)
(* again, so until then each call to it fails.                                   *)

NewSemanticMemory == [conn |-> "unknown", collection |-> FALSE, points |-> {}, entries |-> {}]

\* _ensure_client: the first use of a process connects and makes the collection.
Connected(m, fault) ==
    IF m.conn = "unknown" /\ fault # "fails" THEN [m EXCEPT !.conn = "up", !.collection = TRUE]
    ELSE IF m.conn = "unknown" THEN [m EXCEPT !.conn = "down"] ELSE m

SemanticWorks(m, fault) == m.conn = "up" /\ m.collection /\ fault = "ok"

WriteQdrant(m, rec, fault) ==
    IF m.conn = "up" /\ m.collection /\ fault # "fails" THEN [m EXCEPT !.points = @ \union {rec}]
    ELSE m

WriteEntries(m, rec) == [m EXCEPT !.conn = "down", !.entries = @ \union {rec}]

SemanticWrite(m0, rec, fault) ==
    LET m == Connected(m0, fault)
    IN IF SemanticWorks(m, fault) THEN WriteQdrant(m, rec, fault)
       ELSE WriteEntries(WriteQdrant(m, rec, fault), rec)

ReadQdrant(m, s, kinds) == {r \in m.points : r.session = s /\ r.kind \in kinds}
ReadEntries(m, s, kinds) == {r \in m.entries : r.session = s /\ r.kind \in kinds}

SemanticLoad(m0, s, kinds, fault) ==
    LET m == Connected(m0, fault)
    IN IF SemanticWorks(m, fault) THEN ReadQdrant(m, s, kinds) ELSE ReadEntries(m, s, kinds)

SemanticAfterRead(m0, fault) ==
    LET m == Connected(m0, fault)
    IN IF SemanticWorks(m, fault) THEN m ELSE [m EXCEPT !.conn = "down"]

\* get_collections answers whether or not the collection is there.
SemanticHealthcheck(m0, fault) ==
    LET m == Connected(m0, fault)
    IN IF m.conn = "up" /\ fault = "ok" THEN m ELSE [m EXCEPT !.conn = "down"]

\* everything: clear(None), which drops the collection.
SemanticClear(m0, ss, everything, fault) ==
    LET m == Connected(m0, fault)
        works == m.conn = "up" /\ m.collection /\ fault # "fails"
    IN [m EXCEPT !.points = IF works THEN {r \in @ : r.session \notin ss} ELSE @,
                 !.collection = IF works /\ everything THEN FALSE ELSE @,
                 !.entries = {r \in @ : r.session \notin ss}]

SemanticRestart(m) == [m EXCEPT !.conn = "unknown", !.entries = {}]

-----------------------------------------------------------------------------
(* The store over the three tiers (memory/store.py): a write goes to the tiers  *)
(* its kind is routed to, a read merges what the tiers find.  Each call of a    *)
(* tier meets what its backend does with it; processes end and start again.     *)

CONSTANTS MaxRecords,  \* bound: records written
          MaxMemTime,  \* bound: clock
          ReadLimits,  \* the k of the queries
          TierScore    \* the score of a record in a tier, by tier and id

Tiers == {"hot", "profile", "semantic"}
Kinds == {"turn_summary", "preference"}

\* DEFAULT_WRITE_POLICY, for the kinds that go to two tiers.
TiersFor(kind) == IF kind = "turn_summary" THEN {"hot", "semantic"} ELSE {"hot", "profile"}

\* No record goes to both of the durable tiers, so these may score alike; other
\* scores differ: which of equals the code's sort puts first is left out.
ASSUME ScoreAssumption ==
    /\ MaxRecords \in Nat /\ ReadLimits \subseteq Nat
    /\ \A t \in Tiers, i \in 1 .. MaxRecords : TierScore[t][i] \in Int
    /\ \A t, u \in Tiers, i, j \in 1 .. MaxRecords :
          TierScore[t][i] = TierScore[u][j] => i = j /\ (t = "hot" <=> u = "hot")

VARIABLES hot, profile, semantic, memClock,
          written,    \* history: every record written
          forgotten,  \* history: records a clear removed from every backend
          bootFrom    \* history: the first id of the running process

memoryVars == <<hot, profile, semantic, memClock, written, forgotten, bootFrom>>

MemoryInit ==
    /\ hot = NewHotCache
    /\ profile = NewProfileStore
    /\ semantic = NewSemanticMemory
    /\ memClock = 0
    /\ written = {}
    /\ forgotten = {}
    /\ bootFrom = 1

NextId == Cardinality(written) + 1

\* write(): f is what each backend does with its call.
WriteMemory(s, kind, f) ==
    LET rec == [id |-> NextId, session |-> s, kind |-> kind]
    IN /\ NextId <= MaxRecords
       /\ written' = written \union {rec}
       /\ hot' = HotWrite(hot, rec, memClock, f["hot"])
       /\ profile' = IF "profile" \in TiersFor(kind) THEN ProfileWrite(profile, rec, f["profile"])
                     ELSE profile
       /\ semantic' = IF "semantic" \in TiersFor(kind)
                      THEN SemanticWrite(semantic, rec, f["semantic"]) ELSE semantic
       /\ UNCHANGED <<memClock, forgotten, bootFrom>>

\* What each tier has for a query, as records with their score there.
Hits(q, f) ==
    LET inHot == {r \in HotLoad(hot, q.session, memClock, f["hot"]) : r.kind \in q.kinds}
        inProfile == ProfileLoad(profile, q.session, q.kinds, f["profile"])
        inSemantic == SemanticLoad(semantic, q.session, q.kinds, f["semantic"])
        Scored(t, rs) == {[rec |-> r, score |-> TierScore[t][r.id], tier |-> t] : r \in rs}
    IN [t \in Tiers |-> Scored(t, IF t = "hot" THEN inHot
                                  ELSE IF t = "profile" THEN inProfile ELSE inSemantic)]

\* The k best of a set of hits: sorting by score and cutting.
TopK(hits, k) == {h \in hits : Cardinality({g \in hits : g.score > h.score}) < k}

\* The best hit of each record.
BestHits(hits) == {h \in hits : \A g \in hits : g.rec = h.rec => g.score <= h.score}

\* The items of read(): every tier cuts to k before the merge cuts again.
Merge(hits, k) == TopK(BestHits(UNION {TopK(hits[t], k) : t \in Tiers}), k)

\* What read() of session s leaves; Merge(Hits(q, f), q.k) is what it returns.
ReadMemory(s, f) ==
    /\ hot' = HotAfterRead(hot, s, memClock, f["hot"])
    /\ profile' = ProfileHealthcheck(profile, f["profile"])
    /\ semantic' = SemanticAfterRead(semantic, f["semantic"])
    /\ UNCHANGED <<memClock, written, forgotten, bootFrom>>

\* A record is forgotten when the deletes of all tiers reach their backends.
ClearMemory(ss, f) ==
    /\ hot' = HotClear(hot, ss, f["hot"])
    /\ profile' = ProfileClear(profile, ss, f["profile"])
    /\ semantic' = SemanticClear(semantic, ss, ss = MemSessions, f["semantic"])
    /\ forgotten' = IF /\ \A t \in Tiers : f[t] # "fails"
                       /\ hot.conn # "down" /\ profile.conn # "down" /\ semantic.conn # "down"
                       /\ semantic.conn = "up" => semantic.collection
                    THEN forgotten \union {r \in written : r.session \in ss} ELSE forgotten
    /\ UNCHANGED <<memClock, written, bootFrom>>

Healthcheck(f) ==
    /\ hot' = HotHealthcheck(hot, f["hot"])
    /\ profile' = ProfileHealthcheck(profile, f["profile"])
    /\ semantic' = SemanticHealthcheck(semantic, f["semantic"])
    /\ UNCHANGED <<memClock, written, forgotten, bootFrom>>

RestartProcess ==
    /\ hot' = HotRestart(hot)
    /\ profile' = ProfileRestart(profile)
    /\ semantic' = SemanticRestart(semantic)
    /\ bootFrom' = NextId
    /\ UNCHANGED <<memClock, written, forgotten>>

MemoryTick ==
    /\ memClock < MaxMemTime
    /\ memClock' = memClock + 1
    /\ UNCHANGED <<hot, profile, semantic, written, forgotten, bootFrom>>

\* At most one backend misbehaves in one call; a read has no effect to lose.
FaultVectors == {[t \in Tiers |-> "ok"]}
                \union {[t \in Tiers |-> IF t = bad THEN fault ELSE "ok"] :
                           bad \in Tiers, fault \in {"fails", "lost"}}
ReadFaults == {f \in FaultVectors : "lost" \notin {f[t] : t \in Tiers}}

Queries == [session : MemSessions, kinds : {Kinds, {"preference"}}, k : ReadLimits]

MemoryNext ==
    \/ \E s \in MemSessions, kind \in Kinds, f \in FaultVectors : WriteMemory(s, kind, f)
    \/ \E s \in MemSessions, f \in ReadFaults : ReadMemory(s, f)
    \/ \E ss \in {MemSessions} \union {{s} : s \in MemSessions}, f \in FaultVectors :
          ClearMemory(ss, f)
    \/ \E f \in ReadFaults : Healthcheck(f)
    \/ RestartProcess
    \/ MemoryTick

MemorySpec == MemoryInit /\ [][MemoryNext]_memoryVars

-----------------------------------------------------------------------------
\* Memory keeps its word, whatever is asked and whichever backend fails during the
\* read.  The items are of the session and kinds asked for, each once, and the
\* best of all that the tiers hold although each tier cuts its own list first;
\* nothing that a complete clear removed comes back, not even after a restart;
\* within one process the profile never answers with a value that a later write
\* of the process replaced; the process reads of its own ring what has not expired,
\* all of it and nothing else; and a tier that has not failed has no copies of its
\* own that would hide what its backend holds.
MemoryKeepsItsWord ==
    /\ \A q \in Queries, f \in ReadFaults :
           LET hits == Hits(q, f)
               items == Merge(hits, q.k)
           IN /\ \A h \in items : /\ h.rec \in written \ forgotten
                                  /\ h.rec.session = q.session /\ h.rec.kind \in q.kinds
              /\ Cardinality(items) = Cardinality({h.rec : h \in items})
              /\ Cardinality(items) <= q.k
              /\ items = TopK(BestHits(UNION {hits[t] : t \in Tiers}), q.k)
              /\ \A h \in hits["profile"] :
                    ~\E w \in written : /\ ProfileKey(w) = ProfileKey(h.rec) /\ w.id > h.rec.id
                                        /\ w.id >= bootFrom
    /\ \A s \in MemSessions : \A i \in DOMAIN hot.local[s] :
           hot.local[s][i].expires > memClock <=> i \in DOMAIN LiveRing(hot, s, memClock)
    /\ hot.conn # "down" => \A s \in MemSessions : hot.local[s] = <<>>
    /\ profile.conn # "down" => profile.bucket = {}
    /\ semantic.conn # "down" => semantic.entries = {}
=============================================================================
