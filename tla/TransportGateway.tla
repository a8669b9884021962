-------------------------- MODULE TransportGateway --------------------------
(***************************************************************************)
(* One session id in the edge's TransportGateway: the GatewaySession kept  *)
(* under it, with its JitterBuffer, and the sink remembered for it         *)
(* (edge/webrtc_gateway/gateway.py).  A frame is its sequence number; the  *)
(* network may delay, reorder, duplicate and lose frames, so any number    *)
(* may arrive next, with is_final set or not.  The gateway does nothing    *)
(* that concerns two session ids.                                          *)
(*                                                                         *)
(* "idle" is the time since last_active_ms.  A session that is closed      *)
(* stays in _sessions until it is swept.  The counters kept only for logs  *)
(* (frames_dropped, reconnect_count) and what ingest returns are left out. *)
(***************************************************************************)
EXTENDS Integers, Sequences, FiniteSets

CONSTANTS
    MaxSeq,         \* bound: largest sequence number
    MaxPending,     \* max_pending
    Ttl             \* session_ttl_ms, in clock ticks

ASSUME GatewayAssumption ==
    /\ MaxSeq \in Nat
    /\ MaxPending \in Nat \ {0}
    /\ Ttl \in Nat

VARIABLES
    state,      \* "none" if _sessions has no session, else its ConnectionState
    next,       \* _next_seq of its jitter buffer
    pending,    \* the sequence numbers of _pending
    delivered,  \* frames handed to _deliver, in order
    ingested,   \* frames_ingested
    idle,       \* ticks since last_active_ms, up to Ttl + 1
    sink,       \* the session has a sink
    kept        \* _sinks has a sink for the id

vars == <<state, next, pending, delivered, ingested, idle, sink, kept>>

Seqs == 0 .. MaxSeq

Run(a, b) == [i \in 1 .. b - a |-> a + i - 1]

\* A plausible slip: the buffered frames are released in any order.
Unsorted(R) ==
    {s \in [1 .. Cardinality(R) -> R] : \A r \in R : \E i \in 1 .. Cardinality(R) : s[i] = r}

\* The set holding the one increasing sequence of the members of R: sorted(R).
Sorted(R) ==
    {s \in [1 .. Cardinality(R) -> R] :
        /\ \A i, j \in 1 .. Cardinality(R) : i < j => s[i] < s[j]
        /\ \A r \in R : \E i \in 1 .. Cardinality(R) : s[i] = r}

\* The types of the state; the cursor stays within one of the largest number.
TypeOK ==
    /\ state \in {"none", "connected", "disconnected", "closed"}
    /\ next \in 0 .. MaxSeq + 1
    /\ pending \in SUBSET Seqs
    /\ delivered \in Seq(Seqs)
    /\ ingested \in Nat
    /\ idle \in 0 .. Ttl + 1
    /\ sink \in BOOLEAN /\ kept \in BOOLEAN

Init ==
    /\ state = "none"
    /\ next = 0
    /\ pending = {}
    /\ delivered = <<>>
    /\ ingested = 0
    /\ idle = 0
    /\ sink = FALSE /\ kept = FALSE

\* A session is there to resume: neither unknown nor closed.
Live == state \in {"connected", "disconnected"}

-----------------------------------------------------------------------------
\* A plausible slip: a session that is opened anew takes only the given sink.
NewSessionForgetting(given) ==
    /\ next' = 0
    /\ pending' = {}
    /\ delivered' = <<>>
    /\ ingested' = 0
    /\ sink' = given
    /\ kept' = (given \/ kept)

\* A new GatewaySession, given the sink it is called with or the remembered one.
NewSession(given) ==
    /\ next' = 0
    /\ pending' = {}
    /\ delivered' = <<>>
    /\ ingested' = 0
    /\ sink' = (given \/ kept)
    /\ kept' = (given \/ kept)

\* open_session and reconnect: an existing session is resumed as it is.
Connect(given) ==
    /\ state' = "connected"
    /\ idle' = 0
    /\ IF Live
       THEN /\ sink' = (given \/ sink)
            /\ kept' = (given \/ kept)
            /\ UNCHANGED <<next, pending, delivered, ingested>>
       ELSE NewSession(given)

OpenSession(given) == Connect(given)

Reconnect(given) == Connect(given)

Disconnect ==
    /\ Live
    /\ state' = "disconnected"
    /\ idle' = 0
    /\ UNCHANGED <<next, pending, delivered, ingested, sink, kept>>

-----------------------------------------------------------------------------
\* JitterBuffer.push refuses a frame it has delivered, skipped or still holds.
Stale(n, P, f) == f < n \/ f \in P

\* A plausible slip: a full buffer is drained from the cursor, gap or no gap.
KeepWaiting(n, P, start) == start = n

\* Where draining starts: an overflow skips the gap before the lowest frame.
StartsAt(n, P, start) ==
    IF Cardinality(P) > MaxPending
    THEN \E lowest \in P :
            /\ \A p \in P : lowest <= p
            /\ start = IF lowest > n THEN lowest ELSE n
    ELSE start = n

\* _drain: the run of buffered frames from start on, up to the first gap.
DrainsTo(P, start, stop) ==
    /\ start .. stop - 1 \subseteq P
    /\ stop \notin P

\* The frames of R, in order, follow the run on its way to the sink.
Flushed(D, run, R) == \E s \in Sorted(R) : delivered' = D \o run \o s

\* A plausible slip: flush leaves the cursor where it was.
CursorUnmoved(stop, R) == next' = stop

\* A plausible slip: the cursor skips the frame after the last one flushed.
CursorTooFar(stop, R) ==
    IF R = {} THEN next' = stop
    ELSE \E top \in R : (\A r \in R : r <= top) /\ next' = top + 2

CursorAfterFlush(stop, R) ==
    IF R = {} THEN next' = stop
    ELSE \E top \in R : (\A r \in R : r <= top) /\ next' = top + 1

\* A fresh frame f for a buffer with cursor n and pending frames P, in a session
\* that has delivered D: the run that is now complete is released, and after the
\* final frame of a stream everything else that is buffered.
Accept(n, P, D, f, final) ==
    \E start \in Seqs \cup {n} : \E stop \in start .. MaxSeq + 1 :
        LET all == P \cup {f}
            rest == all \ (start .. stop - 1)
        IN
        /\ StartsAt(n, all, start)
        /\ DrainsTo(all, start, stop)
        /\ IF final
           THEN /\ Flushed(D, Run(start, stop), rest)
                /\ pending' = {}
                /\ CursorAfterFlush(stop, rest)
           ELSE /\ delivered' = D \o Run(start, stop)
                /\ pending' = rest
                /\ next' = stop

\* ingest on a live session.  A stale frame is dropped; it marks a disconnected
\* session connected, but does not count as activity of a connected one.
Ingest(f, final) ==
    /\ Live
    /\ state' = "connected"
    /\ \/ /\ Stale(next, pending, f)
          /\ idle' = IF state = "connected" THEN idle ELSE 0
          /\ UNCHANGED <<next, pending, delivered, ingested>>
       \/ /\ ~Stale(next, pending, f)
          /\ Accept(next, pending, delivered, f, final)
          /\ ingested' = ingested + 1
          /\ idle' = 0
    /\ UNCHANGED <<sink, kept>>

\* ingest for an id without a live session opens one on demand.
IngestOpens(f, final) ==
    /\ ~Live
    /\ state' = "connected"
    /\ idle' = 0
    /\ sink' = kept
    /\ Accept(0, {}, <<>>, f, final)
    /\ ingested' = 1
    /\ UNCHANGED <<kept>>

-----------------------------------------------------------------------------
\* A plausible slip: close drops what is buffered.
CloseDropping ==
    /\ pending' = {}
    /\ CursorAfterFlush(next, pending)
    /\ UNCHANGED delivered

\* A plausible slip: close does not touch the buffer.
CloseKeeping == UNCHANGED <<pending, next, delivered>>

\* close: what is buffered is delivered.
Close ==
    /\ Flushed(delivered, <<>>, pending)
    /\ pending' = {}
    /\ CursorAfterFlush(next, pending)

CloseSession ==
    /\ state # "none"
    /\ Close
    /\ state' = "closed"
    /\ idle' = 0
    /\ UNCHANGED <<ingested, sink, kept>>

\* sweep_expired finds the session idle for longer than the TTL, closes it and
\* forgets it, with the sink remembered for the id.
Sweep ==
    /\ state # "none"
    /\ idle > Ttl
    /\ Close
    /\ state' = "none"
    /\ kept' = FALSE
    /\ UNCHANGED <<ingested, idle, sink>>

Tick ==
    /\ state # "none"
    /\ idle' = IF idle <= Ttl THEN idle + 1 ELSE idle
    /\ UNCHANGED <<state, next, pending, delivered, ingested, sink, kept>>

Next ==
    \/ \E given \in BOOLEAN : OpenSession(given) \/ Reconnect(given)
    \/ \E f \in Seqs, final \in BOOLEAN : Ingest(f, final) \/ IngestOpens(f, final)
    \/ Disconnect \/ CloseSession \/ Sweep \/ Tick

Spec == Init /\ [][Next]_vars

-----------------------------------------------------------------------------
(* Properties *)

Increasing(s) == \A i, j \in 1 .. Len(s) : i < j => s[i] < s[j]

\* "releases frames in monotonic seq order", "de-duplicated": along any arrival
\* order, overflow, final frame, disconnect and resumption, the frames of one
\* session reach the sink in increasing order and none twice, all of them below
\* the cursor that decides what is stale.
DeliveredInOrder ==
    /\ Increasing(delivered)
    /\ \A i \in 1 .. Len(delivered) : delivered[i] < next

\* The buffer holds frames back only behind a gap, and never more than
\* max_pending of them.
HeldBehindGap ==
    /\ \A p \in pending : p > next
    /\ Cardinality(pending) <= MaxPending

\* frames_ingested is honest: every frame counted was delivered or is pending, so
\* neither an overflow nor a flush, a drop or a reconnect loses an accepted frame.
AcceptedAreAccountedFor == ingested = Len(delivered) + Cardinality(pending)

\* A session that is closed or gone holds nothing back.
ReleasedHoldsNothing == ~Live => pending = {}

\* The gateway implements an ordered channel that restarts only when empty.
Channel == INSTANCE OrderedDelivery WITH Numbers <- Seqs, held <- pending, out <- delivered
ImplementsChannel == Channel!Spec

\* Across drops, reconnects and closes, with a sink given or not, a session that
\* takes frames hands them to the client's sink if one is remembered.
DeliversToKeptSink == Live => sink = kept
=============================================================================
