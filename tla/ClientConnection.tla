------------------------------ MODULE ClientConnection ------------------------------
(* The client's side of a connection (client/src/audio): the transport with its *)
(* reconnects, and the session over it.                                         *)
EXTENDS Integers, Sequences, FiniteSets, SequencesExt

-----------------------------------------------------------------------------
(***************************************************************************)
(* client/src/audio/webrtc.ts: RealtimeTransportClient over WebSockets.    *)
(* Sockets open, fail and drop at any time; frames are buffered while      *)
(* there is no connection; reconnects are timers.  A handler runs without  *)
(* interruption, a connect() is awaited.                                   *)
(***************************************************************************)

CONSTANTS
  MaxSockets,   \* sockets made in a run (bound)
  MaxFrames,    \* frames captured in a run (bound)
  MaxBuffer,    \* maxOutboundBuffer
  MaxAttempts   \* maxReconnectAttempts

ASSUME ConnectionAssumption == MaxSockets \in Nat /\ MaxAttempts \in Nat

Sockets == 1 .. MaxSockets

VARIABLES
  tstate,       \* TransportState
  socks,        \* socket -> "unmade", "connecting", "open" or "closed"
  heard,        \* the sockets whose events still reach the client
  cur,          \* this.transport (0: null)
  attempts,     \* reconnectAttempts
  timers,       \* reconnect timers that will fire: the one this.reconnectTimer
                \* names, if any, and those whose name was overwritten
  intentional,  \* intentionalClose
  frames,       \* frames handed to send()
  outbound,     \* frames buffered
  wire,         \* frames sent on an open socket
  shed          \* frames given up because the buffer was full

tvars == <<tstate, socks, heard, cur, attempts, timers, intentional, frames, outbound, wire, shed>>
tData == <<frames, outbound, wire, shed>>

TInit ==
  /\ tstate = "new"
  /\ socks = [k \in Sockets |-> "unmade"]
  /\ heard = {}
  /\ cur = 0
  /\ attempts = 0
  /\ timers = [named |-> FALSE, orphans |-> 0]
  /\ intentional = FALSE
  /\ frames = 0 /\ outbound = <<>> /\ wire = <<>> /\ shed = {}

Unmade == {k \in Sockets : socks[k] = "unmade"}
NextSocket == CHOOSE k \in Unmade : \A j \in Unmade : k <= j
IsOpen(k) == k # 0 /\ socks[k] = "open"

(* connect(): a new socket takes the place of whatever was there. *)
ConnectTransport ==
  /\ Unmade # {}
  /\ intentional' = FALSE
  /\ tstate' = "connecting"
  /\ cur' = NextSocket
  /\ socks' = [socks EXCEPT ![NextSocket] = "connecting"]
  /\ heard' = heard \cup {NextSocket}
  /\ UNCHANGED <<attempts, timers, tData>>

(* handleOpen: the buffer is flushed onto this.transport. *)
Opened(k) ==
  /\ socks[k] = "connecting" /\ k \in heard
  /\ socks' = [socks EXCEPT ![k] = "open"]
  /\ attempts' = 0
  /\ tstate' = "connected"
  /\ wire' = IF k = cur \/ IsOpen(cur) THEN wire \o outbound ELSE wire
  /\ outbound' = <<>>
  /\ UNCHANGED <<heard, cur, timers, intentional, frames, shed>>

(* scheduleReconnect, n times in a row: a later timer takes the name. *)
Reschedule(n) ==
  LET made == IF attempts + n <= MaxAttempts THEN n ELSE MaxAttempts - attempts IN
  IF intentional THEN UNCHANGED <<attempts, timers, tstate>>
  ELSE /\ attempts' = attempts + made
       /\ timers' = IF made = 0 THEN timers
                    ELSE [named |-> TRUE,
                          orphans |-> timers.orphans + made - (IF timers.named THEN 0 ELSE 1)]
       /\ tstate' = IF made = n THEN "reconnecting" ELSE "disconnected"

(* A socket that fails to connect fires error, which rejects the awaited   *)
(* connect() whose catch schedules a reconnect, and then close, which      *)
(* schedules another one.                                                  *)
Failed(k) ==
  /\ socks[k] = "connecting" /\ k \in heard
  /\ socks' = [socks EXCEPT ![k] = "closed"]
  /\ Reschedule(2)
  /\ UNCHANGED <<heard, cur, intentional, tData>>

(* An open socket drops: handleClose. *)
Dropped(k) ==
  /\ socks[k] = "open" /\ k \in heard
  /\ socks' = [socks EXCEPT ![k] = "closed"]
  /\ IF intentional \/ tstate = "closed" THEN UNCHANGED <<attempts, timers, tstate>>
     ELSE Reschedule(1)
  /\ UNCHANGED <<heard, cur, intentional, tData>>

(* A mutation: the socket that is replaced stays open. *)
TimerLeavesSocket ==
  /\ \/ timers.named /\ timers' = [timers EXCEPT !.named = FALSE]
     \/ timers.orphans > 0 /\ timers' = [timers EXCEPT !.orphans = @ - 1]
  /\ IF intentional THEN UNCHANGED <<cur, socks, heard>>
     ELSE /\ Unmade # {}
          /\ cur' = NextSocket
          /\ socks' = [socks EXCEPT ![NextSocket] = "connecting"]
          /\ heard' = heard \cup {NextSocket}
  /\ UNCHANGED <<tstate, attempts, intentional, tData>>

(* A timer fires: attemptReconnect closes the present socket and makes one. *)
TimerFires ==
  /\ \/ timers.named /\ timers' = [timers EXCEPT !.named = FALSE]
     \/ timers.orphans > 0 /\ timers' = [timers EXCEPT !.orphans = @ - 1]
  /\ IF intentional THEN UNCHANGED <<cur, socks, heard>>
     ELSE /\ Unmade # {}
          /\ cur' = NextSocket
          /\ socks' = [k \in Sockets |-> IF k = NextSocket THEN "connecting"
                                         ELSE IF k = cur THEN "closed" ELSE socks[k]]
          /\ heard' = (heard \ {cur}) \cup {NextSocket}
  /\ UNCHANGED <<tstate, attempts, intentional, tData>>

(* send(): transmit, or buffer and drop the oldest. *)
SendFrame ==
  /\ frames < MaxFrames
  /\ frames' = frames + 1
  /\ IF tstate = "connected" /\ IsOpen(cur)
     THEN wire' = Append(wire, frames + 1) /\ UNCHANGED <<outbound, shed>>
     ELSE LET all == Append(outbound, frames + 1) IN
          IF Len(all) > MaxBuffer
          THEN outbound' = Tail(all) /\ shed' = shed \cup {Head(all)} /\ UNCHANGED wire
          ELSE outbound' = all /\ UNCHANGED <<wire, shed>>
  /\ UNCHANGED <<tstate, socks, heard, cur, attempts, timers, intentional>>

(* close(): only the named timer can be cleared. *)
CloseTransport ==
  /\ intentional' = TRUE
  /\ timers' = [timers EXCEPT !.named = FALSE]
  /\ socks' = IF cur = 0 THEN socks ELSE [socks EXCEPT ![cur] = "closed"]
  /\ heard' = heard \ {cur}
  /\ cur' = 0
  /\ tstate' = "closed"
  /\ UNCHANGED <<attempts, tData>>

-----------------------------------------------------------------------------
(***************************************************************************)
(* client/src/audio/session.ts and the start and stop of capture.ts, on    *)
(* top of the transport: SoulYatriAudioSession.start() awaits the          *)
(* transport's connect() and then the microphone; stop() awaits the        *)
(* microphone's release and then closes the transport.                     *)
(***************************************************************************)

CONSTANTS
  Retry,       \* start() may be called again after it has failed
  StopEarly    \* stop() may come while start() waits for the microphone

VARIABLES
  sstate,    \* SessionState
  starting,  \* where start() waits: "no", "connect" or "mic"
  awaited,   \* the socket whose connect() the session's start() awaits
  stopping,  \* stop() waits for the capture to stop
  mic,       \* capture.running
  stopped    \* stop() has come to its end and start() has not been called since

svars == <<sstate, starting, awaited, stopping, mic, stopped>>
clientVars == <<tvars, svars>>

SInit ==
  /\ TInit
  /\ sstate = "idle" /\ starting = "no" /\ awaited = 0
  /\ stopping = FALSE /\ mic = FALSE /\ stopped = FALSE

Start ==
  /\ sstate \notin {"running", "starting"}
  /\ sstate = "error" => Retry
  /\ starting # "mic" /\ ~stopping
  /\ ConnectTransport
  /\ sstate' = "starting" /\ starting' = "connect" /\ awaited' = NextSocket /\ stopped' = FALSE
  /\ UNCHANGED <<stopping, mic>>

(* The awaited connect() resolves: capture.start() asks for the microphone. *)
SocketOpens(k) ==
  /\ Opened(k)
  /\ starting' = IF starting = "connect" /\ awaited = k THEN "mic" ELSE starting
  /\ UNCHANGED <<sstate, awaited, stopping, mic, stopped>>

(* It rejects: the session is in error, the transport keeps reconnecting.  *)
SocketFails(k) ==
  /\ Failed(k)
  /\ IF starting = "connect" /\ awaited = k
     THEN sstate' = "error" /\ starting' = "no"
     ELSE UNCHANGED <<sstate, starting>>
  /\ UNCHANGED <<awaited, stopping, mic, stopped>>

SocketDrops(k) == Dropped(k) /\ UNCHANGED svars

Reconnect == TimerFires /\ UNCHANGED svars

MicGranted ==
  /\ starting = "mic"
  /\ starting' = "no" /\ mic' = TRUE /\ sstate' = "running"
  /\ UNCHANGED <<tvars, awaited, stopping, stopped>>

MicDenied ==
  /\ starting = "mic"
  /\ starting' = "no" /\ sstate' = "error"
  /\ UNCHANGED <<tvars, awaited, stopping, mic, stopped>>

Captured == mic /\ SendFrame /\ UNCHANGED svars

(* The rest of stop(): the transport is closed, and with it nothing can    *)
(* resolve a connect() that is still awaited.                              *)
Teardown ==
  /\ CloseTransport
  /\ sstate' = "stopped" /\ stopped' = TRUE
  /\ starting' = IF starting = "connect" THEN "no" ELSE starting

(* stop(): a running capture is stopped first, which is awaited.           *)
Stop ==
  /\ sstate \notin {"stopped", "stopping"}
  /\ starting = "mic" => StopEarly
  /\ IF mic
     THEN /\ mic' = FALSE /\ stopping' = TRUE /\ sstate' = "stopping"
          /\ UNCHANGED <<tvars, starting, stopped>>
     ELSE Teardown /\ UNCHANGED <<mic, stopping>>
  /\ UNCHANGED awaited

StopEnds ==
  /\ stopping
  /\ stopping' = FALSE
  /\ Teardown
  /\ UNCHANGED <<mic, awaited>>

SNext ==
  \/ Start \/ MicGranted \/ MicDenied \/ Captured \/ Stop \/ StopEnds \/ Reconnect
  \/ \E k \in Sockets : SocketOpens(k) \/ SocketFails(k) \/ SocketDrops(k)

ClientSpec == SInit /\ [][SNext]_clientVars

-----------------------------------------------------------------------------

(* Every captured frame is on the wire once and in order, or still waits   *)
(* behind what is on the wire, or was the oldest of a full buffer: across  *)
(* drops, reconnects and stops no frame vanishes or overtakes another.     *)
FramesKeepOrder ==
  LET line == wire \o outbound IN
  /\ \A i, j \in DOMAIN line : i < j => line[i] < line[j]
  /\ ToSet(line) \cup shed = 1 .. frames
  /\ ToSet(line) \cap shed = {}

(* However many reconnect timers are under way, one socket at most is      *)
(* connecting or open, it is the one the transport holds, and a session    *)
(* that was stopped holds none and captures nothing.                       *)
OneLiveSocket ==
  /\ \A k \in heard : socks[k] \in {"connecting", "open"} => k = cur
  /\ stopped => cur = 0

ConnectionIsSound == FramesKeepOrder /\ OneLiveSocket

(* stop() ends the capture (session.ts:281): once it has come to its end,  *)
(* no start() under way turns the microphone on.                           *)
StopReleasesMic == stopped => ~mic
=============================================================================
