---- MODULE SpeechRuntime ----
(***************************************************************************)
(* speech/moshi_runtime: stream_reply() generators of one session, the     *)
(* session's turn records (session_runtime.py) and the repair controller   *)
(* that cancels, rolls back, restarts and continues turns (repair.py).     *)
(*                                                                         *)
(* A generator runs from one await or yield to the next without being      *)
(* interrupted; between two of them any other generator of the session and *)
(* any caller of the controller may run.  The turn id "<session>-t<k>" is   *)
(* the number k.                                                           *)
(***************************************************************************)
EXTENDS Integers, Sequences, FiniteSets, SequencesExt

CONSTANTS
  Streams,    \* calls of stream_reply for the session
  MaxIn,      \* input chunks of one stream (bound)
  MaxReply,   \* max_reply_chunks
  History     \* DEFAULT_HISTORY

(* A bounded deque that keeps at least the newest record. *)
ASSUME RuntimeAssumption ==
  /\ IsFiniteSet(Streams)
  /\ MaxIn \in Nat /\ MaxReply \in Nat
  /\ History \in Nat \ {0}

Turns == 1 .. Cardinality(Streams)

VARIABLES
  gen,     \* the generators: where each stands and what its consumer got
  sess,    \* SessionState: counter, active turn, history of records
  turns,   \* RepairController._turns: turn id -> TurnControl
  overlapped \* the streams whose turn ran at the same time as another

vars == <<gen, sess, turns, overlapped>>

(* The action a control notes for the log is left out: nothing reads it.   *)
NewControl == [known |-> TRUE, cancelled |-> FALSE, emitted |-> 0, last |-> -1]
NoControl == [NewControl EXCEPT !.known = FALSE]

Cancelled(t) == turns[t].known /\ turns[t].cancelled

(* Clients either number their turns themselves, each with an id of its    *)
(* own and at least one chunk for it, or send no id at all (0).            *)
GivenIds == {f \in [Streams -> {0} \cup Turns] :
               \/ \A s \in Streams : f[s] = 0
               \/ \A s \in Streams : f[s] # 0 /\ \A r \in Streams : f[r] = f[s] => r = s}

Init ==
  /\ \E given \in GivenIds :
       gen = [s \in Streams |-> [pc |-> "input", given |-> given[s], turn |-> 0, in |-> 0,
                                 step |-> 0, n |-> 0, heard |-> 0]]
  /\ overlapped = {}
  /\ sess = [counter |-> 0, active |-> 0, history |-> <<>>]
  /\ turns = [t \in Turns |-> NoControl]

BeginTurn(ss, t) ==
  LET rec == [turn |-> t, in |-> 0, out |-> 0, ended |-> FALSE, cancelled |-> FALSE]
      all == Append(ss.history, rec)
  IN  [counter |-> ss.counter + 1, active |-> t,
       history |-> IF Len(all) > History THEN Tail(all) ELSE all]

(* The newest record of the history, whichever turn it is of. *)
Amended(h, rec) == IF h = <<>> THEN h ELSE [h EXCEPT ![Len(h)] = rec]

ObserveInput(ss) ==
  LET h == ss.history IN [ss EXCEPT !.history = Amended(h, [h[Len(h)] EXCEPT !.in = @ + 1])]

ObserveOutput(ss) ==
  LET h == ss.history IN [ss EXCEPT !.history = Amended(h, [h[Len(h)] EXCEPT !.out = @ + 1])]

EndTurn(ss, t, cancelled) ==
  LET h == ss.history
      rec == h[Len(h)]
  IN  [ss EXCEPT !.history = IF h # <<>> /\ rec.turn = t
                             THEN Amended(h, [rec EXCEPT !.ended = TRUE, !.cancelled = cancelled])
                             ELSE h,
                 !.active = IF @ = t THEN 0 ELSE @]

Begun(s) == gen[s].turn # 0 /\ gen[s].pc \notin {"done", "gone"}

(* The finally clause of stream_reply. *)
Finish(s, g) ==
  /\ gen' = [g EXCEPT ![s].pc = "done"]
  /\ sess' = EndTurn(sess, g[s].turn, Cancelled(g[s].turn))
  /\ UNCHANGED <<turns, overlapped>>

TurnIdFor(s) == IF gen[s].given # 0 THEN gen[s].given ELSE sess.counter + 1

(* Stream s begins its turn. *)
Started(s) == [gen EXCEPT ![s].turn = TurnIdFor(s)]

(* Turns that run at the same time overlap. *)
Overlap(s) ==
  LET running == {r \in Streams \ {s} : Begun(r)}
  IN  overlapped' = IF running = {} THEN overlapped ELSE overlapped \cup running \cup {s}

(* From the last input chunk to the first await of the reply loop.  The    *)
(* reply's length depends on the tokens.                                   *)
EnterReply(s, g, ss, ts) ==
  \E n \in 1 .. MaxReply :
    IF ts[g[s].turn].cancelled
    THEN /\ gen' = [g EXCEPT ![s].pc = "done", ![s].n = n]
         /\ sess' = EndTurn(ss, g[s].turn, TRUE)
         /\ turns' = ts
    ELSE /\ gen' = [g EXCEPT ![s].pc = "asleep", ![s].n = n]
         /\ sess' = ss
         /\ turns' = ts

(* An input chunk: the first one begins and registers the turn. *)
Chunk(s, final) ==
  /\ gen[s].pc = "input"
  /\ gen[s].in < MaxIn
  /\ LET first == gen[s].turn = 0
         begun == IF first THEN Started(s) ELSE gen
         g == [begun EXCEPT ![s].in = @ + 1]
         t == g[s].turn
         ss == ObserveInput(IF first THEN BeginTurn(sess, t) ELSE sess)
         ts == IF first THEN [turns EXCEPT ![t] = NewControl] ELSE turns
     IN  /\ IF final
            THEN EnterReply(s, g, ss, ts)
            ELSE gen' = g /\ sess' = ss /\ turns' = ts
         /\ IF first THEN Overlap(s) ELSE UNCHANGED overlapped

(* The input ends without a final chunk, or without any chunk. *)
EndOfInput(s) ==
  /\ gen[s].pc = "input"
  /\ IF gen[s].turn = 0
     THEN /\ gen[s].given = 0
          /\ LET t == TurnIdFor(s) IN
             EnterReply(s, Started(s), BeginTurn(sess, t), [turns EXCEPT ![t] = NewControl])
          /\ Overlap(s)
     ELSE EnterReply(s, gen, sess, turns) /\ UNCHANGED overlapped

(* A mutation: the control is not looked at after the sleep. *)
EmitUnasked(s) ==
  /\ gen[s].pc = "asleep"
  /\ gen' = [gen EXCEPT ![s].pc = "yielded", ![s].heard = @ + 1]
  /\ turns' = [turns EXCEPT ![gen[s].turn].emitted = @ + 1, ![gen[s].turn].last = gen[s].step]
  /\ sess' = ObserveOutput(sess)
  /\ UNCHANGED overlapped

(* The generator comes back from sleep(0): it looks at the control again   *)
(* and, unless it is cancelled, yields the next chunk.                     *)
Emit(s) ==
  /\ gen[s].pc = "asleep"
  /\ LET t == gen[s].turn IN
     IF Cancelled(t)
     THEN Finish(s, gen)
     ELSE /\ gen' = [gen EXCEPT ![s].pc = "yielded", ![s].heard = @ + 1]
          /\ turns' = [turns EXCEPT ![t].emitted = @ + 1, ![t].last = gen[s].step]
          /\ sess' = ObserveOutput(sess)
          /\ UNCHANGED overlapped

(* The consumer asks for the chunk after the one it has. *)
Pull(s) ==
  /\ gen[s].pc = "yielded"
  /\ LET g == [gen EXCEPT ![s].step = @ + 1] IN
     IF g[s].step = g[s].n \/ Cancelled(g[s].turn)
     THEN Finish(s, g)
     ELSE gen' = [g EXCEPT ![s].pc = "asleep"] /\ UNCHANGED <<sess, turns, overlapped>>

(* The consumer drops the generator, or its task is cancelled in sleep(0). *)
Drop(s) ==
  /\ gen[s].pc \in {"yielded", "asleep"}
  /\ Finish(s, gen)

(* Its task is cancelled while it waits for input: outside the try block.  *)
Abandon(s) ==
  /\ gen[s].pc = "input"
  /\ gen' = [gen EXCEPT ![s].pc = "gone"]
  /\ UNCHANGED <<sess, turns, overlapped>>

(* A call of cancel() by another task; of an unknown turn it is lost. *)
CancelTurn(t) ==
  /\ turns' = IF turns[t].known /\ ~turns[t].cancelled
              THEN [turns EXCEPT ![t].cancelled = TRUE]
              ELSE turns
  /\ UNCHANGED <<gen, sess, overlapped>>

CancelSession ==
  /\ turns' = [t \in Turns |-> [turns[t] EXCEPT !.cancelled = @ \/ turns[t].known]]
  /\ UNCHANGED <<gen, sess, overlapped>>

(* restart() supersedes a turn and registers the one a client will send    *)
(* next, which has not begun.                                              *)
Restart(new) ==
  /\ \A s \in Streams : gen[s].turn # new
  /\ turns' = [turns EXCEPT ![new] = NewControl]
  /\ UNCHANGED <<gen, sess, overlapped>>

(* A mutation: the number of chunks is taken for the number of the last. *)
ContinueAfterCount(t) ==
  IF Cancelled(t)
  THEN [resumable |-> TRUE, heard |-> turns[t].emitted, after |-> turns[t].emitted]
  ELSE [resumable |-> FALSE]

(* continuation_point(): where an interrupted turn stopped. *)
Continuation(t) ==
  IF Cancelled(t)
  THEN [resumable |-> TRUE, heard |-> turns[t].emitted, after |-> turns[t].last]
  ELSE [resumable |-> FALSE]

(* release() forgets the control of a finished turn. *)
Release(t) ==
  /\ \E s \in Streams : gen[s].turn = t /\ gen[s].pc = "done"
  /\ turns' = [turns EXCEPT ![t] = NoControl]
  /\ UNCHANGED <<gen, sess, overlapped>>

====
