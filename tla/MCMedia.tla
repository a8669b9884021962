---- MODULE MCMedia ----
(***************************************************************************)
(* The parts of the media path next to each other: the speech runtime with *)
(* its decoder, the token stream and the codec on the server, the session  *)
(* and the player in the browser.  The run's first state says which of     *)
(* them moves, the others stay where they start.                           *)
(***************************************************************************)
EXTENDS SpeechDecoder, SpeechCodec, ClientConnection, StreamPlayer

VARIABLE side

mcVars == <<allvars, tokVars, blkVars, clientVars, playVars, side>>

MCInit ==
  /\ DecInit /\ TokInit /\ BlkInit /\ SInit /\ PlayInit
  /\ side \in {"reply", "tokens", "codec", "client", "player"}

MCNext ==
  /\ \/ side = "reply" /\ DecNext /\ UNCHANGED <<tokVars, blkVars, clientVars, playVars>>
     \/ side = "tokens" /\ TokNext /\ UNCHANGED <<allvars, blkVars, clientVars, playVars>>
     \/ side = "codec" /\ BlkNext /\ UNCHANGED <<allvars, tokVars, clientVars, playVars>>
     \/ side = "client" /\ SNext /\ UNCHANGED <<allvars, tokVars, blkVars, playVars>>
     \/ side = "player" /\ PlayNext /\ UNCHANGED <<allvars, tokVars, blkVars, clientVars>>
  /\ UNCHANGED side

MCSpec == MCInit /\ [][MCNext]_mcVars /\ (side = "tokens" => TokFairness)

(* The stream's liveness, in the runs in which it moves. *)
StreamNeverHangs == side = "tokens" => NobodyHangs

====
