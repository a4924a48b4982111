-------------------------- MODULE ResponseFraming --------------------------
(***************************************************************************)
(* What the server promises a client about the bytes of its responses on   *)
(* one connection: a response is a head, then a body, then an end the      *)
(* client can recognise (the null chunk, or the close of the connection);  *)
(* the server goes back to reading requests when the client has seen that  *)
(* end, or when the handler left no room for it: then the client can only  *)
(* give up.  Abstract specification implemented by SendBuffer.             *)
(***************************************************************************)

VARIABLES
  stage,    \* how far the client's parser got: "idle", "head", "body", "lost"
  serving,  \* the server is working on a response
  roomy     \* the handler that made the last response left room for its end

framingVars == <<stage, serving, roomy>>

FramingInit ==
  /\ stage = "idle"
  /\ ~serving
  /\ roomy = TRUE

(* A request has been read; its response starts.                           *)
Begin ==
  /\ ~serving
  /\ stage = "idle"
  /\ serving'
  /\ UNCHANGED <<stage, roomy>>

(* A part of the response reaches the client: never a head after a body.   *)
(* With the last part of a body that ends by a close, the handler is done. *)
Deliver ==
  /\ serving
  /\ \/ stage = "idle" /\ stage' \in {"idle", "head", "body"}
     \/ stage \in {"head", "body"} /\ stage' \in {stage, "body"}
  /\ roomy' \in BOOLEAN
  /\ UNCHANGED serving

(* The end of the response reaches the client as the server finishes it.   *)
Finish ==
  /\ serving
  /\ ~serving'
  /\ stage' = "idle"
  /\ roomy' \in BOOLEAN

(* The server finishes a response whose end finds no room.                 *)
Lose ==
  /\ serving
  /\ ~serving'
  /\ stage' = "lost" /\ ~roomy'

(* The client gives up on it and connects again.                           *)
Reconnect ==
  /\ stage = "lost"
  /\ stage' = "idle" /\ roomy' = TRUE
  /\ UNCHANGED serving

FramingNext == Begin \/ Deliver \/ Finish \/ Lose \/ Reconnect

FramingSpec == FramingInit /\ [][FramingNext]_framingVars
=============================================================================
