------------------------------ MODULE WorkPeer ------------------------------
(***************************************************************************)
(* What a client is for the server: one request at a time, each on a       *)
(* connection of its own; first the scene is asked for, then the first     *)
(* chunk, then every chunk that was received is returned, once, and the    *)
(* next one asked for by the same request.  After "bye", or after any      *)
(* failure, there is no further request.                                   *)
(***************************************************************************)
CONSTANTS Chunks,
          NoChunk  \* not one of Chunks

VARIABLES state,   \* "idle", "waiting" for a reply, "bye" or "stopped"
          request, \* the request that is out, or the next one; "none" at the end
          chunk    \* the chunk received and not yet written back

peerVars == <<state, request, chunk>>

PeerInit ==
  /\ state = "idle"
  /\ request = "send_scene"
  /\ chunk = NoChunk

\* The request is on its way, with the chunk if it returns one.
Send ==
  /\ state = "idle"
  /\ state' = "waiting"
  /\ UNCHANGED <<request, chunk>>

\* The request has been written completely.
Written ==
  /\ state = "waiting"
  /\ chunk' = NoChunk
  /\ UNCHANGED <<state, request>>

ReceiveScene ==
  /\ state = "waiting" /\ request = "send_scene"
  /\ state' = "idle"
  /\ request' = "received_scene"
  /\ UNCHANGED chunk

ReceivePixels(k) ==
  /\ state = "waiting" /\ request # "send_scene" /\ chunk = NoChunk
  /\ state' = "idle"
  /\ request' = "computed_pixels"
  /\ chunk' = k

ReceiveBye ==
  /\ state = "waiting"
  /\ state' = "bye"
  /\ request' = "none"
  /\ UNCHANGED chunk

\* A request fails, at any point: what it carried is lost.
Fail ==
  /\ state \in {"idle", "waiting"}
  /\ state' = "stopped"
  /\ request' = "none"
  /\ chunk' = NoChunk

PeerNext ==
  \/ Send \/ Written \/ ReceiveScene \/ ReceiveBye \/ Fail
  \/ \E k \in Chunks : ReceivePixels(k)

PeerSpec == PeerInit /\ [][PeerNext]_peerVars
=============================================================================
