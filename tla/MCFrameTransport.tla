-------------------------- MODULE MCFrameTransport --------------------------
(* Who calls receive_payload, and how the peer sends.                      *)
EXTENDS FrameTransport

(* The handshake with any peer, the managed loop with one that does not    *)
(* stall within a frame.                                                   *)
SoundSettings == {<<"handshake", TRUE>>, <<"handshake", FALSE>>, <<"managed", FALSE>>}

(* The managed loop with a peer that may.                                  *)
StallingSettings == {<<"managed", TRUE>>}
=============================================================================
