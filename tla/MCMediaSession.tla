--------------------------- MODULE MCMediaSession ---------------------------
(* One worker with room for one session, and a caller of each kind.          *)
EXTENDS MediaSession
=============================================================================
