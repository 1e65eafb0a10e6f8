--------------------------- MODULE MCSoundManager ----------------------------
(* Two sounds of one file and a stream on two sources: the looping sound is *)
(* the more important one.                                                  *)
EXTENDS SoundManager

CONSTANTS s1, s2

MCPriority == (s1 :> 1) @@ (s2 :> 2)
MCFileOf == (s1 :> "a") @@ (s2 :> "a")
=============================================================================
