---------------------------- MODULE MCScreenLayer ----------------------------
(***************************************************************************)
(* The overlay with two screens: the chat, asked for by a key, which       *)
(* captures input when its script says so, and the voting screen, asked    *)
(* for by the game, which captures it always.                              *)
(***************************************************************************)
EXTENDS ScreenLayer
=============================================================================
