----------------------------- MODULE MCChatThread -----------------------------
(* Two alerts in a short thread, and a tick that meets the interval halfway. *)
EXTENDS ChatThread

CONSTANTS x, y
===============================================================================
