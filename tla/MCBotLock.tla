------------------------------- MODULE MCBotLock -------------------------------
(* Three terminals, and one file more than processes that can hold one open. *)
EXTENDS BotLock
CONSTANTS p1, p2, p3, f1, f2, f3, f4
AllProcs == {p1, p2, p3}
AllFiles == {f1, f2, f3, f4}
===============================================================================
