--------------------------- MODULE MCShellLifetime ---------------------------
(* Three browsers, a sleep of two Ticks, and a first and a last attempt    *)
(* with one between.                                                       *)
EXTENDS ShellLifetime

CONSTANTS b1, b2, b3
=============================================================================
