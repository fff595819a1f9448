--------------------------- MODULE MCTerminalHub ---------------------------
(* One session, two browsers of which both may write, four chunks: the     *)
(* first is as large as a queue, the last the third of a short one.        *)
EXTENDS TerminalHub

CONSTANTS b1, b2

MCSizeOf == <<3, 1, 1, 1>>
=============================================================================
