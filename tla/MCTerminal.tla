----------------------------- MODULE MCTerminal -----------------------------
(* Small instances of Terminal.                                            *)
EXTENDS Terminal

(* A message that wraps, and one that scrolls the screen as well.          *)
LongMessage == <<"a", "a", "a", Newline, "a", Newline>>
=============================================================================
