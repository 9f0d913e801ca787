------------------------------- MODULE MCLibK -------------------------------
(* A small instance of LibK: ints of eight bits.                           *)
EXTENDS LibK

AllBases == {2, 10, 16}

TwoLetters == {1, 2}

(* On either side of each limit, the characters that are quoted, and what  *)
(* the text of a quoted one is made of.                                    *)
SomeBytes == {0, 31, 32, 34, 48, 92, 117, 126, 127, 128, 255}
=============================================================================
