---------------------------- MODULE MCJemsClient ----------------------------
(* A small instance of JemsClient: one string and one number.              *)
EXTENDS JemsClient

Text == {"text"}

Numbers == {"1"}
=============================================================================
