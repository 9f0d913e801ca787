------------------------------ MODULE MCLogger ------------------------------
(* Small instances of Logger, read by a LogViewer and shown in a LogWindow. *)
EXTENDS LogWindow

(* The window has no effect on the rest, and a frame takes as many of the  *)
(* entries as it likes: frames drawn after the last entry was sent take    *)
(* what earlier ones take.  So the run draws none before the machine has   *)
(* halted and its log is read.                                             *)
AllRead == mode = "halted" /\ at.line = Len(log) /\ unread = <<>>

MCInit == ViewerInit /\ WindowInit

MCNext ==
  \/ ViewerNext /\ UNCHANGED windowVars
  \/ AllRead /\ update /\ UNCHANGED vars

MCSpec == MCInit /\ [][MCNext]_<<vars, windowVars>>

Maps == {1}

Counts == {<<1>>}

TwoPieces == {<<"[", "1", ",", "1", "]">>}
=============================================================================
