---------------------------- MODULE ReliableLine ----------------------------
(***************************************************************************)
(* What the kernel expects of its serial port: what was sent arrives, each *)
(* character once, as it was, and in order.                                *)
(***************************************************************************)
EXTENDS Naturals, Sequences

CONSTANT Characters

VARIABLES sent, received

line == <<sent, received>>

Init == sent = <<>> /\ received = <<>>

Send ==
  /\ \E c \in Characters : sent' = Append(sent, c)
  /\ UNCHANGED received

Arrive ==
  /\ Len(received) < Len(sent)
  /\ received' = Append(received, sent[Len(received) + 1])
  /\ UNCHANGED sent

Safely == Init /\ [][Send \/ Arrive]_line

Spec == Safely /\ WF_line(Arrive)
=============================================================================
