----------------------------- MODULE LogViewer -----------------------------
(***************************************************************************)
(* ktracer (src/apps/ktracer/src/main.rs): it reads the file that the      *)
(* serial port is written to while the kernel runs, and shows the entries. *)
(* A read takes what is there, up to the end of the line if there is one.  *)
(***************************************************************************)
EXTENDS Logger

VARIABLES
  at,       \* where tail_log is in the file
  shown     \* the entries it has sent, in order

vars == <<loggerVars, at, shown>>

unread == SubSeq(log[at.line], at.tokens + 1, Len(log[at.line]))

parse_log_entry_any(text) == IsJson(text) /\ Head(text) = "{"    \* mutant: fields not looked at
parse_log_entry(text) ==
  /\ IsJson(text) /\ Head(text) = "{"
  /\ {"level", "component", "message"} \subseteq KeysOf(text)

ViewerInit == Init /\ at = [line |-> 1, tokens |-> 0] /\ shown = <<>>

(* One turn of tail_log's loop that reads something.  What it cannot parse *)
(* it forgets.                                                             *)
tail_log ==
  /\ at.line < Len(log) \/ unread # <<>>
  /\ at' = IF at.line < Len(log) THEN [line |-> at.line + 1, tokens |-> 0]
           ELSE [at EXCEPT !.tokens = Len(line)]
  /\ shown' = IF parse_log_entry(unread) THEN Append(shown, unread) ELSE shown
  /\ UNCHANGED loggerVars

ViewerNext ==
  \/ LoggerNext /\ UNCHANGED <<at, shown>>
  \/ tail_log

ViewerSpec == ViewerInit /\ [][ViewerNext]_vars

-----------------------------------------------------------------------------
Entries == [i \in DOMAIN called |-> Front(called[i])]

(* What the viewer shows was logged: its entries are entries of calls, as  *)
(* they were, in the order of the calls, none twice, although it reads     *)
(* lines in parts and what it reads may begin in the middle of one.        *)
ShownWereLogged ==
  \E from \in [DOMAIN shown -> DOMAIN called] :
    /\ \A i \in DOMAIN shown : shown[i] = Entries[from[i]]
    /\ \A i, j \in DOMAIN shown : i < j => from[i] < from[j]
=============================================================================
