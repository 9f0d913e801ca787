----------------------------- MODULE LogWindow -----------------------------
(***************************************************************************)
(* The window of ktracer (src/apps/ktracer/src/main.rs): LogViewer has the *)
(* thread that sends entries, and this is the one that draws frames.  The  *)
(* channel between them keeps all that was sent, in order.                 *)
(*                                                                         *)
(* Of a search term it matters which entries have it in their messages:    *)
(* it is that set of entries, and the empty term is the set of all.        *)
(***************************************************************************)
EXTENDS LogViewer

VARIABLES
  log_entries,      \* a prefix of what was sent
  selected_entry,   \* the index of an entry in a sequence, or an empty one
  search_term,
  clicked           \* history: the label last clicked, in a sequence

windowVars == <<log_entries, selected_entry, search_term, clicked>>

WindowInit ==
  /\ log_entries = <<>> /\ selected_entry = <<>> /\ clicked = <<>>
  /\ search_term = {Front(text) : text \in Texts \cup {PanicText}}

Indices(entries) == [i \in DOMAIN entries |-> i]

(* The labels of a frame from top to bottom: the indices of their entries. *)
labels_backwards(entries, term) ==    \* mutant: numbered after they were reversed
  FoldLeft(LAMBDA rows, i : IF Reverse(entries)[i] \in term THEN Append(rows, i) ELSE rows,
           <<>>, Indices(entries))
labels(entries, term) ==
  FoldLeft(LAMBDA rows, i : IF entries[i] \in term THEN Append(rows, i) ELSE rows,
           <<>>, Reverse(Indices(entries)))

(* The entries that a frame draws, in the order of the labels.             *)
Drawn(entries, term) ==
  FoldLeft(LAMBDA rows, entry : IF entry \in term THEN Append(rows, entry) ELSE rows,
           <<>>, Reverse(entries))

(* A frame takes entries until the channel is empty.  How many have been   *)
(* sent by then is up to the other thread.  Then the user may edit the     *)
(* term, and then click on a label.                                        *)
update ==
  \E count \in Len(log_entries) .. Len(shown), term \in SUBSET {shown[i] : i \in DOMAIN shown} :
    LET entries == SubSeq(shown, 1, count) IN
    /\ log_entries' = entries /\ search_term' \in {search_term, term}
    /\ \/ UNCHANGED <<selected_entry, clicked>>
       \/ \E row \in DOMAIN labels(entries, search_term') :
            /\ selected_entry' = <<labels(entries, search_term')[row]>>
            /\ clicked' = <<Drawn(entries, search_term')[row]>>

WindowNext ==
  \/ ViewerNext /\ UNCHANGED windowVars
  \/ update /\ UNCHANGED vars

WindowSpec == ViewerInit /\ WindowInit /\ [][WindowNext]_<<vars, windowVars>>

-----------------------------------------------------------------------------
(* The details that the next frame shows.                                  *)
details == IF selected_entry = <<>> THEN <<>> ELSE <<log_entries[selected_entry[1]]>>

(* The panel shows the details of the entry whose label was clicked,       *)
(* whatever arrives later, which moves every label down, and whatever the  *)
(* user searches for.                                                      *)
DetailIsClicked == details = clicked
=============================================================================
