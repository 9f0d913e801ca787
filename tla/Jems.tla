-------------------------------- MODULE Jems --------------------------------
(***************************************************************************)
(* The JSON emitter (src/libs/jems/src/jems.c).  Its functions take an     *)
(* emitter and return it, so they are operators on emitters here: records  *)
(* of the array of levels, the current level, and arg, which the writer    *)
(* callback changes as tokens are written to it.                           *)
(*                                                                         *)
(* A token is a bracket, a comma, a colon, or a whole string or number;    *)
(* the quoting of characters and the printing of digits are within a       *)
(* token.                                                                  *)
(***************************************************************************)
EXTENDS Integers, SequencesExt

CONSTANT Write(_, _)    \* the writer: arg after a token was written to it

level_ref(jems) == jems.levels[jems.curr_level]

emit_char(jems, token) == [jems EXCEPT !.arg = Write(jems.arg, token)]

(* The comma or colon before the next item, and the item is counted.       *)
commify_commas(jems) ==    \* mutant: keys are items like others
  LET level == level_ref(jems)
      separated == IF level.item_count = 0 THEN jems ELSE emit_char(jems, ",")
  IN  [separated EXCEPT !.levels[jems.curr_level].item_count = @ + 1]
commify(jems) ==
  LET level == level_ref(jems)
      separated ==
        IF level.item_count = 0 THEN jems
        ELSE emit_char(jems, IF level.is_object /\ level.item_count % 2 = 1 THEN ":" ELSE ",")
  IN  [separated EXCEPT !.levels[jems.curr_level].item_count = @ + 1]

(* A level's count starts at zero, whatever was left in it.                *)
push_level_stale(jems, is_object) ==    \* mutant: the count is not reset
  [jems EXCEPT !.curr_level = @ + 1,
               !.levels[jems.curr_level + 1].is_object = is_object]
push_level(jems, is_object) ==
  IF jems.curr_level < jems.max_level - 1
  THEN [jems EXCEPT !.curr_level = @ + 1,
                    !.levels[jems.curr_level + 1] =
                      [item_count |-> 0, is_object |-> is_object]]
  ELSE jems

pop_level(jems) ==
  IF jems.curr_level > 0 THEN [jems EXCEPT !.curr_level = @ - 1] ELSE jems

-----------------------------------------------------------------------------
jems_reset(jems) ==
  [jems EXCEPT !.curr_level = 0,
               !.levels[0] = [item_count |-> 0, is_object |-> FALSE]]

(* The array of levels is static in all its uses: it starts as zeros, and  *)
(* later holds what earlier uses left there.                               *)
ZeroLevels(max_level) ==
  [i \in 0 .. (max_level - 1) |-> [item_count |-> 0, is_object |-> FALSE]]

jems_init(levels, max_level, arg) ==
  jems_reset([levels |-> levels, max_level |-> max_level, curr_level |-> 0, arg |-> arg])

jems_object_open(jems)  == push_level(emit_char(commify(jems), "{"), TRUE)
jems_object_close(jems) == pop_level(emit_char(jems, "}"))
jems_array_open(jems)   == push_level(emit_char(commify(jems), "["), FALSE)
jems_array_close(jems)  == pop_level(emit_char(jems, "]"))

(* jems_number, _integer, _bool, _true, _false and _null.                  *)
jems_scalar(jems, value) == emit_char(commify(jems), value)

(* jems_string and jems_bytes.                                             *)
jems_string(jems, string) == emit_char(commify(jems), string)

jems_literal(jems, tokens) == FoldLeft(emit_char, commify(jems), tokens)

(* A key and what belongs to it.                                           *)
jems_key_object_open(jems, key)     == jems_object_open(jems_string(jems, key))
jems_key_array_open(jems, key)      == jems_array_open(jems_string(jems, key))
jems_key_scalar(jems, key, value)   == jems_scalar(jems_string(jems, key), value)
jems_key_string(jems, key, string)  == jems_string(jems_string(jems, key), string)
jems_key_literal(jems, key, tokens) == jems_literal(jems_string(jems, key), tokens)

jems_curr_level(jems) == jems.curr_level
jems_item_count(jems) == level_ref(jems).item_count
=============================================================================
