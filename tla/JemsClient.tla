----------------------------- MODULE JemsClient -----------------------------
(***************************************************************************)
(* A client of the JSON emitter that writes documents: it closes what it   *)
(* opened, gives each key a value, and puts one value at the top.  The     *)
(* writer hands each token to a reader of JSON.                            *)
(***************************************************************************)
EXTENDS Json

CONSTANTS MAX_LEVEL,    \* elements of the array of levels
          MaxDepth,     \* containers the client nests
          MaxItems      \* items it puts into one, keys counted

INSTANCE Jems WITH Write <- Read

(* The client nests no more containers than there are levels for: the      *)
(* first level is the document's.                                          *)
ASSUME LimitsAssumption ==
  MAX_LEVEL \in Nat \ {0} /\ MaxDepth \in 0 .. (MAX_LEVEL - 1) /\ MaxItems \in Nat

ASSUME TokensAssumption ==
  Strings \cap (Punctuation \cup Scalars) = {} /\ Scalars \cap Punctuation = {}

VARIABLES jems,    \* the emitter; the reader is its arg
          nest     \* what the client has open: records [kind, items]

vars == <<jems, nest>>

top == Last(nest)

(* The client is between pairs of an object, or where a value may stand.   *)
AtKey == top.kind = "object" /\ top.items % 2 = 0
AtValue ==
  CASE top.kind = "document" -> top.items = 0
    [] top.kind = "array"    -> TRUE
    [] top.kind = "object"   -> top.items % 2 = 1

Room(n) == top.items + n <= MaxItems

Deeper == Len(nest) <= MaxDepth

(* n more items are in the container on top.                               *)
Count(n) == Append(Front(nest), [top EXCEPT !.items = @ + n])

Opened(n, kind) == Append(Count(n), [kind |-> kind, items |-> 0])

-----------------------------------------------------------------------------
Init ==
  /\ jems = jems_init(ZeroLevels(MAX_LEVEL), MAX_LEVEL, Fresh)
  /\ nest = <<[kind |-> "document", items |-> 0]>>

PutScalar(value) ==
  /\ AtValue /\ Room(1)
  /\ jems' = jems_scalar(jems, value)
  /\ nest' = Count(1)

PutString(string) ==
  /\ \/ AtValue /\ Room(1)
     \/ AtKey /\ Room(2)
  /\ jems' = jems_string(jems, string)
  /\ nest' = Count(1)

PutPair(key, value) ==
  /\ AtKey /\ Room(2)
  /\ \/ value \in Scalars /\ jems' = jems_key_scalar(jems, key, value)
     \/ value \in Strings /\ jems' = jems_key_string(jems, key, value)
  /\ nest' = Count(2)

Open ==
  /\ AtValue /\ Room(1) /\ Deeper
  /\ \/ jems' = jems_object_open(jems) /\ nest' = Opened(1, "object")
     \/ jems' = jems_array_open(jems)  /\ nest' = Opened(1, "array")

OpenPair(key) ==
  /\ AtKey /\ Room(2) /\ Deeper
  /\ \/ jems' = jems_key_object_open(jems, key) /\ nest' = Opened(2, "object")
     \/ jems' = jems_key_array_open(jems, key)  /\ nest' = Opened(2, "array")

Close ==
  /\ \/ AtKey /\ jems' = jems_object_close(jems)
     \/ top.kind = "array" /\ jems' = jems_array_close(jems)
  /\ nest' = Front(nest)

(* The document is finished; the emitter is set up again, on the levels as *)
(* they are, and what follows is another document.                         *)
Restart ==
  /\ top.kind = "document" /\ top.items = 1
  /\ jems' = jems_init(jems.levels, MAX_LEVEL, Fresh)
  /\ nest' = <<[kind |-> "document", items |-> 0]>>

Next ==
  \/ \E value \in Scalars : PutScalar(value)
  \/ \E string \in Strings : PutString(string)
  \/ \E key \in Strings, value \in Scalars \cup Strings : PutPair(key, value)
  \/ Open \/ (\E key \in Strings : OpenPair(key)) \/ Close \/ Restart

Spec == Init /\ [][Next]_vars

-----------------------------------------------------------------------------
(* The place a reader is at in a container with so many items.             *)
PlaceIn(frame) ==
  CASE frame.kind = "document" -> IF frame.items = 0 THEN "start" ELSE "end"
    [] frame.kind = "array"    -> IF frame.items = 0 THEN "firstItem" ELSE "nextItem"
    [] frame.kind = "object"   ->
         IF frame.items = 0 THEN "firstKey"
         ELSE IF frame.items % 2 = 1 THEN "colon" ELSE "nextPair"

(* What has been written is the beginning of a JSON text, and a reader of  *)
(* it is in the containers the client thinks it is in, at the same place:  *)
(* commas, colons and brackets are right at every depth, also when levels  *)
(* are used again after others were closed or after a reset.               *)
Readable == jems.arg = [i \in DOMAIN nest |-> PlaceIn(nest[i])]

(* jems_curr_level returns "the current expression depth" (jems.h:233) and *)
(* jems_item_count "the number of items emitted at this level" (jems.h:238).*)
ReportsPosition ==
  jems_curr_level(jems) = Len(nest) - 1 /\ jems_item_count(jems) = top.items
=============================================================================
