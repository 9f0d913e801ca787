-------------------------------- MODULE Json --------------------------------
(***************************************************************************)
(* A reader of JSON texts (RFC 8259), one token at a time.  It knows       *)
(* nothing of the kernel: it is what the output of the emitter is held     *)
(* against.  A string is one token, and so is any other simple value.      *)
(***************************************************************************)
EXTENDS Integers, SequencesExt

CONSTANTS Strings, Scalars    \* tokens beside the six below

Punctuation == {"{", "}", "[", "]", ":", ","}

Tokens == Punctuation \cup Strings \cup Scalars

(***************************************************************************)
(* The reader is in the containers it has seen opened, outermost first,    *)
(* and at a place in each: a stack of places.  The empty stack stands for  *)
(* a text that is not JSON.                                                *)
(***************************************************************************)
Fresh == <<"start">>

(* Where a value may stand, and the place after it.                        *)
AfterValue ==
  [start |-> "end", firstItem |-> "nextItem", item |-> "nextItem", value |-> "nextPair"]

Places ==
  {"start", "end", "firstItem", "item", "nextItem",
   "firstKey", "key", "colon", "value", "nextPair"}

Read(stack, token) ==
  LET place == Last(stack)
      Goto(next) == Append(Front(stack), next)
  IN
  IF stack = <<>> THEN <<>>
  ELSE
  CASE token = "{" /\ place \in DOMAIN AfterValue -> Append(Goto(AfterValue[place]), "firstKey")
    [] token = "[" /\ place \in DOMAIN AfterValue -> Append(Goto(AfterValue[place]), "firstItem")
    [] token \in Strings /\ place \in {"firstKey", "key"} -> Goto("colon")
    [] token \in Strings \cup Scalars /\ place \in DOMAIN AfterValue -> Goto(AfterValue[place])
    [] token = ":" /\ place = "colon" -> Goto("value")
    [] token = "," /\ place = "nextPair" -> Goto("key")
    [] token = "," /\ place = "nextItem" -> Goto("item")
    [] token = "}" /\ place \in {"firstKey", "nextPair"} -> Front(stack)
    [] token = "]" /\ place \in {"firstItem", "nextItem"} -> Front(stack)
    [] OTHER -> <<>>

(* The reader after a text.                                                *)
AfterReading(text) ==
  LET reading[i \in 0 .. Len(text)] ==
        IF i = 0 THEN Fresh ELSE Read(reading[i - 1], text[i])
  IN  reading[Len(text)]

(* A whole text: one value and nothing after it.                           *)
IsJson(text) == AfterReading(text) = <<"end">>

(* The keys of the object that a text is.                                  *)
KeysOf(text) ==
  {text[i] : i \in {i \in DOMAIN text :
    AfterReading(SubSeq(text, 1, i - 1)) \in {<<"end", "firstKey">>, <<"end", "key">>}}}
=============================================================================
