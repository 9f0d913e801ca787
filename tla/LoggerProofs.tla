---------------------------- MODULE LoggerProofs ----------------------------
(***************************************************************************)
(* Theorems about the log: whatever memory maps and lists of free blocks   *)
(* are logged, and wherever exceptions come, the lines that no exception   *)
(* came into are JSON, a machine that halts in a panic has logged it, and  *)
(* what the log viewer shows are entries that were logged, in their order, *)
(* and as a window keeps to its text.                                      *)
(*                                                                         *)
(* The logger's emitters write to a text, those of JemsProofs to a reader. *)
(* Reading the text takes the one to the other (Seen), so what is proved   *)
(* there of each function holds of the logger's emitters.                  *)
(***************************************************************************)
EXTENDS LogWindow, Lemmas

(* The lemmas cited from there are about emitters with any number of       *)
(* levels and not about the client, its limits and variables.              *)
Doc == INSTANCE JemsProofs WITH
  Strings <- {"level", "component", "message", "data", "field", "text", "INFO", "DEBUG", "FATAL"},
  Scalars <- {"1"},
  MAX_LEVEL <- 1, MaxDepth <- 0, MaxItems <- 0, jems <- log, nest <- pending

LEMMA DocAssumptions == Doc!LimitsAssumption /\ Doc!TokensAssumption
<1>1. Doc!LimitsAssumption
  BY DEF Doc!LimitsAssumption
<1>2. Doc!TokensAssumption
  BY DEF Doc!TokensAssumption, Doc!Punctuation
<1> QED
  BY <1>1, <1>2

-----------------------------------------------------------------------------
(* Reading a text.  The reader's states are those of a recursive function  *)
(* on its prefixes; there is one, and it is the only one.                  *)
Reading(r, text) ==
  /\ r[0] = Fresh
  /\ \A i \in 1 .. Len(text) : r[i] = Read(r[i - 1], text[i])

LEMMA ReadingExists ==
  ASSUME NEW text, NEW l \in Nat
  PROVE  \E r : r = [i \in 0 .. l |-> IF i = 0 THEN Fresh ELSE Read(r[i - 1], text[i])]
<1> DEFINE Value(r, i) == IF i = 0 THEN Fresh ELSE Read(r[i - 1], text[i])
           Upto(n) == \E r : r = [i \in 0 .. n |-> Value(r, i)]
           Bad == {n \in Nat : ~ Upto(n)}
<1>1. Upto(0)
  <2> DEFINE r == [i \in 0 .. 0 |-> Fresh]
  <2>1. r = [i \in 0 .. 0 |-> Value(r, i)]
    OBVIOUS
  <2> QED
    BY <2>1
<1>2. ASSUME NEW n \in Nat, Upto(n)
      PROVE  Upto(n + 1)
  <2>1. PICK r : r = [i \in 0 .. n |-> Value(r, i)]
    BY <1>2
  <2> DEFINE q == [i \in 0 .. (n + 1) |-> Value(r, i)]
  <2>2. \A i \in 0 .. n : q[i] = r[i]
    BY <2>1
  <2>3. \A i \in 0 .. (n + 1) : i # 0 => i - 1 \in 0 .. n
    OBVIOUS
  <2>4. \A i \in 0 .. (n + 1) : Value(r, i) = Value(q, i)
    BY <2>2, <2>3
  <2>5. q = [i \in 0 .. (n + 1) |-> Value(q, i)]
    BY <2>4
  <2> QED
    BY <2>5
<1>3. Bad = {}
  <2> SUFFICES ASSUME Bad # {} PROVE FALSE
    OBVIOUS
  <2> HIDE DEF Upto
  <2>1. PICK n \in Bad : \A m \in Bad : n <= m
    BY LeastOf
  <2>2. n # 0 /\ n \in Nat
    BY <1>1
  <2>3. n - 1 \in Nat /\ n - 1 \notin Bad /\ n - 1 + 1 = n
    BY <2>1, <2>2
  <2>4. Upto(n - 1 + 1)
    BY <1>2, <2>3
  <2> QED
    BY <2>1, <2>3, <2>4
<1> QED
  BY <1>3

LEMMA ReadingOnlyOne ==
  ASSUME NEW text, Len(text) \in Nat, NEW r, NEW q, Reading(r, text), Reading(q, text)
  PROVE  r[Len(text)] = q[Len(text)]
<1> DEFINE Bad == {i \in 0 .. Len(text) : r[i] # q[i]}
<1>1. CASE Bad = {}
  BY <1>1
<1>2. CASE Bad # {}
  <2>1. Bad \in SUBSET Nat
    OBVIOUS
  <2>2. PICK n \in Bad : \A m \in Bad : n <= m
    BY <1>2, <2>1, LeastOf
  <2>3. n # 0
    BY DEF Reading
  <2>4. n \in 1 .. Len(text) /\ n - 1 \in 0 .. Len(text) /\ n - 1 \notin Bad
    BY <2>2, <2>3
  <2>5. r[n - 1] = q[n - 1]
    BY <2>4
  <2>6. r[n] = q[n]
    BY <2>4, <2>5 DEF Reading
  <2> QED
    BY <2>6
<1> QED
  BY <1>1, <1>2

(* What any such function says of a text is what the reader makes of it.   *)
LEMMA AfterReadingIs ==
  ASSUME NEW text, Len(text) \in Nat
  PROVE  /\ \E r : Reading(r, text)
         /\ \A r : Reading(r, text) => AfterReading(text) = r[Len(text)]
<1> DEFINE l == Len(text)
           Is(r) == r = [i \in 0 .. l |-> IF i = 0 THEN Fresh ELSE Read(r[i - 1], text[i])]
           q == CHOOSE r : Is(r)
<1>1. Is(q)
  <2>1. \E r : Is(r)
    BY ReadingExists
  <2> HIDE DEF Is
  <2> QED
    BY <2>1
<1>2. AfterReading(text) = q[l]
  BY DEF AfterReading
<1> HIDE DEF q
<1>3. Reading(q, text)
  BY <1>1 DEF Reading
<1> QED
  BY <1>2, <1>3, ReadingOnlyOne

(* The reader reads one token after the other.                             *)
LEMMA ReadAppended ==
  ASSUME NEW text \in Seq(Tokens), NEW token \in Tokens
  PROVE  /\ Append(text, token) \in Seq(Tokens)
         /\ AfterReading(Append(text, token)) = Read(AfterReading(text), token)
<1> DEFINE longer == Append(text, token)
           l == Len(text)
<1>1. /\ longer \in Seq(Tokens) /\ l \in Nat /\ Len(longer) = l + 1
      /\ longer[l + 1] = token
      /\ \A i \in 1 .. l : longer[i] = text[i]
  OBVIOUS
<1> HIDE DEF longer
<1>2. PICK r : Reading(r, longer)
  BY <1>1, AfterReadingIs
<1>3. Reading(r, text)
  BY <1>1, <1>2 DEF Reading
<1>4. AfterReading(text) = r[l] /\ AfterReading(longer) = r[l + 1]
  BY <1>1, <1>2, <1>3, AfterReadingIs
<1>5. r[l + 1] = Read(r[l], token)
  <2>1. l + 1 \in 1 .. Len(longer) /\ (l + 1) - 1 = l
    BY <1>1
  <2>2. r[l + 1] = Read(r[(l + 1) - 1], longer[l + 1])
    BY <1>2, <2>1 DEF Reading
  <2> QED
    BY <1>1, <2>1, <2>2
<1> QED
  BY <1>1, <1>4, <1>5 DEF longer

LEMMA ReadNothing == AfterReading(<<>>) = Fresh
<1>1. Len(<<>>) = 0
  OBVIOUS
<1>2. PICK r : Reading(r, <<>>)
  BY <1>1, AfterReadingIs
<1>3. AfterReading(<<>>) = r[0]
  BY <1>1, <1>2, AfterReadingIs
<1> QED
  BY <1>2, <1>3 DEF Reading

-----------------------------------------------------------------------------
(* An emitter of the logger, as the emitter of a reader of its text.       *)
Levels(max) == [0 .. (max - 1) -> [item_count : Nat, is_object : BOOLEAN]]

Writers(max) ==
  [levels : Levels(max), max_level : {max}, curr_level : 0 .. (max - 1), arg : Seq(Tokens)]

Seen(j) == [levels |-> j.levels, max_level |-> j.max_level, curr_level |-> j.curr_level,
            arg |-> AfterReading(j.arg)]

LEMMA LevelsChanged ==
  ASSUME NEW r, NEW x, NEW y,
         r = [levels |-> r.levels, max_level |-> r.max_level, curr_level |-> r.curr_level,
              arg |-> r.arg]
  PROVE  [r EXCEPT !.curr_level = x, !.levels = y]
           = [levels |-> y, max_level |-> r.max_level, curr_level |-> x, arg |-> r.arg]
<1> DEFINE s == [r EXCEPT !.curr_level = x]
<1>1. s = [levels |-> r.levels, max_level |-> r.max_level, curr_level |-> x, arg |-> r.arg]
  OBVIOUS
<1>2. [s EXCEPT !.levels = y]
        = [levels |-> y, max_level |-> r.max_level, curr_level |-> x, arg |-> r.arg]
  <2> HIDE DEF s
  <2> QED
    BY <1>1
<1>3. [r EXCEPT !.curr_level = x, !.levels = y] = [s EXCEPT !.levels = y]
  OBVIOUS
<1> QED
  BY <1>2, <1>3

LEMMA SameReader ==
  ASSUME NEW stack, NEW token
  PROVE  Doc!Read(stack, token) = Read(stack, token)
BY DEF Doc!Read, Read, Doc!AfterValue, AfterValue, Doc!Last, Last, Doc!Front, Front

LEMMA EmitSeen ==
  ASSUME NEW max, NEW j \in Writers(max), NEW token \in Tokens
  PROVE  /\ emit_char(j, token) \in Writers(max)
         /\ Seen(emit_char(j, token)) = Doc!emit_char(Seen(j), token)
<1> DEFINE text == Append(j.arg, token)
<1>1. text \in Seq(Tokens) /\ AfterReading(text) = Read(AfterReading(j.arg), token)
  BY ReadAppended DEF Writers
<1> HIDE DEF text
<1>2. emit_char(j, token) = [j EXCEPT !.arg = text]
  BY DEF emit_char, text
<1>3. [j EXCEPT !.arg = text] \in Writers(max)
  BY <1>1 DEF Writers
<1>4. Seen([j EXCEPT !.arg = text]) = [Seen(j) EXCEPT !.arg = AfterReading(text)]
  BY DEF Seen, Writers
<1>5. Doc!emit_char(Seen(j), token) = [Seen(j) EXCEPT !.arg = AfterReading(text)]
  <2>1. Seen(j).arg = AfterReading(j.arg)
    BY DEF Seen
  <2>2. Doc!Read(Seen(j).arg, token) = AfterReading(text)
    BY <1>1, <2>1, SameReader
  <2> QED
    BY <2>2 DEF Doc!emit_char
<1> QED
  BY <1>2, <1>3, <1>4, <1>5

(* The item is counted in the levels.                                      *)
LEMMA CommifySeen ==
  ASSUME NEW max, NEW j \in Writers(max)
  PROVE  /\ commify(j) \in Writers(max)
         /\ Seen(commify(j)) = Doc!commify(Seen(j))
<1> DEFINE c == j.curr_level
           comma == IF level_ref(j).is_object /\ level_ref(j).item_count % 2 = 1
                    THEN ":" ELSE ","
           sep == IF level_ref(j).item_count = 0 THEN j ELSE emit_char(j, comma)
           dsep == IF level_ref(j).item_count = 0 THEN Seen(j)
                   ELSE Doc!emit_char(Seen(j), comma)
           up(k) == [k EXCEPT !.levels[c].item_count = @ + 1]
<1>1. comma \in Tokens
  BY DEF Tokens, Punctuation
<1>2. commify(j) = up(sep)
  BY DEF commify
<1>3. /\ Seen(j).curr_level = c /\ Seen(j).levels = j.levels
      /\ Doc!level_ref(Seen(j)) = level_ref(j)
  BY DEF Seen, Doc!level_ref, level_ref
<1>4. Doc!commify(Seen(j)) = up(dsep)
  BY <1>3 DEF Doc!commify
<1> HIDE DEF comma
<1>5. sep \in Writers(max) /\ Seen(sep) = dsep
  BY <1>1, EmitSeen
<1>6. c \in 0 .. (max - 1)
  BY DEF Writers
<1> HIDE DEF sep, dsep, c
<1>7. up(sep) \in Writers(max) /\ Seen(up(sep)) = up(Seen(sep))
  <2> DEFINE levels == [sep.levels EXCEPT ![c] = [sep.levels[c] EXCEPT !.item_count = @ + 1]]
  <2>1. sep.levels \in Levels(max) /\ sep.levels[c] \in [item_count : Nat, is_object : BOOLEAN]
    BY <1>5, <1>6 DEF Writers, Levels
  <2>2. levels \in Levels(max)
    BY <1>6, <2>1 DEF Levels
  <2>3. up(sep) = [sep EXCEPT !.levels = levels]
    BY <1>5 DEF Writers
  <2>4. Seen(sep) = [levels |-> sep.levels, max_level |-> sep.max_level,
                     curr_level |-> sep.curr_level, arg |-> AfterReading(sep.arg)]
    BY DEF Seen
  <2>5. up(Seen(sep)) = [Seen(sep) EXCEPT !.levels = levels]
    BY <2>4
  <2> HIDE DEF levels, up
  <2>6. [sep EXCEPT !.levels = levels] \in Writers(max)
    BY <1>5, <2>2 DEF Writers
  <2>7. Seen([sep EXCEPT !.levels = levels]) = [Seen(sep) EXCEPT !.levels = levels]
    BY <1>5 DEF Seen, Writers
  <2> QED
    BY <2>3, <2>5, <2>6, <2>7
<1> QED
  BY <1>2, <1>4, <1>5, <1>7

LEMMA PushSeen ==
  ASSUME NEW max \in Nat \ {0}, NEW j \in Writers(max), NEW is_object \in BOOLEAN
  PROVE  /\ push_level(j, is_object) \in Writers(max)
         /\ Seen(push_level(j, is_object)) = Doc!push_level(Seen(j), is_object)
<1> DEFINE c == j.curr_level
           new == [item_count |-> 0, is_object |-> is_object]
           levels == [j.levels EXCEPT ![c + 1] = new]
           up == c + 1
<1>1. /\ j.max_level = max /\ c \in 0 .. (max - 1) /\ j.levels \in Levels(max)
      /\ Seen(j).curr_level = c /\ Seen(j).max_level = max /\ Seen(j).levels = j.levels
  BY DEF Writers, Seen
<1>2. CASE c < max - 1
  <2>1. levels \in Levels(max) /\ up \in 0 .. (max - 1)
    BY <1>1, <1>2 DEF Levels
  <2>2. push_level(j, is_object) = [j EXCEPT !.curr_level = up, !.levels = levels]
    BY <1>1, <1>2 DEF push_level, Writers
  <2>3. Doc!push_level(Seen(j), is_object)
          = [Seen(j) EXCEPT !.curr_level = up, !.levels = levels]
    BY <1>1, <1>2 DEF Doc!push_level, Seen
  <2> HIDE DEF levels, up
  <2>4. [j EXCEPT !.curr_level = up, !.levels = levels] \in Writers(max)
    BY <2>1 DEF Writers
  <2>5. Seen([j EXCEPT !.curr_level = up, !.levels = levels])
          = [Seen(j) EXCEPT !.curr_level = up, !.levels = levels]
    <3> DEFINE k == [j EXCEPT !.curr_level = up, !.levels = levels]
               seen == [levels |-> levels, max_level |-> j.max_level,
                        curr_level |-> up, arg |-> AfterReading(j.arg)]
    <3>1. k.levels = levels /\ k.curr_level = up /\ k.max_level = j.max_level /\ k.arg = j.arg
      BY DEF Writers
    <3>2. Seen(k) = seen
      <4> HIDE DEF k
      <4> QED
        BY <3>1 DEF Seen
    <3>3. [Seen(j) EXCEPT !.curr_level = up, !.levels = levels] = seen
      <4> DEFINE s == Seen(j)
      <4>1. s = [levels |-> s.levels, max_level |-> s.max_level, curr_level |-> s.curr_level,
                 arg |-> s.arg]
            /\ s.max_level = j.max_level /\ s.arg = AfterReading(j.arg)
        BY DEF Seen
      <4> HIDE DEF s
      <4>2. [s EXCEPT !.curr_level = up, !.levels = levels]
              = [levels |-> levels, max_level |-> s.max_level, curr_level |-> up, arg |-> s.arg]
        BY <4>1, LevelsChanged
      <4> QED
        BY <4>1, <4>2 DEF s
    <3> QED
      BY <3>2, <3>3
  <2> QED
    BY <2>2, <2>3, <2>4, <2>5
<1>3. CASE ~ (c < max - 1)
  BY <1>1, <1>3 DEF push_level, Doc!push_level
<1> QED
  BY <1>2, <1>3

LEMMA PopSeen ==
  ASSUME NEW max \in Nat \ {0}, NEW j \in Writers(max)
  PROVE  /\ pop_level(j) \in Writers(max)
         /\ Seen(pop_level(j)) = Doc!pop_level(Seen(j))
<1> DEFINE c == j.curr_level
           down == c - 1
<1>1. c \in 0 .. (max - 1) /\ Seen(j).curr_level = c
  BY DEF Writers, Seen
<1>2. CASE c > 0
  <2>1. down \in 0 .. (max - 1)
    BY <1>1, <1>2
  <2>2. /\ pop_level(j) = [j EXCEPT !.curr_level = down]
        /\ Doc!pop_level(Seen(j)) = [Seen(j) EXCEPT !.curr_level = down]
    BY <1>1, <1>2 DEF pop_level, Doc!pop_level, Seen, Writers
  <2> HIDE DEF down
  <2>3. [j EXCEPT !.curr_level = down] \in Writers(max)
    BY <2>1 DEF Writers
  <2>4. Seen([j EXCEPT !.curr_level = down]) = [Seen(j) EXCEPT !.curr_level = down]
    BY DEF Seen, Writers
  <2> QED
    BY <2>2, <2>3, <2>4
<1>3. CASE ~ (c > 0)
  BY <1>1, <1>3 DEF pop_level, Doc!pop_level
<1> QED
  BY <1>2, <1>3

(* The functions of the emitter.                                           *)
LEMMA ItemSeen ==
  ASSUME NEW max, NEW j \in Writers(max), NEW token \in Tokens
  PROVE  /\ jems_string(j, token) \in Writers(max)
         /\ Seen(jems_string(j, token)) = Doc!jems_string(Seen(j), token)
         /\ jems_scalar(j, token) = jems_string(j, token)
  BY CommifySeen, EmitSeen DEF jems_string, jems_scalar, Doc!jems_string

LEMMA OpenSeen ==
  ASSUME NEW max \in Nat \ {0}, NEW j \in Writers(max)
  PROVE  /\ jems_object_open(j) \in Writers(max)
         /\ Seen(jems_object_open(j)) = Doc!jems_object_open(Seen(j))
         /\ jems_array_open(j) \in Writers(max)
         /\ Seen(jems_array_open(j)) = Doc!jems_array_open(Seen(j))
<1>1. ASSUME NEW token \in Tokens, NEW is_object \in BOOLEAN
      PROVE  /\ push_level(emit_char(commify(j), token), is_object) \in Writers(max)
             /\ Seen(push_level(emit_char(commify(j), token), is_object))
                  = Doc!push_level(Doc!emit_char(Doc!commify(Seen(j)), token), is_object)
  BY <1>1, CommifySeen, EmitSeen, PushSeen
<1>2. "{" \in Tokens /\ "[" \in Tokens
  BY DEF Tokens, Punctuation
<1> QED
  BY <1>1, <1>2 DEF jems_object_open, jems_array_open, Doc!jems_object_open, Doc!jems_array_open

LEMMA CloseSeen ==
  ASSUME NEW max \in Nat \ {0}, NEW j \in Writers(max)
  PROVE  /\ jems_object_close(j) \in Writers(max)
         /\ Seen(jems_object_close(j)) = Doc!jems_object_close(Seen(j))
         /\ jems_array_close(j) \in Writers(max)
         /\ Seen(jems_array_close(j)) = Doc!jems_array_close(Seen(j))
<1>1. ASSUME NEW token \in Tokens
      PROVE  /\ pop_level(emit_char(j, token)) \in Writers(max)
             /\ Seen(pop_level(emit_char(j, token)))
                  = Doc!pop_level(Doc!emit_char(Seen(j), token))
  BY <1>1, EmitSeen, PopSeen
<1>2. "}" \in Tokens /\ "]" \in Tokens
  BY DEF Tokens, Punctuation
<1> QED
  BY <1>1, <1>2 DEF jems_object_close, jems_array_close, Doc!jems_object_close,
                    Doc!jems_array_close

LEMMA EmitterSeen ==
  ASSUME NEW max \in Nat \ {0}
  PROVE  /\ Emitter(max) \in Writers(max)
         /\ Used(max) \in Levels(max)
         /\ Seen(Emitter(max)) = Doc!jems_init(Used(max), max, Doc!Fresh)
<1> DEFINE level == [item_count |-> 0, is_object |-> FALSE]
           levels == [Used(max) EXCEPT ![0] = level]
<1>1. Used(max) \in Levels(max) /\ levels \in Levels(max)
  BY DEF Used, Levels
<1> DEFINE old(arg) == [levels |-> Used(max), max_level |-> max, curr_level |-> 0, arg |-> arg]
           new(arg) == [levels |-> levels, max_level |-> max, curr_level |-> 0, arg |-> arg]
<1>a. ASSUME NEW arg
      PROVE  [old(arg) EXCEPT !.curr_level = 0, !.levels[0] = level] = new(arg)
  <2>1. [old(arg) EXCEPT !.curr_level = 0, !.levels[0] = level]
          = [old(arg) EXCEPT !.curr_level = 0, !.levels = levels]
    <3> DEFINE o == old(arg)
    <3>1. o \in [levels : {Used(max)}, max_level : {max}, curr_level : {0}, arg : {arg}]
      OBVIOUS
    <3> HIDE DEF o
    <3>2. [o EXCEPT !.curr_level = 0, !.levels[0] = level]
            = [o EXCEPT !.curr_level = 0, !.levels = levels]
      BY <3>1
    <3> QED
      BY <3>2 DEF o
  <2> DEFINE o == old(arg)
  <2>2. o = [levels |-> o.levels, max_level |-> o.max_level, curr_level |-> o.curr_level,
             arg |-> o.arg]
        /\ o.max_level = max /\ o.arg = arg
    OBVIOUS
  <2> HIDE DEF levels, o
  <2>3. [o EXCEPT !.curr_level = 0, !.levels = levels] = new(arg)
    BY <2>2, LevelsChanged
  <2> QED
    BY <2>1, <2>3 DEF o
<1>2. Emitter(max) = [levels |-> levels, max_level |-> max, curr_level |-> 0, arg |-> <<>>]
  BY <1>a DEF Emitter, jems_init, jems_reset
<1>3. Doc!jems_init(Used(max), max, Doc!Fresh)
        = [levels |-> levels, max_level |-> max, curr_level |-> 0, arg |-> Doc!Fresh]
  BY <1>a DEF Doc!jems_init, Doc!jems_reset
<1>4. <<>> \in Seq(Tokens) /\ AfterReading(<<>>) = Doc!Fresh
  BY ReadNothing DEF Fresh, Doc!Fresh
<1> HIDE DEF levels
<1> QED
  BY <1>1, <1>2, <1>3, <1>4 DEF Writers, Seen

-----------------------------------------------------------------------------
(* An emitter that has what is in the frames open, and has written what    *)
(* brings a reader there.                                                  *)
Words == {"level", "component", "message", "data", "field", "text", "INFO", "DEBUG", "FATAL"}

Values == Words \cup {"1"}

Writes(max, j, frames) == j \in Writers(max) /\ Doc!Agrees(max, Seen(j), frames)

Frame(kind, items) == [kind |-> kind, items |-> items]

Holding(below, kind, items) == Append(below, Frame(kind, items))

(* It is in an object, before a key or behind one, or in an array.         *)
InObject(max, j, below) ==
  \E items \in Nat : items % 2 = 0 /\ Writes(max, j, Holding(below, "object", items))

AtMember(max, j, below) ==
  \E items \in Nat : items % 2 = 1 /\ Writes(max, j, Holding(below, "object", items))

InArray(max, j, below) == \E items \in Nat : Writes(max, j, Holding(below, "array", items))

TopsOff(n, below, kind, items) ==
  /\ n \in Doc!Stacks /\ n \in Seq(Doc!Frames) /\ Len(n) = Len(below) + 1
  /\ Doc!Last(n) = Frame(kind, items)
  /\ Doc!Front(n) = below
  /\ Doc!Counted(n) = Holding(below, kind, items + 1)

LEMMA OnTop ==
  ASSUME NEW below \in Seq(Doc!Frames), NEW kind \in {"document", "array", "object"},
         NEW items \in Nat, NEW n, n = Holding(below, kind, items)
  PROVE  TopsOff(n, below, kind, items)
<1> DEFINE f == Frame(kind, items)
<1>1. f \in Doc!Frames
  BY DEF Doc!Frames, Frame
<1> HIDE DEF f
<1>2. n = Append(below, f)
  BY DEF Holding, f
<1>3. /\ n \in Seq(Doc!Frames) /\ Len(n) = Len(below) + 1 /\ n[Len(n)] = f /\ Len(below) \in Nat
      /\ \A i \in 1 .. Len(below) : n[i] = below[i]
  BY <1>1, <1>2
<1>4. n \in Doc!Stacks
  BY <1>3 DEF Doc!Stacks
<1>5. Doc!Last(n) = f
  BY <1>3 DEF Doc!Last
<1>6. /\ Doc!Front(n) \in Seq(Doc!Frames) /\ Len(Doc!Front(n)) = Len(n) - 1
      /\ \A i \in 1 .. (Len(n) - 1) : Doc!Front(n)[i] = n[i]
  <2>1. Len(n) >= 1
    BY <1>3
  <2> QED
    BY <1>3, <2>1, Doc!LastRemoved, DocAssumptions
<1>7. Doc!Front(n) = below
  <2> DEFINE m == Doc!Front(n)
  <2>1. m \in Seq(Doc!Frames) /\ Len(m) = Len(n) - 1 /\ \A i \in 1 .. (Len(n) - 1) : m[i] = n[i]
    BY <1>6
  <2> HIDE DEF m
  <2>2. Len(m) = Len(below) /\ \A i \in 1 .. Len(below) : m[i] = below[i]
    BY <1>3, <2>1
  <2>3. m = below
    BY <2>1, <2>2, SeqEqual
  <2> QED
    BY <2>3 DEF m
<1>8. Doc!Plus(f) = Frame(kind, items + 1)
  BY DEF Doc!Plus, f, Frame
<1>9. Doc!Counted(n) = Holding(below, kind, items + 1)
  BY <1>5, <1>7, <1>8 DEF Doc!Counted, Holding
<1> QED
  BY <1>3, <1>4, <1>5, <1>7, <1>9 DEF TopsOff, f

(* An emitter that writes has a level for every frame.                     *)
LEMMA WritesFacts ==
  ASSUME NEW max, NEW j, NEW frames, Writes(max, j, frames)
  PROVE  /\ max \in Nat \ {0} /\ j \in Writers(max) /\ Doc!Agrees(max, Seen(j), frames)
         /\ frames \in Doc!Stacks /\ Len(frames) <= max
  BY DEF Writes, Doc!Agrees, Doc!Follows

LEMMA WordsAreTokens == Values \subseteq Tokens
  BY DEF Values, Words, Tokens

(* A value is put where one may be.                                        *)
LEMMA ValueWritten ==
  ASSUME NEW max, NEW j, NEW n, Writes(max, j, n), Doc!TakesValue(Doc!Last(n)),
         NEW value \in Values
  PROVE  Writes(max, jems_string(j, value), Doc!Counted(n))
<1>1. j \in Writers(max) /\ Doc!Agrees(max, Seen(j), n) /\ value \in Tokens
  BY WritesFacts, WordsAreTokens
<1>2. Doc!Agrees(max, Doc!emit_char(Doc!commify(Seen(j)), value), Doc!Counted(n))
  <2>1. value \in {"level", "component", "message", "data", "field", "text", "INFO", "DEBUG",
                   "FATAL"} \cup {"1"}
    BY DEF Values, Words
  <2> QED
    BY <1>1, <2>1, Doc!ValuePut, DocAssumptions
<1>3. /\ jems_string(j, value) \in Writers(max)
      /\ Seen(jems_string(j, value)) = Doc!emit_char(Doc!commify(Seen(j)), value)
  BY <1>1, ItemSeen DEF Doc!jems_string
<1> QED
  BY <1>2, <1>3 DEF Writes

LEMMA KeyWritten ==
  ASSUME NEW max, NEW j, NEW below \in Seq(Doc!Frames), InObject(max, j, below),
         NEW key \in Words
  PROVE  AtMember(max, jems_string(j, key), below)
<1>1. PICK items \in Nat : items % 2 = 0 /\ Writes(max, j, Holding(below, "object", items))
  BY DEF InObject
<1> DEFINE n == Holding(below, "object", items)
<1>2. Doc!Last(n) = Frame("object", items)
      /\ Doc!Counted(n) = Holding(below, "object", items + 1)
  <2> HIDE DEF n
  <2>1. TopsOff(n, below, "object", items)
    BY OnTop DEF n
  <2> QED
    BY <2>1 DEF TopsOff
<1>3. Doc!TakesKey(Doc!Last(n))
  BY <1>1, <1>2 DEF Doc!TakesKey, Frame
<1> HIDE DEF n
<1>4. j \in Writers(max) /\ Doc!Agrees(max, Seen(j), n) /\ key \in Tokens
  BY <1>1, WritesFacts, WordsAreTokens DEF n, Values
<1>5. Doc!Agrees(max, Doc!jems_string(Seen(j), key), Doc!Counted(n))
  <2>1. key \in {"level", "component", "message", "data", "field", "text", "INFO", "DEBUG",
                 "FATAL"}
    BY DEF Words
  <2> QED
    BY <1>3, <1>4, <2>1, Doc!KeyPut, DocAssumptions
<1>6. Writes(max, jems_string(j, key), Doc!Counted(n))
  BY <1>4, <1>5, ItemSeen DEF Writes
<1>7. items + 1 \in Nat /\ (items + 1) % 2 = 1
  BY <1>1
<1> QED
  BY <1>2, <1>6, <1>7 DEF AtMember

LEMMA MemberWritten ==
  ASSUME NEW max, NEW j, NEW below \in Seq(Doc!Frames), AtMember(max, j, below),
         NEW value \in Values
  PROVE  InObject(max, jems_string(j, value), below)
<1>1. PICK items \in Nat : items % 2 = 1 /\ Writes(max, j, Holding(below, "object", items))
  BY DEF AtMember
<1> DEFINE n == Holding(below, "object", items)
<1>2. Doc!Last(n) = Frame("object", items)
      /\ Doc!Counted(n) = Holding(below, "object", items + 1)
  <2> HIDE DEF n
  <2>1. TopsOff(n, below, "object", items)
    BY OnTop DEF n
  <2> QED
    BY <2>1 DEF TopsOff
<1>3. Doc!TakesValue(Doc!Last(n))
  BY <1>1, <1>2 DEF Doc!TakesValue, Frame
<1>4. Writes(max, jems_string(j, value), Doc!Counted(n))
  BY <1>1, <1>3, ValueWritten
<1>5. items + 1 \in Nat /\ (items + 1) % 2 = 0
  BY <1>1
<1> QED
  BY <1>2, <1>4, <1>5 DEF InObject

LEMMA PairWritten ==
  ASSUME NEW max, NEW j, NEW below \in Seq(Doc!Frames), InObject(max, j, below),
         NEW key \in Words, NEW value \in Values
  PROVE  InObject(max, jems_string(jems_string(j, key), value), below)
  BY KeyWritten, MemberWritten

LEMMA ElementWritten ==
  ASSUME NEW max, NEW j, NEW below \in Seq(Doc!Frames), InArray(max, j, below),
         NEW value \in Values
  PROVE  InArray(max, jems_string(j, value), below)
<1>1. PICK items \in Nat : Writes(max, j, Holding(below, "array", items))
  BY DEF InArray
<1> DEFINE n == Holding(below, "array", items)
<1>2. Doc!Last(n) = Frame("array", items)
      /\ Doc!Counted(n) = Holding(below, "array", items + 1)
  <2> HIDE DEF n
  <2>1. n = Holding(below, "array", items)
    BY DEF n
  <2> QED
    BY <2>1, OnTop DEF TopsOff
<1>3. Doc!TakesValue(Doc!Last(n))
  BY <1>2 DEF Doc!TakesValue, Frame
<1>4. Writes(max, jems_string(j, value), Doc!Counted(n))
  BY <1>1, <1>3, ValueWritten
<1> QED
  BY <1>2, <1>4 DEF InArray

(* A container is opened where a value may be.                             *)
LEMMA OpenWritten ==
  ASSUME NEW max, NEW j, NEW n, Writes(max, j, n), Doc!TakesValue(Doc!Last(n)), Len(n) < max
  PROVE  /\ Writes(max, jems_object_open(j), Holding(Doc!Counted(n), "object", 0))
         /\ Writes(max, jems_array_open(j), Holding(Doc!Counted(n), "array", 0))
<1>1. j \in Writers(max) /\ Doc!Agrees(max, Seen(j), n) /\ max \in Nat \ {0}
  BY WritesFacts
<1>2. /\ Doc!Agrees(max, Doc!jems_object_open(Seen(j)),
                    Append(Doc!Counted(n), [kind |-> "object", items |-> 0]))
      /\ Doc!Agrees(max, Doc!jems_array_open(Seen(j)),
                    Append(Doc!Counted(n), [kind |-> "array", items |-> 0]))
  BY <1>1, Doc!Opening, DocAssumptions
<1> QED
  BY <1>1, <1>2, OpenSeen DEF Writes, Holding, Frame

LEMMA CloseWritten ==
  ASSUME NEW max, NEW j, NEW n, Writes(max, j, n), Len(n) >= 2
  PROVE  /\ Doc!TakesKey(Doc!Last(n)) => Writes(max, jems_object_close(j), Doc!Front(n))
         /\ Doc!Last(n).kind = "array" => Writes(max, jems_array_close(j), Doc!Front(n))
<1>1. j \in Writers(max) /\ Doc!Agrees(max, Seen(j), n) /\ max \in Nat \ {0}
  BY WritesFacts
<1>2. /\ Doc!TakesKey(Doc!Last(n))
           => Doc!Agrees(max, Doc!jems_object_close(Seen(j)), Doc!Front(n))
      /\ Doc!Last(n).kind = "array"
           => Doc!Agrees(max, Doc!jems_array_close(Seen(j)), Doc!Front(n))
  BY <1>1, Doc!Closing, DocAssumptions
<1> QED
  BY <1>1, <1>2, CloseSeen DEF Writes

LEMMA ObjectInArray ==
  ASSUME NEW max, NEW j, NEW below \in Seq(Doc!Frames), InArray(max, j, below),
         Len(below) + 2 <= max
  PROVE  \E items \in Nat : InObject(max, jems_object_open(j), Holding(below, "array", items))
<1>1. PICK items \in Nat : Writes(max, j, Holding(below, "array", items))
  BY DEF InArray
<1> DEFINE n == Holding(below, "array", items)
           k == jems_object_open(j)
<1> HIDE DEF n, k
<1>2. n = Holding(below, "array", items)
  BY DEF n
<1>3. Doc!Last(n) = Frame("array", items) /\ Len(n) = Len(below) + 1
      /\ Doc!Counted(n) = Holding(below, "array", items + 1)
  BY <1>2, OnTop DEF TopsOff
<1>4. Doc!TakesValue(Doc!Last(n)) /\ Len(n) < max /\ Writes(max, j, n)
  <2>1. Len(below) \in Nat /\ max \in Nat
    BY <1>1, WritesFacts
  <2> QED
    BY <1>1, <1>2, <1>3, <2>1 DEF Doc!TakesValue, Frame
<1>5. Writes(max, k, Holding(Holding(below, "array", items + 1), "object", 0))
  BY <1>3, <1>4, OpenWritten DEF k
<1>6. InObject(max, k, Holding(below, "array", items + 1))
  <2>1. 0 % 2 = 0
    OBVIOUS
  <2> QED
    BY <1>5, <2>1 DEF InObject
<1> QED
  BY <1>6 DEF k

LEMMA ArrayInObject ==
  ASSUME NEW max, NEW j, NEW below \in Seq(Doc!Frames), AtMember(max, j, below),
         Len(below) + 2 <= max
  PROVE  \E items \in Nat :
           items % 2 = 0 /\ InArray(max, jems_array_open(j), Holding(below, "object", items))
<1>1. PICK items \in Nat : items % 2 = 1 /\ Writes(max, j, Holding(below, "object", items))
  BY DEF AtMember
<1> DEFINE n == Holding(below, "object", items)
           k == jems_array_open(j)
<1> HIDE DEF n, k
<1>2. n = Holding(below, "object", items)
  BY DEF n
<1>3. Doc!Last(n) = Frame("object", items) /\ Len(n) = Len(below) + 1
      /\ Doc!Counted(n) = Holding(below, "object", items + 1)
  BY <1>2, OnTop DEF TopsOff
<1>4. Doc!TakesValue(Doc!Last(n)) /\ Len(n) < max /\ Writes(max, j, n)
  <2>1. Len(below) \in Nat /\ max \in Nat
    BY <1>1, WritesFacts
  <2> QED
    BY <1>1, <1>2, <1>3, <2>1 DEF Doc!TakesValue, Frame
<1>5. Writes(max, k, Holding(Holding(below, "object", items + 1), "array", 0))
  BY <1>3, <1>4, OpenWritten DEF k
<1>6. InArray(max, k, Holding(below, "object", items + 1))
  BY <1>5 DEF InArray
<1>7. items + 1 \in Nat /\ (items + 1) % 2 = 0
  BY <1>1
<1> QED
  BY <1>6, <1>7 DEF k

(* A container is closed, and its emitter is in the one below.             *)
LEMMA ObjectClosed ==
  ASSUME NEW max, NEW j, NEW below \in Seq(Doc!Frames), Len(below) >= 1, InObject(max, j, below)
  PROVE  Writes(max, jems_object_close(j), below)
<1>1. PICK items \in Nat : items % 2 = 0 /\ Writes(max, j, Holding(below, "object", items))
  BY DEF InObject
<1> DEFINE n == Holding(below, "object", items)
<1> HIDE DEF n
<1>2. n = Holding(below, "object", items)
  BY DEF n
<1>3. Doc!Last(n) = Frame("object", items) /\ Len(n) = Len(below) + 1
      /\ Doc!Front(n) = below
  BY <1>2, OnTop DEF TopsOff
<1>4. Doc!TakesKey(Doc!Last(n))
  BY <1>1, <1>3 DEF Doc!TakesKey, Frame
<1>5. Writes(max, j, n) /\ Len(n) >= 2
  <2>1. Len(below) \in Nat
    OBVIOUS
  <2> QED
    BY <1>1, <1>2, <1>3, <2>1
<1> QED
  BY <1>3, <1>4, <1>5, CloseWritten

LEMMA ArrayClosed ==
  ASSUME NEW max, NEW j, NEW below \in Seq(Doc!Frames), Len(below) >= 1, InArray(max, j, below)
  PROVE  Writes(max, jems_array_close(j), below)
<1>1. PICK items \in Nat : Writes(max, j, Holding(below, "array", items))
  BY DEF InArray
<1> DEFINE n == Holding(below, "array", items)
<1> HIDE DEF n
<1>2. n = Holding(below, "array", items)
  BY DEF n
<1>3. Doc!Last(n) = Frame("array", items) /\ Len(n) = Len(below) + 1
      /\ Doc!Front(n) = below
  BY <1>2, OnTop DEF TopsOff
<1>4. Doc!Last(n).kind = "array"
  BY <1>3 DEF Frame
<1>5. Writes(max, j, n) /\ Len(n) >= 2
  <2>1. Len(below) \in Nat
    OBVIOUS
  <2> QED
    BY <1>1, <1>2, <1>3, <2>1
<1> QED
  BY <1>3, <1>4, <1>5, CloseWritten

(* What is below the object that is a whole document.                      *)
Document == Holding(<<>>, "document", 1)

LEMMA OnDocument ==
  ASSUME NEW below \in Seq(Doc!Frames), NEW items \in Nat,
         NEW n, n = Holding(below, "document", items)
  PROVE  /\ n \in Seq(Doc!Frames) /\ Len(n) = Len(below) + 1
         /\ Doc!Last(n) = Frame("document", items)
         /\ Doc!Counted(n) = Holding(below, "document", items + 1)
<1>1. n \in Seq(Doc!Frames) /\ Len(n) = Len(below) + 1
  BY OnTop DEF TopsOff
<1>2. Doc!Last(n) = Frame("document", items)
  BY OnTop DEF TopsOff
<1>3. Doc!Counted(n) = Holding(below, "document", items + 1)
  BY OnTop DEF TopsOff
<1> QED
  BY <1>1, <1>2, <1>3

LEMMA Outermost ==
  ASSUME NEW items \in Nat, NEW n, n = Holding(<<>>, "document", items)
  PROVE  /\ n \in Seq(Doc!Frames) /\ Len(n) = 1
         /\ Doc!Last(n) = Frame("document", items)
         /\ Doc!Counted(n) = Holding(<<>>, "document", items + 1)
<1>1. <<>> \in Seq(Doc!Frames) /\ Len(<<>>) = 0
  OBVIOUS
<1>2. \A below \in Seq(Doc!Frames) : n = Holding(below, "document", items)
        => Len(n) = Len(below) + 1 /\ n \in Seq(Doc!Frames)
  BY OnDocument
<1>3. \A below \in Seq(Doc!Frames) : n = Holding(below, "document", items)
        => Doc!Last(n) = Frame("document", items)
  BY OnDocument
<1>4. \A below \in Seq(Doc!Frames) : n = Holding(below, "document", items)
        => Doc!Counted(n) = Holding(below, "document", items + 1)
  BY OnDocument
<1>5. Len(n) = 1 /\ n \in Seq(Doc!Frames)
  <2>1. Len(n) = Len(<<>>) + 1 /\ n \in Seq(Doc!Frames)
    BY <1>1, <1>2
  <2> QED
    BY <2>1
<1>6. Doc!Last(n) = Frame("document", items)
  BY <1>1, <1>3
<1>7. Doc!Counted(n) = Holding(<<>>, "document", items + 1)
  BY <1>1, <1>4
<1> QED
  BY <1>5, <1>6, <1>7

LEMMA DocumentFacts ==
  /\ Document \in Seq(Doc!Frames) /\ Len(Document) = 1
  /\ \A kind \in {"array", "object"}, items \in Nat :
       /\ Holding(Document, kind, items) \in Seq(Doc!Frames)
       /\ Len(Holding(Document, kind, items)) = 2
<1>1. Document \in Seq(Doc!Frames) /\ Len(Document) = 1
  BY Outermost DEF Document
<1>2. ASSUME NEW kind \in {"array", "object"}, NEW items \in Nat, NEW n,
             n = Holding(Document, kind, items)
      PROVE  n \in Seq(Doc!Frames) /\ Len(n) = 1 + 1
  <2>1. TopsOff(n, Document, kind, items)
    BY <1>1, <1>2, OnTop
  <2> QED
    BY <1>1, <2>1 DEF TopsOff
<1> QED
  BY <1>1, <1>2

LEMMA DocumentOpened ==
  ASSUME NEW max \in Nat, max >= 2
  PROVE  InObject(max, jems_object_open(Emitter(max)), Document)
<1> DEFINE n == Holding(<<>>, "document", 0)
<1>1. n = <<[kind |-> "document", items |-> 0]>>
  BY DEF Holding, Frame
<1> HIDE DEF n
<1>2. n = Holding(<<>>, "document", 0)
  BY DEF n
<1>3. Doc!Last(n) = Frame("document", 0) /\ Len(n) = 1
      /\ Doc!Counted(n) = Document
  BY <1>2, Outermost DEF Document
<1>4. Emitter(max) \in Writers(max) /\ Used(max) \in Levels(max)
      /\ Seen(Emitter(max)) = Doc!jems_init(Used(max), max, Doc!Fresh)
  BY EmitterSeen
<1>5. Doc!Agrees(max, Seen(Emitter(max)), n)
  <2>1. Used(max) \in [0 .. (max - 1) -> [item_count : Nat, is_object : BOOLEAN]]
        /\ max \in Nat \ {0}
    BY <1>4 DEF Levels
  <2>2. Doc!Agrees(max, Doc!jems_init(Used(max), max, Doc!Fresh),
                   <<[kind |-> "document", items |-> 0]>>)
    BY <2>1, Doc!Starting, DocAssumptions
  <2> QED
    BY <1>1, <1>4, <2>2
<1>6. Doc!TakesValue(Doc!Last(n)) /\ Len(n) < max
  BY <1>3 DEF Doc!TakesValue, Frame
<1>7. Writes(max, jems_object_open(Emitter(max)), Holding(Document, "object", 0))
  <2>1. Writes(max, Emitter(max), n)
    BY <1>4, <1>5 DEF Writes
  <2> QED
    BY <1>3, <1>6, <2>1, OpenWritten
<1>8. 0 % 2 = 0
  OBVIOUS
<1> QED
  BY <1>7, <1>8 DEF InObject

(* The reader's places when the whole document is written, and before the  *)
(* value of a member of its object.                                        *)
LEMMA DocumentDone ==
  ASSUME NEW max, NEW j, Writes(max, j, Document)
  PROVE  j.arg \in Seq(Tokens) /\ IsJson(j.arg)
<1>1. j.arg \in Seq(Tokens) /\ Seen(j).arg = Doc!PlacesOf(Document)
  BY DEF Writes, Writers, Doc!Agrees
<1>2. Doc!PlacesOf(Document) = <<"end">>
  <2>1. Document = <<[kind |-> "document", items |-> 1]>>
    BY DEF Document, Holding, Frame
  <2>2. Doc!PlaceIn([kind |-> "document", items |-> 1]) = "end"
    BY DEF Doc!PlaceIn
  <2> QED
    BY <2>1, <2>2 DEF Doc!PlacesOf
<1> QED
  BY <1>1, <1>2 DEF Seen, IsJson

-----------------------------------------------------------------------------
(* The folds of the clients keep what each of their steps keeps.           *)
LEMMA FieldsKeep ==
  ASSUME NEW E, NEW base \in E, NEW n \in Nat, \A e \in E, i \in 1 .. n : Field(e, i) \in E
  PROVE  Fields(base, n) \in E
<1> DEFINE seq == [i \in 1 .. n |-> i]
           Is(h) == h = [s \in SUBSET (1 .. n) |->
                           IF s = {} THEN base ELSE Field(h[s \ {Max(s)}], seq[Max(s)])]
           f == [i \in Nat |-> [e \in E |-> IF i \in 1 .. n THEN Field(e, seq[i]) ELSE e]]
<1>1. Fields(base, n) = (CHOOSE h : Is(h))[1 .. n]
  BY DEF Fields, FoldLeft, MapThenFoldSet
<1>2. PICK h : Folding(h, E, base, f, n)
  <2>1. f \in [Nat -> [E -> E]]
    OBVIOUS
  <2> HIDE DEF f
  <2> QED
    BY <2>1, FoldExists
<1>3. Is(h)
  <2>1. ASSUME NEW s \in SUBSET (1 .. n), s # {}
        PROVE  f[Max(s)][h[s \ {Max(s)}]] = Field(h[s \ {Max(s)}], seq[Max(s)])
    <3>1. Max(s) \in 1 .. n
      BY <2>1, LargestIndex
    <3>2. h[s \ {Max(s)}] \in E
      BY <1>2 DEF Folding
    <3> QED
      BY <3>1, <3>2
  <2> DEFINE value(s) == IF s = {} THEN base ELSE Field(h[s \ {Max(s)}], seq[Max(s)])
  <2>2. \A s \in SUBSET (1 .. n) : h[s] = value(s)
    <3> HIDE DEF f, seq
    <3> QED
      BY <1>2, <2>1 DEF Folding
  <2> HIDE DEF value
  <2>3. h = [s \in SUBSET (1 .. n) |-> value(s)]
    BY <1>2, <2>2 DEF Folding
  <2> QED
    BY <2>3 DEF value
<1> DEFINE k == CHOOSE g : Is(g)
<1>4. Is(k)
  <2> HIDE DEF Is
  <2> QED
    BY <1>3
<1> HIDE DEF k
<1>5. k[{}] \in E
  BY <1>4
<1>6. ASSUME NEW m \in Nat, m < n, k[1 .. m] \in E PROVE k[1 .. (m + 1)] \in E
  <2>1. k[1 .. (m + 1)] = Field(k[1 .. m], m + 1)
    <3>1. /\ 1 .. (m + 1) \in SUBSET (1 .. n) /\ 1 .. (m + 1) # {}
          /\ Max(1 .. (m + 1)) = m + 1 /\ (1 .. (m + 1)) \ {m + 1} = 1 .. m
      BY <1>6, FirstIndexes
    <3>2. seq[m + 1] = m + 1
      BY <1>6
    <3> HIDE DEF seq
    <3> QED
      BY <1>4, <3>1, <3>2
  <2> QED
    BY <1>6, <2>1
<1>7. k[1 .. n] \in E
  <2> HIDE DEF Is
  <2> QED
    BY <1>5, <1>6, FoldReached
<1> QED
  BY <1>1, <1>7 DEF k

LEMMA EntriesKeep ==
  ASSUME NEW E, NEW base \in E, NEW n \in Nat, \A e \in E, i \in 1 .. n : MapEntry(e, i) \in E
  PROVE  FoldLeft(MapEntry, base, [i \in 1 .. n |-> i]) \in E
<1> DEFINE seq == [i \in 1 .. n |-> i]
           Is(h) == h = [s \in SUBSET (1 .. n) |->
                           IF s = {} THEN base ELSE MapEntry(h[s \ {Max(s)}], seq[Max(s)])]
           f == [i \in Nat |-> [e \in E |-> IF i \in 1 .. n THEN MapEntry(e, seq[i]) ELSE e]]
<1>1. FoldLeft(MapEntry, base, [i \in 1 .. n |-> i]) = (CHOOSE h : Is(h))[1 .. n]
  BY DEF FoldLeft, MapThenFoldSet
<1>2. PICK h : Folding(h, E, base, f, n)
  <2>1. f \in [Nat -> [E -> E]]
    OBVIOUS
  <2> HIDE DEF f
  <2> QED
    BY <2>1, FoldExists
<1>3. Is(h)
  <2>1. ASSUME NEW s \in SUBSET (1 .. n), s # {}
        PROVE  f[Max(s)][h[s \ {Max(s)}]] = MapEntry(h[s \ {Max(s)}], seq[Max(s)])
    <3>1. Max(s) \in 1 .. n
      BY <2>1, LargestIndex
    <3>2. h[s \ {Max(s)}] \in E
      BY <1>2 DEF Folding
    <3> QED
      BY <3>1, <3>2
  <2> DEFINE value(s) == IF s = {} THEN base ELSE MapEntry(h[s \ {Max(s)}], seq[Max(s)])
  <2>2. \A s \in SUBSET (1 .. n) : h[s] = value(s)
    <3> HIDE DEF f, seq
    <3> QED
      BY <1>2, <2>1 DEF Folding
  <2> HIDE DEF value
  <2>3. h = [s \in SUBSET (1 .. n) |-> value(s)]
    BY <1>2, <2>2 DEF Folding
  <2> QED
    BY <2>3 DEF value
<1> DEFINE k == CHOOSE g : Is(g)
<1>4. Is(k)
  <2> HIDE DEF Is
  <2> QED
    BY <1>3
<1> HIDE DEF k
<1>5. k[{}] \in E
  BY <1>4
<1>6. ASSUME NEW m \in Nat, m < n, k[1 .. m] \in E PROVE k[1 .. (m + 1)] \in E
  <2>1. k[1 .. (m + 1)] = MapEntry(k[1 .. m], m + 1)
    <3>1. /\ 1 .. (m + 1) \in SUBSET (1 .. n) /\ 1 .. (m + 1) # {}
          /\ Max(1 .. (m + 1)) = m + 1 /\ (1 .. (m + 1)) \ {m + 1} = 1 .. m
      BY <1>6, FirstIndexes
    <3>2. seq[m + 1] = m + 1
      BY <1>6
    <3> HIDE DEF seq
    <3> QED
      BY <1>4, <3>1, <3>2
  <2> QED
    BY <1>6, <2>1
<1>7. k[1 .. n] \in E
  <2> HIDE DEF Is
  <2> QED
    BY <1>5, <1>6, FoldReached
<1> QED
  BY <1>1, <1>7 DEF k

LEMMA BlocksKeep ==
  ASSUME NEW E, NEW base \in E, NEW n \in Nat, \A e \in E, i \in 1 .. n : FreeBlock(e, i) \in E
  PROVE  FoldLeft(FreeBlock, base, [i \in 1 .. n |-> i]) \in E
<1> DEFINE seq == [i \in 1 .. n |-> i]
           Is(h) == h = [s \in SUBSET (1 .. n) |->
                           IF s = {} THEN base ELSE FreeBlock(h[s \ {Max(s)}], seq[Max(s)])]
           f == [i \in Nat |-> [e \in E |-> IF i \in 1 .. n THEN FreeBlock(e, seq[i]) ELSE e]]
<1>1. FoldLeft(FreeBlock, base, [i \in 1 .. n |-> i]) = (CHOOSE h : Is(h))[1 .. n]
  BY DEF FoldLeft, MapThenFoldSet
<1>2. PICK h : Folding(h, E, base, f, n)
  <2>1. f \in [Nat -> [E -> E]]
    OBVIOUS
  <2> HIDE DEF f
  <2> QED
    BY <2>1, FoldExists
<1>3. Is(h)
  <2>1. ASSUME NEW s \in SUBSET (1 .. n), s # {}
        PROVE  f[Max(s)][h[s \ {Max(s)}]] = FreeBlock(h[s \ {Max(s)}], seq[Max(s)])
    <3>1. Max(s) \in 1 .. n
      BY <2>1, LargestIndex
    <3>2. h[s \ {Max(s)}] \in E
      BY <1>2 DEF Folding
    <3> QED
      BY <3>1, <3>2
  <2> DEFINE value(s) == IF s = {} THEN base ELSE FreeBlock(h[s \ {Max(s)}], seq[Max(s)])
  <2>2. \A s \in SUBSET (1 .. n) : h[s] = value(s)
    <3> HIDE DEF f, seq
    <3> QED
      BY <1>2, <2>1 DEF Folding
  <2> HIDE DEF value
  <2>3. h = [s \in SUBSET (1 .. n) |-> value(s)]
    BY <1>2, <2>2 DEF Folding
  <2> QED
    BY <2>3 DEF value
<1> DEFINE k == CHOOSE g : Is(g)
<1>4. Is(k)
  <2> HIDE DEF Is
  <2> QED
    BY <1>3
<1> HIDE DEF k
<1>5. k[{}] \in E
  BY <1>4
<1>6. ASSUME NEW m \in Nat, m < n, k[1 .. m] \in E PROVE k[1 .. (m + 1)] \in E
  <2>1. k[1 .. (m + 1)] = FreeBlock(k[1 .. m], m + 1)
    <3>1. /\ 1 .. (m + 1) \in SUBSET (1 .. n) /\ 1 .. (m + 1) # {}
          /\ Max(1 .. (m + 1)) = m + 1 /\ (1 .. (m + 1)) \ {m + 1} = 1 .. m
      BY <1>6, FirstIndexes
    <3>2. seq[m + 1] = m + 1
      BY <1>6
    <3> HIDE DEF seq
    <3> QED
      BY <1>4, <3>1, <3>2
  <2> QED
    BY <1>6, <2>1
<1>7. k[1 .. n] \in E
  <2> HIDE DEF Is
  <2> QED
    BY <1>5, <1>6, FoldReached
<1> QED
  BY <1>1, <1>7 DEF k

LEMMA OrdersKeep ==
  ASSUME NEW E, NEW base \in E, NEW counts \in Seq(Nat),
         \A e \in E, count \in Nat : OrderState(e, count) \in E
  PROVE  FoldLeft(OrderState, base, counts) \in E
<1> DEFINE n == Len(counts)
           Is(h) == h = [s \in SUBSET (1 .. n) |->
                           IF s = {} THEN base ELSE OrderState(h[s \ {Max(s)}], counts[Max(s)])]
           f == [i \in Nat |-> [e \in E |->
                   IF i \in 1 .. n THEN OrderState(e, counts[i]) ELSE e]]
<1>a. n \in Nat /\ DOMAIN counts = 1 .. n /\ \A i \in 1 .. n : counts[i] \in Nat
  OBVIOUS
<1> HIDE DEF n
<1>1. FoldLeft(OrderState, base, counts) = (CHOOSE h : Is(h))[1 .. n]
  BY <1>a DEF FoldLeft, MapThenFoldSet
<1>2. PICK h : Folding(h, E, base, f, n)
  <2>1. f \in [Nat -> [E -> E]]
    BY <1>a
  <2> HIDE DEF f
  <2> QED
    BY <1>a, <2>1, FoldExists
<1>3. Is(h)
  <2>1. ASSUME NEW s \in SUBSET (1 .. n), s # {}
        PROVE  f[Max(s)][h[s \ {Max(s)}]] = OrderState(h[s \ {Max(s)}], counts[Max(s)])
    <3>1. Max(s) \in 1 .. n
      BY <1>a, <2>1, LargestIndex
    <3>2. h[s \ {Max(s)}] \in E
      BY <1>2 DEF Folding
    <3> QED
      BY <3>1, <3>2
  <2> DEFINE value(s) == IF s = {} THEN base ELSE OrderState(h[s \ {Max(s)}], counts[Max(s)])
  <2>2. \A s \in SUBSET (1 .. n) : h[s] = value(s)
    <3> HIDE DEF f
    <3> QED
      BY <1>2, <2>1 DEF Folding
  <2> HIDE DEF value
  <2>3. h = [s \in SUBSET (1 .. n) |-> value(s)]
    BY <1>2, <2>2 DEF Folding
  <2> QED
    BY <2>3 DEF value
<1> DEFINE k == CHOOSE g : Is(g)
<1>4. Is(k)
  <2> HIDE DEF Is
  <2> QED
    BY <1>3
<1> HIDE DEF k
<1>5. k[{}] \in E
  BY <1>4
<1>6. ASSUME NEW m \in Nat, m < n, k[1 .. m] \in E PROVE k[1 .. (m + 1)] \in E
  <2>1. k[1 .. (m + 1)] = OrderState(k[1 .. m], counts[m + 1])
    <3>1. /\ 1 .. (m + 1) \in SUBSET (1 .. n) /\ 1 .. (m + 1) # {}
          /\ Max(1 .. (m + 1)) = m + 1 /\ (1 .. (m + 1)) \ {m + 1} = 1 .. m
      BY <1>6, <1>a, FirstIndexes
    <3> QED
      BY <1>4, <3>1
  <2>2. m + 1 \in 1 .. n
    BY <1>6, <1>a
  <2> QED
    BY <1>6, <1>a, <2>1, <2>2
<1>7. k[1 .. n] \in E
  <2> HIDE DEF Is
  <2> QED
    BY <1>5, <1>6, <1>a, FoldReached
<1> QED
  BY <1>1, <1>7, <1>a DEF k

(* An empty literal is an item of which nothing is written yet.            *)
LEMMA EmptyLiteral ==
  ASSUME NEW j
  PROVE  jems_literal(j, <<>>) = commify(j)
<1> DEFINE Is(h) == h = [s \in SUBSET {} |->
                           IF s = {} THEN commify(j)
                           ELSE emit_char(h[s \ {Max(s)}], <<>>[Max(s)])]
<1>1. jems_literal(j, <<>>) = (CHOOSE h : Is(h))[{}]
  <2>1. DOMAIN <<>> = {}
    OBVIOUS
  <2> QED
    BY <2>1 DEF jems_literal, FoldLeft, MapThenFoldSet
<1>2. \E h : Is(h)
  <2> DEFINE h == [s \in SUBSET {} |-> commify(j)]
  <2>1. Is(h)
    OBVIOUS
  <2> QED
    BY <2>1
<1> DEFINE k == CHOOSE h : Is(h)
<1>3. Is(k)
  <2> HIDE DEF Is
  <2> QED
    BY <1>2
<1> HIDE DEF k
<1>4. k[{}] = commify(j)
  BY <1>3
<1> QED
  BY <1>1, <1>4 DEF k

-----------------------------------------------------------------------------
(* The documents of the clients.                                           *)
LEMMA FieldsWritten ==
  ASSUME NEW max, NEW j, NEW below \in Seq(Doc!Frames), InObject(max, j, below), NEW n \in Nat
  PROVE  InObject(max, Fields(j, n), below)
<1> DEFINE E == {k \in Writers(max) : InObject(max, k, below)}
<1>1. j \in E
  BY WritesFacts DEF InObject
<1>2. ASSUME NEW k \in E, NEW i \in 1 .. n PROVE Field(k, i) \in E
  <2>1. "field" \in Words /\ "1" \in Values /\ "field" \in Tokens /\ "1" \in Tokens
    BY DEF Words, Values, Tokens
  <2>2. /\ jems_string(k, "field") \in Writers(max)
        /\ Field(k, i) = jems_string(jems_string(k, "field"), "1")
        /\ Field(k, i) \in Writers(max)
    BY <2>1, ItemSeen DEF Field, jems_key_scalar
  <2>3. InObject(max, Field(k, i), below)
    BY <2>1, <2>2, PairWritten
  <2> QED
    BY <2>2, <2>3
<1> HIDE DEF E
<1>3. Fields(j, n) \in E
  BY <1>1, <1>2, FieldsKeep
<1> QED
  BY <1>3 DEF E

LEMMA EntryWritten ==
  ASSUME NEW max, NEW j, NEW below \in Seq(Doc!Frames), InArray(max, j, below),
         Len(below) + 2 <= max, NEW i
  PROVE  InArray(max, MapEntry(j, i), below)
<1>1. PICK items \in Nat : InObject(max, jems_object_open(j), Holding(below, "array", items))
  BY ObjectInArray
<1> DEFINE n == Holding(below, "array", items)
<1>2. n \in Seq(Doc!Frames) /\ Len(n) >= 1
  <2> HIDE DEF n
  <2>1. n \in Seq(Doc!Frames) /\ Len(n) = Len(below) + 1
    BY OnTop DEF TopsOff, n
  <2>2. Len(below) \in Nat
    OBVIOUS
  <2> QED
    BY <2>1, <2>2
<1> HIDE DEF n
<1>3. InObject(max, Fields(jems_object_open(j), 3), n)
  BY <1>1, <1>2, FieldsWritten DEF n
<1>4. Writes(max, MapEntry(j, i), n)
  BY <1>2, <1>3, ObjectClosed DEF MapEntry
<1> QED
  BY <1>4 DEF InArray, n

LEMMA EntriesWritten ==
  ASSUME NEW max, NEW j, NEW below \in Seq(Doc!Frames), InArray(max, j, below),
         Len(below) + 2 <= max, NEW n \in Nat
  PROVE  InArray(max, FoldLeft(MapEntry, j, [i \in 1 .. n |-> i]), below)
<1> DEFINE E == {k \in Writers(max) : InArray(max, k, below)}
<1>1. j \in E
  BY WritesFacts DEF InArray
<1>2. ASSUME NEW k \in E, NEW i \in 1 .. n PROVE MapEntry(k, i) \in E
  <2>1. InArray(max, MapEntry(k, i), below)
    BY EntryWritten
  <2>2. MapEntry(k, i) \in Writers(max)
    BY <2>1, WritesFacts DEF InArray
  <2> QED
    BY <2>1, <2>2
<1> HIDE DEF E
<1>3. FoldLeft(MapEntry, j, [i \in 1 .. n |-> i]) \in E
  BY <1>1, <1>2, EntriesKeep
<1> QED
  BY <1>3 DEF E

LEMMA BlocksWritten ==
  ASSUME NEW max, NEW j, NEW below \in Seq(Doc!Frames), InArray(max, j, below), NEW n \in Nat
  PROVE  InArray(max, FoldLeft(FreeBlock, j, [i \in 1 .. n |-> i]), below)
<1> DEFINE E == {k \in Writers(max) : InArray(max, k, below)}
<1>1. j \in E
  BY WritesFacts DEF InArray
<1>2. ASSUME NEW k \in E, NEW i \in 1 .. n PROVE FreeBlock(k, i) \in E
  <2>1. "text" \in Values
    BY DEF Values, Words
  <2>2. InArray(max, FreeBlock(k, i), below)
    BY <2>1, ElementWritten DEF FreeBlock
  <2>3. FreeBlock(k, i) \in Writers(max)
    BY <2>2, WritesFacts DEF InArray
  <2> QED
    BY <2>2, <2>3
<1> HIDE DEF E
<1>3. FoldLeft(FreeBlock, j, [i \in 1 .. n |-> i]) \in E
  BY <1>1, <1>2, BlocksKeep
<1> QED
  BY <1>3 DEF E

(* An array is opened as the value of a member: what is in it then.        *)
LEMMA FieldArray ==
  ASSUME NEW max, NEW j, NEW below \in Seq(Doc!Frames), InObject(max, j, below),
         Len(below) + 2 <= max
  PROVE  \E items \in Nat :
           /\ items % 2 = 0
           /\ InArray(max, jems_key_array_open(j, "field"), Holding(below, "object", items))
<1>1. "field" \in Words
  BY DEF Words
<1>2. AtMember(max, jems_string(j, "field"), below)
  BY <1>1, KeyWritten
<1> QED
  BY <1>2, ArrayInObject DEF jems_key_array_open

LEMMA OrderWritten ==
  ASSUME NEW max, NEW j, NEW below \in Seq(Doc!Frames), InArray(max, j, below),
         Len(below) + 3 <= max, NEW count \in Nat
  PROVE  InArray(max, OrderState(j, count), below)
<1> DEFINE opened == jems_key_array_open(Fields(jems_object_open(j), 4), "field")
           blocks == FoldLeft(FreeBlock, opened, [i \in 1 .. count |-> i])
<1>1. OrderState(j, count) = jems_object_close(jems_array_close(blocks))
  BY DEF OrderState
<1>2. Len(below) \in Nat /\ max \in Nat /\ Len(below) + 2 <= max
  BY WritesFacts DEF InArray
<1>3. PICK items \in Nat : InObject(max, jems_object_open(j), Holding(below, "array", items))
  BY <1>2, ObjectInArray
<1> DEFINE n == Holding(below, "array", items)
<1>4. n \in Seq(Doc!Frames) /\ Len(n) = Len(below) + 1
  BY OnTop DEF TopsOff
<1> HIDE DEF n
<1>5. InObject(max, Fields(jems_object_open(j), 4), n)
  BY <1>3, <1>4, FieldsWritten DEF n
<1>6. PICK more \in Nat : more % 2 = 0 /\ InArray(max, opened, Holding(n, "object", more))
  BY <1>2, <1>4, <1>5, FieldArray
<1> DEFINE m == Holding(n, "object", more)
<1>7. m \in Seq(Doc!Frames) /\ Len(m) = Len(n) + 1
  BY <1>4, OnTop DEF TopsOff
<1> HIDE DEF m, opened
<1>8. InArray(max, blocks, m)
  BY <1>6, <1>7, BlocksWritten DEF m
<1> HIDE DEF blocks
<1>9. Writes(max, jems_array_close(blocks), m)
  BY <1>2, <1>4, <1>7, <1>8, ArrayClosed
<1>10. InObject(max, jems_array_close(blocks), n)
  BY <1>6, <1>9 DEF InObject, m
<1>11. Writes(max, OrderState(j, count), n)
  BY <1>1, <1>2, <1>4, <1>10, ObjectClosed
<1> QED
  BY <1>11 DEF InArray, n

LEMMA OrdersWritten ==
  ASSUME NEW max, NEW j, NEW below \in Seq(Doc!Frames), InArray(max, j, below),
         Len(below) + 3 <= max, NEW counts \in Seq(Nat)
  PROVE  InArray(max, FoldLeft(OrderState, j, counts), below)
<1> DEFINE E == {k \in Writers(max) : InArray(max, k, below)}
<1>1. j \in E
  BY WritesFacts DEF InArray
<1>2. ASSUME NEW k \in E, NEW count \in Nat PROVE OrderState(k, count) \in E
  <2>1. InArray(max, OrderState(k, count), below)
    BY OrderWritten
  <2>2. OrderState(k, count) \in Writers(max)
    BY <2>1, WritesFacts DEF InArray
  <2> QED
    BY <2>1, <2>2
<1> HIDE DEF E
<1>3. FoldLeft(OrderState, j, counts) \in E
  BY <1>1, <1>2, OrdersKeep
<1> QED
  BY <1>3 DEF E

(* An object of some fields and an array is a whole document.              *)
LEMMA DocumentWith ==
  ASSUME NEW max \in Nat, max >= 3, NEW k \in Nat, NEW j,
         j = Fields(jems_object_open(Emitter(max)), k)
  PROVE  \E below \in Seq(Doc!Frames) :
           /\ Len(below) = 2 /\ InArray(max, jems_key_array_open(j, "field"), below)
           /\ \A e : InArray(max, e, below) =>
                /\ jems_object_close(jems_array_close(e)).arg \in Seq(Tokens)
                /\ IsJson(jems_object_close(jems_array_close(e)).arg)
<1>1. Document \in Seq(Doc!Frames) /\ Len(Document) >= 1 /\ Len(Document) + 2 <= max
  <2>1. Document \in Seq(Doc!Frames) /\ Len(Document) = 1
    BY DocumentFacts
  <2> QED
    BY <2>1
<1>2. InObject(max, jems_object_open(Emitter(max)), Document)
  BY DocumentOpened
<1>3. InObject(max, j, Document)
  BY <1>1, <1>2, FieldsWritten
<1>4. PICK items \in Nat :
        /\ items % 2 = 0
        /\ InArray(max, jems_key_array_open(j, "field"), Holding(Document, "object", items))
  BY <1>1, <1>3, FieldArray
<1> DEFINE n == Holding(Document, "object", items)
<1>5. n \in Seq(Doc!Frames) /\ Len(n) = 2 /\ Len(n) >= 1
  <2>1. n \in Seq(Doc!Frames) /\ Len(n) = 2
    BY DocumentFacts
  <2> QED
    BY <2>1
<1> HIDE DEF n
<1>6. ASSUME NEW e, InArray(max, e, n)
      PROVE  /\ jems_object_close(jems_array_close(e)).arg \in Seq(Tokens)
             /\ IsJson(jems_object_close(jems_array_close(e)).arg)
  <2>1. Writes(max, jems_array_close(e), n)
    BY <1>5, <1>6, ArrayClosed
  <2>2. InObject(max, jems_array_close(e), Document)
    BY <1>4, <2>1 DEF InObject, n
  <2>3. Writes(max, jems_object_close(jems_array_close(e)), Document)
    BY <1>1, <2>2, ObjectClosed
  <2> QED
    BY <2>3, DocumentDone
<1> QED
  BY <1>4, <1>5, <1>6 DEF n

LEMMA MemoryMapIsJson ==
  ASSUME NEW n \in Nat
  PROVE  MemoryMap(n) \in Seq(Tokens) /\ IsJson(MemoryMap(n))
<1> DEFINE max == CLIENT_MAX_LEVEL
           totals == Fields(jems_object_open(Emitter(max)), 4)
           opened == jems_key_array_open(totals, "field")
           entries == FoldLeft(MapEntry, opened, [i \in 1 .. n |-> i])
<1>1. max \in Nat /\ max >= 3 /\ 2 + 3 <= max /\ 2 + 2 <= max
  BY LoggerAssumption
<1>2. MemoryMap(n) = jems_object_close(jems_array_close(entries)).arg
  BY DEF MemoryMap
<1> HIDE DEF max
<1>3. PICK below \in Seq(Doc!Frames) :
        /\ Len(below) = 2 /\ InArray(max, opened, below)
        /\ \A e : InArray(max, e, below) =>
             /\ jems_object_close(jems_array_close(e)).arg \in Seq(Tokens)
             /\ IsJson(jems_object_close(jems_array_close(e)).arg)
  <2>1. \A j : j = totals =>
          \E below \in Seq(Doc!Frames) :
            /\ Len(below) = 2 /\ InArray(max, jems_key_array_open(j, "field"), below)
            /\ \A e : InArray(max, e, below) =>
                 /\ jems_object_close(jems_array_close(e)).arg \in Seq(Tokens)
                 /\ IsJson(jems_object_close(jems_array_close(e)).arg)
    BY <1>1, DocumentWith
  <2> HIDE DEF totals
  <2> QED
    BY <2>1
<1> HIDE DEF opened
<1>4. InArray(max, entries, below)
  <2>1. Len(below) + 2 <= max
    BY <1>1, <1>3
  <2> QED
    BY <1>3, <2>1, EntriesWritten
<1> QED
  BY <1>2, <1>3, <1>4

LEMMA BuddyStateIsJson ==
  ASSUME NEW counts \in Seq(Nat)
  PROVE  BuddyState(counts) \in Seq(Tokens) /\ IsJson(BuddyState(counts))
<1> DEFINE max == CLIENT_MAX_LEVEL
           totals == Fields(jems_object_open(Emitter(max)), 2)
           opened == jems_key_array_open(totals, "field")
           orders == FoldLeft(OrderState, opened, counts)
<1>1. max \in Nat /\ max >= 3 /\ 2 + 3 <= max /\ 2 + 2 <= max
  BY LoggerAssumption
<1>2. BuddyState(counts) = jems_object_close(jems_array_close(orders)).arg
  BY DEF BuddyState
<1> HIDE DEF max
<1>3. PICK below \in Seq(Doc!Frames) :
        /\ Len(below) = 2 /\ InArray(max, opened, below)
        /\ \A e : InArray(max, e, below) =>
             /\ jems_object_close(jems_array_close(e)).arg \in Seq(Tokens)
             /\ IsJson(jems_object_close(jems_array_close(e)).arg)
  <2>1. \A j : j = totals =>
          \E below \in Seq(Doc!Frames) :
            /\ Len(below) = 2 /\ InArray(max, jems_key_array_open(j, "field"), below)
            /\ \A e : InArray(max, e, below) =>
                 /\ jems_object_close(jems_array_close(e)).arg \in Seq(Tokens)
                 /\ IsJson(jems_object_close(jems_array_close(e)).arg)
    BY <1>1, DocumentWith
  <2> HIDE DEF totals
  <2> QED
    BY <2>1
<1> HIDE DEF opened
<1>4. InArray(max, orders, below)
  <2>1. Len(below) + 3 <= max
    BY <1>1, <1>3
  <2> QED
    BY <1>3, <2>1, OrdersWritten
<1> QED
  BY <1>2, <1>3, <1>4

-----------------------------------------------------------------------------
(* A document as the value of a member: what is read of it inside another. *)
LEMMA LastRemoved ==
  ASSUME NEW S, NEW s \in Seq(S), Len(s) >= 1
  PROVE  /\ Front(s) \in Seq(S) /\ Len(Front(s)) = Len(s) - 1
         /\ \A i \in 1 .. (Len(s) - 1) : Front(s)[i] = s[i]
         /\ Last(s) = s[Len(s)] /\ Last(s) \in S
BY Doc!LastRemoved, DocAssumptions DEF Doc!Front, Front, Doc!Last, Last

(* The places of a reader of the document alone, outermost first.          *)
Stack == {s \in Seq(Places) : Len(s) >= 1 /\ s[1] \in {"start", "end"}}

Around(p) == IF p = "start" THEN "value" ELSE "nextPair"

(* The same within the object that the document is a member of.            *)
Inside(s) ==
  [i \in 1 .. (Len(s) + 1) |->
     IF i = 1 THEN "end" ELSE IF i = 2 THEN Around(s[1]) ELSE s[i - 1]]

LEMMA InsideFacts ==
  ASSUME NEW s \in Stack
  PROVE  /\ Inside(s) \in Seq(Places) /\ Len(Inside(s)) = Len(s) + 1 /\ Len(s) \in Nat
         /\ Inside(s) # <<>> /\ Inside(s)[1] = "end" /\ Inside(s)[2] = Around(s[1])
         /\ \A i \in 3 .. (Len(s) + 1) : Inside(s)[i] = s[i - 1]
<1>1. Len(s) \in Nat /\ Len(s) >= 1 /\ \A i \in 1 .. Len(s) : s[i] \in Places
  BY DEF Stack
<1>2. Around(s[1]) \in Places /\ "end" \in Places
  BY DEF Around, Places
<1>3. \A i \in 1 .. (Len(s) + 1) :
        (IF i = 1 THEN "end" ELSE IF i = 2 THEN Around(s[1]) ELSE s[i - 1]) \in Places
  <2>1. \A i \in 1 .. (Len(s) + 1) : i # 1 => i - 1 \in 1 .. Len(s)
    BY <1>1
  <2> QED
    BY <1>1, <1>2, <2>1
<1>4. Inside(s) \in Seq(Places) /\ Len(Inside(s)) = Len(s) + 1
  <2>1. Len(s) + 1 \in Nat
    BY <1>1
  <2> QED
    BY <1>3, <2>1, IsASeq DEF Inside
<1>5. /\ Inside(s)[1] = "end" /\ Inside(s)[2] = Around(s[1])
      /\ \A i \in 3 .. (Len(s) + 1) : Inside(s)[i] = s[i - 1]
  BY <1>1 DEF Inside
<1>6. Inside(s) # <<>>
  <2>1. Len(Inside(s)) # 0
    BY <1>1, <1>4
  <2> QED
    BY <2>1
<1> QED
  BY <1>1, <1>4, <1>5, <1>6

(* A place is left behind the last one, the last one is replaced, or left. *)
LEMMA InsideAppended ==
  ASSUME NEW s \in Stack, NEW p \in Places
  PROVE  Append(s, p) \in Stack /\ Inside(Append(s, p)) = Append(Inside(s), p)
<1> DEFINE t == Append(s, p)
           n == Inside(s)
           u == Append(n, p)
<1>1. s \in Seq(Places) /\ Len(s) \in Nat /\ Len(s) >= 1 /\ s[1] \in {"start", "end"}
  BY DEF Stack
<1>2. /\ t \in Seq(Places) /\ Len(t) = Len(s) + 1 /\ t[Len(s) + 1] = p
      /\ \A i \in 1 .. Len(s) : t[i] = s[i]
  BY <1>1
<1>3. t[1] = s[1]
  BY <1>1, <1>2
<1> HIDE DEF t
<1>4. t \in Stack
  BY <1>1, <1>2, <1>3 DEF Stack
<1>5. /\ n \in Seq(Places) /\ Len(n) = Len(s) + 1 /\ n[1] = "end" /\ n[2] = Around(s[1])
      /\ \A i \in 3 .. (Len(s) + 1) : n[i] = s[i - 1]
  BY InsideFacts
<1> HIDE DEF n
<1>6. /\ u \in Seq(Places) /\ Len(u) = Len(s) + 2 /\ u[Len(s) + 2] = p
      /\ \A i \in 1 .. (Len(s) + 1) : u[i] = n[i]
  BY <1>1, <1>5
<1> HIDE DEF u
<1>7. /\ Inside(t) \in Seq(Places) /\ Len(Inside(t)) = Len(s) + 2 /\ Inside(t)[1] = "end"
      /\ Inside(t)[2] = Around(s[1])
      /\ \A i \in 3 .. (Len(s) + 2) : Inside(t)[i] = t[i - 1]
  BY <1>1, <1>2, <1>3, <1>4, InsideFacts
<1>8. ASSUME NEW i \in 1 .. (Len(s) + 2) PROVE Inside(t)[i] = u[i]
  <2>1. CASE i \in {1, 2}
    BY <1>1, <1>5, <1>6, <1>7, <2>1
  <2>2. CASE i \in 3 .. (Len(s) + 1)
    <3>1. i - 1 \in 1 .. Len(s) /\ i \in 3 .. (Len(s) + 2) /\ i \in 1 .. (Len(s) + 1)
      BY <1>1, <2>2
    <3>2. Inside(t)[i] = t[i - 1] /\ t[i - 1] = s[i - 1] /\ u[i] = n[i] /\ n[i] = s[i - 1]
      BY <1>2, <1>5, <1>6, <1>7, <2>2, <3>1
    <3> QED
      BY <3>2
  <2>3. CASE i = Len(s) + 2
    <3>1. i - 1 = Len(s) + 1 /\ i \in 3 .. (Len(s) + 2)
      BY <1>1, <2>3
    <3>2. Inside(t)[i] = t[i - 1]
      BY <1>7, <3>1
    <3> QED
      BY <1>2, <1>6, <2>3, <3>1, <3>2
  <2> QED
    BY <1>1, <2>1, <2>2, <2>3
<1>9. Inside(t) = u
  BY <1>6, <1>7, <1>8, SeqEqual
<1> QED
  BY <1>4, <1>9 DEF t, u, n

LEMMA InsideLeft ==
  ASSUME NEW s \in Stack, Len(s) >= 2
  PROVE  Front(s) \in Stack /\ Inside(Front(s)) = Front(Inside(s))
<1> DEFINE f == Front(s)
           n == Inside(s)
           u == Front(n)
<1>1. s \in Seq(Places) /\ Len(s) \in Nat /\ s[1] \in {"start", "end"}
  BY DEF Stack
<1>2. f \in Seq(Places) /\ Len(f) = Len(s) - 1 /\ \A i \in 1 .. (Len(s) - 1) : f[i] = s[i]
  BY <1>1, LastRemoved
<1>3. f[1] = s[1]
  BY <1>1, <1>2
<1> HIDE DEF f
<1>4. f \in Stack
  BY <1>1, <1>2, <1>3 DEF Stack
<1>5. /\ n \in Seq(Places) /\ Len(n) = Len(s) + 1 /\ n[1] = "end" /\ n[2] = Around(s[1])
      /\ \A i \in 3 .. (Len(s) + 1) : n[i] = s[i - 1]
  BY InsideFacts
<1> HIDE DEF n
<1>6. u \in Seq(Places) /\ Len(u) = Len(s) /\ \A i \in 1 .. Len(s) : u[i] = n[i]
  <2>1. Len(n) >= 1 /\ Len(n) - 1 = Len(s) /\ n \in Seq(Places)
    BY <1>1, <1>5
  <2>2. u \in Seq(Places) /\ Len(u) = Len(n) - 1 /\ \A i \in 1 .. (Len(n) - 1) : u[i] = n[i]
    BY <2>1, LastRemoved
  <2> QED
    BY <2>1, <2>2
<1> HIDE DEF u
<1>7. /\ Inside(f) \in Seq(Places) /\ Len(Inside(f)) = Len(s) /\ Inside(f)[1] = "end"
      /\ Inside(f)[2] = Around(s[1])
      /\ \A i \in 3 .. Len(s) : Inside(f)[i] = f[i - 1]
  <2>1. Len(f) + 1 = Len(s)
    BY <1>1, <1>2
  <2>2. /\ Inside(f) \in Seq(Places) /\ Len(Inside(f)) = Len(f) + 1 /\ Inside(f)[1] = "end"
        /\ Inside(f)[2] = Around(f[1])
        /\ \A i \in 3 .. (Len(f) + 1) : Inside(f)[i] = f[i - 1]
    BY <1>4, InsideFacts
  <2> QED
    BY <1>3, <2>1, <2>2
<1>8. ASSUME NEW i \in 1 .. Len(s) PROVE Inside(f)[i] = u[i]
  <2>1. CASE i \in {1, 2}
    BY <1>1, <1>5, <1>6, <1>7, <2>1
  <2>2. CASE i \in 3 .. Len(s)
    <3>1. i - 1 \in 1 .. (Len(s) - 1) /\ i \in 3 .. (Len(s) + 1)
      BY <1>1, <2>2
    <3>2. Inside(f)[i] = f[i - 1] /\ f[i - 1] = s[i - 1] /\ u[i] = n[i] /\ n[i] = s[i - 1]
      BY <1>2, <1>5, <1>6, <1>7, <2>2, <3>1
    <3> QED
      BY <3>2
  <2> QED
    BY <1>1, <2>1, <2>2
<1>9. Inside(f) = u
  BY <1>6, <1>7, <1>8, SeqEqual
<1> QED
  BY <1>4, <1>9 DEF f, u, n

LEMMA InsideAlone ==
  ASSUME NEW p \in {"start", "end"}
  PROVE  <<p>> \in Stack /\ Inside(<<p>>) = <<"end", Around(p)>>
<1>1. <<p>> \in Stack
  BY DEF Stack, Places
<1>2. Inside(<<p>>) \in Seq(Places) /\ Len(Inside(<<p>>)) = 2
      /\ Inside(<<p>>)[1] = "end" /\ Inside(<<p>>)[2] = Around(p)
  <2> DEFINE s == <<p>>
  <2>1. s \in Stack /\ Len(s) = 1 /\ s[1] = p
    BY <1>1
  <2> HIDE DEF s
  <2>2. Inside(s) \in Seq(Places) /\ Len(Inside(s)) = Len(s) + 1
        /\ Inside(s)[1] = "end" /\ Inside(s)[2] = Around(s[1])
    BY <2>1, InsideFacts
  <2>3. Len(s) + 1 = 2
    BY <2>1
  <2> QED
    BY <2>1, <2>2, <2>3 DEF s
<1>3. Inside(<<p>>) = <<"end", Around(p)>>
  <2> DEFINE n == Inside(<<p>>)
             u == <<"end", Around(p)>>
  <2>1. u \in Seq(Places) /\ Len(u) = 2 /\ u[1] = "end" /\ u[2] = Around(p)
    BY DEF Around, Places
  <2>2. n \in Seq(Places) /\ Len(n) = 2 /\ n[1] = "end" /\ n[2] = Around(p)
    BY <1>2
  <2> HIDE DEF n, u
  <2>3. \A i \in 1 .. 2 : n[i] = u[i]
    BY <2>1, <2>2
  <2>4. n = u
    BY <2>1, <2>2, <2>3, SeqEqual
  <2> QED
    BY <2>4 DEF n, u
<1> QED
  BY <1>1, <1>3

LEMMA AfterValueFacts ==
  /\ DOMAIN AfterValue = {"start", "firstItem", "item", "value"}
  /\ AfterValue["start"] = "end" /\ AfterValue["value"] = "nextPair"
  /\ \A p \in DOMAIN AfterValue : AfterValue[p] \in Places
<1>1. /\ DOMAIN AfterValue = {"start", "firstItem", "item", "value"}
      /\ AfterValue["start"] = "end" /\ AfterValue["value"] = "nextPair"
      /\ AfterValue["firstItem"] = "nextItem" /\ AfterValue["item"] = "nextItem"
  BY DEF AfterValue
<1>2. {"end", "nextPair", "nextItem"} \subseteq Places
  BY DEF Places
<1> QED
  BY <1>1, <1>2

(* The reader does the same wherever the last place is the same.           *)
Moves(s, t, token) ==
  \/ \E q, c \in Places : /\ Read(s, token) = Append(Append(Front(s), q), c)
                          /\ Read(t, token) = Append(Append(Front(t), q), c)
  \/ \E q \in Places : /\ Read(s, token) = Append(Front(s), q)
                       /\ Read(t, token) = Append(Front(t), q)
  \/ Read(s, token) = Front(s) /\ Read(t, token) = Front(t)

LEMMA SameMove ==
  ASSUME NEW s, s # <<>>, NEW t, t # <<>>, Last(t) = Last(s), NEW token, Read(s, token) # <<>>
  PROVE  Moves(s, t, token)
<1> DEFINE place == Last(s)
           after == AfterValue[place]
           In == place \in DOMAIN AfterValue
           Opens(c) == /\ Read(s, token) = Append(Append(Front(s), after), c)
                       /\ Read(t, token) = Append(Append(Front(t), after), c)
           Goes(q) == Read(s, token) = Append(Front(s), q) /\ Read(t, token) = Append(Front(t), q)
           Leaves == Read(s, token) = Front(s) /\ Read(t, token) = Front(t)
<1>1. In => after \in Places
  BY AfterValueFacts
<1>2. {"firstKey", "firstItem", "colon", "value", "key", "item"} \subseteq Places
  BY DEF Places
<1> HIDE DEF after, place
<1>3. \/ (In /\ (Opens("firstKey") \/ Opens("firstItem") \/ Goes(after)))
      \/ Goes("colon") \/ Goes("value") \/ Goes("key") \/ Goes("item") \/ Leaves
  <2>1. place = Last(s) /\ place = Last(t) /\ after = AfterValue[place]
    BY DEF place, after
  <2> HIDE DEF In, Opens, Goes, Leaves
  <2>2. CASE token = "{" /\ In
    BY <2>1, <2>2 DEF Read, In, Opens
  <2>3. CASE token = "[" /\ In
    BY <2>1, <2>3 DEF Read, In, Opens
  <2>4. CASE ~ (token \in {"{", "["} /\ In)
    <3> DEFINE Key == token \in Words /\ place \in {"firstKey", "key"}
               Value == token \in Values /\ In
               Colon == token = ":" /\ place = "colon"
               Pair == token = "," /\ place = "nextPair"
               Item == token = "," /\ place = "nextItem"
               End == \/ token = "}" /\ place \in {"firstKey", "nextPair"}
                      \/ token = "]" /\ place \in {"firstItem", "nextItem"}
    <3> HIDE DEF In
    <3>1. ASSUME NEW r, r # <<>>, Last(r) = place
          PROVE  Read(r, token) =
                   IF Key THEN Append(Front(r), "colon")
                   ELSE IF Value THEN Append(Front(r), after)
                   ELSE IF Colon THEN Append(Front(r), "value")
                   ELSE IF Pair THEN Append(Front(r), "key")
                   ELSE IF Item THEN Append(Front(r), "item")
                   ELSE IF End THEN Front(r)
                   ELSE <<>>
      <4>1. place \in DOMAIN AfterValue => place \in {"start", "firstItem", "item", "value"}
        BY AfterValueFacts
      <4>2. CASE Key
        BY <2>1, <2>4, <3>1, <4>1, <4>2 DEF Read, In, Words
      <4>3. CASE Value /\ ~ Key
        BY <2>1, <2>4, <3>1, <4>1, <4>3 DEF Read, In, Words, Values
      <4>4. CASE Colon /\ ~ Value /\ ~ Key
        BY <2>1, <2>4, <3>1, <4>1, <4>4 DEF Read, In, Words, Values
      <4>5. CASE (Pair \/ Item) /\ ~ Value /\ ~ Key
        BY <2>1, <2>4, <3>1, <4>1, <4>5 DEF Read, In, Words, Values
      <4>6. CASE End /\ ~ Value /\ ~ Key
        BY <2>1, <2>4, <3>1, <4>1, <4>6 DEF Read, In, Words, Values
      <4>7. CASE ~ (Key \/ Value \/ Colon \/ Pair \/ Item \/ End)
        BY <2>1, <2>4, <3>1, <4>7 DEF Read, In, Words, Values
      <4> HIDE DEF Key, Value, Colon, Pair, Item, End
      <4> QED
        BY <4>2, <4>3, <4>4, <4>5, <4>6, <4>7
    <3> HIDE DEF Key, Value, Colon, Pair, Item, End
    <3>2. Value => In
      BY DEF Value
    <3> QED
      BY <2>1, <3>1, <3>2 DEF Goes, Leaves
  <2> QED
    BY <2>2, <2>3, <2>4
<1> QED
  BY <1>1, <1>2, <1>3 DEF Moves

LEMMA InsideReplaced ==
  ASSUME NEW s \in Stack, Len(s) >= 2, NEW q \in Places
  PROVE  /\ Append(Front(s), q) \in Stack
         /\ Inside(Append(Front(s), q)) = Append(Front(Inside(s)), q)
<1>1. Front(s) \in Stack /\ Inside(Front(s)) = Front(Inside(s))
  BY InsideLeft
<1> QED
  BY <1>1, InsideAppended

(* A document that is read is read in the same way inside an object.       *)
LEMMA ReadInside ==
  ASSUME NEW s \in Stack, NEW token, Read(s, token) # <<>>
  PROVE  Read(s, token) \in Stack /\ Read(Inside(s), token) = Inside(Read(s, token))
<1> DEFINE t == Inside(s)
<1>1. s \in Seq(Places) /\ Len(s) \in Nat /\ Len(s) >= 1 /\ s[1] \in {"start", "end"} /\ s # <<>>
  <2>1. s \in Seq(Places) /\ Len(s) >= 1 /\ s[1] \in {"start", "end"}
    BY DEF Stack
  <2>2. s # <<>>
    <3>1. Len(s) # 0
      BY <2>1
    <3> QED
      BY <3>1
  <2> QED
    BY <2>1, <2>2
<1>2. t \in Seq(Places) /\ Len(t) = Len(s) + 1 /\ t # <<>>
  BY InsideFacts
<1>3. CASE Len(s) >= 2
  <2>1. Last(t) = Last(s)
    <3>1. t[Len(s) + 1] = s[(Len(s) + 1) - 1]
      <4>1. Len(s) + 1 \in 3 .. (Len(s) + 1)
        BY <1>1, <1>3
      <4>2. \A i \in 3 .. (Len(s) + 1) : t[i] = s[i - 1]
        BY InsideFacts
      <4> QED
        BY <4>1, <4>2
    <3>2. (Len(s) + 1) - 1 = Len(s)
      BY <1>1
    <3> HIDE DEF t
    <3> QED
      BY <1>2, <3>1, <3>2 DEF Last
  <2>2. ASSUME NEW q \in Places, NEW c \in Places,
               Read(s, token) = Append(Append(Front(s), q), c),
               Read(t, token) = Append(Append(Front(t), q), c)
        PROVE  Read(s, token) \in Stack /\ Read(t, token) = Inside(Read(s, token))
    <3> DEFINE m == Append(Front(s), q)
    <3>1. m \in Stack /\ Inside(m) = Append(Front(t), q)
      BY <1>3, InsideReplaced
    <3> HIDE DEF m, t
    <3>2. Append(m, c) \in Stack /\ Inside(Append(m, c)) = Append(Inside(m), c)
      BY <3>1, InsideAppended
    <3>3. Read(s, token) = Append(m, c)
      BY <2>2 DEF m
    <3> QED
      BY <2>2, <3>1, <3>2, <3>3
  <2>3. ASSUME NEW q \in Places,
               Read(s, token) = Append(Front(s), q), Read(t, token) = Append(Front(t), q)
        PROVE  Read(s, token) \in Stack /\ Read(t, token) = Inside(Read(s, token))
    BY <1>3, <2>3, InsideReplaced
  <2>4. ASSUME Read(s, token) = Front(s), Read(t, token) = Front(t)
        PROVE  Read(s, token) \in Stack /\ Read(t, token) = Inside(Read(s, token))
    BY <1>3, <2>4, InsideLeft
  <2> HIDE DEF t
  <2>5. Moves(s, t, token)
    BY <1>1, <1>2, <2>1, SameMove
  <2>6. Read(s, token) \in Stack /\ Read(t, token) = Inside(Read(s, token))
    BY <2>2, <2>3, <2>4, <2>5 DEF Moves
  <2> QED
    BY <2>6 DEF t
<1>4. CASE Len(s) = 1
  <2> DEFINE p == s[1]
  <2>1. p \in {"start", "end"} /\ s = <<p>> /\ Last(s) = p /\ Front(s) = <<>>
    <3>1. s = <<s[1]>>
      BY <1>1, <1>4
    <3>2. Last(s) = s[1]
      BY <1>4 DEF Last
    <3>3. Front(s) = <<>>
      <4>1. Front(s) \in Seq(Places) /\ Len(Front(s)) = 0
        <5>1. Front(s) \in Seq(Places) /\ Len(Front(s)) = Len(s) - 1
          BY <1>1, LastRemoved
        <5> QED
          BY <1>4, <5>1
      <4> QED
        BY <4>1, EmptySeq
    <3> QED
      BY <1>1, <3>1, <3>2, <3>3
  <2>2. t = <<"end", Around(p)>> /\ Last(t) = Around(p) /\ Front(t) = <<"end">>
    <3>1. Inside(<<p>>) = <<"end", Around(p)>>
      BY <2>1, InsideAlone
    <3>2. ASSUME NEW x \in Places
          PROVE  Last(<<"end", x>>) = x /\ Front(<<"end", x>>) = <<"end">>
      <4> DEFINE u == <<"end", x>>
      <4>1. u \in Seq(Places) /\ Len(u) = 2 /\ u[1] = "end" /\ u[2] = x
        BY DEF Places
      <4> HIDE DEF u
      <4>2. Last(u) = x
        BY <4>1 DEF Last
      <4>3. Front(u) \in Seq(Places) /\ Len(Front(u)) = 2 - 1
            /\ \A i \in 1 .. (2 - 1) : Front(u)[i] = u[i]
        <5>1. Len(u) >= 1
          BY <4>1
        <5> QED
          BY <4>1, <5>1, LastRemoved
      <4>4. Front(u) = <<"end">>
        <5> DEFINE f == Front(u)
        <5>1. f \in Seq(Places) /\ Len(f) = 1 /\ f[1] = "end"
          BY <4>1, <4>3
        <5> HIDE DEF f
        <5> QED
          BY <5>1 DEF f
      <4> QED
        BY <4>2, <4>4 DEF u
    <3>3. Around(p) \in Places
      BY DEF Around, Places
    <3> QED
      BY <2>1, <3>1, <3>2, <3>3
  <2>3. DOMAIN AfterValue = {"start", "firstItem", "item", "value"}
        /\ AfterValue["start"] = "end" /\ AfterValue["value"] = "nextPair"
    BY AfterValueFacts
  <2> HIDE DEF p, t
  <2>4. p = "start" /\ token \in {"{", "["} \cup Values
    BY <1>1, <2>1, <2>3 DEF Read, Words, Values
  <2>5. Around(p) = "value" /\ Around("end") = "nextPair"
    BY <2>4 DEF Around
  <2>6. <<"end">> \in Stack /\ Inside(<<"end">>) = <<"end", "nextPair">>
    BY <2>5, InsideAlone
  <2>7. /\ Append(Front(s), "end") = <<"end">>
        /\ Append(Front(t), "nextPair") = <<"end", "nextPair">>
    <3>1. Append(<<>>, "end") = <<"end">>
      OBVIOUS
    <3>2. Append(<<"end">>, "nextPair") = <<"end", "nextPair">>
      <4> DEFINE b == <<"end">>
                 u == Append(b, "nextPair")
                 v == <<"end", "nextPair">>
      <4>1. b \in Seq(Places) /\ Len(b) = 1 /\ b[1] = "end"
            /\ v \in Seq(Places) /\ Len(v) = 2 /\ v[1] = "end" /\ v[2] = "nextPair"
        BY DEF Places
      <4> HIDE DEF b, v
      <4>2. u \in Seq(Places) /\ Len(u) = 2 /\ u[1] = "end" /\ u[2] = "nextPair"
        <5>1. "nextPair" \in Places
          BY DEF Places
        <5> DEFINE e == "nextPair"
        <5> HIDE DEF e
        <5>2. e \in Places
          BY <5>1 DEF e
        <5>3. /\ Append(b, e) \in Seq(Places) /\ Len(Append(b, e)) = 1 + 1
              /\ Append(b, e)[1] = b[1] /\ Append(b, e)[1 + 1] = e
          BY <4>1, <5>2
        <5> QED
          BY <4>1, <5>3 DEF e
      <4> HIDE DEF u
      <4>3. \A i \in 1 .. 2 : u[i] = v[i]
        BY <4>1, <4>2
      <4>4. u = v
        BY <4>1, <4>2, <4>3, SeqEqual
      <4> QED
        BY <4>4 DEF b, u, v
    <3> QED
      BY <2>1, <2>2, <3>1, <3>2
  <2>8. "firstKey" \in Places /\ "firstItem" \in Places
    BY DEF Places
  <2>9. CASE token = "{"
    <3>1. /\ Read(s, token) = Append(Append(Front(s), "end"), "firstKey")
          /\ Read(t, token) = Append(Append(Front(t), "nextPair"), "firstKey")
      BY <1>1, <1>2, <2>1, <2>2, <2>3, <2>4, <2>5, <2>9 DEF Read
    <3>2. /\ Append(<<"end">>, "firstKey") \in Stack
          /\ Inside(Append(<<"end">>, "firstKey")) = Append(<<"end", "nextPair">>, "firstKey")
      BY <2>6, <2>8, InsideAppended
    <3> QED
      BY <2>7, <3>1, <3>2 DEF t
  <2>10. CASE token = "["
    <3>1. /\ Read(s, token) = Append(Append(Front(s), "end"), "firstItem")
          /\ Read(t, token) = Append(Append(Front(t), "nextPair"), "firstItem")
      BY <1>1, <1>2, <2>1, <2>2, <2>3, <2>4, <2>5, <2>10 DEF Read
    <3>2. /\ Append(<<"end">>, "firstItem") \in Stack
          /\ Inside(Append(<<"end">>, "firstItem")) = Append(<<"end", "nextPair">>, "firstItem")
      BY <2>6, <2>8, InsideAppended
    <3> QED
      BY <2>7, <3>1, <3>2 DEF t
  <2>11. CASE token \in Values
    <3>1. /\ Read(s, token) = Append(Front(s), "end")
          /\ Read(t, token) = Append(Front(t), "nextPair")
      BY <1>1, <1>2, <2>1, <2>2, <2>3, <2>4, <2>5, <2>11 DEF Read, Words, Values
    <3> QED
      BY <2>6, <2>7, <3>1 DEF t
  <2> QED
    BY <2>4, <2>9, <2>10, <2>11
<1> QED
  BY <1>1, <1>3, <1>4

LEMMA ReadMember ==
  ASSUME NEW start \in Seq(Tokens), AfterReading(start) = <<"end", "value">>,
         NEW document \in Seq(Tokens), IsJson(document)
  PROVE  /\ start \o document \in Seq(Tokens)
         /\ AfterReading(start \o document) = <<"end", "nextPair">>
<1> DEFINE l == Len(start)
           m == Len(document)
           whole == start \o document
<1>1. /\ l \in Nat /\ m \in Nat /\ whole \in Seq(Tokens) /\ Len(whole) = l + m
      /\ \A i \in 1 .. l : whole[i] = start[i]
      /\ \A i \in 1 .. m : whole[l + i] = document[i]
  BY Joined
<1>2. PICK r : Reading(r, document)
  BY <1>1, AfterReadingIs
<1> HIDE DEF whole
<1>3. PICK q : Reading(q, whole)
  BY <1>1, AfterReadingIs
<1>4. q[l] = <<"end", "value">>
  <2>1. Reading(q, start)
    BY <1>1, <1>3 DEF Reading
  <2> QED
    BY <1>1, <2>1, AfterReadingIs
<1>5. r[m] = <<"end">>
  BY <1>1, <1>2, AfterReadingIs DEF IsJson
<1>6. \A i \in 1 .. m : r[i] = Read(r[i - 1], document[i])
  BY <1>2 DEF Reading
<1>7. \A i \in 1 .. m : q[l + i] = Read(q[l + (i - 1)], document[i])
  <2>1. ASSUME NEW i \in 1 .. m PROVE q[l + i] = Read(q[l + (i - 1)], document[i])
    <3>1. l + i \in 1 .. Len(whole) /\ (l + i) - 1 = l + (i - 1) /\ whole[l + i] = document[i]
      BY <1>1
    <3>2. q[l + i] = Read(q[(l + i) - 1], whole[l + i])
      BY <1>3, <3>1 DEF Reading
    <3> QED
      BY <3>1, <3>2
  <2> QED
    BY <2>1
<1> HIDE DEF l, m
<1>8. ASSUME NEW i \in 0 .. m, r[i] = <<>> PROVE FALSE
  <2> DEFINE Alive == {j \in i .. m : r[j] # <<>>}
  <2>1. m \in Alive
    <3>1. <<"end">> # <<>>
      OBVIOUS
    <3> QED
      BY <1>1, <1>5, <3>1
  <2>2. PICK j \in Alive : \A k \in Alive : j <= k
    <3>1. Alive \in SUBSET Nat
      BY <1>1
    <3> HIDE DEF Alive
    <3> QED
      BY <2>1, <3>1, LeastOf
  <2>3. j # i
    BY <1>8
  <2>4. j \in 1 .. m /\ j - 1 \in i .. m /\ j - 1 \notin Alive
    BY <1>1, <2>2, <2>3
  <2>5. r[j - 1] = <<>>
    BY <2>4
  <2>6. r[j] = Read(<<>>, document[j])
    BY <1>6, <2>4, <2>5
  <2>7. Read(<<>>, document[j]) = <<>>
    BY DEF Read
  <2> QED
    BY <2>6, <2>7
<1>9. \A i \in 0 .. m : r[i] \in Stack /\ q[l + i] = Inside(r[i])
  <2> DEFINE Bad == {i \in 0 .. m : ~ (r[i] \in Stack /\ q[l + i] = Inside(r[i]))}
  <2> SUFFICES ASSUME Bad # {} PROVE FALSE
    OBVIOUS
  <2>1. PICK n \in Bad : \A k \in Bad : n <= k
    <3>1. Bad \in SUBSET Nat
      BY <1>1
    <3> HIDE DEF Bad
    <3> QED
      BY <3>1, LeastOf
  <2>2. r[0] \in Stack /\ q[l + 0] = Inside(r[0])
    <3>1. r[0] = <<"start">>
      BY <1>2 DEF Reading, Fresh
    <3>2. <<"start">> \in Stack /\ Inside(<<"start">>) = <<"end", "value">>
      BY InsideAlone DEF Around
    <3>3. l + 0 = l
      BY <1>1
    <3> QED
      BY <1>4, <3>1, <3>2, <3>3
  <2>3. n # 0
    BY <2>2
  <2>4. n \in 1 .. m /\ n - 1 \in 0 .. m /\ n - 1 \notin Bad
    BY <1>1, <2>1, <2>3
  <2>5. r[n - 1] \in Stack /\ q[l + (n - 1)] = Inside(r[n - 1])
    BY <2>4
  <2>6. r[n] = Read(r[n - 1], document[n]) /\ q[l + n] = Read(q[l + (n - 1)], document[n])
    BY <1>6, <1>7, <2>4
  <2>7. r[n] # <<>>
    BY <1>8, <2>1
  <2>8. r[n] \in Stack /\ Read(Inside(r[n - 1]), document[n]) = Inside(r[n])
    BY <2>5, <2>6, <2>7, ReadInside
  <2> QED
    BY <2>1, <2>5, <2>6, <2>8
<1>10. q[l + m] = <<"end", "nextPair">>
  <2>1. q[l + m] = Inside(<<"end">>)
    <3>1. m \in 0 .. m
      BY <1>1
    <3>2. q[l + m] = Inside(r[m])
      BY <1>9, <3>1
    <3> QED
      BY <1>5, <3>2
  <2> QED
    BY <2>1, InsideAlone DEF Around
<1>11. AfterReading(whole) = q[Len(whole)]
  <2>1. Len(whole) \in Nat
    BY <1>1
  <2> QED
    BY <1>3, <2>1, AfterReadingIs
<1> QED
  BY <1>1, <1>10, <1>11 DEF whole

-----------------------------------------------------------------------------
(* What the logger writes: tokens, JSON under a condition, and the end of  *)
(* the line.                                                               *)
Entry(text, readable) ==
  \E body \in Seq(Tokens) : text = body \o <<EndOfLine>> /\ (readable => IsJson(body))

Severities == {"INFO", "DEBUG", "FATAL"}

LEMMA HeaderWritten ==
  ASSUME NEW level \in Severities
  PROVE  InObject(JEMS_MAX_LEVEL, Header(level), Document)
<1> DEFINE max == JEMS_MAX_LEVEL
           object == jems_object_open(Emitter(max))
           levelled == jems_key_string(object, "level", level)
           component == jems_key_string(levelled, "component", "text")
<1>1. Document \in Seq(Doc!Frames) /\ max \in Nat /\ max >= 2
  BY DocumentFacts, LoggerAssumption
<1>2. {"level", "component", "message"} \subseteq Words /\ level \in Values /\ "text" \in Values
  BY DEF Words, Values, Severities
<1>3. Header(level) = jems_key_string(component, "message", "text")
  BY DEF Header
<1> HIDE DEF max
<1>4. InObject(max, object, Document)
  BY <1>1, DocumentOpened
<1> HIDE DEF object
<1>5. InObject(max, levelled, Document)
  BY <1>1, <1>2, <1>4, PairWritten DEF jems_key_string
<1> HIDE DEF levelled
<1>6. InObject(max, component, Document)
  BY <1>1, <1>2, <1>5, PairWritten DEF jems_key_string
<1> HIDE DEF component
<1>7. InObject(max, Header(level), Document)
  BY <1>1, <1>2, <1>3, <1>6, PairWritten DEF jems_key_string
<1> QED
  BY <1>7 DEF max

LEMMA MessageIsEntry ==
  ASSUME NEW level \in Severities
  PROVE  Entry(log_message(level), TRUE)
<1>1. Writes(JEMS_MAX_LEVEL, jems_object_close(Header(level)), Document)
  <2>1. Document \in Seq(Doc!Frames) /\ Len(Document) >= 1
    <3>1. Document \in Seq(Doc!Frames) /\ Len(Document) = 1
      BY DocumentFacts
    <3> QED
      BY <3>1
  <2> QED
    BY <2>1, HeaderWritten, ObjectClosed
<1>2. /\ jems_object_close(Header(level)).arg \in Seq(Tokens)
      /\ IsJson(jems_object_close(Header(level)).arg)
  BY <1>1, DocumentDone
<1> QED
  BY <1>2 DEF Entry, log_message

(* The start of a stream brings the reader to the value of "data".         *)
LEMMA StreamStarts ==
  ASSUME NEW level \in Severities
  PROVE  /\ log_stream_start(level) \in Seq(Tokens)
         /\ AfterReading(log_stream_start(level)) = <<"end", "value">>
<1> DEFINE max == JEMS_MAX_LEVEL
           j == jems_string(Header(level), "data")
<1>1. log_stream_start(level) = commify(j).arg
  BY EmptyLiteral DEF log_stream_start, jems_key_literal
<1>2. AtMember(max, j, Document)
  <2>1. Document \in Seq(Doc!Frames) /\ "data" \in Words
    BY DocumentFacts DEF Words
  <2> QED
    BY <2>1, HeaderWritten, KeyWritten
<1> HIDE DEF max, j
<1>3. PICK items \in Nat : items % 2 = 1 /\ Writes(max, j, Holding(Document, "object", items))
  BY <1>2 DEF AtMember
<1> DEFINE f == Frame("object", items)
           n == Holding(Document, "object", items)
<1>4. Doc!Last(n) = f /\ Document \in Seq(Doc!Frames)
  BY DocumentFacts, OnTop DEF TopsOff
<1>5. Doc!TakesValue(f) /\ Doc!PlaceIn(Doc!Plus(f)) = "nextPair"
  <2>1. (items + 1) % 2 = 0 /\ items + 1 # 0
    BY <1>3
  <2> QED
    BY <1>3, <2>1 DEF Doc!TakesValue, Doc!PlaceIn, Doc!Plus, Frame
<1>6. Len(n) = 2 /\ n[1] = Frame("document", 1)
  <2>1. Document = <<Frame("document", 1)>>
    BY DEF Document, Holding
  <2>2. Document[1] = Frame("document", 1) /\ Document \in Seq(Doc!Frames) /\ Len(Document) = 1
    BY <2>1, DocumentFacts
  <2>3. f \in Doc!Frames
    BY DEF Doc!Frames, Frame
  <2> DEFINE below == Document
  <2> HIDE DEF below, f
  <2>4. /\ Len(Append(below, f)) = Len(below) + 1
        /\ \A i \in 1 .. Len(below) : Append(below, f)[i] = below[i]
    <3>1. below \in Seq(Doc!Frames)
      BY <2>2 DEF below
    <3> QED
      BY <2>3, <3>1
  <2>5. Len(Append(below, f)) = 2 /\ Append(below, f)[1] = below[1]
    <3>1. Len(below) = 1
      BY <2>2 DEF below
    <3> QED
      BY <2>4, <3>1
  <2>6. n = Append(below, f)
    BY DEF below, Holding, f
  <2> HIDE DEF n
  <2> QED
    BY <2>2, <2>5, <2>6 DEF below
<1> HIDE DEF n
<1>7. /\ j \in Writers(max) /\ Doc!Agrees(max, Seen(j), n)
      /\ Doc!TakesValue(Doc!Last(n)) /\ Doc!PlaceIn(Doc!Plus(Doc!Last(n))) = "nextPair"
  BY <1>3, <1>4, <1>5, WritesFacts DEF n
<1>8. PICK p \in DOMAIN Doc!AfterValue :
        /\ Doc!commify(Seen(j)).arg = Doc!Standing(n, p)
        /\ Doc!AfterValue[p] = "nextPair"
  BY <1>7, Doc!BeforeValue, DocAssumptions
<1>9. p = "value"
  BY <1>8 DEF Doc!AfterValue
<1>10. Doc!Standing(n, "value") = <<"end", "value">>
  <2>1. Doc!PlaceIn(Frame("document", 1)) = "end"
    BY DEF Doc!PlaceIn, Frame
  <2> QED
    BY <1>6, <2>1 DEF Doc!Standing
<1>11. commify(j) \in Writers(max) /\ Seen(commify(j)) = Doc!commify(Seen(j))
  BY <1>7, CommifySeen
<1>12. commify(j).arg \in Seq(Tokens) /\ AfterReading(commify(j).arg) = Doc!commify(Seen(j)).arg
  BY <1>11 DEF Writers, Seen
<1> QED
  BY <1>1, <1>8, <1>9, <1>10, <1>12

LEMMA StreamEnds == log_stream_end = <<"}">> \o <<EndOfLine>>
<1> DEFINE max == JEMS_MAX_LEVEL
           j == Emitter(max)
           k == emit_char(j, "}")
<1>1. max \in Nat \ {0}
  BY LoggerAssumption
<1> HIDE DEF max
<1>2. j \in Writers(max)
  BY <1>1, EmitterSeen
<1>3. j.arg = <<>>
  BY DEF Emitter, jems_init, jems_reset
<1> HIDE DEF j
<1>4. k.arg = <<"}">> /\ k \in Writers(max)
  <2>1. "}" \in Tokens
    BY DEF Tokens, Punctuation
  <2>2. k.arg = Append(j.arg, "}")
    BY <1>2 DEF emit_char, Writers
  <2>3. Append(<<>>, "}") = <<"}">>
    OBVIOUS
  <2> QED
    BY <1>2, <1>3, <2>1, <2>2, <2>3, EmitSeen
<1> HIDE DEF k
<1>5. pop_level(k).arg = k.arg
  BY <1>4 DEF pop_level, Writers
<1> QED
  BY <1>4, <1>5 DEF log_stream_end, jems_object_close, k, j, max

LEMMA StreamIsEntry ==
  ASSUME NEW level \in Severities, NEW document \in Seq(Tokens)
  PROVE  Entry(log_stream_start(level) \o document \o log_stream_end, IsJson(document))
<1> DEFINE start == log_stream_start(level)
           open == start \o document
           body == Append(open, "}")
           close == "}"
           end == EndOfLine
<1>1. /\ open \in Seq(Tokens)
      /\ IsJson(document) => AfterReading(open) = <<"end", "nextPair">>
  <2>1. start \in Seq(Tokens) /\ AfterReading(start) = <<"end", "value">>
    BY StreamStarts
  <2> HIDE DEF start
  <2>2. start \o document \in Seq(Tokens)
    BY <2>1, Joined
  <2> QED
    BY <2>1, <2>2, ReadMember
<1>2. close \in Tokens
  BY DEF Tokens, Punctuation
<1> HIDE DEF open
<1>3. /\ body \in Seq(Tokens)
      /\ IsJson(document) => AfterReading(body) = Read(<<"end", "nextPair">>, "}")
  BY <1>1, <1>2, ReadAppended
<1>4. Read(<<"end", "nextPair">>, "}") = <<"end">>
  <2> DEFINE s == <<"end", "nextPair">>
  <2>1. s \in Seq(Places) /\ Len(s) = 2 /\ s[1] = "end" /\ s[2] = "nextPair" /\ s # <<>>
    BY DEF Places
  <2> HIDE DEF s
  <2>2. Front(s) = <<"end">>
    <3> DEFINE f == Front(s)
    <3>1. f \in Seq(Places) /\ Len(f) = 2 - 1 /\ \A i \in 1 .. (2 - 1) : f[i] = s[i]
      <4>1. Len(s) >= 1
        BY <2>1
      <4> QED
        BY <2>1, <4>1, LastRemoved
    <3>2. f \in Seq(Places) /\ Len(f) = 1 /\ f[1] = "end"
      BY <2>1, <3>1
    <3> HIDE DEF f
    <3>3. f = <<"end">>
      BY <3>2
    <3> QED
      BY <3>3 DEF f
  <2>3. Read(s, "}") = Front(s)
    BY <2>1, AfterValueFacts DEF Read, Last
  <2> QED
    BY <2>2, <2>3 DEF s
<1>5. open \o log_stream_end = body \o <<EndOfLine>>
  <2> DEFINE T == Tokens \cup {end}
  <2>1. open \in Seq(T) /\ close \in T /\ end \in T
    <3>1. open \in Seq(T)
      BY <1>1, SeqMonotonic
    <3> QED
      BY <1>2, <3>1
  <2> HIDE DEF T, close, end
  <2>2. <<close>> \in Seq(T) /\ <<end>> \in Seq(T)
    BY <2>1
  <2>3. Append(open, close) = open \o <<close>>
    BY <2>1, AppendIsConcat
  <2>4. (open \o <<close>>) \o <<end>> = open \o (<<close>> \o <<end>>)
    BY <2>1, <2>2, ConcatAssociative
  <2>5. log_stream_end = <<close>> \o <<end>>
    BY StreamEnds DEF close, end
  <2> QED
    BY <2>3, <2>4, <2>5 DEF close, end
<1> QED
  BY <1>3, <1>4, <1>5 DEF Entry, IsJson, open

-----------------------------------------------------------------------------
(* The data of log_complex in pieces: they are tokens, and data that fits  *)
(* one piece is written as it is.                                          *)
LEMMA Flattened ==
  ASSUME NEW S, NEW seqs \in Seq(Seq(S))
  PROVE  /\ FlattenSeq(seqs) \in Seq(S)
         /\ Len(seqs) = 1 => FlattenSeq(seqs) = seqs[1]
<1> DEFINE l == Len(seqs)
           Is(r) == r = [i \in 1 .. l |-> IF i = 1 THEN seqs[i] ELSE r[i - 1] \o seqs[i]]
           q == CHOOSE r : Is(r)
<1>1. l \in Nat /\ \A i \in 1 .. l : seqs[i] \in Seq(S)
  OBVIOUS
<1>2. CASE l = 0
  <2>1. seqs = <<>>
    BY <1>2, EmptySeq
  <2>2. <<>> \in Seq(S)
    OBVIOUS
  <2> QED
    BY <1>2, <2>1, <2>2 DEF FlattenSeq
<1>3. CASE l # 0
  <2>1. FlattenSeq(seqs) = q[l]
    BY <1>3 DEF FlattenSeq
  <2>2. Is(q)
    <3>1. \E r : Is(r)
      BY <1>1, FlattenExists
    <3> HIDE DEF Is
    <3> QED
      BY <3>1
  <2> HIDE DEF q
  <2>3. \A i \in 1 .. l : q[i] = IF i = 1 THEN seqs[i] ELSE q[i - 1] \o seqs[i]
    BY <2>2
  <2> DEFINE Bad == {i \in 1 .. l : q[i] \notin Seq(S)}
  <2>4. Bad = {}
    <3> SUFFICES ASSUME Bad # {} PROVE FALSE
      OBVIOUS
    <3>1. PICK n \in Bad : \A m \in Bad : n <= m
      <4>1. Bad \in SUBSET Nat
        BY <1>1
      <4> HIDE DEF Bad
      <4> QED
        BY <4>1, LeastOf
    <3>2. n # 1
      BY <1>1, <2>3
    <3>3. n \in 1 .. l /\ n - 1 \in 1 .. l /\ n - 1 \notin Bad
      BY <1>1, <3>1, <3>2
    <3>4. q[n - 1] \in Seq(S) /\ seqs[n] \in Seq(S)
      BY <1>1, <3>3
    <3>5. q[n] = q[n - 1] \o seqs[n]
      BY <2>3, <3>2, <3>3
    <3>6. q[n] \in Seq(S)
      BY <3>4, <3>5, ConcatProperties
    <3> QED
      BY <3>1, <3>6
  <2>5. l \in 1 .. l /\ (l = 1 => 1 \in 1 .. l)
    BY <1>1, <1>3
  <2>6. q[l] \in Seq(S) /\ (l = 1 => q[1] = seqs[1])
    BY <2>3, <2>4, <2>5
  <2> QED
    BY <2>1, <2>6
<1> QED
  BY <1>2, <1>3

LEMMA PiecesAreTokens ==
  ASSUME NEW data \in Seq(Tokens)
  PROVE  /\ Pieces(data) \in Seq(Tokens)
         /\ data # <<>> /\ Len(data) <= Chunk => Pieces(data) = data
<1> DEFINE l == Len(data)
           n == (l + Chunk - 1) \div Chunk
           piece(k) == SubSeq(data, (k - 1) * Chunk + 1, l)
           seqs == [k \in 1 .. n |-> piece(k)]
<1>1. l \in Nat /\ Chunk \in Nat \ {0}
  BY LoggerAssumption
<1>2. n \in Nat /\ (l # 0 /\ l <= Chunk => n = 1)
  <2> DEFINE m == l + Chunk - 1
  <2>1. m \in Nat /\ m \div Chunk \in Nat
    <3>1. m \in Nat
      BY <1>1
    <3> HIDE DEF m
    <3> QED
      BY <1>1, <3>1, Division
  <2>2. ASSUME l # 0, l <= Chunk PROVE m \div Chunk = 1
    <3>1. l - 1 \in 0 .. (Chunk - 1) /\ m = Chunk * 1 + (l - 1) /\ 1 \in Nat
      BY <1>1, <2>2
    <3> HIDE DEF m
    <3> QED
      BY <1>1, <2>1, <3>1, UniqueQuotient
  <2> QED
    BY <2>1, <2>2
<1>3. Pieces(data) = FlattenSeq(seqs)
  BY DEF Pieces, log_stream_data
<1>4. ASSUME NEW k \in 1 .. n PROVE piece(k) \in Seq(Tokens)
  <2>1. (k - 1) * Chunk \in Nat
    <3>1. k - 1 \in Nat
      BY <1>2
    <3> QED
      BY <1>1, <3>1
  <2> DEFINE from == (k - 1) * Chunk + 1
  <2>2. from \in Nat /\ from >= 1
    BY <2>1
  <2> HIDE DEF from
  <2>3. \A i \in from .. l : data[i] \in Tokens
    BY <1>1, <2>2
  <2>4. SubSeq(data, from, l) \in Seq(Tokens)
    BY <1>1, <2>2, <2>3, SubSeqProperties
  <2> QED
    BY <2>4 DEF from
<1> HIDE DEF n
<1>5. seqs \in Seq(Seq(Tokens)) /\ Len(seqs) = n
  <2> HIDE DEF piece
  <2> QED
    BY <1>2, <1>4
<1>6. ASSUME l # 0, l <= Chunk PROVE seqs[1] = data /\ Len(seqs) = 1
  <2>1. n = 1 /\ 1 \in 1 .. n
    BY <1>2, <1>6
  <2>2. piece(1) = data
    <3>1. (1 - 1) * Chunk + 1 = 1
      BY <1>1
    <3>2. SubSeq(data, 1, l) = data
      BY SubSeqFull
    <3> QED
      BY <3>1, <3>2
  <2> QED
    BY <1>5, <2>1, <2>2
<1>7. data # <<>> => l # 0
  BY EmptySeq
<1> HIDE DEF seqs, l
<1> QED
  BY <1>3, <1>5, <1>6, <1>7, Flattened DEF l

-----------------------------------------------------------------------------
(* What log_complex is given fits one piece.                               *)
ComplexFits == \A data \in Complex : IsJson(data) /\ Len(data) <= Chunk

Bodies == {body \in Seq(Tokens) : body \o <<EndOfLine>> \in Texts \cup {PanicText}}

LEMMA EntriesAre ==
  ASSUME NEW text \in Texts \cup {PanicText}
  PROVE  Entry(text, ComplexFits)
<1>1. {"INFO", "DEBUG", "FATAL"} \subseteq Severities
  BY DEF Severities
<1>2. ASSUME NEW level \in Severities PROVE Entry(log_message(level), ComplexFits)
  BY MessageIsEntry DEF Entry
<1>3. ASSUME NEW document \in Seq(Tokens), IsJson(document)
      PROVE  Entry(Streamed(document), ComplexFits)
  BY <1>1, <1>3, StreamIsEntry DEF Entry, Streamed
<1>4. ASSUME NEW n \in MapSizes PROVE Entry(Streamed(MemoryMap(n)), ComplexFits)
  <2>1. MemoryMap(n) \in Seq(Tokens) /\ IsJson(MemoryMap(n))
    BY MemoryMapIsJson, LoggerAssumption
  <2> QED
    BY <1>3, <2>1
<1>5. ASSUME NEW counts \in BlockCounts PROVE Entry(Streamed(BuddyState(counts)), ComplexFits)
  <2>1. BuddyState(counts) \in Seq(Tokens) /\ IsJson(BuddyState(counts))
    BY BuddyStateIsJson, LoggerAssumption
  <2> QED
    BY <1>3, <2>1
<1>6. ASSUME NEW data \in Complex PROVE Entry(log_complex("INFO", data), ComplexFits)
  <2>1. data \in Seq(Tokens)
    BY LoggerAssumption
  <2>2. Pieces(data) \in Seq(Tokens)
    BY <2>1, PiecesAreTokens
  <2>3. ComplexFits => IsJson(Pieces(data))
    <3> SUFFICES ASSUME ComplexFits PROVE IsJson(Pieces(data))
      OBVIOUS
    <3>1. IsJson(data) /\ Len(data) <= Chunk
      BY DEF ComplexFits
    <3>2. data # <<>>
      <4>1. Fresh # <<"end">>
        BY DEF Fresh
      <4> QED
        BY <3>1, <4>1, ReadNothing DEF IsJson
    <3> QED
      BY <2>1, <3>1, <3>2, PiecesAreTokens
  <2>4. log_complex("INFO", data)
          = log_stream_start("INFO") \o Pieces(data) \o log_stream_end
    BY DEF log_complex
  <2> QED
    BY <1>1, <2>2, <2>3, <2>4, StreamIsEntry DEF Entry
<1> QED
  BY <1>1, <1>2, <1>4, <1>5, <1>6 DEF Texts, PanicText

LEMMA EndIsNoToken == EndOfLine \notin Tokens
  BY DEF EndOfLine, Tokens, Punctuation

Symbols == Tokens \cup {EndOfLine}

LEMMA TokensAreSymbols ==
  ASSUME NEW s \in Seq(Tokens)
  PROVE  s \in Seq(Symbols) /\ <<EndOfLine>> \in Seq(Symbols)
<1>1. s \in Seq(Symbols)
  BY SeqMonotonic DEF Symbols
<1>2. EndOfLine \in Symbols
  BY DEF Symbols
<1> QED
  BY <1>1, <1>2

LEMMA SameBody ==
  ASSUME NEW a \in Seq(Tokens), NEW b \in Seq(Tokens), a \o <<EndOfLine>> = b \o <<EndOfLine>>
  PROVE  a = b
<1>1. a \in Seq(Symbols) /\ b \in Seq(Symbols) /\ <<EndOfLine>> \in Seq(Symbols)
  BY TokensAreSymbols
<1> DEFINE end == <<EndOfLine>>
<1> HIDE DEF end
<1>2. a \o end = b \o end /\ end \in Seq(Symbols)
  BY <1>1 DEF end
<1> QED
  BY <1>1, <1>2, ConcatSimplifications

LEMMA BodiesReadable == ComplexFits => \A body \in Bodies : IsJson(body)
<1> SUFFICES ASSUME ComplexFits, NEW body \in Bodies PROVE IsJson(body)
  OBVIOUS
<1>1. body \in Seq(Tokens) /\ body \o <<EndOfLine>> \in Texts \cup {PanicText}
  BY DEF Bodies
<1>2. PICK other \in Seq(Tokens) :
        body \o <<EndOfLine>> = other \o <<EndOfLine>> /\ IsJson(other)
  BY <1>1, EntriesAre DEF Entry
<1> QED
  BY <1>1, <1>2, SameBody

(* Each text is one of these and the end of the line.                      *)
LEMMA TextsHaveBodies ==
  ASSUME NEW text \in Texts \cup {PanicText}
  PROVE  \E body \in Bodies : text = body \o <<EndOfLine>>
BY EntriesAre DEF Entry, Bodies

PanicBody == jems_object_close(Header("FATAL")).arg

LEMMA PanicHasBody ==
  PanicBody \in Bodies /\ PanicText = PanicBody \o <<EndOfLine>> /\ Front(PanicText) = PanicBody
<1>1. PanicText = PanicBody \o <<EndOfLine>>
  BY DEF PanicText, PanicBody, log_message
<1>2. PanicBody \in Seq(Tokens)
  <2>1. Writes(JEMS_MAX_LEVEL, jems_object_close(Header("FATAL")), Document)
    <3>1. Document \in Seq(Doc!Frames) /\ Len(Document) >= 1
      <4>1. Document \in Seq(Doc!Frames) /\ Len(Document) = 1
        BY DocumentFacts
      <4> QED
        BY <4>1
    <3>2. "FATAL" \in Severities
      BY DEF Severities
    <3> QED
      BY <3>1, <3>2, HeaderWritten, ObjectClosed
  <2> QED
    BY <2>1, DocumentDone DEF PanicBody
<1> HIDE DEF PanicBody
<1>3. Front(PanicText) = PanicBody
  <2> DEFINE s == PanicBody \o <<EndOfLine>>
             l == Len(PanicBody)
  <2>1. PanicBody \in Seq(Symbols) /\ <<EndOfLine>> \in Seq(Symbols) /\ l \in Nat
    BY <1>2, TokensAreSymbols
  <2>2. Len(<<EndOfLine>>) = 1
    OBVIOUS
  <2>3. s \in Seq(Symbols) /\ Len(s) = l + 1 /\ \A i \in 1 .. l : s[i] = PanicBody[i]
    BY <2>1, <2>2, Joined
  <2> HIDE DEF s, l
  <2>4. Front(s) \in Seq(Symbols) /\ Len(Front(s)) = l /\ \A i \in 1 .. l : Front(s)[i] = s[i]
    <3>1. Len(s) >= 1 /\ Len(s) - 1 = l
      BY <2>1, <2>3
    <3> QED
      BY <2>3, <3>1, LastRemoved
  <2>5. Front(s) = PanicBody
    <3>1. Len(PanicBody) = l
      BY DEF l
    <3>2. \A i \in 1 .. l : Front(s)[i] = PanicBody[i]
      BY <2>3, <2>4
    <3> QED
      BY <2>1, <2>4, <3>1, <3>2, SeqEqual
  <2> QED
    BY <1>1, <2>5 DEF s
<1> QED
  BY <1>1, <1>2, <1>3 DEF Bodies

-----------------------------------------------------------------------------
(* The first token of a text is taken from it and put behind what is done. *)
Taken(rest, end, done, S) ==
  /\ Head(rest \o end) = Head(rest) /\ Head(rest) \in S
  /\ Tail(rest \o end) = Tail(rest) \o end /\ Tail(rest) \in Seq(S)
  /\ Append(done, Head(rest)) \o Tail(rest) = done \o rest

LEMMA TakeFirst ==
  ASSUME NEW S, NEW rest \in Seq(S), rest # <<>>, NEW T, S \subseteq T,
         NEW end \in Seq(T), NEW done \in Seq(S)
  PROVE  Taken(rest, end, done, S)
<1> DEFINE a == Head(rest)
           t == Tail(rest)
<1>1. a \in S /\ t \in Seq(S)
  BY HeadTailProperties
<1>2. rest = <<a>> \o t
  BY SplitFirst
<1> HIDE DEF a, t
<1>3. a \in T /\ t \in Seq(T) /\ <<a>> \in Seq(T) /\ <<a>> \in Seq(S)
  <2>1. t \in Seq(T)
    BY <1>1, SeqMonotonic
  <2> QED
    BY <1>1, <2>1
<1>4. rest \o end = <<a>> \o (t \o end) /\ t \o end \in Seq(T)
  BY <1>2, <1>3, ConcatAssociative, ConcatProperties
<1>5. \A s \in Seq(T) : Head(<<a>> \o s) = a /\ Tail(<<a>> \o s) = s /\ <<a>> \o s # <<>>
  BY <1>3
<1>6. Append(done, a) \o t = done \o rest
  <2>1. Append(done, a) = done \o <<a>>
    BY <1>1, AppendIsConcat
  <2>2. (done \o <<a>>) \o t = done \o (<<a>> \o t)
    BY <1>1, <1>3, ConcatAssociative
  <2> QED
    BY <1>2, <2>1, <2>2
<1>7. Head(rest \o end) = a /\ Tail(rest \o end) = t \o end /\ rest \o end # <<>>
  BY <1>4, <1>5
<1> QED
  BY <1>1, <1>6, <1>7 DEF Taken, a, t

(* The part of a text that is done is at the end of the line, and is the   *)
(* whole line unless an exception came into it.                            *)
Done(body, before, done, rest) ==
  /\ pending = rest \o <<EndOfLine>> /\ body = done \o rest /\ line = before \o done
  /\ Len(log) \notin struck => before = <<>>

Writing(body) == \E before, done, rest \in Seq(Tokens) : Done(body, before, done, rest)

LogInv ==
  /\ log \in Seq(Seq(Tokens)) /\ Len(log) >= 1 /\ struck \subseteq 1 .. Len(log)
  /\ mode \in {"kernel", "panic", "halted"}
  /\ pending = <<>> => line = <<>>
  /\ mode = "halted" => pending = <<>>
  /\ pending # <<>> => \E body \in Bodies : Writing(body) /\ (mode # "kernel" => body = PanicBody)
  /\ pending = <<>> /\ mode # "kernel" =>
       Len(log) > 1 /\ \E before \in Seq(Tokens) : log[Len(log) - 1] = before \o PanicBody
  /\ \A i \in Ended \ struck : log[i] \in Bodies

LEMMA InitLogInv == Init => LogInv
<1> SUFFICES ASSUME Init PROVE LogInv
  OBVIOUS
<1>1. log = <<<<>>>> /\ pending = <<>> /\ mode = "kernel" /\ struck = {}
  BY DEF Init
<1>2. log \in Seq(Seq(Tokens)) /\ Len(log) = 1 /\ log[1] = <<>>
  <2>1. <<>> \in Seq(Tokens)
    OBVIOUS
  <2> DEFINE e == <<>>
  <2> HIDE DEF e
  <2>2. e \in Seq(Tokens) /\ log = <<e>>
    BY <1>1, <2>1 DEF e
  <2> QED
    BY <2>2 DEF e
<1>3. line = <<>>
  BY <1>2 DEF line, Last
<1>4. Ended = {}
  BY <1>2 DEF Ended
<1> QED
  BY <1>1, <1>2, <1>3, <1>4 DEF LogInv

(* A text that is written from its start.                                  *)
LEMMA TextStarts ==
  ASSUME LogInv, NEW body \in Bodies, pending' = body \o <<EndOfLine>>, log' = log,
         Len(log) \notin struck' => line = <<>>
  PROVE  Writing(body)' /\ pending' # <<>>
<1>1. line \in Seq(Tokens) /\ body \in Seq(Tokens) /\ <<>> \in Seq(Tokens)
  <2>1. Last(log) \in Seq(Tokens)
    BY LastRemoved DEF LogInv
  <2> QED
    BY <2>1 DEF line, Bodies
<1>2. PICK before \in Seq(Tokens) : before = line
  BY <1>1
<1>3. Done(body, before, <<>>, body)'
  <2>1. body = <<>> \o body /\ before = before \o <<>>
    BY <1>1, ConcatEmptySeq
  <2>2. line' = line
    BY DEF line
  <2> QED
    BY <1>2, <2>1, <2>2 DEF Done
<1>4. pending' # <<>>
  <2>1. body \in Seq(Symbols) /\ <<EndOfLine>> \in Seq(Symbols) /\ <<EndOfLine>> # <<>>
    BY <1>1, TokensAreSymbols
  <2> DEFINE end == <<EndOfLine>>
  <2> HIDE DEF end
  <2>2. end \in Seq(Symbols) /\ end # <<>> /\ pending' = body \o end
    BY <2>1 DEF end
  <2> QED
    BY <2>1, <2>2, ConcatEqualIffEmpty
<1> QED
  BY <1>1, <1>3, <1>4 DEF Writing

LEMMA CallLogInv == LogInv /\ (\E text \in Texts : Call(text)) => LogInv'
<1> SUFFICES ASSUME LogInv, NEW text \in Texts, Call(text) PROVE LogInv'
  OBVIOUS
<1>1. /\ pending = <<>> /\ mode = "kernel" /\ pending' = text
      /\ log' = log /\ mode' = mode /\ struck' = struck
  BY DEF Call
<1>2. PICK body \in Bodies : text = body \o <<EndOfLine>>
  BY TextsHaveBodies
<1>3. line = <<>>
  BY <1>1 DEF LogInv
<1>4. Writing(body)' /\ pending' # <<>>
  BY <1>1, <1>2, <1>3, TextStarts
<1>5. Ended' = Ended
  BY <1>1 DEF Ended
<1>6. \E b \in Bodies : Writing(b)' /\ (mode' # "kernel" => b = PanicBody)
  BY <1>1, <1>4
<1> QED
  BY <1>1, <1>4, <1>5, <1>6 DEF LogInv

LEMMA PanicLogInv == LogInv /\ kernel_panic => LogInv'
<1> SUFFICES ASSUME LogInv, kernel_panic PROVE LogInv'
  OBVIOUS
<1>1. /\ pending' = PanicText /\ log' = log /\ mode' = "panic"
      /\ struck' = IF line = <<>> THEN struck ELSE struck \cup {Len(log)}
  BY DEF kernel_panic
<1>2. PanicBody \in Bodies /\ PanicText = PanicBody \o <<EndOfLine>>
  BY PanicHasBody
<1>3. Len(log) \notin struck' => line = <<>>
  BY <1>1
<1>4. Writing(PanicBody)' /\ pending' # <<>>
  BY <1>1, <1>2, <1>3, TextStarts
<1>5. Ended' = Ended /\ struck \subseteq struck' /\ struck' \subseteq 1 .. Len(log)
  <2>1. Len(log) \in 1 .. Len(log) /\ struck \subseteq 1 .. Len(log)
    <3>1. Len(log) \in Nat /\ Len(log) >= 1 /\ struck \subseteq 1 .. Len(log)
      BY DEF LogInv
    <3> QED
      BY <3>1
  <2> QED
    BY <1>1, <2>1 DEF Ended
<1>6. \E b \in Bodies : Writing(b)' /\ (mode' # "kernel" => b = PanicBody)
  BY <1>2, <1>4
<1>7. \A i \in Ended' \ struck' : log'[i] \in Bodies
  BY <1>1, <1>5 DEF LogInv
<1> QED
  BY <1>1, <1>4, <1>5, <1>6, <1>7 DEF LogInv

(* The last token of a text ends the line; any other is put into it.       *)
LEMMA LastTokenLogInv ==
  ASSUME LogInv, WriteToken, NEW body \in Bodies, mode # "kernel" => body = PanicBody,
         NEW before \in Seq(Tokens), NEW done \in Seq(Tokens), Done(body, before, done, <<>>)
  PROVE  LogInv'
<1> DEFINE end == EndOfLine
<1>1. /\ log \in Seq(Seq(Tokens)) /\ Len(log) >= 1 /\ Len(log) \in Nat
      /\ struck \subseteq 1 .. Len(log) /\ struck' = struck /\ mode' = mode
  BY DEF LogInv, WriteToken
<1>2. pending = <<end>>
  <2>1. <<end>> \in Seq(Symbols)
    BY DEF Symbols
  <2>2. pending = <<>> \o <<end>>
    BY DEF Done
  <2> QED
    BY <2>1, <2>2, ConcatEmptySeq
<1>3. log' = Append(log, <<>>) /\ pending' = <<>>
  BY <1>2 DEF WriteToken
<1>4. line = before \o done /\ body = done
  <2>1. body = done \o <<>>
    BY DEF Done
  <2> QED
    BY <2>1, ConcatEmptySeq DEF Done
<1>5. /\ log' \in Seq(Seq(Tokens)) /\ Len(log') = Len(log) + 1 /\ log'[Len(log) + 1] = <<>>
      /\ \A i \in 1 .. Len(log) : log'[i] = log[i]
  <2> DEFINE e == <<>>
  <2>1. e \in Seq(Tokens)
    OBVIOUS
  <2> HIDE DEF e
  <2>2. /\ Append(log, e) \in Seq(Seq(Tokens)) /\ Len(Append(log, e)) = Len(log) + 1
        /\ Append(log, e)[Len(log) + 1] = e
        /\ \A i \in 1 .. Len(log) : Append(log, e)[i] = log[i]
    BY <1>1, <2>1, AppendProperties
  <2> QED
    BY <1>3, <2>2 DEF e
<1>6. line' = <<>>
  BY <1>5 DEF line, Last
<1>7. log'[Len(log)] = line /\ Len(log') - 1 = Len(log)
  <2>1. Len(log) \in 1 .. Len(log)
    BY <1>1
  <2> QED
    BY <1>1, <1>5, <2>1 DEF line, Last
<1>8. ASSUME NEW i \in Ended' \ struck' PROVE log'[i] \in Bodies
  <2>1. i \in 1 .. Len(log) /\ i \notin struck
    BY <1>1, <1>7, <1>8 DEF Ended
  <2>2. CASE i = Len(log)
    <3>1. before = <<>>
      BY <2>1, <2>2 DEF Done
    <3>2. line = body
      BY <1>4, <3>1, ConcatEmptySeq
    <3> QED
      BY <1>7, <2>2, <3>2
  <2>3. CASE i # Len(log)
    <3>1. i \in Ended \ struck
      BY <1>1, <2>1, <2>3 DEF Ended
    <3> QED
      BY <1>5, <2>1, <3>1 DEF LogInv
  <2> QED
    BY <2>2, <2>3
<1>9. ASSUME mode # "kernel"
      PROVE  Len(log') > 1 /\ \E b \in Seq(Tokens) : log'[Len(log') - 1] = b \o PanicBody
  <2>1. log'[Len(log') - 1] = before \o PanicBody
    BY <1>4, <1>7, <1>9
  <2>2. Len(log') > 1
    BY <1>1, <1>5
  <2> QED
    BY <2>1, <2>2
<1>10. struck' \subseteq 1 .. Len(log') /\ Len(log') >= 1
  BY <1>1, <1>5
<1>11. mode' \in {"kernel", "panic", "halted"}
  BY <1>1 DEF LogInv
<1> QED
  BY <1>1, <1>3, <1>5, <1>6, <1>8, <1>9, <1>10, <1>11 DEF LogInv

LEMMA TokenLogInv ==
  ASSUME LogInv, WriteToken, NEW body \in Bodies, mode # "kernel" => body = PanicBody,
         NEW before \in Seq(Tokens), NEW done \in Seq(Tokens), NEW rest \in Seq(Tokens),
         rest # <<>>, Done(body, before, done, rest)
  PROVE  LogInv'
<1> DEFINE end == <<EndOfLine>>
           t == Head(rest)
           longer == Append(line, t)
           more == Append(done, t)
<1>1. /\ log \in Seq(Seq(Tokens)) /\ Len(log) >= 1 /\ Len(log) \in Nat
      /\ struck' = struck /\ mode' = mode
      /\ pending = rest \o end /\ line = before \o done /\ body = done \o rest
      /\ Len(log) \notin struck => before = <<>>
  BY DEF LogInv, WriteToken, Done
<1>2. end \in Seq(Symbols) /\ Tokens \subseteq Symbols
  BY DEF Symbols
<1> HIDE DEF end
<1>3. /\ Head(pending) = t /\ t \in Tokens /\ Tail(pending) = Tail(rest) \o end
      /\ Tail(rest) \in Seq(Tokens) /\ more \o Tail(rest) = body
  <2>1. /\ Head(rest \o end) = Head(rest) /\ Head(rest) \in Tokens
        /\ Tail(rest \o end) = Tail(rest) \o end /\ Tail(rest) \in Seq(Tokens)
        /\ Append(done, Head(rest)) \o Tail(rest) = done \o rest
    <3>1. Taken(rest, end, done, Tokens)
      BY <1>2, TakeFirst
    <3> QED
      BY <3>1 DEF Taken
  <2> QED
    BY <1>1, <2>1
<1>4. log' = Append(Front(log), longer) /\ pending' = Tail(rest) \o end
  <2>1. t # EndOfLine
    BY <1>3, EndIsNoToken
  <2> QED
    BY <1>3, <2>1 DEF WriteToken
<1> HIDE DEF t
<1>5. line \in Seq(Tokens) /\ more \in Seq(Tokens) /\ longer \in Seq(Tokens)
      /\ longer = before \o more
  <2>1. line \in Seq(Tokens)
    BY <1>1, ConcatProperties
  <2>2. longer \in Seq(Tokens) /\ more \in Seq(Tokens)
    BY <1>3, <2>1, AppendProperties
  <2>3. longer = line \o <<t>> /\ more = done \o <<t>> /\ <<t>> \in Seq(Tokens)
    BY <1>3, <2>1, AppendIsConcat
  <2>4. (before \o done) \o <<t>> = before \o (done \o <<t>>)
    <3> DEFINE u == <<t>>
    <3>1. u \in Seq(Tokens)
      BY <2>3
    <3> HIDE DEF u
    <3>2. (before \o done) \o u = before \o (done \o u)
      BY <3>1, ConcatAssociative
    <3> QED
      BY <3>2 DEF u
  <2> QED
    BY <1>1, <2>1, <2>2, <2>3, <2>4
<1> HIDE DEF longer, more
<1>6. /\ log' \in Seq(Seq(Tokens)) /\ Len(log') = Len(log) /\ log'[Len(log)] = longer
      /\ \A i \in 1 .. (Len(log) - 1) : log'[i] = log[i]
  <2> DEFINE f == Front(log)
  <2>1. /\ f \in Seq(Seq(Tokens)) /\ Len(f) = Len(log) - 1
        /\ \A i \in 1 .. (Len(log) - 1) : f[i] = log[i]
    BY <1>1, LastRemoved
  <2> HIDE DEF f
  <2>2. /\ Append(f, longer) \in Seq(Seq(Tokens)) /\ Len(Append(f, longer)) = Len(f) + 1
        /\ Append(f, longer)[Len(f) + 1] = longer
        /\ \A i \in 1 .. Len(f) : Append(f, longer)[i] = f[i]
    BY <1>5, <2>1, AppendProperties
  <2>3. Len(f) + 1 = Len(log)
    BY <1>1, <2>1
  <2> QED
    BY <1>4, <2>1, <2>2, <2>3 DEF f
<1>7. line' = longer
  BY <1>6 DEF line, Last
<1>8. Done(body, before, more, Tail(rest))'
  BY <1>1, <1>3, <1>4, <1>5, <1>6, <1>7 DEF Done, end
<1>9. pending' # <<>>
  <2>1. Tail(rest) \in Seq(Symbols) /\ end # <<>>
    BY <1>3, TokensAreSymbols DEF end
  <2> QED
    BY <1>2, <1>4, <2>1, ConcatEqualIffEmpty
<1>10. Writing(body)'
  BY <1>3, <1>5, <1>8 DEF Writing
<1>11. Ended' = Ended /\ \A i \in Ended \ struck : log'[i] = log[i]
  BY <1>6 DEF Ended
<1>12. \E b \in Bodies : Writing(b)' /\ (mode' # "kernel" => b = PanicBody)
  BY <1>1, <1>10
<1>13. \A i \in Ended' \ struck' : log'[i] \in Bodies
  BY <1>1, <1>11 DEF LogInv
<1>14. struck' \subseteq 1 .. Len(log') /\ Len(log') >= 1 /\ mode' \in {"kernel", "panic", "halted"}
  BY <1>1, <1>6 DEF LogInv
<1>15. mode' # "halted"
  BY <1>1 DEF WriteToken
<1> QED
  BY <1>6, <1>9, <1>12, <1>13, <1>14, <1>15 DEF LogInv

LEMMA NextLogInv == LogInv /\ [LoggerNext]_loggerVars => LogInv'
<1> SUFFICES ASSUME LogInv, [LoggerNext]_loggerVars PROVE LogInv'
  OBVIOUS
<1>1. ASSUME NEW text \in Texts, Call(text) PROVE LogInv'
  BY <1>1, CallLogInv
<1>2. CASE WriteToken
  <2>1. PICK body \in Bodies : Writing(body) /\ (mode # "kernel" => body = PanicBody)
    BY <1>2 DEF LogInv, WriteToken
  <2>2. PICK before, done, rest \in Seq(Tokens) : Done(body, before, done, rest)
    BY <2>1 DEF Writing
  <2>3. CASE rest = <<>>
    <3>1. Done(body, before, done, <<>>)
      BY <2>2, <2>3
    <3> QED
      BY <1>2, <2>1, <3>1, LastTokenLogInv
  <2>4. CASE rest # <<>>
    BY <1>2, <2>1, <2>2, <2>4, TokenLogInv
  <2> QED
    BY <2>3, <2>4
<1>3. CASE kernel_panic
  BY <1>3, PanicLogInv
<1>4. CASE hcf
  <2>1. /\ pending = <<>> /\ pending' = pending /\ log' = log /\ struck' = struck
        /\ mode = "panic" /\ mode' = "halted"
    BY <1>4 DEF hcf
  <2> QED
    BY <2>1 DEF LogInv, Ended, line
<1>5. CASE UNCHANGED loggerVars
  BY <1>5 DEF loggerVars, LogInv, Ended, line, Writing, Done
<1> QED
  BY <1>1, <1>2, <1>3, <1>4, <1>5 DEF LoggerNext

(* The running call has put the beginning of its text at the end of the    *)
(* line, and each ended line without an exception is one whole text.       *)
THEOREM LoggerInvariant == LoggerSpec => []LogInv
  BY InitLogInv, NextLogInv, PTL DEF LoggerSpec

(* Each line of the log is JSON unless an exception came into it: for all  *)
(* memory maps, all numbers of free blocks of each order and all levels,   *)
(* if what log_complex is given fits one piece.                            *)
THEOREM LinesAreReadable == ASSUME ComplexFits PROVE LoggerSpec => []LinesReadable
<1>1. LogInv => LinesReadable
  BY BodiesReadable DEF LogInv, LinesReadable
<1> QED
  BY <1>1, LoggerInvariant, PTL

(* The end of a sequence.                                                  *)
LEMMA EndsWith ==
  ASSUME NEW S, NEW b \in Seq(S), NEW s \in Seq(S)
  PROVE  IsSuffix(s, b \o s)
<1> DEFINE t == b \o s
           l == Len(s)
           m == Len(t)
           r == Reverse(s)
           q == Reverse(t)
<1>1. /\ l \in Nat /\ Len(b) \in Nat /\ t \in Seq(S) /\ m = Len(b) + l
      /\ \A i \in 1 .. l : t[Len(b) + i] = s[i]
  BY Joined
<1> HIDE DEF t
<1>2. r = [i \in 1 .. l |-> s[(l - i) + 1]] /\ q = [i \in 1 .. m |-> t[(m - i) + 1]]
  BY DEF Reverse
<1>3. ASSUME NEW i \in 1 .. l PROVE r[i] \in S /\ r[i] = q[i]
  <2>1. (l - i) + 1 \in 1 .. l /\ i \in 1 .. m /\ (m - i) + 1 = Len(b) + ((l - i) + 1)
    BY <1>1
  <2>2. q[i] = t[(m - i) + 1] /\ r[i] = s[(l - i) + 1]
    BY <1>2, <2>1
  <2>3. t[Len(b) + ((l - i) + 1)] = s[(l - i) + 1] /\ s[(l - i) + 1] \in S
    <3> DEFINE k == (l - i) + 1
    <3>1. k \in 1 .. l
      BY <2>1
    <3>2. s[k] \in S
      BY <3>1, ElementOfSeq
    <3> HIDE DEF k, l
    <3>3. t[Len(b) + k] = s[k]
      BY <1>1, <3>1
    <3> QED
      BY <3>2, <3>3 DEF k
  <2> QED
    BY <2>1, <2>2, <2>3
<1>4. Len(r) = l /\ Len(q) = m /\ l <= m
  <2>1. m \in Nat
    BY <1>1
  <2> HIDE DEF l, m
  <2> QED
    BY <1>1, <1>2, <2>1
<1> HIDE DEF r, q, l, m
<1>5. SubSeq(r, 1, l) = SubSeq(q, 1, l)
  <2>1. /\ SubSeq(r, 1, l) \in Seq(S) /\ SubSeq(q, 1, l) \in Seq(S)
        /\ Len(SubSeq(r, 1, l)) = Len(SubSeq(q, 1, l))
    <3>1. 1 \in Int /\ l \in Int
      BY <1>1
    <3>2. \A i \in 1 .. l : r[i] \in S
      BY <1>3
    <3>3. \A i \in 1 .. l : q[i] \in S
      BY <1>3
    <3>4. SubSeq(r, 1, l) \in Seq(S) /\ Len(SubSeq(r, 1, l)) = IF 1 <= l THEN l - 1 + 1 ELSE 0
      BY <3>1, <3>2, SubSeqProperties
    <3>5. SubSeq(q, 1, l) \in Seq(S) /\ Len(SubSeq(q, 1, l)) = IF 1 <= l THEN l - 1 + 1 ELSE 0
      BY <3>1, <3>3, SubSeqProperties
    <3> QED
      BY <3>4, <3>5
  <2>2. /\ \A i \in 1 .. l : SubSeq(r, 1, l)[i] = r[i] /\ SubSeq(q, 1, l)[i] = q[i]
        /\ Len(SubSeq(r, 1, l)) = l
    <3>1. l - 1 + 1 = l /\ \A i \in 1 .. l : 1 + i - 1 = i
      BY <1>1
    <3>2. \A i \in 1 .. l : r[i] \in S /\ q[i] \in S
      BY <1>3
    <3>3. /\ \A i \in 1 .. l - 1 + 1 : SubSeq(r, 1, l)[i] = r[1 + i - 1]
          /\ \A i \in 1 .. l - 1 + 1 : SubSeq(q, 1, l)[i] = q[1 + i - 1]
          /\ Len(SubSeq(r, 1, l)) = IF 1 <= l THEN l - 1 + 1 ELSE 0
      BY <1>1, <3>2, SubSeqProperties
    <3>4. Len(SubSeq(r, 1, l)) = l
      BY <1>1, <3>3
    <3> QED
      BY <3>1, <3>3, <3>4
  <2>3. \A i \in 1 .. Len(SubSeq(r, 1, l)) : SubSeq(r, 1, l)[i] = SubSeq(q, 1, l)[i]
    BY <1>3, <2>2
  <2> QED
    BY <2>1, <2>3, SeqEqual
<1>6. IsPrefix(r, q)
  BY <1>4, <1>5 DEF IsPrefix
<1> QED
  BY <1>6 DEF IsSuffix, r, q, t

(* A machine that halts in a panic has logged it to the end, whatever the  *)
(* panic came into and whatever log_complex is given.                      *)
THEOREM PanicIsLogged == LoggerSpec => []PanicLogged
<1>1. LogInv => PanicLogged
  <2> SUFFICES ASSUME LogInv, mode = "halted" PROVE
        line = <<>> /\ Len(log) > 1 /\ IsSuffix(Front(PanicText), log[Len(log) - 1])
    BY DEF PanicLogged
  <2>1. pending = <<>> /\ mode # "kernel"
    BY DEF LogInv
  <2>2. line = <<>> /\ Len(log) > 1
    BY <2>1 DEF LogInv
  <2>3. PICK before \in Seq(Tokens) : log[Len(log) - 1] = before \o PanicBody
    BY <2>1 DEF LogInv
  <2>4. PanicBody \in Seq(Tokens) /\ Front(PanicText) = PanicBody
    BY PanicHasBody DEF Bodies
  <2>5. IsSuffix(PanicBody, before \o PanicBody)
    BY <2>4, EndsWith
  <2> QED
    BY <2>2, <2>3, <2>4, <2>5
<1> QED
  BY <1>1, LoggerInvariant, PTL

-----------------------------------------------------------------------------
(* The window.  The indices of the entries from the last to the first.     *)
LEMMA Backwards ==
  ASSUME NEW S, NEW entries \in Seq(S)
  PROVE  LET n == Len(entries)
             s == Reverse(Indices(entries))
             t == Reverse(entries) IN
         /\ n \in Nat /\ DOMAIN s = 1 .. n /\ DOMAIN t = 1 .. n
         /\ \A i \in 1 .. n : s[i] \in 1 .. n /\ t[i] \in S /\ t[i] = entries[s[i]]
<1> DEFINE n == Len(entries)
           s == Reverse(Indices(entries))
           t == Reverse(entries)
<1>1. n \in Nat /\ DOMAIN entries = 1 .. n /\ \A i \in 1 .. n : entries[i] \in S
  BY LenProperties, ElementOfSeq
<1>2. Indices(entries) = [i \in 1 .. n |-> i]
  BY <1>1 DEF Indices
<1> HIDE DEF n
<1>3. Len(Indices(entries)) = n
  BY <1>1, <1>2
<1>4. t = [i \in 1 .. n |-> entries[(n - i) + 1]]
  BY DEF Reverse, n
<1>5. s = [i \in 1 .. n |-> Indices(entries)[(n - i) + 1]]
  BY <1>3 DEF Reverse
<1>6. \A i \in 1 .. n : (n - i) + 1 \in 1 .. n
  BY <1>1
<1>7. \A i \in 1 .. n : s[i] = (n - i) + 1
  BY <1>2, <1>5, <1>6
<1>8. \A i \in 1 .. n : t[i] = entries[(n - i) + 1]
  BY <1>4
<1>9. DOMAIN s = 1 .. n /\ DOMAIN t = 1 .. n
  BY <1>4, <1>5
<1> HIDE DEF s, t
<1>10. \A i \in 1 .. n : s[i] \in 1 .. n /\ t[i] \in S /\ t[i] = entries[s[i]]
  BY <1>1, <1>6, <1>7, <1>8
<1> QED
  BY <1>1, <1>9, <1>10 DEF n, s, t

(* The labels and what is drawn grow alike, from the last entry on.        *)
Grown(value, k, n, s, kept) ==
  /\ value = k[1 .. n] /\ k[{}] = <<>>
  /\ \A m \in Nat : m < n =>
       k[1 .. (m + 1)] = IF kept[m + 1] THEN Append(k[1 .. m], s[m + 1]) ELSE k[1 .. m]

LEMMA LabelsSteps ==
  ASSUME NEW S, NEW entries \in Seq(S), NEW term, NEW n \in Nat,
         NEW s, s = Reverse(Indices(entries)), DOMAIN s = 1 .. n, \A i \in 1 .. n : s[i] \in 1 .. n
  PROVE  \E k : Grown(labels(entries, term), k, n, s, [i \in 1 .. n |-> entries[s[i]] \in term])
<1> DEFINE op(rows, i) == IF entries[i] \in term THEN Append(rows, i) ELSE rows
           Is(h) == h = [x \in SUBSET (1 .. n) |->
                           IF x = {} THEN <<>> ELSE op(h[x \ {Max(x)}], s[Max(x)])]
           E == Seq(1 .. n)
           f == [i \in Nat |-> [e \in E |-> IF i \in 1 .. n THEN op(e, s[i]) ELSE e]]
<1>1. labels(entries, term) = (CHOOSE h : Is(h))[1 .. n]
  BY DEF labels, FoldLeft, MapThenFoldSet
<1>2. PICK h : Folding(h, E, <<>>, f, n)
  <2>1. \A i \in 1 .. n, e \in E : op(e, s[i]) \in E
    BY AppendProperties
  <2>2. f \in [Nat -> [E -> E]]
    <3> HIDE DEF op, E
    <3> QED
      BY <2>1
  <2>3. <<>> \in E
    OBVIOUS
  <2> HIDE DEF f, E
  <2> QED
    BY <2>2, <2>3, FoldExists
<1>3. Is(h)
  <2>1. ASSUME NEW x \in SUBSET (1 .. n), x # {}
        PROVE  f[Max(x)][h[x \ {Max(x)}]] = op(h[x \ {Max(x)}], s[Max(x)])
    <3>1. Max(x) \in 1 .. n
      BY <2>1, LargestIndex
    <3>2. h[x \ {Max(x)}] \in E
      BY <1>2 DEF Folding
    <3> HIDE DEF op, E
    <3> QED
      BY <3>1, <3>2
  <2> DEFINE value(x) == IF x = {} THEN <<>> ELSE op(h[x \ {Max(x)}], s[Max(x)])
  <2>2. \A x \in SUBSET (1 .. n) : h[x] = value(x)
    <3> HIDE DEF f, op, E
    <3> QED
      BY <1>2, <2>1 DEF Folding
  <2> HIDE DEF value
  <2>3. h = [x \in SUBSET (1 .. n) |-> value(x)]
    BY <1>2, <2>2 DEF Folding
  <2> QED
    BY <2>3 DEF value
<1> DEFINE k == CHOOSE g : Is(g)
<1>4. Is(k)
  <2> HIDE DEF Is
  <2> QED
    BY <1>3
<1> HIDE DEF k
<1>5. k[{}] = <<>>
  BY <1>4
<1>6. ASSUME NEW m \in Nat, m < n PROVE k[1 .. (m + 1)] = op(k[1 .. m], s[m + 1])
  <2>1. /\ 1 .. (m + 1) \in SUBSET (1 .. n) /\ 1 .. (m + 1) # {}
        /\ Max(1 .. (m + 1)) = m + 1 /\ (1 .. (m + 1)) \ {m + 1} = 1 .. m
    BY <1>6, FirstIndexes
  <2> HIDE DEF op
  <2> QED
    BY <1>4, <2>1
<1>7. \A m \in Nat : m < n => m + 1 \in 1 .. n
  OBVIOUS
<1> DEFINE kept == [i \in 1 .. n |-> entries[s[i]] \in term]
<1>8. labels(entries, term) = k[1 .. n]
  <2> HIDE DEF Is
  <2> QED
    BY <1>1 DEF k
<1>9. ASSUME NEW m \in Nat, m < n
      PROVE  k[1 .. (m + 1)] = IF kept[m + 1] THEN Append(k[1 .. m], s[m + 1]) ELSE k[1 .. m]
  BY <1>6, <1>7, <1>9
<1> HIDE DEF kept
<1>10. Grown(labels(entries, term), k, n, s, kept)
  BY <1>5, <1>8, <1>9 DEF Grown
<1> QED
  BY <1>10 DEF kept

LEMMA DrawnSteps ==
  ASSUME NEW S, NEW entries \in Seq(S), NEW term, NEW n \in Nat,
         NEW t, t = Reverse(entries), DOMAIN t = 1 .. n, \A i \in 1 .. n : t[i] \in S
  PROVE  \E k : Grown(Drawn(entries, term), k, n, t, [i \in 1 .. n |-> t[i] \in term])
<1> DEFINE op(rows, e) == IF e \in term THEN Append(rows, e) ELSE rows
           Is(h) == h = [x \in SUBSET (1 .. n) |->
                           IF x = {} THEN <<>> ELSE op(h[x \ {Max(x)}], t[Max(x)])]
           E == Seq(S)
           f == [i \in Nat |-> [e \in E |-> IF i \in 1 .. n THEN op(e, t[i]) ELSE e]]
<1>1. Drawn(entries, term) = (CHOOSE h : Is(h))[1 .. n]
  BY DEF Drawn, FoldLeft, MapThenFoldSet
<1>2. PICK h : Folding(h, E, <<>>, f, n)
  <2>1. \A i \in 1 .. n, e \in E : op(e, t[i]) \in E
    BY AppendProperties
  <2>2. f \in [Nat -> [E -> E]]
    <3> HIDE DEF op, E
    <3> QED
      BY <2>1
  <2>3. <<>> \in E
    OBVIOUS
  <2> HIDE DEF f, E
  <2> QED
    BY <2>2, <2>3, FoldExists
<1>3. Is(h)
  <2>1. ASSUME NEW x \in SUBSET (1 .. n), x # {}
        PROVE  f[Max(x)][h[x \ {Max(x)}]] = op(h[x \ {Max(x)}], t[Max(x)])
    <3>1. Max(x) \in 1 .. n
      BY <2>1, LargestIndex
    <3>2. h[x \ {Max(x)}] \in E
      BY <1>2 DEF Folding
    <3> HIDE DEF op, E
    <3> QED
      BY <3>1, <3>2
  <2> DEFINE value(x) == IF x = {} THEN <<>> ELSE op(h[x \ {Max(x)}], t[Max(x)])
  <2>2. \A x \in SUBSET (1 .. n) : h[x] = value(x)
    <3> HIDE DEF f, op, E
    <3> QED
      BY <1>2, <2>1 DEF Folding
  <2> HIDE DEF value
  <2>3. h = [x \in SUBSET (1 .. n) |-> value(x)]
    BY <1>2, <2>2 DEF Folding
  <2> QED
    BY <2>3 DEF value
<1> DEFINE k == CHOOSE g : Is(g)
<1>4. Is(k)
  <2> HIDE DEF Is
  <2> QED
    BY <1>3
<1> HIDE DEF k
<1>5. k[{}] = <<>>
  BY <1>4
<1>6. ASSUME NEW m \in Nat, m < n PROVE k[1 .. (m + 1)] = op(k[1 .. m], t[m + 1])
  <2>1. /\ 1 .. (m + 1) \in SUBSET (1 .. n) /\ 1 .. (m + 1) # {}
        /\ Max(1 .. (m + 1)) = m + 1 /\ (1 .. (m + 1)) \ {m + 1} = 1 .. m
    BY <1>6, FirstIndexes
  <2> HIDE DEF op
  <2> QED
    BY <1>4, <2>1
<1>7. \A m \in Nat : m < n => m + 1 \in 1 .. n
  OBVIOUS
<1> DEFINE kept == [i \in 1 .. n |-> t[i] \in term]
<1>8. Drawn(entries, term) = k[1 .. n]
  <2> HIDE DEF Is
  <2> QED
    BY <1>1 DEF k
<1>9. ASSUME NEW m \in Nat, m < n
      PROVE  k[1 .. (m + 1)] = IF kept[m + 1] THEN Append(k[1 .. m], t[m + 1]) ELSE k[1 .. m]
  BY <1>6, <1>7, <1>9
<1> HIDE DEF kept
<1>10. Grown(Drawn(entries, term), k, n, t, kept)
  BY <1>5, <1>8, <1>9 DEF Grown
<1> QED
  BY <1>10 DEF kept

(* In each row is the entry that its label names.                          *)
LEMMA RowsAgree ==
  ASSUME NEW S, NEW entries \in Seq(S), NEW term
  PROVE  \A row \in DOMAIN labels(entries, term) :
           /\ labels(entries, term)[row] \in 1 .. Len(entries)
           /\ Drawn(entries, term)[row] = entries[labels(entries, term)[row]]
<1> DEFINE n == Len(entries)
           s == Reverse(Indices(entries))
           t == Reverse(entries)
           Agree(p) == /\ Len(p[1]) = Len(p[2])
                       /\ \A row \in 1 .. Len(p[1]) : p[2][row] = entries[p[1][row]]
           E == {p \in Seq(1 .. n) \X Seq(S) : Agree(p)}
<1>1. /\ n \in Nat /\ DOMAIN s = 1 .. n /\ DOMAIN t = 1 .. n
      /\ \A i \in 1 .. n : s[i] \in 1 .. n /\ t[i] \in S /\ t[i] = entries[s[i]]
  BY Backwards
<1>2. PICK a : Grown(labels(entries, term), a, n, s, [i \in 1 .. n |-> entries[s[i]] \in term])
  <2>1. s = Reverse(Indices(entries))
    OBVIOUS
  <2> HIDE DEF n, s
  <2> QED
    BY <1>1, <2>1, LabelsSteps
<1>3. PICK b : Grown(Drawn(entries, term), b, n, t, [i \in 1 .. n |-> t[i] \in term])
  <2>1. t = Reverse(entries)
    OBVIOUS
  <2>2. n \in Nat /\ DOMAIN t = 1 .. n /\ \A i \in 1 .. n : t[i] \in S
    BY <1>1
  <2> HIDE DEF n, t
  <2> QED
    BY <2>1, <2>2, DrawnSteps
<1> HIDE DEF n, s, t
<1> DEFINE h == [x \in SUBSET Nat |-> <<a[x], b[x]>>]
<1>4. h[{}] \in E
  <2>1. h[{}] = <<a[{}], b[{}]>>
    OBVIOUS
  <2>2. a[{}] \in Seq(1 .. n) /\ b[{}] \in Seq(S) /\ Len(a[{}]) = 0 /\ Len(b[{}]) = 0
    BY <1>2, <1>3 DEF Grown
  <2>3. Agree(<<a[{}], b[{}]>>)
    BY <2>2
  <2> HIDE DEF Agree
  <2> QED
    BY <2>1, <2>2, <2>3
<1>5. ASSUME NEW m \in Nat, m < n, h[1 .. m] \in E PROVE h[1 .. (m + 1)] \in E
  <2> DEFINE p == a[1 .. m]
             q == b[1 .. m]
             i == s[m + 1]
             e == t[m + 1]
  <2>1. h[1 .. m] = <<p, q>> /\ h[1 .. (m + 1)] = <<a[1 .. (m + 1)], b[1 .. (m + 1)]>>
    <3>1. 1 .. m \in SUBSET Nat /\ 1 .. (m + 1) \in SUBSET Nat
      OBVIOUS
    <3> QED
      BY <3>1
  <2>2. m + 1 \in 1 .. n
    BY <1>1, <1>5
  <2>3. i \in 1 .. n /\ e \in S /\ e = entries[i]
    BY <1>1, <2>2
  <2>4. p \in Seq(1 .. n) /\ q \in Seq(S) /\ Agree(<<p, q>>)
    <3>1. <<p, q>> \in E
      BY <1>5, <2>1
    <3> HIDE DEF p, q, Agree
    <3> QED
      BY <3>1
  <2>5. CASE e \in term
    <3>1. a[1 .. (m + 1)] = Append(p, i) /\ b[1 .. (m + 1)] = Append(q, e)
      BY <1>2, <1>3, <1>5, <2>2, <2>3, <2>5 DEF Grown
    <3> HIDE DEF p, q, i, e
    <3>2. /\ Append(p, i) \in Seq(1 .. n) /\ Len(Append(p, i)) = Len(p) + 1 /\ Len(p) \in Nat
          /\ \A row \in 1 .. Len(p) : Append(p, i)[row] = p[row]
          /\ Append(p, i)[Len(p) + 1] = i
      BY <2>3, <2>4, AppendProperties, LenProperties
    <3>3. /\ Append(q, e) \in Seq(S) /\ Len(Append(q, e)) = Len(q) + 1
          /\ \A row \in 1 .. Len(q) : Append(q, e)[row] = q[row]
          /\ Append(q, e)[Len(q) + 1] = e
      BY <2>3, <2>4, AppendProperties, LenProperties
    <3>4. Len(p) = Len(q) /\ \A row \in 1 .. Len(p) : q[row] = entries[p[row]]
      BY <2>4
    <3>5. ASSUME NEW row \in 1 .. Len(p) + 1
          PROVE  Append(q, e)[row] = entries[Append(p, i)[row]]
      <4>1. CASE row = Len(p) + 1
        BY <2>3, <3>2, <3>3, <3>4, <4>1
      <4>2. CASE row # Len(p) + 1
        <5>1. row \in 1 .. Len(p)
          BY <3>2, <4>2
        <5> QED
          BY <3>2, <3>3, <3>4, <5>1
      <4> QED
        BY <4>1, <4>2
    <3>6. Agree(<<Append(p, i), Append(q, e)>>)
      BY <3>2, <3>3, <3>4, <3>5
    <3> HIDE DEF Agree
    <3>7. <<Append(p, i), Append(q, e)>> \in E
      BY <3>2, <3>3, <3>6
    <3> HIDE DEF h, E
    <3>8. h[1 .. (m + 1)] = <<Append(p, i), Append(q, e)>>
      BY <2>1, <3>1
    <3> QED
      BY <3>7, <3>8
  <2>6. CASE e \notin term
    <3>1. a[1 .. (m + 1)] = p /\ b[1 .. (m + 1)] = q
      BY <1>2, <1>3, <1>5, <2>2, <2>3, <2>6 DEF Grown
    <3> HIDE DEF p, q, Agree
    <3>2. <<p, q>> \in E
      BY <2>4
    <3> HIDE DEF h, E
    <3>3. h[1 .. (m + 1)] = <<p, q>>
      BY <2>1, <3>1
    <3> QED
      BY <3>2, <3>3
  <2> QED
    BY <2>5, <2>6
<1>6. h[1 .. n] \in E
  <2> HIDE DEF h, E
  <2> QED
    BY <1>1, <1>4, <1>5, FoldReached
<1>7. a[1 .. n] \in Seq(1 .. n) /\ Agree(<<a[1 .. n], b[1 .. n]>>)
  <2>1. 1 .. n \in SUBSET Nat
    OBVIOUS
  <2>2. <<a[1 .. n], b[1 .. n]>> \in E
    BY <1>6, <2>1
  <2> HIDE DEF Agree
  <2> QED
    BY <2>2
<1> DEFINE p == a[1 .. n]
<1>8. DOMAIN p = 1 .. Len(p) /\ \A row \in 1 .. Len(p) : p[row] \in 1 .. n
  BY <1>7, LenProperties, ElementOfSeq
<1>9. \A row \in DOMAIN p : p[row] \in 1 .. n /\ b[1 .. n][row] = entries[p[row]]
  BY <1>7, <1>8
<1> QED
  BY <1>2, <1>3, <1>9 DEF n, Grown

(* The entries that the window has are the first of those sent, and the    *)
(* one selected, if any, is the one whose label was clicked.               *)
WindowInv ==
  \E S : /\ shown \in Seq(S)
         /\ Len(log_entries) \in 0 .. Len(shown)
         /\ log_entries = SubSeq(shown, 1, Len(log_entries))
         /\ \/ selected_entry = <<>> /\ clicked = <<>>
            \/ \E i \in 1 .. Len(log_entries) : selected_entry = <<i>> /\ clicked = <<shown[i]>>

(* The first elements of a sequence.                                       *)
LEMMA FirstOf ==
  ASSUME NEW S, NEW s \in Seq(S), NEW n \in 0 .. Len(s)
  PROVE  /\ SubSeq(s, 1, n) \in Seq(S) /\ Len(SubSeq(s, 1, n)) = n
         /\ \A i \in 1 .. n : SubSeq(s, 1, n)[i] = s[i]
<1>1. \A i \in 1 .. n : s[i] \in S
  BY LenProperties, ElementOfSeq
<1>2. Len(s) \in Nat /\ n \in Nat /\ n - 1 + 1 = n /\ \A i \in 1 .. n : 1 + i - 1 = i
  BY LenProperties
<1>3. 1 \in Int /\ n \in Int
  BY <1>2
<1>4. /\ SubSeq(s, 1, n) \in Seq(S) /\ Len(SubSeq(s, 1, n)) = (IF 1 <= n THEN n - 1 + 1 ELSE 0)
      /\ \A i \in 1 .. n - 1 + 1 : SubSeq(s, 1, n)[i] = s[1 + i - 1]
  BY <1>1, <1>3, SubSeqProperties
<1> QED
  BY <1>2, <1>4

LEMMA InitWindowInv == ViewerInit /\ WindowInit => WindowInv
<1> SUFFICES ASSUME ViewerInit, WindowInit PROVE WindowInv
  OBVIOUS
<1>1. shown = <<>> /\ log_entries = <<>> /\ selected_entry = <<>> /\ clicked = <<>>
  BY DEF ViewerInit, WindowInit
<1>2. shown \in Seq({}) /\ Len(shown) = 0 /\ SubSeq(shown, 1, 0) \in Seq({})
      /\ Len(SubSeq(shown, 1, 0)) = 0
  BY <1>1, FirstOf
<1>3. SubSeq(shown, 1, 0) = <<>>
  BY <1>2, EmptySeq
<1> QED
  BY <1>1, <1>2, <1>3 DEF WindowInv

(* What the thread sends comes after what it has sent.                     *)
LEMMA SentWindowInv == WindowInv /\ ViewerNext /\ UNCHANGED windowVars => WindowInv'
<1> SUFFICES ASSUME WindowInv, ViewerNext, UNCHANGED windowVars PROVE WindowInv'
  OBVIOUS
<1> DEFINE l == Len(log_entries)
<1>1. PICK S : /\ shown \in Seq(S) /\ l \in 0 .. Len(shown)
               /\ log_entries = SubSeq(shown, 1, l)
               /\ \/ selected_entry = <<>> /\ clicked = <<>>
                  \/ \E i \in 1 .. l : selected_entry = <<i>> /\ clicked = <<shown[i]>>
  BY DEF WindowInv
<1>2. UNCHANGED <<log_entries, selected_entry, clicked>>
  BY DEF windowVars
<1>3. shown' = shown \/ shown' = Append(shown, unread)
  BY DEF ViewerNext, tail_log
<1> DEFINE T == S \cup {unread}
<1>4. /\ shown' \in Seq(T) /\ Len(shown) \in Nat /\ Len(shown') \in Nat
      /\ Len(shown) <= Len(shown') /\ \A i \in 1 .. Len(shown) : shown'[i] = shown[i]
  <2>1. Len(shown) \in Nat /\ shown \in Seq(T)
    <3>1. S \subseteq T
      OBVIOUS
    <3> HIDE DEF T
    <3> QED
      BY <1>1, <3>1, SeqMonotonic, LenProperties
  <2>2. unread \in T
    OBVIOUS
  <2> HIDE DEF T
  <2> QED
    BY <1>3, <2>1, <2>2, AppendProperties
<1> HIDE DEF T
<1>5. l \in 0 .. Len(shown') /\ l \in Nat
  BY <1>1, <1>4
<1>6. SubSeq(shown', 1, l) = SubSeq(shown, 1, l)
  <2>1. /\ SubSeq(shown', 1, l) \in Seq(T) /\ Len(SubSeq(shown', 1, l)) = l
        /\ \A i \in 1 .. l : SubSeq(shown', 1, l)[i] = shown'[i]
    BY <1>4, <1>5, FirstOf
  <2>2. /\ SubSeq(shown, 1, l) \in Seq(S) /\ Len(SubSeq(shown, 1, l)) = l
        /\ \A i \in 1 .. l : SubSeq(shown, 1, l)[i] = shown[i]
    BY <1>1, FirstOf
  <2>3. \A i \in 1 .. l : SubSeq(shown', 1, l)[i] = SubSeq(shown, 1, l)[i]
    <3>1. \A i \in 1 .. l : i \in 1 .. Len(shown)
      BY <1>1, <1>4
    <3> QED
      BY <1>4, <2>1, <2>2, <3>1
  <2> QED
    BY <2>1, <2>2, <2>3, SeqEqual
<1>7. ASSUME NEW i \in 1 .. l PROVE shown'[i] = shown[i]
  <2>1. i \in 1 .. Len(shown)
    BY <1>1, <1>4
  <2> QED
    BY <1>4, <2>1
<1>8. Len(log_entries') = l /\ log_entries' = SubSeq(shown', 1, l)
  BY <1>1, <1>2, <1>6
<1>9. \/ selected_entry' = <<>> /\ clicked' = <<>>
      \/ \E i \in 1 .. l : selected_entry' = <<i>> /\ clicked' = <<shown'[i]>>
  BY <1>1, <1>2, <1>7
<1> QED
  BY <1>4, <1>5, <1>8, <1>9 DEF WindowInv

(* A frame takes more entries, and a click selects the entry in its row.   *)
LEMMA FrameWindowInv == WindowInv /\ update /\ UNCHANGED vars => WindowInv'
<1> SUFFICES ASSUME WindowInv, update, UNCHANGED vars PROVE WindowInv'
  OBVIOUS
<1> DEFINE l == Len(log_entries)
<1>1. PICK S : /\ shown \in Seq(S) /\ l \in 0 .. Len(shown)
               /\ \/ selected_entry = <<>> /\ clicked = <<>>
                  \/ \E i \in 1 .. l : selected_entry = <<i>> /\ clicked = <<shown[i]>>
  BY DEF WindowInv
<1>2. PICK n \in l .. Len(shown) :
        LET entries == SubSeq(shown, 1, n) IN
        /\ log_entries' = entries
        /\ \/ UNCHANGED <<selected_entry, clicked>>
           \/ \E row \in DOMAIN labels(entries, search_term') :
                /\ selected_entry' = <<labels(entries, search_term')[row]>>
                /\ clicked' = <<Drawn(entries, search_term')[row]>>
  BY DEF update
<1> DEFINE entries == SubSeq(shown, 1, n)
           term == search_term'
<1>3. n \in 0 .. Len(shown) /\ n \in Nat /\ l <= n
  BY <1>1, <1>2, LenProperties
<1>4. entries \in Seq(S) /\ Len(entries) = n /\ \A i \in 1 .. n : entries[i] = shown[i]
  BY <1>1, <1>3, FirstOf
<1>5. log_entries' = entries /\ shown' = shown
  BY <1>2 DEF vars
<1>6. ASSUME NEW row \in DOMAIN labels(entries, term)
      PROVE  /\ labels(entries, term)[row] \in 1 .. n
             /\ Drawn(entries, term)[row] = shown[labels(entries, term)[row]]
  <2> HIDE DEF entries, term
  <2>1. /\ labels(entries, term)[row] \in 1 .. Len(entries)
        /\ Drawn(entries, term)[row] = entries[labels(entries, term)[row]]
    BY <1>4, RowsAgree
  <2> QED
    BY <1>4, <2>1
<1>7. \/ UNCHANGED <<selected_entry, clicked>>
      \/ \E row \in DOMAIN labels(entries, term) :
           /\ selected_entry' = <<labels(entries, term)[row]>>
           /\ clicked' = <<Drawn(entries, term)[row]>>
  BY <1>2
<1> HIDE DEF entries, term
<1>8. \/ selected_entry' = <<>> /\ clicked' = <<>>
      \/ \E i \in 1 .. n : selected_entry' = <<i>> /\ clicked' = <<shown[i]>>
  <2>1. CASE UNCHANGED <<selected_entry, clicked>>
    <3>1. \A i \in 1 .. l : i \in 1 .. n
      BY <1>1, <1>3
    <3> QED
      BY <1>1, <2>1, <3>1
  <2>2. ASSUME NEW row \in DOMAIN labels(entries, term),
               selected_entry' = <<labels(entries, term)[row]>>,
               clicked' = <<Drawn(entries, term)[row]>>
        PROVE  \E i \in 1 .. n : selected_entry' = <<i>> /\ clicked' = <<shown[i]>>
    BY <1>6, <2>2
  <2> QED
    BY <1>7, <2>1, <2>2
<1>9. log_entries' = SubSeq(shown', 1, n) /\ Len(log_entries') = n
  BY <1>4, <1>5 DEF entries
<1> QED
  BY <1>1, <1>3, <1>5, <1>8, <1>9 DEF WindowInv

LEMMA NextWindowInv == WindowInv /\ [WindowNext]_<<vars, windowVars>> => WindowInv'
<1>1. ASSUME WindowInv, UNCHANGED <<vars, windowVars>> PROVE WindowInv'
  BY <1>1 DEF WindowInv, vars, windowVars
<1> QED
  BY <1>1, SentWindowInv, FrameWindowInv DEF WindowNext

(* The panel shows the details of the entry whose label was clicked,       *)
(* whatever is logged, searched for and sent later.                        *)
THEOREM ClickedIsShown == WindowSpec => []DetailIsClicked
<1>1. ASSUME WindowInv PROVE DetailIsClicked
  <2> DEFINE l == Len(log_entries)
  <2>1. PICK S : /\ shown \in Seq(S) /\ l \in 0 .. Len(shown)
                 /\ log_entries = SubSeq(shown, 1, l)
                 /\ \/ selected_entry = <<>> /\ clicked = <<>>
                    \/ \E i \in 1 .. l : selected_entry = <<i>> /\ clicked = <<shown[i]>>
    BY <1>1 DEF WindowInv
  <2>2. \A i \in 1 .. l : log_entries[i] = shown[i]
    <3> HIDE DEF l
    <3> QED
      BY <2>1, FirstOf
  <2>3. ASSUME NEW i \in 1 .. l, selected_entry = <<i>>, clicked = <<shown[i]>>
        PROVE  details = clicked
    <3>1. selected_entry # <<>> /\ selected_entry[1] = i
      BY <2>3
    <3> QED
      BY <2>2, <2>3, <3>1 DEF details
  <2> QED
    BY <2>1, <2>3 DEF details, DetailIsClicked
<1> QED
  BY <1>1, InitWindowInv, NextWindowInv, PTL DEF WindowSpec
-----------------------------------------------------------------------------
(* "level" is the first key of an entry, and nothing else that the kernel  *)
(* logs is this token.                                                     *)
Plain == Tokens \ {"level"}

Marked ==
  {x \in Seq(Tokens) : /\ Len(x) >= 2 /\ x[1] = "{" /\ x[2] = "level"
                       /\ \A i \in 3 .. Len(x) : x[i] # "level"}

(* Texts that other tokens may be put behind, and the emitters that have   *)
(* written one of them.                                                    *)
Closed(G) == G \subseteq Seq(Tokens) /\ \A x \in G, token \in Plain : Append(x, token) \in G

Confined(max, G) == {j \in Writers(max) : j.arg \in G}

LEMMA PlainTokens ==
  {"{", "}", "[", "]", ",", ":", "1"} \subseteq Plain /\ Words \ {"level"} \subseteq Plain
  /\ Plain \subseteq Tokens /\ "level" \in Tokens
  BY DEF Plain, Tokens, Punctuation, Words

LEMMA PlainTextsClosed == Closed(Seq(Plain))
<1>1. Seq(Plain) \subseteq Seq(Tokens)
  BY PlainTokens, SeqMonotonic
<1>2. \A x \in Seq(Plain), token \in Plain : Append(x, token) \in Seq(Plain)
  BY AppendProperties
<1> QED
  BY <1>1, <1>2 DEF Closed

LEMMA MarkedClosed == Closed(Marked)
<1>1. ASSUME NEW x \in Marked, NEW token \in Plain
      PROVE  Append(x, token) \in Marked
  <2>1. /\ x \in Seq(Tokens) /\ Len(x) >= 2 /\ x[1] = "{" /\ x[2] = "level"
        /\ \A i \in 3 .. Len(x) : x[i] # "level"
    BY DEF Marked
  <2>2. token \in Tokens /\ token # "level"
    BY DEF Plain
  <2> DEFINE y == Append(x, token)
             l == Len(x)
  <2>3. l \in Nat
    BY <2>1, LenProperties
  <2>10. x \in Seq(Tokens) /\ token \in Tokens
    BY <2>1, <2>2
  <2>4. y \in Seq(Tokens) /\ Len(y) = l + 1
    <3>1. Append(x, token) \in Seq(Tokens) /\ Len(Append(x, token)) = Len(x) + 1
      <4> HIDE DEF y, l
      <4> QED
        BY <2>10, AppendProperties
    <3> QED
      BY <3>1
  <2>5. y[l + 1] = token /\ \A i \in 1 .. l : y[i] = x[i]
    <3>2. /\ Append(x, token)[Len(x) + 1] = token
          /\ \A i \in 1 .. Len(x) : Append(x, token)[i] = x[i]
      <4> HIDE DEF y, l
      <4> QED
        BY <2>10, AppendProperties
    <3> QED
      BY <3>2
  <2> HIDE DEF y
  <2>6. l >= 2 /\ \A i \in 3 .. l : x[i] # "level"
    BY <2>1
  <2> HIDE DEF l
  <2>7. Len(y) >= 2 /\ y[1] = "{" /\ y[2] = "level"
    <3>1. 1 \in 1 .. l /\ 2 \in 1 .. l /\ l + 1 >= 2
      BY <2>3, <2>6
    <3> QED
      BY <2>1, <2>4, <2>5, <3>1
  <2>8. ASSUME NEW i \in 3 .. Len(y) PROVE y[i] # "level"
    <3>1. i \in 3 .. l \/ i = l + 1
      BY <2>3, <2>4
    <3>2. \A k \in 3 .. l : k \in 1 .. l
      BY <2>3
    <3>3. CASE i \in 3 .. l
      BY <2>5, <2>6, <3>2, <3>3
    <3>4. CASE i = l + 1
      BY <2>2, <2>5, <3>4
    <3> QED
      BY <3>1, <3>3, <3>4
  <2>9. y \in Marked
    BY <2>4, <2>7, <2>8 DEF Marked
  <2> QED
    BY <2>9 DEF y
<1>2. Marked \subseteq Seq(Tokens)
  BY DEF Marked
<1> QED
  BY <1>1, <1>2 DEF Closed

(* What the parts of the emitter write.                                    *)
LEMMA ArgWritten ==
  ASSUME NEW max \in Nat \ {0}, NEW j \in Writers(max)
  PROVE  /\ \A token : emit_char(j, token).arg = Append(j.arg, token)
         /\ commify(j).arg = IF level_ref(j).item_count = 0 THEN j.arg
                             ELSE Append(j.arg, IF level_ref(j).is_object /\ level_ref(j).item_count % 2 = 1
                                                THEN ":" ELSE ",")
         /\ \A is_object \in BOOLEAN : push_level(j, is_object).arg = j.arg
         /\ pop_level(j).arg = j.arg
<1>1. \A token : emit_char(j, token).arg = Append(j.arg, token)
  BY DEF emit_char, Writers
<1>2. commify(j).arg = IF level_ref(j).item_count = 0 THEN j.arg
                       ELSE Append(j.arg, IF level_ref(j).is_object /\ level_ref(j).item_count % 2 = 1
                                          THEN ":" ELSE ",")
  <2> DEFINE t == IF level_ref(j).is_object /\ level_ref(j).item_count % 2 = 1 THEN ":" ELSE ","
             sep == IF level_ref(j).item_count = 0 THEN j ELSE emit_char(j, t)
             c == j.curr_level
  <2>1. commify(j) = [sep EXCEPT !.levels[c].item_count = @ + 1]
    BY DEF commify
  <2>2. sep.arg = IF level_ref(j).item_count = 0 THEN j.arg ELSE Append(j.arg, t)
    <3> HIDE DEF t
    <3>1. emit_char(j, t).arg = Append(j.arg, t)
      BY <1>1
    <3>2. CASE level_ref(j).item_count = 0
      BY <3>2
    <3>3. CASE level_ref(j).item_count # 0
      BY <3>1, <3>3
    <3> QED
      BY <3>2, <3>3
  <2>3. sep \in Writers(max)
    <3>1. t \in Tokens
      BY DEF Tokens, Punctuation
    <3> HIDE DEF t
    <3> QED
      BY <3>1, EmitSeen
  <2> HIDE DEF sep, t, c
  <2>4. [sep EXCEPT !.levels[c].item_count = @ + 1].arg = sep.arg
    BY <2>3 DEF Writers
  <2> QED
    BY <2>1, <2>2, <2>4 DEF t
<1>3. \A is_object \in BOOLEAN : push_level(j, is_object).arg = j.arg
  BY DEF push_level, Writers
<1>4. pop_level(j).arg = j.arg
  BY DEF pop_level, Writers
<1> QED
  BY <1>1, <1>2, <1>3, <1>4

LEMMA PartsConfined ==
  ASSUME NEW max \in Nat \ {0}, NEW G, Closed(G), NEW j \in Confined(max, G)
  PROVE  /\ \A token \in Plain : emit_char(j, token) \in Confined(max, G)
         /\ commify(j) \in Confined(max, G)
         /\ \A is_object \in BOOLEAN : push_level(j, is_object) \in Confined(max, G)
         /\ pop_level(j) \in Confined(max, G)
<1>1. j \in Writers(max) /\ j.arg \in G
  BY DEF Confined
<1>2. \A token \in Plain : Append(j.arg, token) \in G
  BY <1>1 DEF Closed
<1>3. ASSUME NEW token \in Plain PROVE emit_char(j, token) \in Confined(max, G)
  <2>1. token \in Tokens
    BY PlainTokens
  <2>2. emit_char(j, token) \in Writers(max)
    BY <1>1, <2>1, EmitSeen
  <2>3. emit_char(j, token).arg = Append(j.arg, token)
    BY <1>1, ArgWritten
  <2> QED
    BY <1>2, <2>2, <2>3 DEF Confined
<1>4. commify(j) \in Confined(max, G)
  <2>1. commify(j) \in Writers(max)
    BY <1>1, CommifySeen
  <2>2. "," \in Plain /\ ":" \in Plain
    BY PlainTokens
  <2>3. commify(j).arg \in {j.arg, Append(j.arg, ":"), Append(j.arg, ",")}
    BY <1>1, ArgWritten
  <2> QED
    BY <1>1, <1>2, <2>1, <2>2, <2>3 DEF Confined
<1>5. ASSUME NEW is_object \in BOOLEAN PROVE push_level(j, is_object) \in Confined(max, G)
  BY <1>1, PushSeen, ArgWritten DEF Confined
<1>6. pop_level(j) \in Confined(max, G)
  BY <1>1, PopSeen, ArgWritten DEF Confined
<1> QED
  BY <1>3, <1>4, <1>5, <1>6

LEMMA FunctionsConfined ==
  ASSUME NEW max \in Nat \ {0}, NEW G, Closed(G), NEW j \in Confined(max, G)
  PROVE  /\ \A value \in Plain : jems_string(j, value) \in Confined(max, G)
                                 /\ jems_scalar(j, value) \in Confined(max, G)
         /\ jems_object_open(j) \in Confined(max, G) /\ jems_object_close(j) \in Confined(max, G)
         /\ jems_array_open(j) \in Confined(max, G) /\ jems_array_close(j) \in Confined(max, G)
<1>1. commify(j) \in Confined(max, G)
  BY PartsConfined
<1>2. ASSUME NEW value \in Plain PROVE emit_char(commify(j), value) \in Confined(max, G)
  BY <1>1, PartsConfined
<1>3. "{" \in Plain /\ "[" \in Plain /\ "}" \in Plain /\ "]" \in Plain
  BY PlainTokens
<1>4. /\ push_level(emit_char(commify(j), "{"), TRUE) \in Confined(max, G)
      /\ push_level(emit_char(commify(j), "["), FALSE) \in Confined(max, G)
  BY <1>2, <1>3, PartsConfined
<1>5. ASSUME NEW value \in Plain PROVE pop_level(emit_char(j, value)) \in Confined(max, G)
  <2>1. emit_char(j, value) \in Confined(max, G)
    BY PartsConfined
  <2> QED
    BY <2>1, PartsConfined
<1> QED
  BY <1>2, <1>3, <1>4, <1>5 DEF jems_string, jems_scalar, jems_object_open, jems_object_close,
                               jems_array_open, jems_array_close

LEMMA FieldsConfined ==
  ASSUME NEW max \in Nat \ {0}, NEW G, Closed(G), NEW j \in Confined(max, G), NEW n \in Nat
  PROVE  Fields(j, n) \in Confined(max, G)
<1>1. "field" \in Plain /\ "1" \in Plain
  BY PlainTokens DEF Words
<1>2. ASSUME NEW e \in Confined(max, G), NEW i \in 1 .. n PROVE Field(e, i) \in Confined(max, G)
  <2>1. jems_string(e, "field") \in Confined(max, G)
    BY <1>1, FunctionsConfined
  <2> QED
    BY <1>1, <2>1, FunctionsConfined DEF Field, jems_key_scalar
<1> QED
  BY <1>2, FieldsKeep

(* The documents of the clients.                                           *)
LEMMA EmptyConfined ==
  ASSUME NEW max \in Nat \ {0}
  PROVE  Emitter(max) \in Confined(max, Seq(Plain)) /\ Emitter(max).arg = <<>>
<1>1. Emitter(max) \in Writers(max)
  BY EmitterSeen
<1>2. Emitter(max).arg = <<>>
  BY DEF Emitter, jems_init, jems_reset
<1>3. <<>> \in Seq(Plain)
  OBVIOUS
<1> QED
  BY <1>1, <1>2, <1>3 DEF Confined

LEMMA MemoryMapIsPlain ==
  ASSUME NEW n \in Nat
  PROVE  MemoryMap(n) \in Seq(Plain)
<1> DEFINE max == CLIENT_MAX_LEVEL
           G == Seq(Plain)
           totals == Fields(jems_object_open(Emitter(max)), 4)
           opened == jems_key_array_open(totals, "field")
           entries == FoldLeft(MapEntry, opened, [i \in 1 .. n |-> i])
<1>1. max \in Nat \ {0} /\ Closed(G) /\ "field" \in Plain
  <2>1. max \in Nat \ {0}
    BY LoggerAssumption
  <2>2. Closed(G)
    BY PlainTextsClosed
  <2>3. "field" \in Plain /\ "text" \in Plain
    BY PlainTokens DEF Words
  <2> QED
    BY <2>1, <2>2, <2>3
<1>2. MemoryMap(n) = jems_object_close(jems_array_close(entries)).arg
  BY DEF MemoryMap
<1>3. Emitter(max) \in Confined(max, G)
  BY <1>1, EmptyConfined
<1> HIDE DEF max, G
<1>4. totals \in Confined(max, G)
  BY <1>1, <1>3, FunctionsConfined, FieldsConfined
<1> HIDE DEF totals
<1>5. opened \in Confined(max, G)
  BY <1>1, <1>4, FunctionsConfined DEF jems_key_array_open
<1> HIDE DEF opened
<1>6. ASSUME NEW e \in Confined(max, G), NEW i \in 1 .. n PROVE MapEntry(e, i) \in Confined(max, G)
  <2>1. Fields(jems_object_open(e), 3) \in Confined(max, G)
    BY <1>1, FunctionsConfined, FieldsConfined
  <2> QED
    BY <1>1, <2>1, FunctionsConfined DEF MapEntry
<1>7. entries \in Confined(max, G)
  BY <1>5, <1>6, EntriesKeep
<1> HIDE DEF entries
<1>8. jems_object_close(jems_array_close(entries)) \in Confined(max, G)
  BY <1>1, <1>7, FunctionsConfined
<1> QED
  BY <1>2, <1>8 DEF Confined, G

LEMMA BuddyStateIsPlain ==
  ASSUME NEW counts \in Seq(Nat)
  PROVE  BuddyState(counts) \in Seq(Plain)
<1> DEFINE max == CLIENT_MAX_LEVEL
           G == Seq(Plain)
           totals == Fields(jems_object_open(Emitter(max)), 2)
           opened == jems_key_array_open(totals, "field")
           orders == FoldLeft(OrderState, opened, counts)
<1>1. max \in Nat \ {0} /\ Closed(G) /\ "field" \in Plain /\ "text" \in Plain
  <2>1. max \in Nat \ {0}
    BY LoggerAssumption
  <2>2. Closed(G)
    BY PlainTextsClosed
  <2>3. "field" \in Plain /\ "text" \in Plain
    BY PlainTokens DEF Words
  <2> QED
    BY <2>1, <2>2, <2>3
<1>2. BuddyState(counts) = jems_object_close(jems_array_close(orders)).arg
  BY DEF BuddyState
<1>3. Emitter(max) \in Confined(max, G)
  BY <1>1, EmptyConfined
<1> HIDE DEF max, G
<1>4. totals \in Confined(max, G)
  BY <1>1, <1>3, FunctionsConfined, FieldsConfined
<1> HIDE DEF totals
<1>5. opened \in Confined(max, G)
  BY <1>1, <1>4, FunctionsConfined DEF jems_key_array_open
<1> HIDE DEF opened
<1>6. ASSUME NEW e \in Confined(max, G), NEW count \in Nat
      PROVE  OrderState(e, count) \in Confined(max, G)
  <2> DEFINE inner == jems_key_array_open(Fields(jems_object_open(e), 4), "field")
             blocks == FoldLeft(FreeBlock, inner, [i \in 1 .. count |-> i])
  <2>1. Fields(jems_object_open(e), 4) \in Confined(max, G)
    BY <1>1, FunctionsConfined, FieldsConfined
  <2>2. inner \in Confined(max, G)
    BY <1>1, <2>1, FunctionsConfined DEF jems_key_array_open
  <2> HIDE DEF inner
  <2>3. ASSUME NEW b \in Confined(max, G), NEW i \in 1 .. count PROVE FreeBlock(b, i) \in Confined(max, G)
    BY <1>1, FunctionsConfined DEF FreeBlock
  <2>4. blocks \in Confined(max, G)
    BY <2>2, <2>3, BlocksKeep
  <2> HIDE DEF blocks
  <2>5. jems_object_close(jems_array_close(blocks)) \in Confined(max, G)
    BY <1>1, <2>4, FunctionsConfined
  <2> QED
    BY <2>5 DEF OrderState, blocks, inner
<1>7. orders \in Confined(max, G)
  BY <1>5, <1>6, OrdersKeep
<1> HIDE DEF orders
<1>8. jems_object_close(jems_array_close(orders)) \in Confined(max, G)
  BY <1>1, <1>7, FunctionsConfined
<1> QED
  BY <1>2, <1>8 DEF Confined, G

LEMMA TwoTokens ==
  ASSUME NEW S, NEW a \in S, NEW b \in S
  PROVE  /\ <<a, b>> \in Seq(S) /\ Len(<<a, b>>) = 2 /\ <<a, b>>[1] = a /\ <<a, b>>[2] = b
         /\ Append(<<a>>, b) = <<a, b>>
<1> DEFINE s == Append(<<a>>, b)
           t == <<a, b>>
<1>1. t \in Seq(S) /\ Len(t) = 2
  OBVIOUS
<1>2. t[1] = a /\ t[2] = b
  OBVIOUS
<1>3. <<a>> \in Seq(S) /\ Len(<<a>>) = 1 /\ <<a>>[1] = a
  OBVIOUS
<1>4. s \in Seq(S) /\ Len(s) = 2 /\ s[1] = a /\ s[2] = b
  <2> DEFINE u == <<a>>
  <2>1. u \in Seq(S) /\ Len(u) = 1 /\ u[1] = a /\ s = Append(u, b)
    BY <1>3
  <2> HIDE DEF u, s
  <2>2. s \in Seq(S) /\ Len(s) = Len(u) + 1 /\ s[Len(u) + 1] = b
    BY <2>1, AppendProperties
  <2>3. 1 \in 1 .. Len(u) /\ Len(u) + 1 = 2
    BY <2>1
  <2>4. s[1] = u[1]
    BY <2>1, <2>3, AppendProperties
  <2> QED
    BY <2>1, <2>2, <2>3, <2>4
<1> HIDE DEF s, t
<1>5. \A i \in 1 .. 2 : s[i] = t[i]
  BY <1>2, <1>4
<1>6. s = t
  BY <1>1, <1>4, <1>5, SeqEqual
<1> QED
  BY <1>1, <1>2, <1>6 DEF s, t

LEMMA AppendToOne ==
  ASSUME NEW a, NEW b
  PROVE  Append(<<a>>, b) = <<a, b>>
<1> DEFINE S == {a, b}
<1>1. a \in S /\ b \in S
  OBVIOUS
<1> HIDE DEF S
<1> QED
  BY <1>1, TwoTokens

(* An entry begins with the key "level".                                   *)
LEMMA HeaderIsMarked ==
  ASSUME NEW level \in Severities
  PROVE  Header(level) \in Confined(JEMS_MAX_LEVEL, Marked)
<1> DEFINE max == JEMS_MAX_LEVEL
           e == Emitter(max)
           opened == emit_char(commify(e), "{")
           object == jems_object_open(e)
           keyed == jems_string(object, "level")
           levelled == jems_key_string(object, "level", level)
           component == jems_key_string(levelled, "component", "text")
<1>1. Header(level) = jems_key_string(component, "message", "text")
  BY DEF Header
<1>2. max \in Nat \ {0} /\ max >= 2
  BY LoggerAssumption
<1>3. {"level", "{"} \subseteq Tokens /\ {level, "component", "message", "text"} \subseteq Plain
  BY PlainTokens DEF Words, Severities
<1>4. e \in Writers(max) /\ e.arg = <<>> /\ e.curr_level = 0
  BY <1>2, EmitterSeen, EmptyConfined DEF Emitter, jems_init, jems_reset
<1>5. level_ref(e).item_count = 0
  <2> DEFINE old == [levels |-> Used(max), max_level |-> max, curr_level |-> 0, arg |-> <<>>]
  <2>1. Used(max) \in Levels(max) /\ 0 \in 0 .. (max - 1)
    BY <1>2, EmitterSeen
  <2>2. e.levels = [Used(max) EXCEPT ![0] = [item_count |-> 0, is_object |-> FALSE]]
    BY DEF Emitter, jems_init, jems_reset
  <2>3. e.levels[0] = [item_count |-> 0, is_object |-> FALSE]
    BY <2>1, <2>2 DEF Levels
  <2> QED
    BY <1>4, <2>3 DEF level_ref
<1> HIDE DEF max, e
<1>6. commify(e) \in Writers(max) /\ commify(e).arg = <<>> /\ commify(e).curr_level = 0
  <2>1. commify(e).curr_level = 0
    BY <1>4, <1>5 DEF commify, Writers
  <2> QED
    BY <1>2, <1>4, <1>5, <2>1, CommifySeen, ArgWritten
<1>7. opened \in Writers(max) /\ opened.arg = <<"{">> /\ opened.curr_level = 0
  <2>1. opened \in Writers(max)
    BY <1>3, <1>6, EmitSeen
  <2>2. opened.arg = Append(commify(e).arg, "{")
    BY <1>2, <1>6, ArgWritten
  <2>3. Append(<<>>, "{") = <<"{">>
    OBVIOUS
  <2>4. opened.curr_level = 0
    BY <1>6 DEF emit_char, Writers
  <2> QED
    BY <1>6, <2>1, <2>2, <2>3, <2>4
<1>8. object = push_level(opened, TRUE)
  BY DEF jems_object_open
<1> HIDE DEF opened, object
<1>9. object \in Writers(max) /\ object.arg = <<"{">>
  BY <1>2, <1>7, <1>8, PushSeen, ArgWritten
<1>10. level_ref(object).item_count = 0
  <2> DEFINE new == [item_count |-> 0, is_object |-> TRUE]
             levels == opened.levels
  <2>1. opened \in Writers(max) /\ opened.curr_level = 0
    BY <1>7
  <2>2. 1 \in 0 .. (max - 1) /\ levels \in Levels(max) /\ 0 < max - 1 /\ opened.max_level = max
    BY <1>2, <2>1 DEF Writers
  <2>3. object.curr_level = 1 /\ object.levels = [levels EXCEPT ![1] = new]
    <3>1. object = [opened EXCEPT !.curr_level = @ + 1, !.levels[opened.curr_level + 1] = new]
      BY <1>8, <2>1, <2>2 DEF push_level
    <3> QED
      BY <2>1, <3>1 DEF Writers
  <2> HIDE DEF levels, new
  <2>4. object.levels[1] = new
    BY <2>2, <2>3 DEF Levels
  <2> QED
    BY <2>3, <2>4 DEF level_ref, new
<1>11. keyed \in Confined(max, Marked)
  <2>1. keyed = emit_char(commify(object), "level")
    BY DEF jems_string
  <2>2. commify(object) \in Writers(max) /\ commify(object).arg = <<"{">>
    BY <1>2, <1>9, <1>10, CommifySeen, ArgWritten
  <2>3. keyed \in Writers(max) /\ keyed.arg = Append(<<"{">>, "level")
    <3> DEFINE k == commify(object)
    <3>1. k \in Writers(max) /\ k.arg = <<"{">> /\ max \in Nat \ {0} /\ "level" \in Tokens
      BY <1>2, <1>3, <2>2
    <3> HIDE DEF k
    <3>2. emit_char(k, "level") \in Writers(max)
      BY <3>1, EmitSeen
    <3>3. emit_char(k, "level").arg = Append(k.arg, "level")
      BY <3>1, ArgWritten
    <3> QED
      BY <2>1, <3>1, <3>2, <3>3 DEF k
  <2>4. "{" \in Tokens /\ "level" \in Tokens
    BY <1>3
  <2>5. <<"{", "level">> \in Marked
    <3> DEFINE x == <<"{", "level">>
    <3>1. x \in Seq(Tokens) /\ Len(x) = 2 /\ x[1] = "{" /\ x[2] = "level"
      BY <2>4, TwoTokens
    <3> HIDE DEF x
    <3>2. 3 .. Len(x) = {} /\ Len(x) >= 2
      <4>1. Len(x) = 2
        BY <3>1
      <4> QED
        BY <4>1
    <3>3. x \in Marked
      BY <3>1, <3>2 DEF Marked
    <3> QED
      BY <3>3 DEF x
  <2>6. Append(<<"{">>, "level") = <<"{", "level">>
    BY AppendToOne, Zenon
  <2> QED
    BY <2>3, <2>5, <2>6 DEF Confined
<1>12. levelled = jems_string(keyed, level)
  BY DEF jems_key_string
<1> HIDE DEF keyed, levelled
<1>13. levelled \in Confined(max, Marked)
  BY <1>2, <1>3, <1>11, <1>12, MarkedClosed, FunctionsConfined
<1>14. component \in Confined(max, Marked)
  <2>1. jems_string(levelled, "component") \in Confined(max, Marked)
    BY <1>2, <1>3, <1>13, MarkedClosed, FunctionsConfined
  <2> QED
    BY <1>2, <1>3, <2>1, MarkedClosed, FunctionsConfined DEF jems_key_string
<1> HIDE DEF component
<1>15. Header(level) \in Confined(max, Marked)
  <2>1. jems_string(component, "message") \in Confined(max, Marked)
    BY <1>2, <1>3, <1>14, MarkedClosed, FunctionsConfined
  <2> QED
    BY <1>1, <1>2, <1>3, <2>1, MarkedClosed, FunctionsConfined DEF jems_key_string
<1> QED
  BY <1>15 DEF max

LEMMA StartIsMarked ==
  ASSUME NEW level \in Severities
  PROVE  log_stream_start(level) \in Marked
<1> DEFINE max == JEMS_MAX_LEVEL
           j == jems_string(Header(level), "data")
<1>1. log_stream_start(level) = commify(j).arg
  BY EmptyLiteral DEF log_stream_start, jems_key_literal
<1>2. max \in Nat \ {0} /\ Header(level) \in Confined(max, Marked)
  BY LoggerAssumption, HeaderIsMarked
<1> HIDE DEF max
<1>3. "data" \in Plain
  BY PlainTokens DEF Words
<1>4. j \in Confined(max, Marked)
  BY <1>2, <1>3, MarkedClosed, FunctionsConfined
<1> HIDE DEF j
<1>5. commify(j) \in Confined(max, Marked)
  BY <1>2, <1>4, MarkedClosed, PartsConfined
<1> QED
  BY <1>1, <1>5 DEF Confined

LEMMA MarkedJoined ==
  ASSUME NEW x \in Marked, NEW y \in Seq(Plain)
  PROVE  x \o y \in Marked
<1> DEFINE z == x \o y
           l == Len(x)
           m == Len(y)
<1>1. x \in Seq(Tokens) /\ y \in Seq(Tokens)
  BY PlainTokens, SeqMonotonic DEF Marked
<1>2. l >= 2 /\ x[1] = "{" /\ x[2] = "level" /\ \A i \in 3 .. l : x[i] # "level"
  BY DEF Marked
<1>3. \A i \in 1 .. m : y[i] # "level"
  <2>1. \A i \in 1 .. m : y[i] \in Plain
    BY ElementOfSeq
  <2> QED
    BY <2>1 DEF Plain
<1>4. /\ l \in Nat /\ m \in Nat /\ z \in Seq(Tokens) /\ Len(z) = l + m
      /\ \A i \in 1 .. l : z[i] = x[i]
      /\ \A i \in 1 .. m : z[l + i] = y[i]
  BY <1>1, Joined
<1> HIDE DEF z, l, m
<1>5. Len(z) >= 2 /\ z[1] = "{" /\ z[2] = "level"
  <2>1. 1 \in 1 .. l /\ 2 \in 1 .. l /\ l + m >= 2
    <3>1. l \in Nat /\ m \in Nat /\ l >= 2
      BY <1>2, <1>4
    <3> QED
      BY <3>1
  <2> QED
    BY <1>2, <1>4, <2>1
<1>6. ASSUME NEW i \in 3 .. Len(z) PROVE z[i] # "level"
  <2>1. CASE i <= l
    <3>1. i \in 1 .. l /\ i \in 3 .. l
      BY <1>4, <2>1
    <3> QED
      BY <1>2, <1>4, <3>1
  <2>2. CASE i > l
    <3>1. i - l \in 1 .. m /\ l + (i - l) = i
      BY <1>4, <2>2
    <3>2. z[l + (i - l)] = y[i - l] /\ y[i - l] # "level"
      BY <1>3, <1>4, <3>1
    <3> QED
      BY <3>1, <3>2
  <2> QED
    BY <1>4, <2>1, <2>2
<1>7. z \in Marked
  BY <1>4, <1>5, <1>6 DEF Marked
<1> QED
  BY <1>7 DEF z

(* If log_complex is given no entries: one in an entry may be all that is  *)
(* left of a line, and then it is taken for one.                           *)
ComplexPlain == \A data \in Complex : IsJson(data) /\ Len(data) <= Chunk /\ data \in Seq(Plain)

LEMMA StreamIsMarked ==
  ASSUME NEW level \in Severities, NEW document \in Seq(Plain)
  PROVE  \E body \in Marked : log_stream_start(level) \o document \o log_stream_end
                                = body \o <<EndOfLine>>
<1> DEFINE start == log_stream_start(level)
           open == start \o document
           brace == <<"}">>
           end == <<EndOfLine>>
<1>1. start \in Marked
  BY StartIsMarked
<1> HIDE DEF start
<1>2. open \in Marked
  BY <1>1, MarkedJoined
<1>3. brace \in Seq(Plain) /\ brace \in Seq(Symbols) /\ end \in Seq(Symbols)
  <2>1. "}" \in Plain /\ "}" \in Symbols /\ EndOfLine \in Symbols
    BY PlainTokens DEF Symbols
  <2>2. \A S : \A x \in S : <<x>> \in Seq(S)
    OBVIOUS
  <2> QED
    BY <2>1, <2>2
<1>4. open \in Seq(Symbols)
  <2>1. open \in Seq(Tokens)
    BY <1>2 DEF Marked
  <2> HIDE DEF open
  <2> QED
    BY <2>1, TokensAreSymbols
<1>5. log_stream_end = brace \o end
  BY StreamEnds
<1> HIDE DEF open, brace, end
<1>6. open \o log_stream_end = (open \o brace) \o end
  BY <1>3, <1>4, <1>5, ConcatAssociative
<1>7. open \o brace \in Marked
  BY <1>2, <1>3, MarkedJoined
<1> QED
  BY <1>6, <1>7 DEF open, start, end

LEMMA TextsAreMarked ==
  ASSUME ComplexPlain, NEW text \in Texts \cup {PanicText}
  PROVE  \E body \in Marked : text = body \o <<EndOfLine>>
<1>1. {"INFO", "DEBUG", "FATAL"} \subseteq Severities
  BY DEF Severities
<1> DEFINE Fine(t) == \E body \in Marked : t = body \o <<EndOfLine>>
<1>2. ASSUME NEW level \in Severities PROVE Fine(log_message(level))
  <2>1. jems_object_close(Header(level)) \in Confined(JEMS_MAX_LEVEL, Marked)
    <3>1. JEMS_MAX_LEVEL \in Nat \ {0}
      BY LoggerAssumption
    <3> QED
      BY <3>1, HeaderIsMarked, MarkedClosed, FunctionsConfined
  <2> QED
    BY <2>1 DEF Confined, log_message
<1>3. ASSUME NEW document \in Seq(Plain) PROVE Fine(Streamed(document))
  BY <1>1, StreamIsMarked DEF Streamed
<1>4. ASSUME NEW n \in MapSizes PROVE Fine(Streamed(MemoryMap(n)))
  <2>1. MemoryMap(n) \in Seq(Plain)
    BY MemoryMapIsPlain, LoggerAssumption
  <2> HIDE DEF Fine
  <2> QED
    BY <1>3, <2>1
<1>5. ASSUME NEW counts \in BlockCounts PROVE Fine(Streamed(BuddyState(counts)))
  <2>1. BuddyState(counts) \in Seq(Plain)
    BY BuddyStateIsPlain, LoggerAssumption
  <2> HIDE DEF Fine
  <2> QED
    BY <1>3, <2>1
<1>6. ASSUME NEW data \in Complex PROVE Fine(log_complex("INFO", data))
  <2>1. IsJson(data) /\ Len(data) <= Chunk /\ data \in Seq(Plain)
    BY DEF ComplexPlain
  <2>2. data # <<>>
    <3>1. Fresh # <<"end">>
      BY DEF Fresh
    <3> QED
      BY <2>1, <3>1, ReadNothing DEF IsJson
  <2>3. data \in Seq(Tokens)
    BY LoggerAssumption
  <2>4. Pieces(data) = data
    BY <2>1, <2>2, <2>3, PiecesAreTokens
  <2> QED
    BY <1>1, <2>1, <2>4, StreamIsMarked DEF log_complex
<1> HIDE DEF Fine
<1>7. Fine(text)
  BY <1>1, <1>2, <1>4, <1>5, <1>6 DEF Texts, PanicText
<1> QED
  BY <1>7 DEF Fine

(* What is needed of a body in all that follows.                           *)
LEMMA BodyFacts ==
  ASSUME ComplexPlain, NEW body \in Bodies
  PROVE  body \in Marked /\ IsJson(body)
<1>1. body \in Seq(Tokens) /\ body \o <<EndOfLine>> \in Texts \cup {PanicText}
  BY DEF Bodies
<1>2. PICK other \in Marked : body \o <<EndOfLine>> = other \o <<EndOfLine>>
  BY <1>1, TextsAreMarked
<1>3. body = other
  BY <1>1, <1>2, SameBody DEF Marked
<1>4. ComplexFits
  BY DEF ComplexPlain, ComplexFits
<1> QED
  BY <1>2, <1>3, <1>4, BodiesReadable

-----------------------------------------------------------------------------
(* What one token does to the reader.                                      *)
Closers == {"}", "]"}
Openers == {"{", "["}

ReadsTo(s, token, n) ==
  \/ /\ token \in Openers /\ Last(s) \in DOMAIN AfterValue
     /\ \E c \in Places : n = Append(Append(Front(s), AfterValue[Last(s)]), c)
  \/ /\ token \in Closers /\ Last(s) \notin {"start", "end"} /\ n = Front(s)
  \/ /\ token \notin Openers \cup Closers /\ Last(s) # "end"
     /\ \E q \in Places : n = Append(Front(s), q) /\ (Last(s) = "start" => q = "end")

LEMMA ReadCases ==
  ASSUME NEW s, s # <<>>, NEW token, Read(s, token) # <<>>
  PROVE  ReadsTo(s, token, Read(s, token))
<1> DEFINE place == Last(s)
           f == Front(s)
           In == place \in DOMAIN AfterValue
           n == Read(s, token)
<1>1. place \in DOMAIN AfterValue => place \in {"start", "firstItem", "item", "value"}
  BY AfterValueFacts
<1>2. {"firstKey", "firstItem", "colon", "value", "key", "item", "end"} \subseteq Places
  BY DEF Places
<1>3. place = Last(s) /\ f = Front(s)
  OBVIOUS
<1> HIDE DEF place, f
<1>4. CASE token = "{"
  <2>1. In /\ n = Append(Append(f, AfterValue[place]), "firstKey")
    BY <1>3, <1>4 DEF Read
  <2> QED
    BY <1>2, <1>3, <1>4, <2>1 DEF ReadsTo, Openers
<1>5. CASE token = "["
  <2>1. In /\ n = Append(Append(f, AfterValue[place]), "firstItem")
    BY <1>3, <1>5 DEF Read
  <2> QED
    BY <1>2, <1>3, <1>5, <2>1 DEF ReadsTo, Openers
<1>6. CASE token = "}"
  <2>1. place \in {"firstKey", "nextPair"} /\ n = f
    BY <1>3, <1>6 DEF Read
  <2> QED
    BY <1>3, <1>6, <2>1 DEF ReadsTo, Closers
<1>7. CASE token = "]"
  <2>1. place \in {"firstItem", "nextItem"} /\ n = f
    BY <1>3, <1>7 DEF Read
  <2> QED
    BY <1>3, <1>7, <2>1 DEF ReadsTo, Closers
<1>8. CASE token \notin Openers \cup Closers
  <2> DEFINE To(q) == n = Append(f, q)
  <2>1. CASE token = ":"
    <3>1. place = "colon" /\ To("value")
      BY <1>3, <2>1 DEF Read
    <3> QED
      BY <1>2, <1>3, <1>8, <3>1 DEF ReadsTo
  <2>2. CASE token = ","
    <3>1. (place = "nextPair" /\ To("key")) \/ (place = "nextItem" /\ To("item"))
      BY <1>3, <2>2 DEF Read
    <3> QED
      BY <1>2, <1>3, <1>8, <3>1 DEF ReadsTo
  <2>3. CASE token \in Values /\ place \in {"firstKey", "key"}
    <3>1. To("colon")
      BY <1>1, <1>3, <2>3 DEF Read, Values, Words
    <3> QED
      BY <1>2, <1>3, <1>8, <2>3, <3>1 DEF ReadsTo
  <2>4. CASE token \in Values /\ place \notin {"firstKey", "key"}
    <3>1. In /\ To(AfterValue[place])
      BY <1>3, <2>4 DEF Read, Values, Words
    <3>2. AfterValue[place] \in Places /\ (place = "start" => AfterValue[place] = "end")
          /\ place # "end"
      BY <1>1, <3>1, AfterValueFacts
    <3> QED
      BY <1>3, <1>8, <3>1, <3>2 DEF ReadsTo
  <2>5. CASE token \notin Values \cup {":", ","}
    <3>1. n = <<>>
      BY <1>3, <1>8, <2>5 DEF Read, Values, Words, Openers, Closers
    <3> QED
      BY <3>1
  <2> QED
    BY <2>1, <2>2, <2>3, <2>4, <2>5
<1> QED
  BY <1>4, <1>5, <1>6, <1>7, <1>8 DEF Openers, Closers

(* It is in one more container, in one less, or in as many.  Where it is   *)
(* in none, after a value, nothing may follow.                             *)
Depth(s) == Len(s)

Opened(s) == s \in Seq(Places) /\ Len(s) >= 1 /\ s[1] = "end"

Change(token) == IF token \in Openers THEN 1 ELSE IF token \in Closers THEN -1 ELSE 0

LEMMA ReadStep ==
  ASSUME NEW s, s = Fresh \/ Opened(s), NEW token, Read(s, token) # <<>>
  PROVE  /\ Opened(Read(s, token)) /\ Depth(Read(s, token)) = Depth(s) + Change(token)
         /\ s = Fresh \/ Depth(s) >= 2
<1> DEFINE n == Read(s, token)
           l == Len(s)
           f == Front(s)
<1>1. /\ s \in Seq(Places) /\ l \in Nat /\ l >= 1 /\ s[1] \in {"start", "end"}
      /\ s = Fresh => l = 1 /\ s[1] = "start"
      /\ s # Fresh => s[1] = "end"
  <2>1. CASE s = Fresh
    <3>1. "start" \in Places
      BY DEF Places
    <3> QED
      BY <2>1, <3>1 DEF Fresh
  <2>2. CASE s # Fresh
    BY <2>2, LenProperties DEF Opened
  <2> QED
    BY <2>1, <2>2
<1>2. f \in Seq(Places) /\ Len(f) = l - 1 /\ (\A i \in 1 .. (l - 1) : f[i] = s[i]) /\ Last(s) = s[l]
  BY <1>1, LastRemoved
<1>3. s # <<>>
  BY <1>1
<1>4. ReadsTo(s, token, n)
  BY <1>3, ReadCases
<1> HIDE DEF n, f, l
<1>5. l = 1 => s = Fresh /\ Last(s) = "start"
  <2> SUFFICES ASSUME l = 1, s # Fresh PROVE FALSE
    BY <1>1, <1>2
  <2>1. Last(s) = "end"
    BY <1>1, <1>2
  <2> QED
    BY <1>4, <2>1, AfterValueFacts DEF ReadsTo
<1>6. ASSUME NEW q \in Places, l = 1 => q = "end"
      PROVE  Opened(Append(f, q)) /\ Len(Append(f, q)) = l /\ Append(f, q) \in Seq(Places)
  <2> DEFINE m == Append(f, q)
  <2>1. m \in Seq(Places) /\ Len(m) = l
    BY <1>1, <1>2, AppendProperties
  <2>2. m[Len(f) + 1] = q /\ \A i \in 1 .. Len(f) : m[i] = f[i]
    BY <1>2, AppendProperties
  <2> HIDE DEF m
  <2>3. m[1] = "end"
    <3>1. CASE l = 1
      BY <1>2, <1>6, <2>2, <3>1
    <3>2. CASE l # 1
      <4>1. 1 \in 1 .. Len(f) /\ 1 \in 1 .. (l - 1)
        BY <1>1, <1>2, <3>2
      <4>2. s # Fresh
        BY <1>1, <3>2
      <4> QED
        BY <1>1, <1>2, <2>2, <4>1, <4>2
    <3> QED
      BY <3>1, <3>2
  <2> QED
    BY <1>1, <2>1, <2>3 DEF Opened, m
<1>7. CASE token \in Openers
  <2>1. PICK c \in Places : n = Append(Append(f, AfterValue[Last(s)]), c)
    BY <1>4, <1>7 DEF ReadsTo, Closers, Openers, f
  <2>2. AfterValue[Last(s)] \in Places /\ (l = 1 => AfterValue[Last(s)] = "end")
    BY <1>4, <1>5, <1>7, AfterValueFacts DEF ReadsTo, Closers, Openers
  <2> DEFINE g == Append(f, AfterValue[Last(s)])
  <2>3. Opened(g) /\ Len(g) = l
    BY <1>6, <2>2
  <2> HIDE DEF g
  <2>4. n = Append(g, c)
    BY <2>1 DEF g
  <2>5. g \in Seq(Places) /\ g[1] = "end" /\ 1 \in 1 .. Len(g)
    BY <1>1, <2>3 DEF Opened
  <2>6. n \in Seq(Places) /\ Len(n) = l + 1 /\ n[1] = "end"
    BY <2>3, <2>4, <2>5, AppendProperties
  <2>7. Change(token) = 1
    BY <1>7 DEF Change
  <2>8. l + 1 >= 1 /\ (l >= 2 \/ s = Fresh)
    BY <1>1, <1>5
  <2> QED
    BY <2>6, <2>7, <2>8 DEF Opened, Depth, n, l
<1>8. CASE token \in Closers
  <2>1. n = f /\ Last(s) # "start"
    BY <1>4, <1>8 DEF ReadsTo, Closers, Openers, f
  <2>2. l >= 2 /\ s # Fresh /\ 1 \in 1 .. (l - 1)
    BY <1>1, <1>5, <2>1
  <2>3. f[1] = "end" /\ Len(f) >= 1
    BY <1>1, <1>2, <2>2
  <2>4. Change(token) = -1
    BY <1>8 DEF Change, Openers, Closers
  <2> QED
    BY <1>1, <1>2, <2>1, <2>2, <2>3, <2>4 DEF Opened, Depth, n, l
<1>9. CASE token \notin Openers \cup Closers
  <2>1. PICK q \in Places : n = Append(f, q) /\ (Last(s) = "start" => q = "end")
    BY <1>4, <1>9 DEF ReadsTo, f
  <2>2. Opened(n) /\ Len(n) = l
    BY <1>5, <1>6, <2>1
  <2>3. Change(token) = 0
    BY <1>9 DEF Change
  <2> QED
    BY <1>1, <1>5, <2>2, <2>3 DEF Depth, n, l
<1> QED
  BY <1>7, <1>8, <1>9

(* So while a JSON text is read, the reader is in a container.             *)
LEMMA JsonRead ==
  ASSUME NEW text \in Seq(Tokens), NEW r, Reading(r, text), IsJson(text)
  PROVE  /\ Len(text) \in Nat /\ Len(text) >= 1 /\ Depth(r[Len(text)]) = 1 /\ Depth(r[0]) = 1
         /\ \A i \in 1 .. Len(text) :
              /\ Opened(r[i]) /\ Depth(r[i]) \in Nat
              /\ Depth(r[i]) = Depth(r[i - 1]) + Change(text[i])
         /\ \A i \in 1 .. (Len(text) - 1) : Depth(r[i]) >= 2
<1> DEFINE l == Len(text)
<1>1. l \in Nat /\ r[0] = Fresh /\ \A i \in 1 .. l : r[i] = Read(r[i - 1], text[i])
  BY LenProperties DEF Reading
<1>2. Depth(r[l]) = 1 /\ r[l] # <<>> /\ r[l] # Fresh
  <2>1. r[l] = <<"end">>
    BY <1>1, AfterReadingIs DEF IsJson
  <2>2. Len(<<"end">>) = 1 /\ <<"end">> # <<>> /\ <<"end">> # Fresh
    BY DEF Fresh
  <2> QED
    BY <2>1, <2>2 DEF Depth
<1>3. l >= 1
  BY <1>1, <1>2
<1> HIDE DEF l
<1>4. \A i \in 0 .. l : r[i] # <<>>
  <2> DEFINE Bad == {i \in 0 .. l : r[l - i] = <<>>}
  <2> SUFFICES ASSUME Bad # {} PROVE FALSE
    <3> SUFFICES ASSUME NEW i \in 0 .. l, r[i] = <<>> PROVE Bad # {}
      OBVIOUS
    <3>1. l - i \in 0 .. l /\ l - (l - i) = i
      BY <1>1
    <3> QED
      BY <3>1
  <2>1. PICK n \in Bad : \A m \in Bad : n <= m
    <3>1. Bad \in SUBSET Nat
      OBVIOUS
    <3> HIDE DEF Bad
    <3> QED
      BY <3>1, LeastOf
  <2>2. n # 0
    BY <1>1, <1>2, <2>1
  <2>3. n - 1 \in 0 .. l /\ n - 1 < n /\ l - (n - 1) \in 1 .. l /\ (l - (n - 1)) - 1 = l - n
    <3>1. l \in Nat /\ n \in 0 .. l /\ n # 0
      BY <1>1, <2>1, <2>2
    <3> QED
      BY <3>1
  <2>6. r[l - n] = <<>>
    BY <2>1
  <2>7. n - 1 \notin Bad
    <3> SUFFICES ASSUME n - 1 \in Bad PROVE FALSE
      OBVIOUS
    <3>1. n <= n - 1 /\ n \in Nat
      BY <2>1
    <3> QED
      BY <3>1
  <2>4. r[l - (n - 1)] = Read(<<>>, text[l - (n - 1)])
    BY <1>1, <2>3, <2>6
  <2>5. r[l - (n - 1)] = <<>>
    BY <2>4 DEF Read
  <2> QED
    BY <2>3, <2>5, <2>7
<1>5. ASSUME NEW i \in 1 .. l, r[i - 1] = Fresh \/ Opened(r[i - 1])
      PROVE  /\ Opened(r[i]) /\ Depth(r[i]) = Depth(r[i - 1]) + Change(text[i])
             /\ r[i - 1] = Fresh \/ Depth(r[i - 1]) >= 2
  <2>1. r[i] = Read(r[i - 1], text[i]) /\ r[i] # <<>>
    BY <1>1, <1>4
  <2> QED
    BY <1>5, <2>1, ReadStep
<1>6. \A i \in 1 .. l : Opened(r[i])
  <2> DEFINE Bad == {i \in 1 .. l : ~ Opened(r[i])}
  <2> SUFFICES ASSUME Bad # {} PROVE FALSE
    OBVIOUS
  <2>1. PICK n \in Bad : \A m \in Bad : n <= m
    <3>1. Bad \in SUBSET Nat
      OBVIOUS
    <3> HIDE DEF Bad
    <3> QED
      BY <3>1, LeastOf
  <2>2. CASE n = 1
    BY <1>1, <1>5, <2>1, <2>2
  <2>3. CASE n # 1
    <3>1. n - 1 \in 1 .. l /\ n - 1 \notin Bad /\ n \in 1 .. l
      BY <1>1, <2>1, <2>3
    <3>2. Opened(r[n - 1])
      BY <3>1
    <3> QED
      BY <1>5, <2>1, <3>1, <3>2
  <2> QED
    BY <2>2, <2>3
<1>7. ASSUME NEW i \in 1 .. l
      PROVE  Depth(r[i]) \in Nat /\ Depth(r[i]) = Depth(r[i - 1]) + Change(text[i])
  <2>1. r[i - 1] = Fresh \/ Opened(r[i - 1])
    <3>1. i = 1 \/ i - 1 \in 1 .. l
      BY <1>1
    <3> QED
      BY <1>1, <1>6, <3>1
  <2>2. Depth(r[i]) \in Nat
    BY <1>6, LenProperties DEF Opened, Depth
  <2> QED
    BY <1>5, <2>1, <2>2
<1>8. ASSUME NEW i \in 1 .. (l - 1) PROVE Depth(r[i]) >= 2
  <2>1. i \in 1 .. l /\ i + 1 \in 1 .. l /\ (i + 1) - 1 = i
    BY <1>1
  <2>2. Opened(r[i])
    BY <1>6, <2>1
  <2>3. r[(i + 1) - 1] = Fresh \/ Depth(r[(i + 1) - 1]) >= 2
    BY <1>5, <2>1, <2>2
  <2>4. r[i] # Fresh
    BY <2>2 DEF Opened, Fresh
  <2> QED
    BY <2>1, <2>3, <2>4
<1>9. Depth(r[0]) = 1
  <2>1. Depth(Fresh) = 1
    BY DEF Fresh, Depth
  <2> QED
    BY <1>1, <2>1
<1> QED
  BY <1>1, <1>2, <1>3, <1>6, <1>7, <1>8, <1>9 DEF l

-----------------------------------------------------------------------------
(* A piece of a line is made of parts of bodies: token t of it is token    *)
(* a[t] of body c[t], and a part follows on in its body or starts another. *)
MadeOf(f, B, c, a) ==
  \A t \in 1 .. Len(f) :
    /\ B[c[t]] \in Marked /\ IsJson(B[c[t]])
    /\ a[t] \in 1 .. Len(B[c[t]]) /\ f[t] = B[c[t]][a[t]]
    /\ t > 1 => a[t] = 1 \/ (c[t - 1] = c[t] /\ a[t - 1] = a[t] - 1)

(* The reader of a body, token by token.                                   *)
ReaderOf(body) == CHOOSE r : Reading(r, body)

LEMMA ReaderOfBody ==
  ASSUME NEW body \in Marked, IsJson(body)
  PROVE  LET r == ReaderOf(body) IN
         /\ Reading(r, body) /\ r[0] = Fresh
         /\ Len(body) \in Nat /\ Len(body) >= 2 /\ body[1] = "{"
         /\ \A i \in 1 .. Len(body) : Depth(r[i]) \in Nat /\ Depth(r[i]) >= 1
                                      /\ Depth(r[i]) = Depth(r[i - 1]) + Change(body[i])
         /\ \A i \in 1 .. (Len(body) - 1) : Depth(r[i]) >= 2
         /\ Depth(r[1]) = 2
<1> DEFINE r == ReaderOf(body)
<1>1. body \in Seq(Tokens) /\ Len(body) \in Nat /\ Len(body) >= 2
  BY LenProperties DEF Marked
<1>6. body[1] = "{"
  BY DEF Marked
<1>2. Reading(r, body)
  BY <1>1, AfterReadingIs DEF ReaderOf
<1> HIDE DEF r
<1>3. /\ Depth(r[0]) = 1
      /\ \A i \in 1 .. Len(body) : /\ Opened(r[i]) /\ Depth(r[i]) \in Nat
                                   /\ Depth(r[i]) = Depth(r[i - 1]) + Change(body[i])
      /\ \A i \in 1 .. (Len(body) - 1) : Depth(r[i]) >= 2
  BY <1>1, <1>2, JsonRead
<1>4. Depth(r[1]) = 2
  <2>1. 1 \in 1 .. Len(body) /\ 1 - 1 = 0
    BY <1>1
  <2>2. Depth(r[1]) = Depth(r[1 - 1]) + Change(body[1])
    BY <1>3, <2>1
  <2>3. Change(body[1]) = 1
    BY <1>6 DEF Change, Openers
  <2> QED
    BY <1>3, <2>1, <2>2, <2>3
<1>5. r[0] = Fresh
  BY <1>2 DEF Reading
<1>7. \A i \in 1 .. Len(body) : Depth(r[i]) >= 1
  BY <1>3 DEF Opened, Depth
<1> QED
  BY <1>1, <1>2, <1>3, <1>4, <1>5, <1>6, <1>7 DEF r

(* The key "level" can only be that of the body that the piece starts with.*)
LEMMA EntryStarts ==
  ASSUME NEW f \in Seq(Tokens), NEW B, NEW c, NEW a, MadeOf(f, B, c, a),
         parse_log_entry(f)
  PROVE  Len(f) >= 2 /\ a[1] = 1 /\ c[2] = c[1] /\ a[2] = 2
<1> DEFINE l == Len(f)
<1>1. PICK r : Reading(r, f)
  BY LenProperties, AfterReadingIs
<1>2. PICK i \in DOMAIN f : f[i] = "level" /\ Depth(AfterReading(SubSeq(f, 1, i - 1))) = 2
  <2>1. Depth(<<"end", "firstKey">>) = 2 /\ Depth(<<"end", "key">>) = 2
    BY DEF Depth
  <2> QED
    BY <2>1 DEF KeysOf, parse_log_entry
<1>11. l \in Nat /\ i \in 1 .. l
  BY LenProperties
<1>3. /\ l >= 1 /\ Depth(r[0]) = 1
      /\ \A k \in 1 .. l : Depth(r[k]) \in Nat /\ Depth(r[k]) = Depth(r[k - 1]) + Change(f[k])
      /\ \A k \in 1 .. (l - 1) : Depth(r[k]) >= 2
  BY <1>1, JsonRead DEF parse_log_entry
<1>4. Depth(r[i - 1]) = 2
  <2> DEFINE g == SubSeq(f, 1, i - 1)
  <2>1. i - 1 \in 0 .. l
    <3> HIDE DEF l
    <3> QED
      BY <1>11
  <2>2. g \in Seq(Tokens) /\ Len(g) = i - 1 /\ \A k \in 1 .. (i - 1) : g[k] = f[k]
    <3> DEFINE m == i - 1
    <3>1. m \in 0 .. Len(f)
      BY <2>1
    <3> HIDE DEF m, l
    <3>2. SubSeq(f, 1, m) \in Seq(Tokens) /\ Len(SubSeq(f, 1, m)) = m
          /\ \A k \in 1 .. m : SubSeq(f, 1, m)[k] = f[k]
      BY <3>1, FirstOf
    <3> QED
      BY <3>2 DEF m
  <2>3. Depth(AfterReading(g)) = 2
    BY <1>2
  <2> HIDE DEF g
  <2>4. Reading(r, g)
    <3>1. \A k \in 1 .. (i - 1) : k \in 1 .. Len(f)
      BY <1>11
    <3> QED
      BY <1>1, <2>2, <3>1 DEF Reading
  <2>5. AfterReading(g) = r[i - 1]
    BY <2>1, <2>2, <2>4, LenProperties, AfterReadingIs
  <2> QED
    BY <2>3, <2>5
<1>5. f # <<>> /\ f[1] = "{"
  <2>1. f # <<>>
    <3>1. Len(f) # 0
      BY <1>11, <1>3
    <3> QED
      BY <3>1, EmptySeq
  <2>2. Head(f) = f[1]
    BY <2>1, HeadTailProperties
  <2> QED
    BY <2>1, <2>2 DEF parse_log_entry
<1> HIDE DEF l
<1>6. i > 1
  <2>1. i # 1
    BY <1>2, <1>5
  <2> QED
    BY <1>11, <2>1
<1>7. B[c[i]] \in Marked /\ a[i] \in 1 .. Len(B[c[i]]) /\ B[c[i]][a[i]] = "level"
      /\ (a[i] = 1 \/ (c[i - 1] = c[i] /\ a[i - 1] = a[i] - 1))
  BY <1>2, <1>11, <1>6 DEF MadeOf, l
<1>8. a[i] = 2
  <2>1. B[c[i]][1] = "{" /\ \A k \in 3 .. Len(B[c[i]]) : B[c[i]][k] # "level"
    BY <1>7 DEF Marked
  <2>2. a[i] # 1 /\ a[i] \notin 3 .. Len(B[c[i]])
    BY <1>7, <2>1
  <2> DEFINE m == Len(B[c[i]])
             k == a[i]
  <2>3. m \in Nat /\ k \in 1 .. m
    BY <1>7, LenProperties DEF Marked
  <2> HIDE DEF m, k
  <2>4. k # 1 /\ k \notin 3 .. m
    BY <2>2 DEF m, k
  <2>5. k = 2
    BY <2>3, <2>4
  <2> QED
    BY <2>5 DEF k
<1>9. c[i - 1] = c[i] /\ a[i - 1] = 1 /\ f[i - 1] = "{"
  <2>1. c[i - 1] = c[i] /\ a[i - 1] = 1
    <3>1. c[i - 1] = c[i] /\ a[i - 1] = 2 - 1
      BY <1>7, <1>8
    <3> QED
      BY <3>1
  <2>2. i - 1 \in 1 .. l
    BY <1>11, <1>6
  <2>3. f[i - 1] = B[c[i - 1]][a[i - 1]]
    BY <2>2 DEF MadeOf, l
  <2> QED
    BY <1>7, <2>1, <2>3 DEF Marked
<1>10. i = 2
  <2> SUFFICES ASSUME i # 2 PROVE FALSE
    OBVIOUS
  <2>1. i - 1 \in 1 .. l /\ i - 2 \in 1 .. (l - 1) /\ (i - 1) - 1 = i - 2 /\ i - 2 \in 1 .. l
    <3>1. i \in 1 .. l /\ l \in Nat /\ i # 1 /\ i # 2
      BY <1>11, <1>6
    <3> QED
      BY <3>1
  <2>2. Depth(r[i - 2]) >= 2 /\ Depth(r[i - 2]) \in Nat
    BY <1>3, <2>1
  <2>3. Depth(r[i - 1]) = Depth(r[(i - 1) - 1]) + Change(f[i - 1])
    BY <1>3, <2>1
  <2>4. Change(f[i - 1]) = 1
    BY <1>9 DEF Change, Openers
  <2> QED
    BY <1>4, <2>1, <2>2, <2>3, <2>4
<1>12. l >= 2 /\ 2 - 1 = 1
  BY <1>10, <1>11
<1>13. a[2 - 1] = 1 /\ c[2 - 1] = c[2] /\ a[2] = 2
  BY <1>8, <1>9, <1>10
<1> QED
  BY <1>12, <1>13 DEF l

(* The piece is one body: while its body goes on, the piece is in it; and  *)
(* where another starts in it, that is read in one container more than it  *)
(* is by itself, so the piece is not at its end.                           *)
LEMMA EntryWhole ==
  ASSUME NEW f \in Seq(Tokens), NEW B, NEW c, NEW a, MadeOf(f, B, c, a), parse_log_entry(f)
  PROVE  Len(f) >= 1 /\ a[1] = 1 /\ f = B[c[1]]
<1> DEFINE l == Len(f)
           body == B[c[1]]
           Same(i) == \A t \in 1 .. i : c[t] = c[1] /\ a[t] = t
<1>1. IsJson(f)
  BY DEF parse_log_entry
<1>2. l >= 2 /\ a[1] = 1 /\ c[2] = c[1] /\ a[2] = 2
  BY EntryStarts
<1>3. PICK r : Reading(r, f)
  BY LenProperties, AfterReadingIs
<1>4. /\ l \in Nat /\ l >= 1 /\ Depth(r[l]) = 1
      /\ \A i \in 1 .. l : Depth(r[i]) \in Nat /\ Depth(r[i]) = Depth(r[i - 1]) + Change(f[i])
      /\ \A i \in 1 .. (l - 1) : Depth(r[i]) >= 2
  BY <1>1, <1>3, JsonRead
<1> DEFINE Deeper(i) == Depth(r[i]) >= 1 + Depth(ReaderOf(B[c[i]])[a[i]])
           Bad == {i \in 1 .. l : ~ Same(i) /\ ~ Deeper(i)}
<1> HIDE DEF l
<1>5. ASSUME NEW i \in 1 .. l
      PROVE  /\ B[c[i]] \in Marked /\ IsJson(B[c[i]])
             /\ a[i] \in 1 .. Len(B[c[i]]) /\ f[i] = B[c[i]][a[i]]
             /\ i > 1 => a[i] = 1 \/ (c[i - 1] = c[i] /\ a[i - 1] = a[i] - 1)
  BY DEF MadeOf, l
<1>6. ASSUME NEW i \in 1 .. l, i > 1, i - 1 \notin Bad
      PROVE  Same(i) \/ Deeper(i)
  <2> DEFINE b == B[c[i]]
             q == ReaderOf(b)
  <2>1. /\ b \in Marked /\ IsJson(b) /\ a[i] \in 1 .. Len(b) /\ f[i] = b[a[i]]
        /\ a[i] = 1 \/ (c[i - 1] = c[i] /\ a[i - 1] = a[i] - 1)
    BY <1>5, <1>6
  <2>7. b[1] = "{"
    BY <2>1, ReaderOfBody
  <2>2. /\ Len(b) \in Nat /\ Depth(q[1]) = 2
        /\ \A k \in 1 .. Len(b) : Depth(q[k]) \in Nat /\ Depth(q[k]) >= 1
                                  /\ Depth(q[k]) = Depth(q[k - 1]) + Change(b[k])
    BY <2>1, ReaderOfBody
  <2>3. i - 1 \in 1 .. l /\ i - 1 \in 1 .. (l - 1)
    BY <1>4, <1>6
  <2>4. /\ Depth(r[i]) = Depth(r[i - 1]) + Change(b[a[i]]) /\ Depth(r[i]) \in Nat
        /\ Depth(r[i - 1]) \in Nat /\ Depth(r[i - 1]) >= 2
    BY <1>4, <2>1, <2>3
  <2>5. CASE a[i] = 1
    <3>1. Change(b[a[i]]) = 1
      BY <2>7, <2>5 DEF Change, Openers
    <3>2. Depth(r[i]) >= 3
      BY <2>4, <3>1
    <3> HIDE DEF q
    <3>3. Depth(r[i]) >= 1 + Depth(q[a[i]])
      <4>1. Depth(q[a[i]]) = 2 /\ Depth(r[i]) \in Nat
        BY <2>2, <2>4, <2>5
      <4> QED
        BY <3>2, <4>1
    <3> QED
      BY <3>3 DEF q
  <2>6. CASE a[i] # 1
    <3>1. c[i - 1] = c[i] /\ a[i - 1] = a[i] - 1
      BY <2>1, <2>6
    <3>2. CASE Same(i - 1)
      <4>1. c[i - 1] = c[1] /\ a[i - 1] = i - 1
        BY <2>3, <3>2
      <4>2. c[i] = c[1] /\ a[i] = i
        <5>1. a[i] - 1 = i - 1 /\ a[i] \in Int /\ i \in Int
          BY <2>1, <3>1, <4>1
        <5>2. a[i] = i
          BY <5>1
        <5> QED
          BY <3>1, <4>1, <5>2
      <4>3. ASSUME NEW t \in 1 .. i PROVE c[t] = c[1] /\ a[t] = t
        <5>1. t = i \/ t \in 1 .. (i - 1)
          OBVIOUS
        <5> QED
          BY <3>2, <4>2, <5>1
      <4> QED
        BY <4>3
    <3>3. CASE Deeper(i - 1)
      <4>1. a[i] - 1 \in 1 .. Len(b) /\ B[c[i - 1]] = b
        <5> DEFINE k == a[i]
                   m == Len(b)
        <5>1. k \in 1 .. m /\ m \in Nat /\ k # 1
          BY <2>1, <2>2, <2>6
        <5> HIDE DEF k, m
        <5>2. k - 1 \in 1 .. m
          BY <5>1
        <5> QED
          BY <3>1, <5>2 DEF k, m
      <4>2. Depth(r[i - 1]) >= 1 + Depth(q[a[i] - 1])
        BY <3>1, <3>3, <4>1
      <4>3. /\ Depth(q[a[i]]) = Depth(q[a[i] - 1]) + Change(b[a[i]])
            /\ Depth(q[a[i]]) \in Nat /\ Depth(q[a[i] - 1]) \in Nat
        BY <2>1, <2>2, <4>1
      <4>4. Change(b[a[i]]) \in Int
        BY DEF Change
      <4> HIDE DEF q
      <4>5. Depth(r[i]) >= 1 + Depth(q[a[i]])
        BY <2>4, <4>2, <4>3, <4>4
      <4> QED
        BY <4>5 DEF q
    <3> HIDE DEF Same, Deeper
    <3> QED
      BY <1>6, <2>3, <3>2, <3>3
  <2> QED
    BY <2>5, <2>6
<1>7. Same(1)
  BY <1>2
<1>8. Bad = {}
  <2> SUFFICES ASSUME Bad # {} PROVE FALSE
    OBVIOUS
  <2> HIDE DEF Same, Deeper
  <2>1. PICK n \in Bad : \A m \in Bad : n <= m
    <3>1. Bad \in SUBSET Nat
      OBVIOUS
    <3> HIDE DEF Bad
    <3> QED
      BY <3>1, LeastOf
  <2>2. n \in 1 .. l /\ n > 1
    BY <1>4, <1>7, <2>1
  <2>3. n - 1 \notin Bad
    BY <2>1, <2>2
  <2> QED
    BY <1>6, <2>1, <2>2, <2>3
<1>9. Same(l)
  <2>1. l \in 1 .. l
    BY <1>4
  <2>2. CASE Deeper(l)
    <3> DEFINE q == ReaderOf(B[c[l]])
    <3>1. Depth(q[a[l]]) \in Nat /\ Depth(q[a[l]]) >= 1
      BY <1>5, <2>1, ReaderOfBody
    <3>2. Depth(r[l]) = 1
      BY <1>4
    <3> HIDE DEF q
    <3>3. Depth(r[l]) >= 1 + Depth(q[a[l]])
      BY <2>2 DEF q
    <3> QED
      BY <3>1, <3>2, <3>3
  <2> HIDE DEF Same, Deeper
  <2> QED
    BY <1>8, <2>1, <2>2
<1>10. /\ body \in Marked /\ IsJson(body) /\ l \in 1 .. Len(body)
       /\ \A t \in 1 .. l : f[t] = body[t]
  <2>1. c[l] = c[1] /\ a[l] = l /\ 1 \in 1 .. l /\ l \in 1 .. l
    BY <1>4, <1>9
  <2>2. \A t \in 1 .. l : f[t] = body[t]
    BY <1>5, <1>9
  <2> QED
    BY <1>5, <2>1, <2>2
<1> HIDE DEF body
<1> DEFINE q == ReaderOf(body)
<1>11. /\ Reading(q, body) /\ q[0] = Fresh /\ Len(body) \in Nat
       /\ \A i \in 1 .. (Len(body) - 1) : Depth(q[i]) >= 2
  BY <1>10, ReaderOfBody
<1> HIDE DEF q
<1>12. q[l] = r[l]
  <2>1. \A i \in 1 .. l : i \in 1 .. Len(body)
    BY <1>10, <1>11
  <2>2. Reading(q, f)
    BY <1>10, <1>11, <2>1 DEF Reading, l
  <2> QED
    BY <1>3, <1>4, <2>2, ReadingOnlyOne DEF l
<1>13. l = Len(body)
  <2> SUFFICES ASSUME l # Len(body) PROVE FALSE
    OBVIOUS
  <2>1. l \in 1 .. (Len(body) - 1)
    BY <1>10, <1>11
  <2>2. Depth(q[l]) >= 2
    BY <1>11, <2>1
  <2>3. Depth(q[l]) = 1
    BY <1>4, <1>12
  <2> QED
    BY <2>2, <2>3
<1>14. f = body
  <2>1. body \in Seq(Tokens)
    BY <1>10 DEF Marked
  <2> QED
    BY <1>10, <1>13, <2>1, SeqEqual DEF l
<1> QED
  BY <1>2, <1>4, <1>14 DEF body, l

-----------------------------------------------------------------------------
(* The part of a sequence from an element on.                              *)
LEMMA RestOf ==
  ASSUME NEW S, NEW s \in Seq(S), NEW n \in 0 .. Len(s)
  PROVE  /\ SubSeq(s, n + 1, Len(s)) \in Seq(S) /\ Len(SubSeq(s, n + 1, Len(s))) = Len(s) - n
         /\ \A i \in 1 .. (Len(s) - n) : SubSeq(s, n + 1, Len(s))[i] = s[n + i]
<1> DEFINE l == Len(s)
           m == n + 1
<1>1. l \in Nat /\ n \in Nat /\ n <= l /\ m \in Int /\ l \in Int
  BY LenProperties
<1>2. \A i \in m .. l : s[i] \in S
  BY <1>1, ElementOfSeq
<1>3. /\ SubSeq(s, m, l) \in Seq(S) /\ Len(SubSeq(s, m, l)) = (IF m <= l THEN l - m + 1 ELSE 0)
      /\ \A i \in 1 .. l - m + 1 : SubSeq(s, m, l)[i] = s[m + i - 1]
  BY <1>1, <1>2, SubSeqProperties
<1>4. l - m + 1 = l - n /\ (m <= l \/ l - n = 0) /\ \A i \in 1 .. (l - n) : m + i - 1 = n + i
  BY <1>1
<1> HIDE DEF l, m
<1>5. \A i \in 1 .. (l - n) : SubSeq(s, m, l)[i] = s[n + i]
  BY <1>3, <1>4
<1> QED
  BY <1>3, <1>4, <1>5 DEF l, m

(* A table with one place of it changed.                                   *)
Table == [Nat -> [Nat -> Nat]]

Changed(f, g, l, t, n) ==
  g[l][t] = n /\ \A k, u \in Nat : k # l \/ u # t => g[k][u] = f[k][u]

LEMMA TableChanged ==
  ASSUME NEW f \in Table, NEW l \in Nat, NEW t \in Nat, NEW n \in Nat
  PROVE  \E g \in Table : Changed(f, g, l, t, n)
<1> DEFINE row == [f[l] EXCEPT ![t] = n]
           g == [f EXCEPT ![l] = row]
<1>1. f[l] \in [Nat -> Nat]
  BY DEF Table
<1>2. row \in [Nat -> Nat] /\ row[t] = n /\ \A u \in Nat : u # t => row[u] = f[l][u]
  BY <1>1
<1> HIDE DEF row
<1>3. g \in Table /\ g[l] = row /\ \A k \in Nat : k # l => g[k] = f[k]
  BY <1>2 DEF Table
<1> HIDE DEF g
<1>4. Changed(f, g, l, t, n)
  BY <1>2, <1>3 DEF Changed
<1> QED
  BY <1>3, <1>4

(* The text of a call is its entry and the end of the line.                *)
CallOf(text, e) ==
  /\ text \in Seq(Symbols) /\ e \in Seq(Tokens) /\ e \in Marked /\ IsJson(e)
  /\ Len(e) \in Nat /\ Len(text) = Len(e) + 1
  /\ text[Len(e) + 1] = EndOfLine /\ \A i \in 1 .. Len(e) : text[i] = e[i]

LEMMA TextParts ==
  ASSUME ComplexPlain, NEW text \in Texts \cup {PanicText}
  PROVE  CallOf(text, Front(text))
<1>1. PICK body \in Bodies : text = body \o <<EndOfLine>>
  BY TextsHaveBodies
<1>2. body \in Marked /\ IsJson(body) /\ body \in Seq(Tokens)
  BY BodyFacts DEF Bodies
<1> DEFINE l == Len(body)
           end == <<EndOfLine>>
<1>3. body \in Seq(Symbols) /\ end \in Seq(Symbols) /\ l \in Nat
  BY <1>2, TokensAreSymbols, LenProperties
<1>4. Len(end) = 1 /\ end[1] = EndOfLine
  OBVIOUS
<1> HIDE DEF end
<1>5. /\ text \in Seq(Symbols) /\ Len(text) = l + 1
      /\ \A i \in 1 .. l : text[i] = body[i]
  BY <1>1, <1>3, <1>4, Joined DEF end
<1>6. text[l + 1] = EndOfLine
  <2>1. \A i \in 1 .. Len(end) : (body \o end)[Len(body) + i] = end[i]
    BY <1>3, Joined
  <2>2. 1 \in 1 .. Len(end)
    BY <1>4
  <2>3. (body \o end)[Len(body) + 1] = end[1]
    BY <2>1, <2>2
  <2> QED
    BY <1>1, <1>4, <2>3 DEF end
<1> HIDE DEF l
<1>7. Front(text) = body
  <2>1. Len(text) >= 1 /\ Len(text) - 1 = l
    BY <1>3, <1>5
  <2>2. Front(text) \in Seq(Symbols) /\ Len(Front(text)) = l
        /\ \A i \in 1 .. l : Front(text)[i] = text[i]
    BY <1>5, <2>1, LastRemoved
  <2>3. Len(body) = l
    BY DEF l
  <2> QED
    BY <1>3, <1>5, <2>2, <2>3, SeqEqual
<1> QED
  BY <1>2, <1>3, <1>5, <1>6, <1>7 DEF CallOf, l

-----------------------------------------------------------------------------
(* Where the tokens of the log come from: token t of line l is token       *)
(* place[l][t] of the entry of call number call[l][t].  A token follows    *)
(* the one before it in its entry or is the first of another, and lines    *)
(* after an ended one are of later calls.                                  *)
Spot(call, place, l, t) ==
  /\ call[l][t] \in 1 .. Len(called)
  /\ place[l][t] \in 1 .. Len(Entries[call[l][t]])
  /\ log[l][t] = Entries[call[l][t]][place[l][t]]
  /\ t > 1 => place[l][t] = 1
              \/ (call[l][t - 1] = call[l][t] /\ place[l][t - 1] = place[l][t] - 1)
  /\ \A k \in 1 .. (l - 1) : \A u \in 1 .. Len(log[k]) : call[k][u] < call[l][t]

Written(call, place) ==
  \A l \in 1 .. Len(log) : \A t \in 1 .. Len(log[l]) : Spot(call, place, l, t)

(* The call n, the last one, has written the first k tokens of its text.   *)
Reached(call, place, from, n, k) ==
  /\ pending \in Seq(Symbols) /\ Len(pending) = Len(Entries[n]) + 1 - k
  /\ \A i \in 1 .. Len(pending) : pending[i] = called[n][k + i]
  /\ k = 0 => /\ \A l \in 1 .. Len(log) : \A t \in 1 .. Len(log[l]) : call[l][t] < n
              /\ \A i \in 1 .. Len(shown) : from[i] < n
  /\ k > 0 => /\ Len(line) >= 1
              /\ call[Len(log)][Len(line)] = n /\ place[Len(log)][Len(line)] = k

Underway(call, place, from) ==
  pending # <<>> =>
    /\ Len(called) >= 1
    /\ \E k \in 0 .. Len(Entries[Len(called)]) : Reached(call, place, from, Len(called), k)

(* Where the viewer has not read yet.                                      *)
Unread(l, t) == l > at.line \/ (l = at.line /\ t > at.tokens)

(* What was shown are entries, entry i that of call number from[i], in     *)
(* order, and an entry that begins where is not read yet is of a later one.*)
Followed(call, place, from) ==
  /\ at \in [line : 1 .. Len(log), tokens : Nat] /\ at.tokens <= Len(log[at.line])
  /\ shown \in Seq(Seq(Tokens))
  /\ \A i \in 1 .. Len(shown) : from[i] \in 1 .. Len(called) /\ shown[i] = Entries[from[i]]
  /\ \A i, j \in 1 .. Len(shown) : i < j => from[i] < from[j]
  /\ \A l \in 1 .. Len(log) : \A t \in 1 .. Len(log[l]) :
       Unread(l, t) => place[l][t] >= 2 \/ \A i \in 1 .. Len(shown) : from[i] < call[l][t]

CalledOk == called \in Seq(Texts \cup {PanicText})

Traced(call, place, from) ==
  Written(call, place) /\ Underway(call, place, from) /\ Followed(call, place, from)

ViewInv ==
  /\ LogInv /\ CalledOk
  /\ \E call, place \in Table, from \in [Nat -> Nat] : Traced(call, place, from)

LEMMA CallParts ==
  ASSUME ComplexPlain, CalledOk, NEW n \in 1 .. Len(called)
  PROVE  CallOf(called[n], Entries[n])
<1>1. called[n] \in Texts \cup {PanicText} /\ DOMAIN called = 1 .. Len(called)
  BY ElementOfSeq, LenProperties DEF CalledOk
<1>2. Entries[n] = Front(called[n])
  BY <1>1 DEF Entries
<1> QED
  BY <1>1, <1>2, TextParts

LEMMA LogTyped ==
  ASSUME LogInv
  PROVE  /\ log \in Seq(Seq(Tokens)) /\ Len(log) \in Nat /\ Len(log) >= 1
         /\ \A l \in 1 .. Len(log) : log[l] \in Seq(Tokens) /\ Len(log[l]) \in Nat
         /\ line = log[Len(log)] /\ Len(log) \in 1 .. Len(log)
<1>1. log \in Seq(Seq(Tokens)) /\ Len(log) \in Nat /\ Len(log) >= 1
  BY LenProperties DEF LogInv
<1>2. ASSUME NEW l \in 1 .. Len(log) PROVE log[l] \in Seq(Tokens) /\ Len(log[l]) \in Nat
  <2>1. log[l] \in Seq(Tokens)
    BY <1>1, ElementOfSeq
  <2> QED
    BY <2>1, LenProperties
<1>3. line = log[Len(log)]
  BY <1>1, LastRemoved DEF line
<1>4. Len(log) \in 1 .. Len(log)
  BY <1>1
<1> QED
  BY <1>1, <1>2, <1>3, <1>4

LEMMA InitViewInv == ViewerInit => ViewInv
<1> SUFFICES ASSUME ViewerInit PROVE ViewInv
  OBVIOUS
<1>1. /\ pending = <<>> /\ called = <<>> /\ shown = <<>>
      /\ at = [line |-> 1, tokens |-> 0]
  BY DEF ViewerInit, Init
<1>2. LogInv
  BY InitLogInv DEF ViewerInit
<1>3. Len(log) = 1 /\ Len(log[1]) = 0
  <2>1. Len(log) = 1 /\ line = <<>>
    <3> DEFINE e == <<>>
    <3> HIDE DEF e
    <3>1. log = <<e>>
      BY DEF ViewerInit, Init, e
    <3>2. Len(log) = 1
      BY <3>1
    <3> QED
      BY <1>1, <1>2, <3>2 DEF LogInv
  <2>2. log[1] = <<>>
    BY <1>2, <2>1, LogTyped
  <2> QED
    BY <2>1, <2>2
<1>4. CalledOk /\ shown \in Seq(Seq(Tokens)) /\ Len(shown) = 0
  <2>1. \A S : <<>> \in Seq(S)
    OBVIOUS
  <2> QED
    BY <1>1, <2>1 DEF CalledOk
<1> DEFINE none == [i \in Nat |-> 0]
           table == [l \in Nat |-> none]
<1>5. none \in [Nat -> Nat] /\ table \in Table
  BY DEF Table
<1> HIDE DEF none, table
<1>6. \A l \in 1 .. Len(log) : 1 .. Len(log[l]) = {}
  BY <1>3
<1>7. Written(table, table)
  BY <1>6 DEF Written
<1>8. Underway(table, table, none)
  BY <1>1 DEF Underway
<1>9. Followed(table, table, none)
  <2>1. at \in [line : 1 .. Len(log), tokens : Nat] /\ at.tokens <= Len(log[at.line])
    BY <1>1, <1>3
  <2>2. 1 .. Len(shown) = {}
    BY <1>4
  <2> QED
    BY <1>4, <1>6, <2>1, <2>2 DEF Followed
<1> QED
  BY <1>2, <1>4, <1>5, <1>7, <1>8, <1>9 DEF ViewInv, Traced

(* A text is begun, and maybe the last one is left unfinished.             *)
LEMMA BegunViewInv ==
  ASSUME ComplexPlain, ViewInv, LogInv', NEW text \in Texts \cup {PanicText},
         pending' = text, called' = Append(called, text), UNCHANGED <<log, at, shown>>
  PROVE  ViewInv'
<1>10. PICK n \in Nat : n = Len(called)
  BY LenProperties DEF ViewInv, CalledOk
<1>1. PICK call \in Table, place \in Table, from \in [Nat -> Nat] :
        Written(call, place) /\ Followed(call, place, from)
  BY DEF ViewInv, Traced
<1>2. CalledOk /\ called \in Seq(Texts \cup {PanicText}) 
  BY DEF ViewInv, CalledOk
<1>3. /\ CalledOk' /\ Len(called') = n + 1 /\ called'[n + 1] = text
      /\ \A i \in 1 .. n : called'[i] = called[i]
  BY <1>2, <1>10, AppendProperties DEF CalledOk
<1>4. /\ \A i \in 1 .. n : Entries'[i] = Entries[i]
      /\ Entries'[n + 1] = Front(text)
  <2>2. called' \in Seq(Texts \cup {PanicText})
    BY <1>3 DEF CalledOk
  <2>3. DOMAIN called = 1 .. n
    BY <1>2, <1>10, LenProperties
  <2>4. DOMAIN called' = 1 .. (n + 1)
    <3>1. DOMAIN called' = 1 .. Len(called')
      BY <2>2, LenProperties
    <3> QED
      BY <1>3, <3>1
  <2>5. n + 1 \in 1 .. (n + 1) /\ \A i \in 1 .. n : i \in 1 .. (n + 1)
    OBVIOUS
  <2>1. DOMAIN called = 1 .. n /\ DOMAIN called' = 1 .. (n + 1) /\ n + 1 \in 1 .. (n + 1)
        /\ \A i \in 1 .. n : i \in 1 .. (n + 1)
    BY <2>3, <2>4, <2>5
  <2> QED
    BY <1>3, <2>1 DEF Entries
<1>5. CallOf(text, Entries'[n + 1])
  BY <1>4, TextParts
<1>6. \A i \in 1 .. n : i \in 1 .. (n + 1) /\ i < n + 1
  OBVIOUS
<1>7. Written(call, place)'
  <2> SUFFICES ASSUME NEW l \in 1 .. Len(log), NEW t \in 1 .. Len(log[l])
               PROVE  Spot(call, place, l, t)'
    BY DEF Written
  <2>1. Spot(call, place, l, t)
    BY <1>1 DEF Written
  <2>2. call[l][t] \in 1 .. n
    BY <1>10, <2>1 DEF Spot
  <2>3. Entries'[call[l][t]] = Entries[call[l][t]] /\ call[l][t] \in 1 .. (n + 1)
    BY <1>4, <1>6, <2>2
  <2> QED
    BY <1>3, <2>1, <2>3 DEF Spot
<1>8. Followed(call, place, from)'
  BY <1>1, <1>3, <1>4, <1>6, <1>10 DEF Followed, Unread
<1>9. Underway(call, place, from)'
  <2> DEFINE e == Entries'[n + 1]
  <2>1. text \in Seq(Symbols) /\ Len(e) \in Nat /\ Len(text) = Len(e) + 1
    BY <1>5 DEF CallOf
  <2> HIDE DEF e
  <2>2. 0 \in 0 .. Len(e) /\ Len(e) + 1 - 0 = Len(e) + 1 /\ n + 1 >= 1
    BY <2>1
  <2>3. \A i \in 1 .. Len(text) : 0 + i = i
    BY <2>1
  <2>4. \A l \in 1 .. Len(log) : \A t \in 1 .. Len(log[l]) : call[l][t] < n + 1
    <3>1. \A l \in 1 .. Len(log) : \A t \in 1 .. Len(log[l]) : call[l][t] \in 1 .. n
      BY <1>1, <1>10 DEF Written, Spot
    <3> QED
      BY <1>6, <3>1
  <2>5. \A i \in 1 .. Len(shown) : from[i] < n + 1
    BY <1>1, <1>6, <1>10 DEF Followed
  <2>6. /\ pending' \in Seq(Symbols) /\ Len(pending') = Len(e) + 1 - 0
        /\ \A i \in 1 .. Len(pending') : pending'[i] = called'[n + 1][0 + i]
    BY <1>3, <2>1, <2>2, <2>3
  <2>7. Reached(call, place, from, n + 1, 0)'
    <3>1. ~ (0 > 0)
      OBVIOUS
    <3> QED
      BY <2>4, <2>5, <2>6, <3>1 DEF Reached, e
  <2> QED
    BY <1>3, <2>2, <2>7 DEF Underway, e
<1> QED
  BY <1>1, <1>3, <1>7, <1>8, <1>9 DEF ViewInv, Traced

(* The end of the line is written.                                         *)
LEMMA EndViewInv ==
  ASSUME ViewInv, LogInv', UNCHANGED <<called, at, shown>>,
         log' = Append(log, <<>>), pending' = <<>>
  PROVE  ViewInv'
<1>1. PICK call \in Table, place \in Table, from \in [Nat -> Nat] :
        Written(call, place) /\ Followed(call, place, from)
  BY DEF ViewInv, Traced
<1>2. LogInv /\ CalledOk
  BY DEF ViewInv
<1> DEFINE n == Len(log)
<1>3. n \in Nat /\ log \in Seq(Seq(Tokens))
  BY <1>2, LogTyped
<1>4. /\ Len(log') = n + 1 /\ Len(log'[n + 1]) = 0
      /\ \A l \in 1 .. n : log'[l] = log[l]
  <2> DEFINE e == <<>>
  <2>1. e \in Seq(Tokens) /\ Len(e) = 0
    OBVIOUS
  <2> HIDE DEF e
  <2>2. /\ Len(Append(log, e)) = n + 1 /\ Append(log, e)[n + 1] = e
        /\ \A l \in 1 .. n : Append(log, e)[l] = log[l]
    BY <1>3, <2>1, AppendProperties
  <2> QED
    BY <2>1, <2>2 DEF e
<1>5. Entries' = Entries
  BY DEF Entries
<1> HIDE DEF n
<1>6. ASSUME NEW l \in 1 .. (n + 1), NEW t \in 1 .. Len(log'[l])
      PROVE  l \in 1 .. n /\ t \in 1 .. Len(log[l]) /\ log'[l] = log[l]
  <2>1. l # n + 1
    BY <1>4
  <2>2. l \in 1 .. n
    BY <1>3, <2>1
  <2> QED
    BY <1>4, <2>2
<1>7. Written(call, place)'
  <2> SUFFICES ASSUME NEW l \in 1 .. (n + 1), NEW t \in 1 .. Len(log'[l])
               PROVE  Spot(call, place, l, t)'
    BY <1>4 DEF Written
  <2>1. l \in 1 .. n /\ t \in 1 .. Len(log[l]) /\ log'[l] = log[l]
    BY <1>6
  <2>2. Spot(call, place, l, t)
    BY <1>1, <2>1 DEF Written, n
  <2>3. ASSUME NEW k \in 1 .. (l - 1) PROVE log'[k] = log[k]
    <3>1. k \in 1 .. n
      BY <1>3, <2>1
    <3> QED
      BY <1>4, <3>1
  <2> QED
    BY <1>5, <2>1, <2>2, <2>3 DEF Spot
<1>8. Followed(call, place, from)'
  <2>1. at.line \in 1 .. n /\ log'[at.line] = log[at.line] /\ at.line \in 1 .. (n + 1)
    <3> DEFINE a == at.line
    <3>1. a \in 1 .. n
      BY <1>1 DEF Followed, n
    <3> HIDE DEF a
    <3>2. log'[a] = log[a] /\ a \in 1 .. (n + 1)
      BY <1>3, <1>4, <3>1
    <3> QED
      BY <3>1, <3>2 DEF a
  <2>2. at \in [line : 1 .. (n + 1), tokens : Nat] /\ at.tokens <= Len(log'[at.line])
    BY <1>1, <2>1 DEF Followed, n
  <2> QED
    BY <1>1, <1>4, <1>5, <1>6, <2>2 DEF Followed, Unread, n
<1>9. Underway(call, place, from)'
  BY DEF Underway
<1>10. CalledOk'
  BY <1>2 DEF CalledOk
<1> QED
  BY <1>1, <1>7, <1>8, <1>9, <1>10 DEF ViewInv, Traced

LEMMA QuietViewInv == ViewInv /\ LogInv' /\ UNCHANGED <<log, pending, called, at, shown>> => ViewInv'
<1> SUFFICES ASSUME ViewInv, LogInv', UNCHANGED <<log, pending, called, at, shown>> PROVE ViewInv'
  OBVIOUS
<1>1. CalledOk' /\ Entries' = Entries
  BY DEF ViewInv, CalledOk, Entries
<1>2. PICK call \in Table, place \in Table, from \in [Nat -> Nat] : Traced(call, place, from)
  BY DEF ViewInv
<1>3. line' = line
  BY DEF line
<1>5. Written(call, place) /\ Underway(call, place, from) /\ Followed(call, place, from)
  BY <1>2 DEF Traced
<1>6. Written(call, place)'
  BY <1>1, <1>5 DEF Written, Spot
<1>7. Underway(call, place, from)'
  BY <1>1, <1>3, <1>5 DEF Underway, Reached
<1>8. Followed(call, place, from)'
  BY <1>1, <1>5 DEF Followed, Unread
<1>4. Traced(call, place, from)'
  BY <1>6, <1>7, <1>8 DEF Traced
<1> QED
  BY <1>1, <1>4 DEF ViewInv

(* Another token is put into the line.                                     *)
Sizes(n, m, L, T) ==
  /\ n = Len(called) /\ n >= 1 /\ m = Len(Entries[n]) /\ L = Len(log) /\ T = Len(line)

Put(n, m, k, L, T) ==
  /\ Len(log') = L /\ \A l \in 1 .. (L - 1) : log'[l] = log[l]
  /\ Len(log'[L]) = T + 1 /\ \A t \in 1 .. T : log'[L][t] = log[L][t]
  /\ log'[L][T + 1] = Entries[n][k + 1]
  /\ pending' \in Seq(Symbols) /\ Len(pending') = m - k
  /\ \A i \in 1 .. (m - k) : pending'[i] = called[n][(k + 1) + i]

LEMMA PutViewInv ==
  ASSUME ViewInv, LogInv', UNCHANGED <<called, at, shown>>,
         NEW call \in Table, NEW place \in Table, NEW from \in [Nat -> Nat],
         Traced(call, place, from),
         NEW n \in Nat, NEW m \in Nat, NEW k \in Nat, k < m, NEW L \in Nat, NEW T \in Nat,
         Sizes(n, m, L, T), Reached(call, place, from, n, k), Put(n, m, k, L, T)
  PROVE  ViewInv'
<1>1. LogInv /\ CalledOk /\ Written(call, place) /\ Followed(call, place, from)
  BY DEF ViewInv, Traced
<1>16. n = Len(called) /\ n >= 1 /\ m = Len(Entries[n]) /\ L = Len(log) /\ T = Len(line)
  BY DEF Sizes
<1>2. L >= 1 /\ line = log[L] /\ T = Len(log[L])
  BY <1>1, <1>16, LogTyped
<1>3. Entries' = Entries /\ CalledOk'
  BY <1>1 DEF Entries, CalledOk
<1>4. \A l \in 1 .. L : \A t \in 1 .. Len(log[l]) : Spot(call, place, l, t)
  BY <1>1, <1>16 DEF Written
<1>5. /\ k = 0 => /\ \A l \in 1 .. L : \A t \in 1 .. Len(log[l]) : call[l][t] < n
                  /\ \A i \in 1 .. Len(shown) : from[i] < n
      /\ k > 0 => T >= 1 /\ call[L][T] = n /\ place[L][T] = k
  BY <1>16 DEF Reached
<1>6. PICK call2 \in Table : /\ call2[L][T + 1] = n
                             /\ \A l, t \in Nat : l # L \/ t # T + 1 => call2[l][t] = call[l][t]
  <2> DEFINE u == T + 1
  <2>1. u \in Nat
    OBVIOUS
  <2> HIDE DEF u
  <2>2. \E g \in Table : Changed(call, g, L, u, n)
    BY <2>1, TableChanged
  <2> QED
    BY <2>2 DEF u, Changed
<1>7. PICK place2 \in Table : /\ place2[L][T + 1] = k + 1
                              /\ \A l, t \in Nat : l # L \/ t # T + 1 => place2[l][t] = place[l][t]
  <2> DEFINE u == T + 1
             v == k + 1
  <2>1. u \in Nat /\ v \in Nat
    OBVIOUS
  <2> HIDE DEF u, v
  <2>2. \E g \in Table : Changed(place, g, L, u, v)
    BY <2>1, TableChanged
  <2> QED
    BY <2>2 DEF u, v, Changed
<1>14. /\ Len(log') = L /\ \A l \in 1 .. (L - 1) : log'[l] = log[l]
       /\ Len(log'[L]) = T + 1 /\ \A t \in 1 .. T : log'[L][t] = log[L][t]
       /\ log'[L][T + 1] = Entries[n][k + 1]
  BY DEF Put
<1>17. \A l \in 1 .. (L - 1) : log'[l] = log[l]
  BY DEF Put
<1>15. /\ pending' \in Seq(Symbols) /\ Len(pending') = m - k
       /\ \A i \in 1 .. (m - k) : pending'[i] = called[n][(k + 1) + i]
  BY DEF Put
(* A place in the log is the new one or was there.                         *)
<1>8. ASSUME NEW l \in 1 .. L, NEW t \in 1 .. Len(log'[l])
      PROVE  \/ l = L /\ t = T + 1
             \/ /\ t \in 1 .. Len(log[l]) /\ log'[l][t] = log[l][t]
                /\ call2[l][t] = call[l][t] /\ place2[l][t] = place[l][t]
                /\ t > 1 => call2[l][t - 1] = call[l][t - 1] /\ place2[l][t - 1] = place[l][t - 1]
  <2>1. l \in Nat /\ t \in Nat /\ (t > 1 => t - 1 \in Nat)
    OBVIOUS
  <2>2. CASE l = L
    <3>1. t \in 1 .. T + 1
      BY <1>14, <2>2
    <3>2. CASE t \in 1 .. T
      <4>1. t # T + 1 /\ t - 1 # T + 1
        BY <3>2
      <4>2. t \in 1 .. Len(log[l]) /\ log'[l][t] = log[l][t]
        BY <1>2, <1>14, <2>2, <3>2
      <4>3. call2[l][t] = call[l][t] /\ place2[l][t] = place[l][t]
        BY <1>6, <1>7, <2>1, <4>1
      <4>4. t > 1 => call2[l][t - 1] = call[l][t - 1] /\ place2[l][t - 1] = place[l][t - 1]
        BY <1>6, <1>7, <2>1, <4>1
      <4> QED
        BY <4>2, <4>3, <4>4
    <3>3. CASE t \notin 1 .. T
      <4>1. t = T + 1
        BY <3>1, <3>3
      <4> QED
        BY <2>2, <4>1
    <3> QED
      BY <3>2, <3>3
  <2>3. CASE l # L
    <3>1. l \in 1 .. (L - 1)
      BY <2>3
    <3>2. log'[l] = log[l]
      BY <1>17, <3>1
    <3>3. call2[l][t] = call[l][t] /\ place2[l][t] = place[l][t]
      BY <1>6, <1>7, <2>1, <2>3
    <3>4. t > 1 => call2[l][t - 1] = call[l][t - 1] /\ place2[l][t - 1] = place[l][t - 1]
      BY <1>6, <1>7, <2>1, <2>3
    <3> QED
      BY <3>2, <3>3, <3>4
  <2> QED
    BY <2>2, <2>3
<1>9. ASSUME NEW l \in 1 .. L, NEW q \in 1 .. (l - 1), NEW u \in 1 .. Len(log'[q])
      PROVE  q \in 1 .. L /\ u \in 1 .. Len(log[q]) /\ call2[q][u] = call[q][u]
  <2>1. q \in 1 .. L /\ q # L
    OBVIOUS
  <2> QED
    BY <1>8, <2>1
<1>10. ASSUME NEW l \in 1 .. L, NEW t \in 1 .. Len(log'[l])
       PROVE  Spot(call2, place2, l, t)'
  <2>1. CASE l = L /\ t = T + 1
    <3>1. call2[l][t] \in 1 .. n /\ place2[l][t] \in 1 .. m
      <4>1. n \in 1 .. n /\ k + 1 \in 1 .. m
        <5>1. n >= 1
          BY <1>16
        <5> QED
          BY <5>1
      <4>2. call2[l][t] = n /\ place2[l][t] = k + 1
        BY <1>6, <1>7, <2>1
      <4> QED
        BY <4>1, <4>2
    <3>2. log'[l][t] = Entries[call2[l][t]][place2[l][t]]
      BY <1>6, <1>7, <1>14, <2>1
    <3>3. t > 1 => place2[l][t] = 1
                   \/ (call2[l][t - 1] = call2[l][t] /\ place2[l][t - 1] = place2[l][t] - 1)
      <4>1. CASE k = 0
        BY <1>7, <2>1, <4>1
      <4>2. CASE k > 0
        <5>1. t - 1 = T /\ T # T + 1 /\ (k + 1) - 1 = k
          BY <2>1
        <5>2. call2[L][T] = call[L][T] /\ place2[L][T] = place[L][T]
          BY <1>6, <1>7, <5>1
        <5> QED
          BY <1>5, <1>6, <1>7, <2>1, <4>2, <5>1, <5>2
      <4> QED
        BY <4>1, <4>2
    <3>4. ASSUME NEW q \in 1 .. (l - 1), NEW u \in 1 .. Len(log'[q])
          PROVE  call2[q][u] < call2[l][t]
      <4>1. q \in 1 .. L /\ u \in 1 .. Len(log[q]) /\ call2[q][u] = call[q][u]
        BY <1>9
      <4>2. CASE k = 0
        BY <1>5, <1>6, <2>1, <4>1, <4>2
      <4>3. CASE k > 0
        <5>1. T \in 1 .. Len(log[L]) /\ L \in 1 .. L /\ call[L][T] = n
          BY <1>2, <1>5, <4>3
        <5>2. Spot(call, place, L, T)
          BY <1>4, <5>1
        <5>3. call[q][u] < n
          BY <2>1, <4>1, <5>1, <5>2 DEF Spot
        <5> QED
          BY <1>6, <2>1, <4>1, <5>3
      <4> QED
        BY <4>2, <4>3
    <3>5. Len(called') = n /\ Len(Entries'[call2[l][t]]) = m
      BY <1>3, <1>16, <1>6, <2>1
    <3> QED
      BY <1>3, <3>1, <3>2, <3>3, <3>4, <3>5 DEF Spot
  <2>2. CASE ~ (l = L /\ t = T + 1)
    <3>1. /\ t \in 1 .. Len(log[l]) /\ log'[l][t] = log[l][t]
          /\ call2[l][t] = call[l][t] /\ place2[l][t] = place[l][t]
          /\ t > 1 => call2[l][t - 1] = call[l][t - 1] /\ place2[l][t - 1] = place[l][t - 1]
      BY <1>8, <2>2
    <3>2. Spot(call, place, l, t)
      BY <1>4, <3>1
    <3> QED
      BY <1>3, <1>9, <3>1, <3>2 DEF Spot
  <2> QED
    BY <2>1, <2>2
<1>11. Written(call2, place2)'
  BY <1>10, <1>14 DEF Written
<1>12. Underway(call2, place2, from)'
  <2>1. k + 1 \in 0 .. m /\ m + 1 - (k + 1) = m - k /\ ~ (k + 1 = 0) /\ k + 1 > 0 /\ T + 1 >= 1
    OBVIOUS
  <2>2. line' = log'[L] /\ Len(line') = T + 1
    BY <1>14 DEF line, Last
  <2>3. Reached(call2, place2, from, n, k + 1)'
    <3>1. Len(pending') = Len(Entries'[n]) + 1 - (k + 1)
      BY <1>3, <1>15, <1>16, <2>1
    <3>2. \A i \in 1 .. Len(pending') : pending'[i] = called'[n][(k + 1) + i]
      BY <1>15
    <3>3. /\ Len(line') >= 1
          /\ call2[Len(log')][Len(line')] = n /\ place2[Len(log')][Len(line')] = k + 1
      BY <1>6, <1>7, <1>14, <2>1, <2>2
    <3> QED
      BY <1>15, <2>1, <3>1, <3>2, <3>3 DEF Reached
  <2> QED
    BY <1>3, <1>16, <2>1, <2>3 DEF Underway
<1>13. Followed(call2, place2, from)'
  <2>1. at \in [line : 1 .. L, tokens : Nat] /\ at.tokens <= Len(log[at.line])
    BY <1>1, <1>16 DEF Followed
  <2>2. at.tokens <= Len(log'[at.line])
    <3>1. PICK l \in 1 .. L, t \in Nat : l = at.line /\ t = at.tokens /\ t <= Len(log[l])
      BY <2>1
    <3>2. CASE l = L
      <4>1. t <= T
        BY <1>2, <3>1, <3>2
      <4>2. t <= T + 1
        BY <4>1
      <4> QED
        BY <1>14, <3>1, <3>2, <4>2
    <3>3. CASE l # L
      <4>1. l \in 1 .. (L - 1)
        BY <3>3
      <4>2. log'[l] = log[l]
        BY <1>17, <4>1
      <4> QED
        BY <3>1, <4>2
    <3> QED
      BY <3>2, <3>3
  <2>3. ASSUME NEW l \in 1 .. L, NEW t \in 1 .. Len(log'[l]), Unread(l, t)
        PROVE  place2[l][t] >= 2 \/ \A i \in 1 .. Len(shown) : from[i] < call2[l][t]
    <3>1. CASE l = L /\ t = T + 1
      <4>1. CASE k = 0
        BY <1>5, <1>6, <3>1, <4>1
      <4>2. CASE k > 0
        <5>1. k + 1 >= 2
          BY <4>2
        <5> QED
          BY <1>7, <3>1, <5>1
      <4> QED
        BY <4>1, <4>2
    <3>2. CASE ~ (l = L /\ t = T + 1)
      <4>1. /\ t \in 1 .. Len(log[l])
            /\ call2[l][t] = call[l][t] /\ place2[l][t] = place[l][t]
        BY <1>8, <3>2
      <4>2. place[l][t] >= 2 \/ \A i \in 1 .. Len(shown) : from[i] < call[l][t]
        BY <1>1, <1>16, <2>3, <4>1 DEF Followed
      <4> QED
        BY <4>1, <4>2
    <3> QED
      BY <3>1, <3>2
  <2>4. \A l, t : Unread(l, t)' = Unread(l, t)
    BY DEF Unread
  <2>5. /\ shown' \in Seq(Seq(Tokens))
        /\ \A i \in 1 .. Len(shown') : from[i] \in 1 .. Len(called') /\ shown'[i] = Entries'[from[i]]
        /\ \A i, j \in 1 .. Len(shown') : i < j => from[i] < from[j]
    BY <1>1, <1>3 DEF Followed
  <2>6. at' \in [line : 1 .. Len(log'), tokens : Nat] /\ at'.tokens <= Len(log'[at'.line])
    BY <1>14, <2>1, <2>2
  <2>7. \A l \in 1 .. Len(log') : \A t \in 1 .. Len(log'[l]) :
          Unread(l, t)' => place2[l][t] >= 2 \/ \A i \in 1 .. Len(shown') : from[i] < call2[l][t]
    BY <1>14, <2>3, <2>4
  <2> QED
    BY <2>5, <2>6, <2>7 DEF Followed
<1> QED
  BY <1>3, <1>11, <1>12, <1>13 DEF ViewInv, Traced

LEMMA TokenViewInv ==
  ASSUME ComplexPlain, ViewInv, LogInv', WriteToken, UNCHANGED <<at, shown>>
  PROVE  ViewInv'
<1>1. PICK call \in Table, place \in Table, from \in [Nat -> Nat] : Traced(call, place, from)
  BY DEF ViewInv
<1>2. LogInv /\ CalledOk /\ pending # <<>> /\ UNCHANGED called
  BY DEF ViewInv, WriteToken
<1>3. PICK n \in Nat, L \in Nat, T \in Nat : n = Len(called) /\ L = Len(log) /\ T = Len(line)
  BY <1>2, LogTyped, LenProperties DEF CalledOk
<1>4. n >= 1 /\ \E k \in 0 .. Len(Entries[n]) : Reached(call, place, from, n, k)
  BY <1>1, <1>2, <1>3 DEF Traced, Underway
<1>5. PICK k \in 0 .. Len(Entries[n]) : Reached(call, place, from, n, k)
  BY <1>4
<1>6. CallOf(called[n], Entries[n])
  <2>1. n \in 1 .. n
    BY <1>4
  <2> QED
    BY <1>2, <1>3, <2>1, CallParts
<1>7. PICK m \in Nat : m = Len(Entries[n])
  BY <1>6 DEF CallOf
<1>8. k \in Nat /\ k <= m
  <2>1. k \in 0 .. m
    BY <1>7
  <2> QED
    BY <2>1
<1>9. /\ pending \in Seq(Symbols) /\ Len(pending) = m + 1 - k
      /\ \A i \in 1 .. Len(pending) : pending[i] = called[n][k + i]
  BY <1>5, <1>7 DEF Reached
<1>10. Head(pending) = pending[1] /\ pending[1] = called[n][k + 1]
  <2>1. 1 \in 1 .. (m + 1 - k)
    BY <1>8
  <2>2. 1 \in 1 .. Len(pending)
    BY <1>9, <2>1
  <2> QED
    BY <1>2, <1>9, <2>2, HeadTailProperties
<1>11. /\ Tail(pending) \in Seq(Symbols) /\ Len(Tail(pending)) = m - k
       /\ \A i \in 1 .. (m - k) : Tail(pending)[i] = called[n][(k + 1) + i]
  <2>1. /\ Tail(pending) \in Seq(Symbols) /\ Len(Tail(pending)) = Len(pending) - 1
        /\ \A i \in 1 .. Len(Tail(pending)) : Tail(pending)[i] = pending[i + 1]
    BY <1>2, <1>9, HeadTailProperties
  <2>2. (m + 1 - k) - 1 = m - k
        /\ \A i \in 1 .. (m - k) : i + 1 \in 1 .. (m + 1 - k) /\ k + (i + 1) = (k + 1) + i
    BY <1>8
  <2> QED
    BY <1>9, <2>1, <2>2
<1>12. CASE k = m
  <2>1. Head(pending) = EndOfLine
    BY <1>6, <1>7, <1>10, <1>12 DEF CallOf
  <2>2. Tail(pending) = <<>>
    <3>1. m - k = 0
      BY <1>12
    <3> QED
      BY <1>11, <3>1, EmptySeq
  <2>3. log' = Append(log, <<>>) /\ pending' = <<>>
    BY <2>1, <2>2 DEF WriteToken
  <2> QED
    BY <1>2, <2>3, EndViewInv
<1>13. CASE k # m
  <2> DEFINE token == Entries[n][k + 1]
             longer == Append(line, token)
  <2>1. k < m /\ k + 1 \in 1 .. m
    BY <1>8, <1>13
  <2>2. Head(pending) = token /\ token \in Tokens
    <3>1. k + 1 \in 1 .. Len(Entries[n]) /\ Entries[n] \in Seq(Tokens)
      BY <1>6, <1>7, <2>1 DEF CallOf
    <3>2. token \in Tokens
      BY <3>1, ElementOfSeq
    <3>3. called[n][k + 1] = token
      BY <1>6, <3>1 DEF CallOf
    <3> HIDE DEF token
    <3>4. Head(pending) = called[n][k + 1]
      BY <1>10
    <3> QED
      BY <3>2, <3>3, <3>4
  <2>3. log' = Append(Front(log), longer) /\ pending' = Tail(pending)
    <3>1. token # EndOfLine
      BY <2>2, EndIsNoToken
    <3> QED
      BY <2>2, <3>1 DEF WriteToken
  <2> HIDE DEF token
  <2>4. log \in Seq(Seq(Tokens)) /\ L >= 1 /\ line \in Seq(Tokens)
    BY <1>2, <1>3, LogTyped
  <2>5. /\ longer \in Seq(Tokens) /\ Len(longer) = T + 1 /\ longer[T + 1] = token
        /\ \A t \in 1 .. T : longer[t] = line[t]
    BY <1>3, <2>2, <2>4, AppendProperties
  <2> HIDE DEF longer
  <2>6. /\ Len(log') = L /\ log'[L] = longer
        /\ \A l \in 1 .. (L - 1) : log'[l] = log[l]
    <3> DEFINE f == Front(log)
    <3>1. /\ f \in Seq(Seq(Tokens)) /\ Len(f) = L - 1
          /\ \A l \in 1 .. (L - 1) : f[l] = log[l]
      BY <1>3, <2>4, LastRemoved
    <3> HIDE DEF f
    <3>2. /\ Len(Append(f, longer)) = Len(f) + 1 /\ Append(f, longer)[Len(f) + 1] = longer
          /\ \A l \in 1 .. Len(f) : Append(f, longer)[l] = f[l]
      <4>1. f \in Seq(Seq(Tokens)) /\ longer \in Seq(Tokens)
        BY <2>5, <3>1
      <4> QED
        BY <4>1, AppendProperties
    <3>3. (L - 1) + 1 = L
      BY <2>4
    <3> QED
      BY <2>3, <3>1, <3>2, <3>3 DEF f
  <2>7. line = log[L]
    BY <1>2, <1>3, LogTyped
  <2>8. Put(n, m, k, L, T)
    BY <1>11, <2>3, <2>5, <2>6, <2>7 DEF Put, token
  <2>9. Sizes(n, m, L, T)
    BY <1>3, <1>4, <1>7 DEF Sizes
  <2> QED
    BY <1>1, <1>2, <1>5, <1>8, <2>1, <2>8, <2>9, PutViewInv
<1> QED
  BY <1>12, <1>13

(* What is read in one turn is made of parts of entries.                   *)
Ahead(l, T, s) == l = at.line /\ T = at.tokens /\ s = Len(unread)

PartsRead(call, place, l, T, s) ==
  /\ \A t \in 1 .. s : T + t \in 1 .. Len(log[l])
  /\ MadeOf(unread, Entries, [t \in 1 .. s |-> call[l][T + t]], [t \in 1 .. s |-> place[l][T + t]])

LEMMA UnreadMade ==
  ASSUME ComplexPlain, ViewInv, NEW call \in Table, NEW place \in Table, NEW from \in [Nat -> Nat],
         Traced(call, place, from),
         NEW l \in Nat, NEW T \in Nat, NEW s \in Nat, Ahead(l, T, s)
  PROVE  PartsRead(call, place, l, T, s)
<1>1. LogInv /\ CalledOk /\ Written(call, place) /\ Followed(call, place, from)
  BY DEF ViewInv, Traced
<1>2. l \in 1 .. Len(log) /\ T <= Len(log[l])
  BY <1>1 DEF Followed, Ahead
<1>3. PICK m \in Nat : m = Len(log[l])
  BY <1>1, <1>2, LogTyped
<1>4. log[l] \in Seq(Tokens) /\ T \in 0 .. Len(log[l])
  <2>1. T <= m
    BY <1>2, <1>3
  <2>2. T \in 0 .. m
    BY <2>1
  <2> QED
    BY <1>1, <1>2, <1>3, <2>2, LogTyped
<1>5. /\ unread \in Seq(Tokens) /\ Len(unread) = m - T
      /\ \A t \in 1 .. (m - T) : unread[t] = log[l][T + t]
  BY <1>3, <1>4, RestOf DEF unread, Ahead
<1>6. s = m - T
  BY <1>5 DEF Ahead
<1>7. \A t \in 1 .. s :
        /\ T + t \in 1 .. m
        /\ t > 1 => t - 1 \in 1 .. s /\ T + (t - 1) = (T + t) - 1 /\ T + t > 1
  <2>1. T \in 0 .. m
    BY <1>3, <1>4
  <2> QED
    BY <1>6, <2>1
<1> DEFINE c == [t \in 1 .. s |-> call[l][T + t]]
           a == [t \in 1 .. s |-> place[l][T + t]]
<1>8. ASSUME NEW t \in 1 .. s
      PROVE  /\ Entries[c[t]] \in Marked /\ IsJson(Entries[c[t]])
             /\ a[t] \in 1 .. Len(Entries[c[t]]) /\ unread[t] = Entries[c[t]][a[t]]
             /\ t > 1 => a[t] = 1 \/ (c[t - 1] = c[t] /\ a[t - 1] = a[t] - 1)
  <2>1. c[t] = call[l][T + t] /\ a[t] = place[l][T + t]
    OBVIOUS
  <2>2. t > 1 => c[t - 1] = call[l][(T + t) - 1] /\ a[t - 1] = place[l][(T + t) - 1]
    BY <1>7
  <2> HIDE DEF c, a
  <2>3. Spot(call, place, l, T + t)
    BY <1>1, <1>2, <1>3, <1>7 DEF Written
  <2>4. c[t] \in 1 .. Len(called)
    BY <2>1, <2>3 DEF Spot
  <2>5. Entries[c[t]] \in Marked /\ IsJson(Entries[c[t]])
    BY <1>1, <2>4, CallParts DEF CallOf
  <2>6. unread[t] = log[l][T + t]
    BY <1>5, <1>6
  <2>7. a[t] \in 1 .. Len(Entries[c[t]]) /\ unread[t] = Entries[c[t]][a[t]]
    BY <2>1, <2>3, <2>6 DEF Spot
  <2>8. t > 1 => T + t > 1
    BY <1>7
  <2>9. t > 1 => a[t] = 1 \/ (c[t - 1] = c[t] /\ a[t - 1] = a[t] - 1)
    BY <2>1, <2>2, <2>3, <2>8 DEF Spot
  <2> QED
    BY <2>5, <2>7, <2>9
<1> HIDE DEF c, a
<1>9. MadeOf(unread, Entries, c, a)
  BY <1>8 DEF MadeOf, Ahead
<1> QED
  BY <1>3, <1>7, <1>9 DEF c, a, PartsRead

LEMMA ReadViewInv ==
  ASSUME ComplexPlain, ViewInv, LogInv', tail_log
  PROVE  ViewInv'
<1>1. PICK call \in Table, place \in Table, from \in [Nat -> Nat] : Traced(call, place, from)
  BY DEF ViewInv
<1>2. LogInv /\ CalledOk /\ Written(call, place) /\ Underway(call, place, from) /\ Followed(call, place, from)
  BY <1>1 DEF ViewInv, Traced
<1>3. UNCHANGED <<log, pending, called>> /\ CalledOk' /\ Entries' = Entries /\ line' = line
  BY <1>2 DEF tail_log, loggerVars, CalledOk, Entries, line
<1>4. PICK L \in Nat, l \in Nat, T \in Nat, q \in Nat :
        L = Len(log) /\ l = at.line /\ T = at.tokens /\ q = Len(shown)
  <2>1. Len(log) \in Nat
    BY <1>2, LogTyped
  <2>2. at \in [line : 1 .. Len(log), tokens : Nat] /\ shown \in Seq(Seq(Tokens))
    BY <1>2 DEF Followed
  <2>3. at.line \in Nat /\ at.tokens \in Nat
    BY <2>1, <2>2
  <2>4. Len(shown) \in Nat
    BY <2>2, LenProperties
  <2> QED
    BY <2>1, <2>3, <2>4
<1>5. l \in 1 .. L /\ at = [line |-> l, tokens |-> T]
  BY <1>2, <1>4 DEF Followed
<1>6. unread \in Seq(Tokens) /\ Len(unread) \in Nat
  <2>1. log[l] \in Seq(Tokens) /\ Len(log[l]) \in Nat
    BY <1>2, <1>4, <1>5, LogTyped
  <2>2. T <= Len(log[l])
    BY <1>2, <1>4 DEF Followed
  <2>3. T \in 0 .. Len(log[l])
    BY <2>1, <2>2
  <2>4. unread \in Seq(Tokens)
    BY <1>4, <2>1, <2>3, RestOf DEF unread
  <2> QED
    BY <2>4, LenProperties
<1>7. PICK s \in Nat : s = Len(unread)
  BY <1>6
<1> DEFINE c == [t \in 1 .. s |-> call[l][T + t]]
           a == [t \in 1 .. s |-> place[l][T + t]]
<1>12. PartsRead(call, place, l, T, s)
  <2>1. Ahead(l, T, s)
    BY <1>4, <1>7 DEF Ahead
  <2> QED
    BY <1>1, <2>1, UnreadMade
<1>8. \A t \in 1 .. s : T + t \in 1 .. Len(log[l])
  BY <1>12 DEF PartsRead
<1>13. MadeOf(unread, Entries, c, a)
  BY <1>12 DEF PartsRead
(* Where the viewer is afterwards, it has read up to there.                *)
<1>9. /\ at' \in [line : 1 .. L, tokens : Nat] /\ at'.tokens <= Len(log[at'.line])
      /\ \A k \in 1 .. L : \A t \in 1 .. Len(log[k]) :
           Unread(k, t)' => Unread(k, t) /\ k > l
  <2>1. CASE l < L
    <3>1. at' = [line |-> l + 1, tokens |-> 0]
      BY <1>4, <2>1 DEF tail_log
    <3>2. l + 1 \in 1 .. L
      BY <1>5, <2>1
    <3>3. Len(log[l + 1]) \in Nat
      BY <1>2, <1>4, <3>2, LogTyped
    <3>4. ASSUME NEW k \in 1 .. L, NEW t \in 1 .. Len(log[k]), Unread(k, t)'
          PROVE  Unread(k, t) /\ k > l
      <4>1. k > l + 1 \/ k = l + 1
        BY <3>1, <3>4 DEF Unread
      <4>2. k > l
        BY <4>1
      <4> QED
        BY <1>4, <4>2 DEF Unread
    <3>5. 0 <= Len(log[l + 1])
      BY <3>3
    <3> QED
      BY <3>1, <3>2, <3>4, <3>5
  <2>2. CASE ~ (l < L)
    <3>1. l = L
      BY <1>5, <2>2
    <3>2. at' = [line |-> l, tokens |-> Len(line)]
      <4>1. at' = [at EXCEPT !.tokens = Len(line)]
        BY <1>4, <2>2 DEF tail_log
      <4> QED
        BY <1>5, <4>1
    <3>3. line = log[l] /\ Len(log[l]) \in Nat
      BY <1>2, <1>4, <1>5, <3>1, LogTyped
    <3>4. PICK m \in Nat : m = Len(log[l])
      BY <3>3
    <3>5. ASSUME NEW k \in 1 .. L, NEW t \in 1 .. Len(log[k]), Unread(k, t)'
          PROVE  FALSE
      <4>1. k > l \/ (k = l /\ t > m)
        BY <3>2, <3>3, <3>4, <3>5 DEF Unread
      <4>2. k = l /\ t > m
        BY <3>1, <4>1
      <4>3. t \in 1 .. m
        BY <3>4, <4>2
      <4> QED
        BY <4>2, <4>3
    <3>6. m <= m
      OBVIOUS
    <3> QED
      BY <1>5, <3>2, <3>3, <3>4, <3>5, <3>6
  <2> QED
    BY <2>1, <2>2
<1> HIDE DEF c, a
<1>10. CASE ~ parse_log_entry(unread)
  <2>1. shown' = shown
    BY <1>10 DEF tail_log
  <2>2. Written(call, place)' /\ Underway(call, place, from)'
    BY <1>2, <1>3, <2>1 DEF Written, Spot, Underway, Reached
  <2>3. Followed(call, place, from)'
    BY <1>2, <1>3, <1>4, <1>9, <2>1 DEF Followed
  <2> QED
    BY <1>3, <2>2, <2>3 DEF ViewInv, Traced
<1>11. CASE parse_log_entry(unread)
  <2>1. s >= 1 /\ a[1] = 1 /\ unread = Entries[c[1]]
    <3>1. Len(unread) >= 1 /\ a[1] = 1 /\ unread = Entries[c[1]]
      BY <1>6, <1>11, <1>13, EntryWhole
    <3> QED
      BY <1>7, <3>1
  <2>2. PICK C \in Nat, t \in Nat : C = call[l][t] /\ C = c[1] /\ t = T + 1 /\ place[l][t] = 1
    <3>1. 1 \in 1 .. s /\ T + 1 \in Nat
      BY <2>1
    <3>2. c[1] = call[l][T + 1] /\ a[1] = place[l][T + 1]
      BY <3>1 DEF c, a
    <3>3. call[l][T + 1] \in Nat
      BY <3>1 DEF Table
    <3> QED
      BY <2>1, <3>1, <3>2, <3>3
  <2>3. t \in 1 .. Len(log[l]) /\ Unread(l, t)
    <3>1. 1 \in 1 .. s
      BY <2>1
    <3>2. t \in 1 .. Len(log[l])
      BY <1>8, <2>2, <3>1
    <3>3. t > T
      BY <2>2
    <3> QED
      BY <1>4, <3>2, <3>3 DEF Unread
  <2>4. C \in 1 .. Len(called) /\ \A i \in 1 .. q : from[i] < C
    <3>1. Spot(call, place, l, t)
      BY <1>2, <1>4, <1>5, <2>3 DEF Written
    <3>2. ~ (place[l][t] >= 2)
      BY <2>2
    <3>3. \A i \in 1 .. q : from[i] < C
      BY <1>2, <1>4, <1>5, <2>2, <2>3, <3>2 DEF Followed
    <3> QED
      BY <2>2, <3>1, <3>3 DEF Spot
  <2>5. shown \in Seq(Seq(Tokens)) /\ shown' = Append(shown, unread)
    BY <1>2, <1>11 DEF Followed, tail_log
  <2>6. /\ shown' \in Seq(Seq(Tokens)) /\ Len(shown') = q + 1 /\ shown'[q + 1] = unread
        /\ \A i \in 1 .. q : shown'[i] = shown[i]
    BY <1>4, <1>6, <2>5, AppendProperties
  <2>7. PICK from2 \in [Nat -> Nat] : from2[q + 1] = C /\ \A i \in 1 .. q : from2[i] = from[i]
    <3> DEFINE f == [from EXCEPT ![q + 1] = C]
    <3>1. f \in [Nat -> Nat] /\ f[q + 1] = C
      OBVIOUS
    <3>2. \A i \in 1 .. q : f[i] = from[i]
      <4>1. \A i \in 1 .. q : i \in Nat /\ i # q + 1
        OBVIOUS
      <4> QED
        BY <4>1
    <3> QED
      BY <3>1, <3>2
  <2>8. \A i \in 1 .. (q + 1) : i \in 1 .. q \/ i = q + 1
    OBVIOUS
  <2>9. \A i \in 1 .. q : from[i] \in 1 .. Len(called) /\ shown[i] = Entries[from[i]]
    BY <1>2, <1>4 DEF Followed
  <2>10. \A i \in 1 .. (q + 1) : from2[i] \in 1 .. Len(called) /\ shown'[i] = Entries[from2[i]]
    BY <2>1, <2>2, <2>4, <2>6, <2>7, <2>8, <2>9
  <2>11. ASSUME NEW i \in 1 .. (q + 1), NEW j \in 1 .. (q + 1), i < j
         PROVE  from2[i] < from2[j]
    <3>1. i \in 1 .. q
      BY <2>11
    <3>2. CASE j = q + 1
      BY <2>4, <2>7, <3>1, <3>2
    <3>3. CASE j \in 1 .. q
      <4>1. from[i] < from[j]
        BY <1>2, <1>4, <2>11, <3>1, <3>3 DEF Followed
      <4> QED
        BY <2>7, <3>1, <3>3, <4>1
    <3> QED
      BY <2>8, <3>2, <3>3
  <2>12. ASSUME NEW k \in 1 .. L, NEW u \in 1 .. Len(log[k]), Unread(k, u)'
         PROVE  place[k][u] >= 2 \/ \A i \in 1 .. (q + 1) : from2[i] < call[k][u]
    <3>1. Unread(k, u) /\ k > l
      BY <1>9, <2>12
    <3>2. C < call[k][u]
      <4>1. Spot(call, place, k, u)
        BY <1>2, <1>4 DEF Written
      <4>2. l \in 1 .. (k - 1)
        BY <1>5, <3>1
      <4> QED
        BY <2>2, <2>3, <4>1, <4>2 DEF Spot
    <3>3. CASE place[k][u] >= 2
      BY <3>3
    <3>4. CASE \A i \in 1 .. q : from[i] < call[k][u]
      BY <2>7, <2>8, <3>2, <3>4
    <3> QED
      BY <1>2, <1>4, <3>1, <3>3, <3>4 DEF Followed
  <2>13. Written(call, place)'
    BY <1>2, <1>3 DEF Written, Spot
  <2>14. Followed(call, place, from2)'
    BY <1>3, <1>4, <1>9, <2>6, <2>10, <2>11, <2>12 DEF Followed
  <2>15. Underway(call, place, from2)'
    <3> SUFFICES ASSUME pending # <<>> PROVE Underway(call, place, from2)'
      BY <1>3 DEF Underway
    <3>1. Len(called) >= 1
      BY <1>2 DEF Underway
    <3>2. PICK k \in 0 .. Len(Entries[Len(called)]) : Reached(call, place, from, Len(called), k)
      BY <1>2 DEF Underway
    <3>3. k # 0 \/ \A i \in 1 .. (q + 1) : from2[i] < Len(called)
      <4> SUFFICES ASSUME k = 0 PROVE \A i \in 1 .. (q + 1) : from2[i] < Len(called)
        OBVIOUS
      <4>1. C < Len(called) /\ \A i \in 1 .. q : from[i] < Len(called)
        BY <1>4, <1>5, <2>2, <2>3, <3>2 DEF Reached
      <4> QED
        BY <2>7, <2>8, <4>1
    <3>4. Reached(call, place, from2, Len(called), k)'
      BY <1>3, <2>6, <3>2, <3>3 DEF Reached
    <3> QED
      BY <1>3, <3>1, <3>2, <3>4 DEF Underway
  <2> QED
    BY <1>3, <2>13, <2>14, <2>15 DEF ViewInv, Traced
<1> QED
  BY <1>10, <1>11

LEMMA NextViewInv ==
  ASSUME ComplexPlain, ViewInv, [ViewerNext]_vars
  PROVE  ViewInv'
<1>1. [LoggerNext]_loggerVars
  BY DEF ViewerNext, tail_log, vars
<1>2. LogInv'
  BY <1>1, NextLogInv DEF ViewInv
<1>3. ASSUME NEW text \in Texts, Call(text), UNCHANGED <<at, shown>> PROVE ViewInv'
  BY <1>2, <1>3, BegunViewInv DEF Call
<1>4. CASE kernel_panic /\ UNCHANGED <<at, shown>>
  <2>1. PanicText \in Texts \cup {PanicText}
    OBVIOUS
  <2> QED
    BY <1>2, <1>4, <2>1, BegunViewInv DEF kernel_panic
<1>5. CASE WriteToken /\ UNCHANGED <<at, shown>>
  BY <1>2, <1>5, TokenViewInv
<1>6. CASE hcf /\ UNCHANGED <<at, shown>>
  BY <1>2, <1>6, QuietViewInv DEF hcf
<1>7. CASE tail_log
  BY <1>2, <1>7, ReadViewInv
<1>8. CASE UNCHANGED vars
  BY <1>2, <1>8, QuietViewInv DEF vars, loggerVars
<1> QED
  BY <1>3, <1>4, <1>5, <1>6, <1>7, <1>8 DEF ViewerNext, LoggerNext

(* What the viewer shows are entries of calls, as they were, in the order  *)
(* of the calls, and none twice: for all memory maps and numbers of free   *)
(* blocks, wherever exceptions come and reads end, if what log_complex is  *)
(* given fits one piece and holds no entries itself.                       *)
THEOREM ShownIsLogged == ASSUME ComplexPlain PROVE ViewerSpec => []ShownWereLogged
<1>1. ViewInv => ShownWereLogged
  <2> SUFFICES ASSUME ViewInv PROVE ShownWereLogged
    OBVIOUS
  <2>1. PICK call \in Table, place \in Table, from \in [Nat -> Nat] : Followed(call, place, from)
    BY DEF ViewInv, Traced
  <2>2. DOMAIN shown = 1 .. Len(shown) /\ DOMAIN called = 1 .. Len(called)
    BY <2>1, LenProperties DEF Followed, ViewInv, CalledOk
  <2> DEFINE f == [i \in DOMAIN shown |-> from[i]]
  <2>3. f \in [DOMAIN shown -> DOMAIN called]
    BY <2>1, <2>2 DEF Followed
  <2>4. \A i \in DOMAIN shown : shown[i] = Entries[f[i]]
    BY <2>1, <2>2 DEF Followed
  <2>5. \A i, j \in DOMAIN shown : i < j => f[i] < f[j]
    BY <2>1, <2>2 DEF Followed
  <2> HIDE DEF f
  <2> QED
    BY <2>3, <2>4, <2>5 DEF ShownWereLogged
<1>2. ViewInv /\ [ViewerNext]_vars => ViewInv'
  BY NextViewInv
<1> QED
  BY <1>1, <1>2, InitViewInv, PTL DEF ViewerSpec

(* The window's behaviours, seen through the viewer's variables, are the   *)
(* viewer's, and the viewer's the logger's: nothing that reads the log     *)
(* writes it, so the theorems on the logger hold of all three.             *)
THEOREM WindowViews == WindowSpec => ViewerSpec /\ LoggerSpec
<1>1. [WindowNext]_<<vars, windowVars>> => [ViewerNext]_vars
  BY DEF WindowNext
<1>2. [ViewerNext]_vars => [LoggerNext]_loggerVars
  BY DEF ViewerNext, vars, tail_log
<1>3. ViewerInit => Init
  BY DEF ViewerInit
<1> QED
  BY <1>1, <1>2, <1>3, PTL DEF WindowSpec, ViewerSpec, LoggerSpec
=============================================================================
