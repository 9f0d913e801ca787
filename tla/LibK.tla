-------------------------------- MODULE LibK --------------------------------
(***************************************************************************)
(* The functions of src/libs/libk that have callers, and the quoting of    *)
(* strings in src/libs/jems, a call at a time, loops as recursive          *)
(* functions of the iteration.  A character is a number, a string a        *)
(* sequence of characters, with its length for strlen, and memory a        *)
(* function from addresses.                                                *)
(***************************************************************************)
EXTENDS Integers, SequencesExt

CONSTANTS
  Width,         \* bits of an int
  Bases,         \* bases of itoa
  MemorySize,    \* bytes of the memory that is moved around in
  Letters,       \* characters of the strings compared
  Bytes,         \* bytes of the strings quoted, and of the memory compared
  MaxString      \* their greatest length

ASSUME LibKAssumption ==
  /\ Width \in Nat \ {0} /\ 2^(Width - 1) \in Nat \ {0}
  /\ Bases \subseteq Nat \ {0, 1} /\ MemorySize \in Nat /\ Letters \subseteq Nat \ {0}
  /\ Bytes \subseteq 0 .. 255 /\ MaxString \in Nat \ {0}

INT_MIN == -(2^(Width - 1))

Ints == INT_MIN .. (-INT_MIN - 1)

(* A string with fewer than two characters makes checkStringEndsWith read  *)
(* in front of it.                                                         *)
Strings == {str \in BoundedSeq(Letters, MaxString) : Len(str) >= 2}

-----------------------------------------------------------------------------
memcpy(mem, dest, src, n) ==
  LET copied[i \in 0 .. n] ==
        IF i = 0 THEN mem
        ELSE [copied[i - 1] EXCEPT ![dest + i - 1] = copied[i - 1][src + i - 1]]
  IN  copied[n]

(* The byte is the low one of c.                                           *)
memset(mem, s, c, n) ==
  LET filled[i \in 0 .. n] == IF i = 0 THEN mem ELSE [filled[i - 1] EXCEPT ![s + i - 1] = c % 256]
  IN  filled[n]

memcmp(s1, s2) ==
  LET compared[i \in 1 .. (Len(s1) + 1)] ==
        IF i > Len(s1) THEN 0
        ELSE IF s1[i] # s2[i] THEN (IF s1[i] < s2[i] THEN -1 ELSE 1)
        ELSE compared[i + 1]
  IN  compared[1]

(* memcpy from the end.                                                    *)
CopyDown(mem, dest, src, n) ==
  LET copied[i \in 0 .. n] ==
        IF i = 0 THEN mem
        ELSE [copied[i - 1] EXCEPT ![dest + n - i] = copied[i - 1][src + n - i]]
  IN  copied[n]

memmove_swapped(mem, dest, src, n) ==    \* mutant: the comparison is the wrong way round
  IF src > dest THEN CopyDown(mem, dest, src, n)
  ELSE IF src < dest THEN memcpy(mem, dest, src, n) ELSE mem
memmove(mem, dest, src, n) ==
  IF src > dest THEN memcpy(mem, dest, src, n)
  ELSE IF src < dest THEN CopyDown(mem, dest, src, n) ELSE mem

(* The loop compares the last characters and goes on to the ones before,   *)
(* until it has come to the first of either string.                        *)
EndsWith_last(str, end) ==    \* mutant: the comparison of each character is of the last one
  LET compare[i \in 0 .. (Len(end) - 2)] ==
        /\ Last(str) = Last(end)
        /\ (i + 2 = Len(end) \/ (i + 2 # Len(str) /\ compare[i + 1]))
  IN  compare[0]
checkStringEndsWith(str, end) ==
  LET same(i) == str[Len(str) - i] = end[Len(end) - i]
      compare[i \in 0 .. (Len(end) - 2)] ==
        /\ same(i)
        /\ \/ i + 2 = Len(end)
           \/ i + 2 # Len(str) /\ compare[i + 1]
  IN  compare[0]

-----------------------------------------------------------------------------
reverse_all(str) ==    \* mutant: the loop goes over the whole string
  LET swapped[c \in 0 .. Len(str)] ==
        IF c = 0 THEN str
        ELSE [swapped[c - 1] EXCEPT ![c] = swapped[c - 1][Len(str) + 1 - c],
                                    ![Len(str) + 1 - c] = swapped[c - 1][c]]
  IN  swapped[Len(str)]
reverse(str) ==
  LET half == Len(str) \div 2
      swapped[c \in 0 .. half] ==
        IF c = 0 THEN str
        ELSE [swapped[c - 1] EXCEPT ![c] = swapped[c - 1][Len(str) + 1 - c],
                                    ![Len(str) + 1 - c] = swapped[c - 1][c]]
  IN  swapped[half]

(* Division of an int rounds towards zero.                                 *)
Quotient(a, b) == IF a >= 0 THEN a \div b ELSE -((-a) \div b)

Remainder(a, b) == a - b * Quotient(a, b)

(* The negation of the least int is undefined; the build gives it back.    *)
Negated(num) == IF num = INT_MIN THEN num ELSE -num

Zero == 48
Minus == 45

Character(rem) == IF rem > 9 THEN rem - 10 + 97 ELSE rem + Zero

itoa(num, base) ==
  LET negative == num < 0 /\ base = 10
      digits[n \in Ints] ==
        IF n = 0 THEN <<>>
        ELSE <<Character(Remainder(n, base))>> \o digits[Quotient(n, base)]
  IN
  IF num = 0 THEN <<Zero>>
  ELSE reverse(digits[IF negative THEN Negated(num) ELSE num]
               \o (IF negative THEN <<Minus>> ELSE <<>>))

-----------------------------------------------------------------------------
QuotationMark == 34
Backslash == 92
LetterU == 117

(* %04x of a byte.                                                         *)
Hex(byte) == <<Zero, Zero, Character(byte \div 16), Character(byte % 16)>>

emit_quoted_byte_bare(byte) ==    \* mutant: a backslash is not quoted
  IF byte < 32 \/ byte >= 127 THEN <<Backslash, LetterU>> \o Hex(byte)
  ELSE IF byte = QuotationMark THEN <<Backslash, byte>> ELSE <<byte>>
emit_quoted_byte(byte) ==
  IF byte < 32 \/ byte >= 127 THEN <<Backslash, LetterU>> \o Hex(byte)
  ELSE IF byte \in {QuotationMark, Backslash} THEN <<Backslash, byte>> ELSE <<byte>>

(* emit_quoted_string, and emit_quoted_bytes: there may be zeros in bytes. *)
Quoted(bytes) == FlattenSeq([i \in DOMAIN bytes |-> emit_quoted_byte(bytes[i])])

-----------------------------------------------------------------------------
(* A call, with its arguments.                                             *)
Addresses == 0 .. (MemorySize - 1)

Moves ==
  {args \in [dest : Addresses, src : Addresses, n : 0 .. MemorySize] :
     args.dest + args.n <= MemorySize /\ args.src + args.n <= MemorySize}

Fills ==
  {args \in [s : Addresses, c : {-1, 0, 300}, n : 0 .. MemorySize] : args.s + args.n <= MemorySize}

Calls ==
  {[function |-> "memmove", args |-> args] : args \in Moves}
  \cup [function : {"itoa"}, args : [num : Ints, base : Bases]]
  \cup [function : {"checkStringEndsWith"}, args : [str : Strings, end : Strings]]
  \cup {[function |-> "memset", args |-> args] : args \in Fills}
  \cup [function : {"memcmp"}, args : UNION {[s1 : [1 .. n -> Bytes], s2 : [1 .. n -> Bytes]] : n \in 0 .. 2}]
  \cup [function : {"jems_bytes"}, args : [bytes : BoundedSeq(Bytes, MaxString)]]

VARIABLE call

NoCall == [function |-> "none"]

Init == call = NoCall

(* The functions keep nothing between calls: one is as good as many.       *)
Next == call = NoCall /\ call' \in Calls

Spec == Init /\ [][Next]_call

-----------------------------------------------------------------------------
Of(function) == call.function = function

Whole == [a \in Addresses |-> a]

(* memmove copies what was there before, whichever way the two pieces      *)
(* overlap, memset fills with a byte, and nothing else changes; memcmp     *)
(* goes by the first bytes that differ, which are not negative.            *)
MemoryFunctions ==
  LET args == call.args
      after == CASE Of("memmove") -> memmove(Whole, args.dest, args.src, args.n)
                 [] Of("memset")  -> memset(Whole, args.s, args.c, args.n)
      from == IF Of("memmove") THEN args.dest ELSE args.s
      differ == {i \in DOMAIN args.s1 : args.s1[i] # args.s2[i]}
      sign == memcmp(args.s1, args.s2)
  IN
  /\ Of("memmove") \/ Of("memset") =>
       \A a \in Addresses :
         after[a] = IF a \notin from .. (from + args.n - 1) THEN a
                    ELSE IF Of("memmove") THEN a - from + args.src ELSE args.c % 256
  /\ Of("memcmp") =>
       IF differ = {} THEN sign = 0
       ELSE (sign = -1 <=> args.s1[Min(differ)] < args.s2[Min(differ)]) /\ sign # 0

(* What a reader makes of a numeral.                                       *)
DigitOf(c) == IF c >= 97 THEN c - 97 + 10 ELSE c - Zero

ValueOf(str, base) ==
  LET digits == IF Head(str) = Minus THEN Tail(str) ELSE str
      value[i \in 0 .. Len(digits)] ==
        IF i = 0 THEN 0 ELSE base * value[i - 1] + DigitOf(digits[i])
  IN  IF Head(str) = Minus THEN -value[Len(digits)] ELSE value[Len(digits)]

IsNumeral(str, base) ==
  \A i \in DOMAIN str :
    str[i] \in {Character(d) : d \in 0 .. (base - 1)} \/ (i = 1 /\ str[i] = Minus /\ Len(str) > 1)

(* itoa writes a numeral of its base that reads back as the number, digits *)
(* in the right order, for all numbers that are not negative and, in base  *)
(* 10, all that can be negated.                                            *)
ItoaReadsBack ==
  Of("itoa") /\ (call.args.num >= 0 \/ (call.args.base = 10 /\ call.args.num # INT_MIN)) =>
    LET str == itoa(call.args.num, call.args.base)
    IN  IsNumeral(str, call.args.base) /\ ValueOf(str, call.args.base) = call.args.num

(* checkStringEndsWith holds of a string and an end that are alike from    *)
(* the second character of the end on: it never misses an end, and takes   *)
(* another for it only if they differ in that first character.             *)
EndsButForFirst ==
  Of("checkStringEndsWith") =>
    LET str == call.args.str
        end == call.args.end
    IN  checkStringEndsWith(str, end) <=>
          Len(str) >= Len(end) /\ IsSuffix(Tail(end), str)

(* A reader of JSON gets from a text the codes of the characters of a      *)
(* string, from position i to the quotation mark that ends the text, with  *)
(* -1 where there is an error (RFC 8259, section 7).                       *)
ReadString(text) ==
  LET HexValue(i) == ValueOf(SubSeq(text, i, i + 3), 16)
      read[i \in 1 .. (Len(text) + 1)] ==
        IF i > Len(text) \/ text[i] \notin 32 .. 127 THEN <<-1>>
        ELSE IF text[i] = QuotationMark THEN (IF i = Len(text) THEN <<>> ELSE <<-1>>)
        ELSE IF text[i] # Backslash THEN <<text[i]>> \o read[i + 1]
        ELSE IF i + 5 <= Len(text) /\ text[i + 1] = LetterU /\ IsNumeral(SubSeq(text, i + 2, i + 5), 16)
        THEN <<HexValue(i + 2)>> \o read[i + 6]
        ELSE IF i < Len(text) /\ text[i + 1] \in {QuotationMark, Backslash}
        THEN <<text[i + 1]>> \o read[i + 2]
        ELSE <<-1>>
  IN  read[1]

(* What jems_string and jems_bytes put between quotation marks is one      *)
(* string of JSON, and its characters have the codes of the bytes,         *)
(* whatever these are.                                                     *)
QuotesReadBack ==
  Of("jems_bytes") =>
    ReadString(Quoted(call.args.bytes) \o <<QuotationMark>>) = call.args.bytes
=============================================================================
