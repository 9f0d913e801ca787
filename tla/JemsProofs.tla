----------------------------- MODULE JemsProofs -----------------------------
(***************************************************************************)
(* Theorems about the emitter and its client: what is written is the       *)
(* beginning of a JSON text, and the emitter knows where in it it is.      *)
(*                                                                         *)
(* The emitter agrees with a sequence of frames (what the client has open) *)
(* if its levels hold the counts and kinds of the frames, and the reader   *)
(* is at the places of the frames.  Each function of the emitter takes an  *)
(* emitter that agrees with some frames to one that agrees with the frames *)
(* after what was put, opened or closed.                                   *)
(***************************************************************************)
EXTENDS JemsClient, SequenceTheorems, TLAPS

Frames == [kind : {"document", "array", "object"}, items : Nat]

Stacks == {frames \in Seq(Frames) : Len(frames) >= 1}

Emitters(max) ==
  [levels : [0 .. (max - 1) -> [item_count : Nat, is_object : BOOLEAN]],
   max_level : {max}, curr_level : Nat, arg : Seq(Places)]

(* One more item is in a frame, and in the last of some frames.            *)
Plus(frame) == [kind |-> frame.kind, items |-> frame.items + 1]

Counted(frames) == Append(Front(frames), Plus(Last(frames)))

(* The levels are those of the frames.                                     *)
Follows(max, j, frames) ==
  /\ max \in Nat \ {0} /\ j \in Emitters(max) /\ frames \in Stacks
  /\ Len(frames) <= max /\ j.curr_level = Len(frames) - 1
  /\ \A i \in 1 .. Len(frames) :
       /\ j.levels[i - 1].item_count = frames[i].items
       /\ j.levels[i - 1].is_object <=> frames[i].kind = "object"

(* The reader is at the place of each frame but the last, and there at p.  *)
Standing(frames, p) ==
  [i \in 1 .. Len(frames) |-> IF i = Len(frames) THEN p ELSE PlaceIn(frames[i])]

PlacesOf(frames) == [i \in DOMAIN frames |-> PlaceIn(frames[i])]

Agrees(max, j, frames) == Follows(max, j, frames) /\ j.arg = PlacesOf(frames)

(* Where a value, and where a key, may be put.                             *)
TakesValue(frame) ==
  \/ frame.kind = "document" /\ frame.items = 0
  \/ frame.kind = "array"
  \/ frame.kind = "object" /\ frame.items % 2 = 1

TakesKey(frame) == frame.kind = "object" /\ frame.items % 2 = 0

-----------------------------------------------------------------------------
(* The last element of a sequence removed, and replaced.                   *)
LEMMA LastRemoved ==
  ASSUME NEW S, NEW s \in Seq(S), Len(s) >= 1
  PROVE  /\ Front(s) \in Seq(S) /\ Len(Front(s)) = Len(s) - 1
         /\ \A i \in 1 .. (Len(s) - 1) : Front(s)[i] = s[i]
         /\ Last(s) = s[Len(s)] /\ Last(s) \in S
<1>1. Len(s) \in Nat /\ \A i \in 1 .. Len(s) : s[i] \in S
  BY LenProperties, ElementOfSeq
<1> DEFINE l == Len(s) - 1
<1>2. l \in Nat /\ \A i \in 1 .. l : s[i] \in S
  BY <1>1
<1>3. /\ SubSeq(s, 1, l) \in Seq(S)
      /\ Len(SubSeq(s, 1, l)) = IF 1 <= l THEN l - 1 + 1 ELSE 0
      /\ \A i \in 1 .. l - 1 + 1 : SubSeq(s, 1, l)[i] = s[1 + i - 1]
  BY <1>2, SubSeqProperties
<1>4. Front(s) = SubSeq(s, 1, l)
  BY DEF Front
<1>5. Last(s) = s[Len(s)] /\ Last(s) \in S
  BY <1>1 DEF Last
<1> HIDE DEF l
<1>6. Front(s) \in Seq(S) /\ Len(Front(s)) = l
      /\ \A i \in 1 .. l : Front(s)[i] = s[i]
  BY <1>2, <1>3, <1>4
<1> QED
  BY <1>5, <1>6 DEF l

LEMMA LastReplaced ==
  ASSUME NEW S, NEW s \in Seq(S), Len(s) >= 1, NEW e \in S
  PROVE  /\ Append(Front(s), e) \in Seq(S)
         /\ Len(Append(Front(s), e)) = Len(s)
         /\ Append(Front(s), e)[Len(s)] = e
         /\ \A i \in 1 .. (Len(s) - 1) : Append(Front(s), e)[i] = s[i]
<1>1. /\ Front(s) \in Seq(S) /\ Len(Front(s)) = Len(s) - 1
      /\ \A i \in 1 .. (Len(s) - 1) : Front(s)[i] = s[i]
  BY LastRemoved
<1> DEFINE front == Front(s)
<1> HIDE DEF front
<1>2. front \in Seq(S) /\ Len(front) = Len(s) - 1
      /\ \A i \in 1 .. (Len(s) - 1) : front[i] = s[i]
  BY <1>1 DEF front
<1>3. /\ Append(front, e) \in Seq(S) /\ Len(Append(front, e)) = Len(s)
      /\ Append(front, e)[Len(s)] = e
      /\ \A i \in 1 .. (Len(s) - 1) : Append(front, e)[i] = s[i]
  BY <1>2
<1> QED
  BY <1>3 DEF front

(* A frame has a place, and the last of some frames is a frame.            *)
LEMMA PlaceType == ASSUME NEW f \in Frames PROVE PlaceIn(f) \in Places
  BY DEF Frames, PlaceIn, Places

LEMMA StackFacts ==
  ASSUME NEW n \in Stacks
  PROVE  /\ n \in Seq(Frames) /\ Len(n) \in Nat /\ Len(n) >= 1
         /\ DOMAIN n = 1 .. Len(n)
         /\ \A i \in 1 .. Len(n) : n[i] \in Frames
         /\ Last(n) = n[Len(n)] /\ Last(n) \in Frames
         /\ Plus(Last(n)) \in Frames
<1>1. n \in Seq(Frames) /\ Len(n) \in Nat /\ Len(n) >= 1
  BY LenProperties DEF Stacks
<1>2. DOMAIN n = 1 .. Len(n) /\ \A i \in 1 .. Len(n) : n[i] \in Frames
  BY <1>1, LenProperties, ElementOfSeq
<1>3. Last(n) = n[Len(n)] /\ Last(n) \in Frames
  BY <1>1, LastRemoved
<1>4. Plus(Last(n)) \in Frames
  BY <1>3 DEF Frames, Plus
<1> QED
  BY <1>1, <1>2, <1>3, <1>4

LEMMA CountedFacts ==
  ASSUME NEW n \in Stacks
  PROVE  /\ Counted(n) \in Stacks /\ Len(Counted(n)) = Len(n)
         /\ Last(Counted(n)) = Plus(Last(n)) /\ Counted(n)[Len(n)] = Plus(Last(n))
         /\ \A i \in 1 .. (Len(n) - 1) : Counted(n)[i] = n[i]
<1>1. n \in Seq(Frames) /\ Len(n) >= 1 /\ Plus(Last(n)) \in Frames
  BY StackFacts
<1>2. /\ Counted(n) \in Seq(Frames) /\ Len(Counted(n)) = Len(n)
      /\ Counted(n)[Len(n)] = Plus(Last(n))
      /\ \A i \in 1 .. (Len(n) - 1) : Counted(n)[i] = n[i]
  BY <1>1, LastReplaced DEF Counted
<1> QED
  BY <1>2 DEF Stacks, Last

(* What a reader stands on.                                                *)
LEMMA StandingFacts ==
  ASSUME NEW n \in Stacks, NEW p \in Places
  PROVE  /\ Standing(n, p) \in Seq(Places)
         /\ Len(Standing(n, p)) = Len(n)
         /\ \A i \in 1 .. Len(n) :
              Standing(n, p)[i] = IF i = Len(n) THEN p ELSE PlaceIn(n[i])
         /\ Standing(n, p) # <<>>
         /\ Last(Standing(n, p)) = p
<1>1. \A i \in 1 .. Len(n) : (IF i = Len(n) THEN p ELSE PlaceIn(n[i])) \in Places
  BY StackFacts, PlaceType
<1>2. /\ Standing(n, p) \in Seq(Places) /\ Len(Standing(n, p)) = Len(n)
      /\ \A i \in 1 .. Len(n) :
           Standing(n, p)[i] = IF i = Len(n) THEN p ELSE PlaceIn(n[i])
  BY <1>1, StackFacts DEF Standing
<1> QED
  BY <1>2, StackFacts DEF Last

(* The reader at the place of every frame, and after one more item.        *)
LEMMA PlacesStanding ==
  ASSUME NEW n \in Stacks
  PROVE  /\ PlacesOf(n) = Standing(n, PlaceIn(Last(n)))
         /\ PlacesOf(Counted(n)) = Standing(n, PlaceIn(Plus(Last(n))))
<1>1. PlacesOf(n) = Standing(n, PlaceIn(Last(n)))
  BY StackFacts DEF PlacesOf, Standing
<1>2. DOMAIN Counted(n) = 1 .. Len(n)
  BY CountedFacts, StackFacts
<1>3. ASSUME NEW i \in 1 .. Len(n)
      PROVE  PlaceIn(Counted(n)[i])
               = IF i = Len(n) THEN PlaceIn(Plus(Last(n))) ELSE PlaceIn(n[i])
  BY CountedFacts, StackFacts
<1>4. PlacesOf(Counted(n)) = Standing(n, PlaceIn(Plus(Last(n))))
  BY <1>2, <1>3 DEF PlacesOf, Standing
<1> QED
  BY <1>1, <1>4

(* The reader goes to another place in the container it is in.             *)
LEMMA Going ==
  ASSUME NEW n \in Stacks, NEW p \in Places, NEW q \in Places
  PROVE  Append(Front(Standing(n, p)), q) = Standing(n, q)
<1> DEFINE s == Standing(n, p)
           t == Append(Front(s), q)
<1>1. s \in Seq(Places) /\ Len(s) = Len(n) /\ Len(s) >= 1 /\ Len(n) \in Nat
  BY StandingFacts, StackFacts
<1>2. /\ t \in Seq(Places) /\ Len(t) = Len(n) /\ t[Len(n)] = q
      /\ \A i \in 1 .. (Len(n) - 1) : t[i] = s[i]
  BY <1>1, LastReplaced
<1>3. /\ Standing(n, q) \in Seq(Places) /\ Len(Standing(n, q)) = Len(n)
      /\ \A i \in 1 .. Len(n) :
           /\ Standing(n, q)[i] = IF i = Len(n) THEN q ELSE PlaceIn(n[i])
           /\ s[i] = IF i = Len(n) THEN p ELSE PlaceIn(n[i])
  BY StandingFacts
<1> HIDE DEF s, t
<1>4. \A i \in 1 .. Len(n) : t[i] = Standing(n, q)[i]
  BY <1>1, <1>2, <1>3
<1>5. t = Standing(n, q)
  BY <1>2, <1>3, <1>4, SeqEqual
<1> QED
  BY <1>5 DEF s, t

(* The reader leaves the container it is in.                               *)
LEMMA Leaving ==
  ASSUME NEW n \in Stacks, Len(n) >= 2, NEW p \in Places
  PROVE  Front(n) \in Stacks /\ Front(Standing(n, p)) = PlacesOf(Front(n))
<1> DEFINE s == Standing(n, p)
           m == Front(n)
<1>1. n \in Seq(Frames) /\ Len(n) \in Nat
  BY StackFacts
<1>2. m \in Seq(Frames) /\ Len(m) = Len(n) - 1 /\ \A i \in 1 .. (Len(n) - 1) : m[i] = n[i]
  BY <1>1, LastRemoved
<1>3. m \in Stacks
  BY <1>1, <1>2 DEF Stacks
<1>4. s \in Seq(Places) /\ Len(s) = Len(n)
      /\ \A i \in 1 .. Len(n) : s[i] = IF i = Len(n) THEN p ELSE PlaceIn(n[i])
  BY StandingFacts
<1> HIDE DEF s, m
<1>5. Front(s) \in Seq(Places) /\ Len(Front(s)) = Len(n) - 1
      /\ \A i \in 1 .. (Len(n) - 1) : Front(s)[i] = s[i]
  <2>1. Len(s) >= 1
    BY <1>1, <1>4
  <2> QED
    BY <1>4, <2>1, LastRemoved
<1>6. DOMAIN m = 1 .. (Len(n) - 1) /\ DOMAIN Front(s) = 1 .. (Len(n) - 1)
  BY <1>2, <1>5, LenProperties
<1>7. PlacesOf(m) = [i \in 1 .. (Len(n) - 1) |-> PlaceIn(m[i])]
  BY <1>6 DEF PlacesOf
<1>8. \A i \in 1 .. (Len(n) - 1) : Front(s)[i] = PlaceIn(m[i])
  BY <1>1, <1>2, <1>4, <1>5
<1>9. Front(s) = [i \in 1 .. (Len(n) - 1) |-> Front(s)[i]]
  BY <1>5, <1>6
<1>10. Front(s) = PlacesOf(m)
  BY <1>7, <1>8, <1>9
<1> QED
  BY <1>3, <1>10 DEF s, m

(* The reader enters a container.                                          *)
LEMMA Entering ==
  ASSUME NEW n \in Stacks, NEW f \in Frames
  PROVE  /\ Append(n, f) \in Stacks /\ Len(Append(n, f)) = Len(n) + 1
         /\ Append(n, f)[Len(n) + 1] = f
         /\ \A i \in 1 .. Len(n) : Append(n, f)[i] = n[i]
         /\ PlacesOf(Append(n, f)) = Append(PlacesOf(n), PlaceIn(f))
<1>1. n \in Seq(Frames) /\ Len(n) \in Nat /\ DOMAIN n = 1 .. Len(n)
      /\ \A i \in 1 .. Len(n) : n[i] \in Frames
  BY StackFacts
<1>2. /\ Append(n, f) \in Seq(Frames) /\ Len(Append(n, f)) = Len(n) + 1
      /\ Append(n, f)[Len(n) + 1] = f
      /\ \A i \in 1 .. Len(n) : Append(n, f)[i] = n[i]
      /\ DOMAIN Append(n, f) = 1 .. (Len(n) + 1)
  BY <1>1
<1>3. Append(n, f) \in Stacks
  BY <1>1, <1>2 DEF Stacks
<1> DEFINE s == PlacesOf(n)
<1>4. s \in Seq(Places) /\ Len(s) = Len(n) /\ \A i \in 1 .. Len(n) : s[i] = PlaceIn(n[i])
  BY <1>1, PlaceType DEF PlacesOf
<1>5. PlaceIn(f) \in Places
  BY PlaceType
<1> HIDE DEF s
<1>6. /\ Append(s, PlaceIn(f)) \in Seq(Places)
      /\ Len(Append(s, PlaceIn(f))) = Len(n) + 1
      /\ Append(s, PlaceIn(f))[Len(n) + 1] = PlaceIn(f)
      /\ \A i \in 1 .. Len(n) : Append(s, PlaceIn(f))[i] = PlaceIn(n[i])
  BY <1>1, <1>4, <1>5
<1>7. /\ PlacesOf(Append(n, f)) \in Seq(Places)
      /\ Len(PlacesOf(Append(n, f))) = Len(n) + 1
      /\ \A i \in 1 .. (Len(n) + 1) : PlacesOf(Append(n, f))[i] = PlaceIn(Append(n, f)[i])
  <2>1. \A i \in 1 .. (Len(n) + 1) : PlaceIn(Append(n, f)[i]) \in Places
    BY <1>2, PlaceType, ElementOfSeq
  <2> QED
    BY <1>1, <1>2, <2>1 DEF PlacesOf
<1>8. \A i \in 1 .. (Len(n) + 1) : Append(s, PlaceIn(f))[i] = PlacesOf(Append(n, f))[i]
  BY <1>1, <1>2, <1>6, <1>7
<1>9. Append(s, PlaceIn(f)) = PlacesOf(Append(n, f))
  BY <1>6, <1>7, <1>8, SeqEqual
<1> QED
  BY <1>2, <1>3, <1>9 DEF s

-----------------------------------------------------------------------------
(* What the reader makes of each token.                                    *)
LEMMA ReadSeparator ==
  ASSUME NEW n \in Stacks
  PROVE  /\ Read(Standing(n, "colon"), ":") = Standing(n, "value")
         /\ Read(Standing(n, "nextPair"), ",") = Standing(n, "key")
         /\ Read(Standing(n, "nextItem"), ",") = Standing(n, "item")
<1>1. \A p \in Places : Standing(n, p) # <<>> /\ Last(Standing(n, p)) = p
  BY StandingFacts
<1>2. {"colon", "nextPair", "nextItem", "value", "key", "item"} \subseteq Places
  BY DEF Places
<1>3. /\ Append(Front(Standing(n, "colon")), "value") = Standing(n, "value")
      /\ Append(Front(Standing(n, "nextPair")), "key") = Standing(n, "key")
      /\ Append(Front(Standing(n, "nextItem")), "item") = Standing(n, "item")
  BY <1>2, Going
<1>4. \A token \in {":", ","} : token \notin Strings \cup Scalars
  BY TokensAssumption DEF Punctuation
<1>5. Read(Standing(n, "colon"), ":") = Standing(n, "value")
  BY <1>1, <1>2, <1>3, <1>4 DEF Read, AfterValue
<1>6. Read(Standing(n, "nextPair"), ",") = Standing(n, "key")
  BY <1>1, <1>2, <1>3, <1>4 DEF Read, AfterValue
<1>7. Read(Standing(n, "nextItem"), ",") = Standing(n, "item")
  BY <1>1, <1>2, <1>3, <1>4 DEF Read, AfterValue
<1> QED
  BY <1>5, <1>6, <1>7

LEMMA ReadValue ==
  ASSUME NEW n \in Stacks, NEW p \in DOMAIN AfterValue
  PROVE  /\ \A token \in Strings \cup Scalars :
              Read(Standing(n, p), token) = Standing(n, AfterValue[p])
         /\ Read(Standing(n, p), "{") = Append(Standing(n, AfterValue[p]), "firstKey")
         /\ Read(Standing(n, p), "[") = Append(Standing(n, AfterValue[p]), "firstItem")
<1> DEFINE s == Standing(n, p)
           q == AfterValue[p]
<1>1. p \in Places /\ q \in Places /\ p \notin {"firstKey", "key"}
  BY DEF AfterValue, Places
<1>2. s # <<>> /\ Last(s) = p /\ Append(Front(s), q) = Standing(n, q)
  BY <1>1, StandingFacts, Going
<1> HIDE DEF s
<1>3. \A token \in Strings \cup Scalars : token \notin Punctuation
  BY TokensAssumption
<1>4. \A token \in Strings \cup Scalars : Read(s, token) = Standing(n, q)
  BY <1>1, <1>2, <1>3 DEF Read, Punctuation
<1>5. Read(s, "{") = Append(Standing(n, q), "firstKey")
  BY <1>1, <1>2, <1>3 DEF Read, Punctuation
<1>6. Read(s, "[") = Append(Standing(n, q), "firstItem")
  BY <1>1, <1>2, <1>3 DEF Read, Punctuation
<1> QED
  BY <1>4, <1>5, <1>6 DEF s

LEMMA ReadKey ==
  ASSUME NEW n \in Stacks, NEW p \in {"firstKey", "key"}, NEW token \in Strings
  PROVE  Read(Standing(n, p), token) = Standing(n, "colon")
<1>1. p \in Places /\ "colon" \in Places
  BY DEF Places
<1>2. /\ Standing(n, p) # <<>> /\ Last(Standing(n, p)) = p
      /\ Append(Front(Standing(n, p)), "colon") = Standing(n, "colon")
  BY <1>1, StandingFacts, Going
<1>3. token \notin Punctuation /\ p \notin DOMAIN AfterValue
  BY TokensAssumption DEF AfterValue
<1> QED
  BY <1>2, <1>3 DEF Read, Punctuation

LEMMA ReadClose ==
  ASSUME NEW n \in Stacks
  PROVE  /\ \A p \in {"firstKey", "nextPair"} :
              Read(Standing(n, p), "}") = Front(Standing(n, p))
         /\ \A p \in {"firstItem", "nextItem"} :
              Read(Standing(n, p), "]") = Front(Standing(n, p))
<1>1. {"firstKey", "nextPair", "firstItem", "nextItem"} \subseteq Places
  BY DEF Places
<1>2. \A p \in Places : Standing(n, p) # <<>> /\ Last(Standing(n, p)) = p
  BY StandingFacts
<1>3. \A token \in {"}", "]"} : token \notin Strings \cup Scalars
  BY TokensAssumption DEF Punctuation
<1>4. ASSUME NEW p \in {"firstKey", "nextPair"}
      PROVE  Read(Standing(n, p), "}") = Front(Standing(n, p))
  BY <1>1, <1>2, <1>3 DEF Read, AfterValue
<1>5. ASSUME NEW p \in {"firstItem", "nextItem"}
      PROVE  Read(Standing(n, p), "]") = Front(Standing(n, p))
  BY <1>1, <1>2, <1>3 DEF Read, AfterValue
<1> QED
  BY <1>4, <1>5

-----------------------------------------------------------------------------
(* The emitter's level is the last frame.                                  *)
LEMMA LevelFacts ==
  ASSUME NEW max, NEW n, NEW j, Follows(max, j, n)
  PROVE  /\ max \in Nat \ {0} /\ j \in Emitters(max) /\ n \in Stacks
         /\ Len(n) <= max
         /\ j.curr_level = Len(n) - 1 /\ j.curr_level \in 0 .. (max - 1)
         /\ level_ref(j).item_count = Last(n).items
         /\ level_ref(j).is_object <=> Last(n).kind = "object"
  BY StackFacts DEF Follows, level_ref

(* Writing to the reader leaves the levels alone.                          *)
LEMMA Writing ==
  ASSUME NEW max, NEW n, NEW j, NEW token, NEW arg,
         Follows(max, j, n), arg \in Seq(Places), Read(j.arg, token) = arg
  PROVE  /\ Follows(max, emit_char(j, token), n)
         /\ emit_char(j, token).arg = arg
         /\ emit_char(j, token).levels = j.levels
         /\ emit_char(j, token).curr_level = j.curr_level
  BY DEF Follows, Emitters, emit_char

(* The item is counted in the level and in the frame.                      *)
LEMMA Counting ==
  ASSUME NEW max, NEW n, NEW j, Follows(max, j, n)
  PROVE  LET k == [j EXCEPT !.levels[j.curr_level].item_count = @ + 1]
         IN  Follows(max, k, Counted(n)) /\ k.arg = j.arg
<1> DEFINE c == j.curr_level
           k == [j EXCEPT !.levels[j.curr_level].item_count = @ + 1]
<1>1. /\ j \in Emitters(max) /\ n \in Stacks /\ c = Len(n) - 1 /\ c \in 0 .. (max - 1)
      /\ level_ref(j).item_count = Last(n).items
      /\ level_ref(j).is_object <=> Last(n).kind = "object"
  BY LevelFacts
<1>2. /\ j.levels \in [0 .. (max - 1) -> [item_count : Nat, is_object : BOOLEAN]]
      /\ j.levels[c] \in [item_count : Nat, is_object : BOOLEAN]
  BY <1>1 DEF Emitters
<1> DEFINE levels == [j.levels EXCEPT ![c] = [j.levels[c] EXCEPT !.item_count = @ + 1]]
<1>3. k = [j EXCEPT !.levels = levels]
  BY <1>1 DEF Emitters
<1>4. levels[c] = [j.levels[c] EXCEPT !.item_count = @ + 1]
      /\ \A i \in 0 .. (max - 1) : i # c => levels[i] = j.levels[i]
  BY <1>1, <1>2
<1>5. levels \in [0 .. (max - 1) -> [item_count : Nat, is_object : BOOLEAN]]
  BY <1>1, <1>2
<1>6. /\ levels[c].item_count = Last(n).items + 1
      /\ levels[c].is_object <=> Last(n).kind = "object"
  BY <1>1, <1>2, <1>4 DEF level_ref
<1> HIDE DEF levels, k
<1>7. k \in Emitters(max) /\ k.levels = levels /\ k.arg = j.arg /\ k.curr_level = c
  BY <1>1, <1>3, <1>5 DEF Emitters
<1>8. /\ Counted(n) \in Stacks /\ Len(Counted(n)) = Len(n)
      /\ Counted(n)[Len(n)] = Plus(Last(n))
      /\ \A i \in 1 .. (Len(n) - 1) : Counted(n)[i] = n[i]
  BY <1>1, CountedFacts
<1>9. ASSUME NEW i \in 1 .. Len(n)
      PROVE  /\ k.levels[i - 1].item_count = Counted(n)[i].items
             /\ k.levels[i - 1].is_object <=> Counted(n)[i].kind = "object"
  <2>1. CASE i = Len(n)
    BY <1>1, <1>8, <1>6, <1>7, <2>1, StackFacts DEF Plus
  <2>2. CASE i < Len(n)
    <3>1. i \in 1 .. (Len(n) - 1) /\ i - 1 \in 0 .. (max - 1) /\ i - 1 # c
      <4>1. Len(n) \in Nat /\ Len(n) <= max /\ max \in Nat
        BY <1>1, StackFacts, LevelFacts
      <4> QED
        BY <1>1, <2>2, <4>1
    <3>2. Counted(n)[i] = n[i] /\ k.levels[i - 1] = j.levels[i - 1]
      BY <3>1, <1>4, <1>8, <1>7
    <3> QED
      BY <3>2 DEF Follows
  <2> QED
    BY <2>1, <2>2, <1>1, StackFacts
<1>10. Follows(max, k, Counted(n))
  BY <1>1, <1>8, <1>9, <1>7 DEF Follows
<1> QED
  BY <1>10, <1>7 DEF k

(* After commify the item is counted, and a value may follow if there was  *)
(* room for one: the reader goes from where it is to the new place.        *)
LEMMA BeforeValue ==
  ASSUME NEW max, NEW n, NEW j, Agrees(max, j, n), TakesValue(Last(n))
  PROVE  /\ Follows(max, commify(j), Counted(n))
         /\ \E p \in DOMAIN AfterValue :
              /\ commify(j).arg = Standing(n, p)
              /\ AfterValue[p] = PlaceIn(Plus(Last(n)))
<1> DEFINE f == Last(n)
           sep == IF level_ref(j).item_count = 0 THEN j
                  ELSE emit_char(j, IF level_ref(j).is_object /\ level_ref(j).item_count % 2 = 1
                                    THEN ":" ELSE ",")
<1>1. /\ Follows(max, j, n) /\ j.arg = Standing(n, PlaceIn(f)) /\ n \in Stacks /\ f \in Frames
      /\ level_ref(j).item_count = f.items
      /\ level_ref(j).is_object <=> f.kind = "object"
  BY LevelFacts, PlacesStanding, StackFacts DEF Agrees
<1>2. commify(j) = [sep EXCEPT !.levels[j.curr_level].item_count = @ + 1]
  BY DEF commify
<1>3. Follows(max, sep, n) /\ sep.curr_level = j.curr_level
      /\ \E p \in DOMAIN AfterValue :
           sep.arg = Standing(n, p) /\ AfterValue[p] = PlaceIn(Plus(f))
  <2>1. CASE f.items = 0
    <3>1. sep = j
      BY <1>1, <2>1
    <3>2. PlaceIn(f) \in DOMAIN AfterValue /\ AfterValue[PlaceIn(f)] = PlaceIn(Plus(f))
      BY <1>1, <2>1 DEF TakesValue, PlaceIn, Plus, AfterValue, Frames
    <3> QED
      BY <1>1, <3>1, <3>2
  <2>2. CASE f.kind = "array" /\ f.items # 0
    <3>1. sep = emit_char(j, ",") /\ PlaceIn(f) = "nextItem" /\ PlaceIn(Plus(f)) = "nextItem"
      <4>1. sep = emit_char(j, ",")
        BY <1>1, <2>2
      <4>2. f.items + 1 # 0
        BY <1>1 DEF Frames
      <4> QED
        BY <2>2, <4>1, <4>2 DEF PlaceIn, Plus
    <3>2. Read(j.arg, ",") = Standing(n, "item")
      BY <1>1, <3>1, ReadSeparator
    <3>3. Standing(n, "item") \in Seq(Places)
      BY <1>1, StandingFacts DEF Places
    <3>4. /\ Follows(max, emit_char(j, ","), n)
          /\ emit_char(j, ",").curr_level = j.curr_level
          /\ emit_char(j, ",").arg = Standing(n, "item")
      <4> DEFINE comma == ","
      <4>1. Follows(max, j, n) /\ Read(j.arg, comma) = Standing(n, "item")
        BY <1>1, <3>2
      <4> HIDE DEF comma
      <4>2. /\ Follows(max, emit_char(j, comma), n)
            /\ emit_char(j, comma).curr_level = j.curr_level
            /\ emit_char(j, comma).arg = Standing(n, "item")
        BY <3>3, <4>1, Writing
      <4> QED
        BY <4>2 DEF comma
    <3>5. "item" \in DOMAIN AfterValue /\ AfterValue["item"] = PlaceIn(Plus(f))
      BY <3>1 DEF AfterValue
    <3> HIDE DEF sep
    <3> QED
      BY <3>1, <3>4, <3>5
  <2>3. CASE f.kind = "object"
    <3>1. f.items % 2 = 1 /\ f.items # 0
      BY <1>1, <2>3 DEF TakesValue, Frames
    <3>2. sep = emit_char(j, ":") /\ PlaceIn(f) = "colon" /\ PlaceIn(Plus(f)) = "nextPair"
      <4>1. sep = emit_char(j, ":")
        BY <1>1, <2>3, <3>1
      <4>2. f.items + 1 # 0 /\ (f.items + 1) % 2 # 1
        BY <1>1, <3>1 DEF Frames
      <4> QED
        BY <2>3, <3>1, <4>1, <4>2 DEF PlaceIn, Plus
    <3>3. Read(j.arg, ":") = Standing(n, "value")
      BY <1>1, <3>2, ReadSeparator
    <3>4. Standing(n, "value") \in Seq(Places)
      BY <1>1, StandingFacts DEF Places
    <3>5. /\ Follows(max, emit_char(j, ":"), n)
          /\ emit_char(j, ":").curr_level = j.curr_level
          /\ emit_char(j, ":").arg = Standing(n, "value")
      BY <1>1, <3>3, <3>4, Writing
    <3>6. "value" \in DOMAIN AfterValue /\ AfterValue["value"] = PlaceIn(Plus(f))
      BY <3>2 DEF AfterValue
    <3> HIDE DEF sep
    <3> QED
      BY <3>2, <3>5, <3>6
  <2> QED
    BY <1>1, <2>1, <2>2, <2>3 DEF TakesValue
<1> HIDE DEF sep
<1>4. Follows(max, commify(j), Counted(n)) /\ commify(j).arg = sep.arg
  BY <1>2, <1>3, Counting
<1> QED
  BY <1>3, <1>4

(* And a key may follow in an object that takes one.                       *)
LEMMA BeforeKey ==
  ASSUME NEW max, NEW n, NEW j, Agrees(max, j, n), TakesKey(Last(n))
  PROVE  /\ Follows(max, commify(j), Counted(n))
         /\ PlaceIn(Plus(Last(n))) = "colon"
         /\ \E p \in {"firstKey", "key"} : commify(j).arg = Standing(n, p)
<1> DEFINE f == Last(n)
           sep == IF level_ref(j).item_count = 0 THEN j
                  ELSE emit_char(j, IF level_ref(j).is_object /\ level_ref(j).item_count % 2 = 1
                                    THEN ":" ELSE ",")
<1>1. /\ Follows(max, j, n) /\ j.arg = Standing(n, PlaceIn(f)) /\ n \in Stacks /\ f \in Frames
      /\ level_ref(j).item_count = f.items
      /\ level_ref(j).is_object <=> f.kind = "object"
  BY LevelFacts, PlacesStanding, StackFacts DEF Agrees
<1>2. commify(j) = [sep EXCEPT !.levels[j.curr_level].item_count = @ + 1]
  BY DEF commify
<1>3. Follows(max, sep, n) /\ sep.curr_level = j.curr_level
      /\ \E p \in {"firstKey", "key"} : sep.arg = Standing(n, p)
  <2>1. CASE f.items = 0
    <3>1. sep = j /\ PlaceIn(f) = "firstKey"
      BY <1>1, <2>1 DEF TakesKey, PlaceIn
    <3> QED
      BY <1>1, <3>1
  <2>2. CASE f.items # 0
    <3>1. sep = emit_char(j, ",") /\ PlaceIn(f) = "nextPair"
      <4>1. f.kind = "object" /\ f.items % 2 # 1
        BY <1>1 DEF TakesKey
      <4>2. sep = emit_char(j, ",")
        BY <1>1, <2>2, <4>1
      <4> QED
        BY <2>2, <4>1, <4>2 DEF PlaceIn
    <3>2. Read(j.arg, ",") = Standing(n, "key")
      BY <1>1, <3>1, ReadSeparator
    <3>3. Standing(n, "key") \in Seq(Places)
      BY <1>1, StandingFacts DEF Places
    <3>4. /\ Follows(max, emit_char(j, ","), n)
          /\ emit_char(j, ",").curr_level = j.curr_level
          /\ emit_char(j, ",").arg = Standing(n, "key")
      <4> DEFINE comma == ","
      <4>1. Follows(max, j, n) /\ Read(j.arg, comma) = Standing(n, "key")
        BY <1>1, <3>2
      <4> HIDE DEF comma
      <4>2. /\ Follows(max, emit_char(j, comma), n)
            /\ emit_char(j, comma).curr_level = j.curr_level
            /\ emit_char(j, comma).arg = Standing(n, "key")
        BY <3>3, <4>1, Writing
      <4> QED
        BY <4>2 DEF comma
    <3> HIDE DEF sep
    <3> QED
      BY <3>1, <3>4
  <2> QED
    BY <2>1, <2>2
<1> HIDE DEF sep
<1>4. Follows(max, commify(j), Counted(n)) /\ commify(j).arg = sep.arg
  BY <1>2, <1>3, Counting
<1>5. PlaceIn(Plus(f)) = "colon"
  BY <1>1 DEF TakesKey, PlaceIn, Plus, Frames
<1> QED
  BY <1>3, <1>4, <1>5

-----------------------------------------------------------------------------
(* A level for a container is set up, and left.                            *)
LEMMA Pushing ==
  ASSUME NEW max, NEW n, NEW j, Follows(max, j, n), Len(n) < max,
         NEW kind \in {"array", "object"},
         NEW is_object \in BOOLEAN, is_object <=> kind = "object"
  PROVE  /\ Follows(max, push_level(j, is_object), Append(n, [kind |-> kind, items |-> 0]))
         /\ push_level(j, is_object).arg = j.arg
<1> DEFINE c == j.curr_level
           f == [kind |-> kind, items |-> 0]
           level == [item_count |-> 0, is_object |-> is_object]
           levels == [j.levels EXCEPT ![c + 1] = level]
           k == [j EXCEPT !.curr_level = c + 1, !.levels = levels]
<1>1. /\ j \in Emitters(max) /\ n \in Stacks /\ c = Len(n) - 1 /\ Len(n) \in Nat
      /\ c \in 0 .. (max - 2) /\ max \in Nat
  BY LevelFacts, StackFacts
<1>2. push_level(j, is_object) = k
  <2>1. c < j.max_level - 1
    BY <1>1 DEF Emitters
  <2>2. push_level(j, is_object)
          = [j EXCEPT !.curr_level = @ + 1,
                      !.levels[j.curr_level + 1] = [item_count |-> 0, is_object |-> is_object]]
    BY <2>1 DEF push_level
  <2> QED
    BY <1>1, <2>2 DEF Emitters
<1>3. levels \in [0 .. (max - 1) -> [item_count : Nat, is_object : BOOLEAN]]
      /\ levels[c + 1] = level
      /\ \A i \in 0 .. c : levels[i] = j.levels[i]
  BY <1>1 DEF Emitters
<1> HIDE DEF levels
<1>4. k \in Emitters(max) /\ k.levels = levels /\ k.curr_level = c + 1 /\ k.arg = j.arg
  <2>1. c + 1 \in Nat
    BY <1>1
  <2> DEFINE up == c + 1
  <2> HIDE DEF up
  <2>2. k = [j EXCEPT !.curr_level = up, !.levels = levels] /\ up \in Nat
    BY <2>1 DEF up
  <2>3. k \in Emitters(max) /\ k.levels = levels /\ k.curr_level = up /\ k.arg = j.arg
    BY <1>1, <1>3, <2>2 DEF Emitters
  <2> QED
    BY <2>3 DEF up
<1> HIDE DEF k
<1>5. f \in Frames
  BY DEF Frames
<1>6. /\ Append(n, f) \in Stacks /\ Len(Append(n, f)) = Len(n) + 1
      /\ Append(n, f)[Len(n) + 1] = f
      /\ \A i \in 1 .. Len(n) : Append(n, f)[i] = n[i]
  BY <1>1, <1>5, Entering
<1>7. ASSUME NEW i \in 1 .. (Len(n) + 1)
      PROVE  /\ k.levels[i - 1].item_count = Append(n, f)[i].items
             /\ k.levels[i - 1].is_object <=> Append(n, f)[i].kind = "object"
  <2>1. CASE i = Len(n) + 1
    <3>1. k.levels[i - 1] = level /\ Append(n, f)[i] = f
      BY <1>1, <1>3, <1>4, <1>6, <2>1
    <3> QED
      BY <3>1
  <2>2. CASE i <= Len(n)
    <3>1. i \in 1 .. Len(n) /\ i - 1 \in 0 .. c
      BY <1>1, <2>2
    <3>2. k.levels[i - 1] = j.levels[i - 1] /\ Append(n, f)[i] = n[i]
      BY <1>3, <1>4, <1>6, <3>1
    <3> QED
      BY <3>1, <3>2 DEF Follows
  <2> QED
    BY <1>1, <2>1, <2>2
<1>8. Follows(max, k, Append(n, f))
  BY <1>1, <1>4, <1>6, <1>7 DEF Follows
<1> QED
  BY <1>2, <1>4, <1>8

LEMMA Popping ==
  ASSUME NEW max, NEW n, NEW j, Follows(max, j, n), Len(n) >= 2
  PROVE  Follows(max, pop_level(j), Front(n)) /\ pop_level(j).arg = j.arg
<1> DEFINE k == [j EXCEPT !.curr_level = j.curr_level - 1]
<1>1. j \in Emitters(max) /\ n \in Stacks /\ j.curr_level = Len(n) - 1 /\ Len(n) \in Nat
  BY LevelFacts, StackFacts
<1>2. pop_level(j) = k
  BY <1>1 DEF pop_level
<1>3. /\ k \in Emitters(max) /\ k.levels = j.levels /\ k.arg = j.arg
      /\ k.curr_level = Len(n) - 2
  BY <1>1 DEF Emitters
<1>4. Front(n) \in Stacks /\ Len(Front(n)) = Len(n) - 1
      /\ \A i \in 1 .. (Len(n) - 1) : Front(n)[i] = n[i]
  <2>1. n \in Seq(Frames) /\ "start" \in Places
    BY <1>1 DEF Stacks, Places
  <2> QED
    BY <1>1, <2>1, Leaving, LastRemoved
<1> HIDE DEF k
<1>5. Follows(max, k, Front(n))
  BY <1>1, <1>3, <1>4 DEF Follows
<1> QED
  BY <1>2, <1>3, <1>5

-----------------------------------------------------------------------------
(* A value is put.                                                         *)
LEMMA ValuePut ==
  ASSUME NEW max, NEW n, NEW j, Agrees(max, j, n), TakesValue(Last(n)),
         NEW token \in Strings \cup Scalars
  PROVE  Agrees(max, emit_char(commify(j), token), Counted(n))
<1>1. PICK p \in DOMAIN AfterValue :
        /\ Follows(max, commify(j), Counted(n))
        /\ commify(j).arg = Standing(n, p) /\ AfterValue[p] = PlaceIn(Plus(Last(n)))
  BY BeforeValue
<1>2. n \in Stacks
  BY DEF Agrees, Follows
<1>3. Read(commify(j).arg, token) = PlacesOf(Counted(n))
  BY <1>1, <1>2, ReadValue, PlacesStanding
<1>4. PlacesOf(Counted(n)) \in Seq(Places)
  BY <1>2, PlacesStanding, StandingFacts, StackFacts, PlaceType
<1>5. Read(commify(j).arg, token) \in Seq(Places)
  BY <1>3, <1>4
<1>6. /\ Follows(max, emit_char(commify(j), token), Counted(n))
      /\ emit_char(commify(j), token).arg = Read(commify(j).arg, token)
  <2>1. Follows(max, commify(j), Counted(n))
    BY <1>1
  <2> QED
    BY <1>5, <2>1, Writing
<1> QED
  BY <1>3, <1>6 DEF Agrees

(* A key is put, and a value may be put next.                              *)
LEMMA KeyPut ==
  ASSUME NEW max, NEW n, NEW j, Agrees(max, j, n), TakesKey(Last(n)), NEW key \in Strings
  PROVE  Agrees(max, jems_string(j, key), Counted(n)) /\ TakesValue(Last(Counted(n)))
<1>1. PICK p \in {"firstKey", "key"} :
        /\ Follows(max, commify(j), Counted(n))
        /\ commify(j).arg = Standing(n, p) /\ PlaceIn(Plus(Last(n))) = "colon"
  BY BeforeKey
<1>2. n \in Stacks
  BY DEF Agrees, Follows
<1>3. Read(commify(j).arg, key) = PlacesOf(Counted(n))
  BY <1>1, <1>2, ReadKey, PlacesStanding
<1>4. PlacesOf(Counted(n)) \in Seq(Places)
  BY <1>2, PlacesStanding, StandingFacts, StackFacts, PlaceType
<1>5. Read(commify(j).arg, key) \in Seq(Places)
  BY <1>3, <1>4
<1>6. /\ Follows(max, emit_char(commify(j), key), Counted(n))
      /\ emit_char(commify(j), key).arg = Read(commify(j).arg, key)
  BY <1>1, <1>5, Writing
<1>7. TakesValue(Plus(Last(n)))
  <2>1. Last(n) \in Frames
    BY <1>2, StackFacts
  <2> QED
    BY <2>1 DEF TakesKey, TakesValue, Plus, Frames
<1> QED
  BY <1>2, <1>3, <1>6, <1>7, CountedFacts DEF Agrees, jems_string

(* A container is opened where a value may be put.                         *)
LEMMA Opening ==
  ASSUME NEW max, NEW n, NEW j, Agrees(max, j, n), TakesValue(Last(n)), Len(n) < max
  PROVE  /\ Agrees(max, jems_object_open(j),
                   Append(Counted(n), [kind |-> "object", items |-> 0]))
         /\ Agrees(max, jems_array_open(j),
                   Append(Counted(n), [kind |-> "array", items |-> 0]))
<1> DEFINE m == Counted(n)
<1>1. PICK p \in DOMAIN AfterValue :
        /\ Follows(max, commify(j), m)
        /\ commify(j).arg = Standing(n, p) /\ AfterValue[p] = PlaceIn(Plus(Last(n)))
  BY BeforeValue
<1>2. n \in Stacks /\ m \in Stacks /\ Len(m) = Len(n)
  BY CountedFacts DEF Agrees, Follows
<1>3. PlacesOf(m) = Standing(n, AfterValue[p]) /\ PlacesOf(m) \in Seq(Places)
  BY <1>1, <1>2, PlacesStanding, StandingFacts, StackFacts, PlaceType
<1>4. /\ Read(commify(j).arg, "{") = Append(PlacesOf(m), "firstKey")
      /\ Read(commify(j).arg, "[") = Append(PlacesOf(m), "firstItem")
  BY <1>1, <1>2, <1>3, ReadValue
<1> HIDE DEF m
<1>5. /\ Read(commify(j).arg, "{") \in Seq(Places)
      /\ Read(commify(j).arg, "[") \in Seq(Places)
  <2> DEFINE s == PlacesOf(m)
  <2>1. s \in Seq(Places) /\ "firstKey" \in Places /\ "firstItem" \in Places
    BY <1>3 DEF Places
  <2> HIDE DEF s
  <2>2. Append(s, "firstKey") \in Seq(Places) /\ Append(s, "firstItem") \in Seq(Places)
    BY <2>1
  <2> QED
    BY <1>4, <2>2 DEF s
<1>6. Agrees(max, jems_object_open(j), Append(m, [kind |-> "object", items |-> 0]))
  <2> DEFINE e == emit_char(commify(j), "{")
             f == [kind |-> "object", items |-> 0]
  <2>1. Follows(max, e, m) /\ e.arg = Append(PlacesOf(m), "firstKey")
    <3> DEFINE s == Append(PlacesOf(m), "firstKey")
               token == "{"
    <3>1. s \in Seq(Places) /\ Read(commify(j).arg, token) = s
      BY <1>4, <1>5
    <3> HIDE DEF s, token
    <3>2. Follows(max, emit_char(commify(j), token), m)
          /\ emit_char(commify(j), token).arg = s
      BY <1>1, <3>1, Writing
    <3> QED
      BY <3>2 DEF s, token, e
  <2>2. f \in Frames /\ PlaceIn(f) = "firstKey"
    BY DEF Frames, PlaceIn
  <2>3. PlacesOf(Append(m, f)) = Append(PlacesOf(m), "firstKey")
    BY <1>2, <2>2, Entering
  <2> HIDE DEF e
  <2>4. Follows(max, push_level(e, TRUE), Append(m, f)) /\ push_level(e, TRUE).arg = e.arg
    BY <1>2, <2>1, Pushing
  <2> QED
    BY <2>1, <2>3, <2>4 DEF Agrees, jems_object_open, e
<1>7. Agrees(max, jems_array_open(j), Append(m, [kind |-> "array", items |-> 0]))
  <2> DEFINE e == emit_char(commify(j), "[")
             f == [kind |-> "array", items |-> 0]
  <2>1. Follows(max, e, m) /\ e.arg = Append(PlacesOf(m), "firstItem")
    <3> DEFINE s == Append(PlacesOf(m), "firstItem")
               token == "["
    <3>1. s \in Seq(Places) /\ Read(commify(j).arg, token) = s
      BY <1>4, <1>5
    <3> HIDE DEF s, token
    <3>2. Follows(max, emit_char(commify(j), token), m)
          /\ emit_char(commify(j), token).arg = s
      BY <1>1, <3>1, Writing
    <3> QED
      BY <3>2 DEF s, token, e
  <2>2. f \in Frames /\ PlaceIn(f) = "firstItem"
    BY DEF Frames, PlaceIn
  <2>3. PlacesOf(Append(m, f)) = Append(PlacesOf(m), "firstItem")
    BY <1>2, <2>2, Entering
  <2> HIDE DEF e
  <2>4. Follows(max, push_level(e, FALSE), Append(m, f)) /\ push_level(e, FALSE).arg = e.arg
    BY <1>2, <2>1, Pushing
  <2> QED
    BY <2>1, <2>3, <2>4 DEF Agrees, jems_array_open, e
<1> QED
  BY <1>6, <1>7 DEF m

(* The container opened last is closed.                                    *)
LEMMA Closing ==
  ASSUME NEW max, NEW n, NEW j, Agrees(max, j, n), Len(n) >= 2
  PROVE  /\ TakesKey(Last(n)) => Agrees(max, jems_object_close(j), Front(n))
         /\ Last(n).kind = "array" => Agrees(max, jems_array_close(j), Front(n))
<1> DEFINE p == PlaceIn(Last(n))
<1>1. n \in Stacks /\ Last(n) \in Frames /\ p \in Places /\ Follows(max, j, n)
      /\ j.arg = Standing(n, p)
  BY StackFacts, PlaceType, PlacesStanding DEF Agrees, Follows
<1>2. Front(Standing(n, p)) = PlacesOf(Front(n)) /\ Front(n) \in Stacks
  BY <1>1, Leaving
<1>3. PlacesOf(Front(n)) \in Seq(Places)
  BY <1>2, PlacesStanding, StandingFacts, StackFacts, PlaceType
<1>4. ASSUME NEW token, Read(j.arg, token) = Front(Standing(n, p))
      PROVE  Agrees(max, pop_level(emit_char(j, token)), Front(n))
  <2>1. Read(j.arg, token) = PlacesOf(Front(n)) /\ Read(j.arg, token) \in Seq(Places)
    BY <1>2, <1>3, <1>4
  <2>2. Follows(max, emit_char(j, token), n) /\ emit_char(j, token).arg = PlacesOf(Front(n))
    BY <1>1, <2>1, Writing
  <2> QED
    BY <2>2, Popping DEF Agrees
<1>5. ASSUME TakesKey(Last(n)) PROVE Agrees(max, jems_object_close(j), Front(n))
  <2>1. p \in {"firstKey", "nextPair"}
    BY <1>5 DEF TakesKey, PlaceIn
  <2>2. Read(j.arg, "}") = Front(Standing(n, p))
    BY <1>1, <2>1, ReadClose
  <2> QED
    BY <1>4, <2>2 DEF jems_object_close
<1>6. ASSUME Last(n).kind = "array" PROVE Agrees(max, jems_array_close(j), Front(n))
  <2>1. p \in {"firstItem", "nextItem"}
    BY <1>6 DEF PlaceIn
  <2>2. Read(j.arg, "]") = Front(Standing(n, p))
    BY <1>1, <2>1, ReadClose
  <2> QED
    BY <1>4, <2>2 DEF jems_array_close
<1> QED
  BY <1>5, <1>6

(* The emitter is set up for a new document.                               *)
LEMMA Starting ==
  ASSUME NEW max \in Nat \ {0}, NEW levels \in [0 .. (max - 1) -> [item_count : Nat, is_object : BOOLEAN]]
  PROVE  Agrees(max, jems_init(levels, max, Fresh), <<[kind |-> "document", items |-> 0]>>)
<1> DEFINE f == [kind |-> "document", items |-> 0]
           level == [item_count |-> 0, is_object |-> FALSE]
           new == [levels EXCEPT ![0] = level]
           old == [levels |-> levels, max_level |-> max, curr_level |-> 0, arg |-> Fresh]
           k == jems_init(levels, max, Fresh)
<1>1. max \in Nat \ {0} /\ 0 \in 0 .. (max - 1)
  BY LimitsAssumption
<1>2. Fresh \in Seq(Places)
  BY DEF Fresh, Places
<1>3. old \in Emitters(max) /\ old.levels = levels /\ old.arg = Fresh
  BY <1>1, <1>2 DEF Emitters
<1>4. k = [old EXCEPT !.curr_level = 0, !.levels[0] = level]
  BY DEF jems_init, jems_reset
<1> HIDE DEF old, k
<1>5. k = [old EXCEPT !.curr_level = 0, !.levels = new]
  BY <1>3, <1>4 DEF Emitters
<1>6. /\ new \in [0 .. (max - 1) -> [item_count : Nat, is_object : BOOLEAN]]
      /\ new[0] = level
  BY <1>1
<1> HIDE DEF new
<1>7. k \in Emitters(max) /\ k.levels = new /\ k.curr_level = 0 /\ k.arg = Fresh
  BY <1>3, <1>5, <1>6 DEF Emitters
<1>8. <<f>> \in Seq(Frames) /\ Len(<<f>>) = 1 /\ <<f>>[1] = f
  BY DEF Frames
<1>9. <<f>> \in Stacks
  BY <1>1, <1>8 DEF Stacks
<1>10. Follows(max, k, <<f>>)
  BY <1>6, <1>7, <1>8, <1>9 DEF Follows
<1>11. PlacesOf(<<f>>) = Fresh
  BY DEF PlacesOf, PlaceIn, Fresh
<1> QED
  BY <1>7, <1>10, <1>11 DEF Agrees, k

(* What the client counts is what the emitter counts.                      *)
LEMMA CountIsCounted ==
  ASSUME nest \in Stacks
  PROVE  Count(1) = Counted(nest) /\ Count(2) = Counted(Counted(nest))
<1>1. /\ nest \in Seq(Frames) /\ Len(nest) >= 1 /\ Len(nest) \in Nat
      /\ top \in Frames /\ Plus(top) \in Frames
  BY StackFacts DEF top
<1>2. [top EXCEPT !.items = @ + 1] = Plus(top)
      /\ [top EXCEPT !.items = @ + 2] = Plus(Plus(top))
  BY <1>1 DEF Frames, Plus
<1>3. Front(Counted(nest)) = Front(nest)
  <2> DEFINE s == Counted(nest)
             t == Front(nest)
  <2>1. s \in Seq(Frames) /\ Len(s) = Len(nest)
        /\ \A i \in 1 .. (Len(nest) - 1) : s[i] = nest[i]
    BY CountedFacts DEF Stacks
  <2>2. t \in Seq(Frames) /\ Len(t) = Len(nest) - 1
        /\ \A i \in 1 .. (Len(nest) - 1) : t[i] = nest[i]
    BY <1>1, LastRemoved
  <2> HIDE DEF s, t
  <2>3. Front(s) \in Seq(Frames) /\ Len(Front(s)) = Len(s) - 1
        /\ \A i \in 1 .. (Len(s) - 1) : Front(s)[i] = s[i]
    BY <1>1, <2>1, LastRemoved
  <2>4. Front(s) = t
    BY <1>1, <2>1, <2>2, <2>3, SeqEqual
  <2> QED
    BY <2>4 DEF s, t
<1>4. Count(1) = Counted(nest)
  BY <1>2 DEF Count, Counted, top
<1>5. Last(Counted(nest)) = Plus(top)
  BY CountedFacts DEF top
<1>6. Counted(Counted(nest)) = Append(Front(nest), Plus(Plus(top)))
  BY <1>3, <1>5 DEF Counted
<1> QED
  BY <1>2, <1>4, <1>6 DEF Count

-----------------------------------------------------------------------------
(* The emitter agrees with what the client has open, and the document is   *)
(* the outermost of it: a container that can be closed is not the document.*)
Bottom(frames) == frames[1].kind = "document"

Consistent == Agrees(MAX_LEVEL, jems, nest) /\ Bottom(nest)

LEMMA BottomKept ==
  ASSUME NEW n \in Stacks, Bottom(n)
  PROVE  /\ Bottom(Counted(n))
         /\ \A f \in Frames : Len(n) < MAX_LEVEL => Bottom(Append(n, f))
         /\ Len(n) >= 2 => Bottom(Front(n))
         /\ Last(n).kind # "document" => Len(n) >= 2
<1>1. n \in Seq(Frames) /\ Len(n) \in Nat /\ Len(n) >= 1 /\ Last(n) = n[Len(n)]
  BY StackFacts
<1>2. Bottom(Counted(n))
  <2>1. CASE Len(n) = 1
    <3>1. Counted(n)[1] = Plus(Last(n)) /\ Last(n) = n[1]
      BY <1>1, <2>1, CountedFacts
    <3>2. Plus(Last(n)).kind = Last(n).kind
      BY DEF Plus
    <3> QED
      BY <3>1, <3>2 DEF Bottom
  <2>2. CASE Len(n) >= 2
    BY <1>1, <2>2, CountedFacts DEF Bottom
  <2>3. \A l \in Nat : l >= 1 => l = 1 \/ l >= 2
    OBVIOUS
  <2> QED
    BY <1>1, <2>1, <2>2, <2>3
<1>3. ASSUME NEW f \in Frames, Len(n) < MAX_LEVEL PROVE Bottom(Append(n, f))
  BY <1>1, <1>3, Entering DEF Bottom
<1>4. ASSUME Len(n) >= 2 PROVE Bottom(Front(n))
  BY <1>1, <1>4, LastRemoved DEF Bottom
<1>5. Last(n).kind # "document" => Len(n) >= 2
  BY <1>1 DEF Bottom
<1> QED
  BY <1>2, <1>3, <1>4, <1>5

(* The emitter is consistent with what the client has open from the start, *)
(* and stays so: one step per action.                                      *)
LEMMA InitConsistent == Init => Consistent
<1> SUFFICES ASSUME Init PROVE Consistent
  OBVIOUS
<1>1. ZeroLevels(MAX_LEVEL)
        \in [0 .. (MAX_LEVEL - 1) -> [item_count : Nat, is_object : BOOLEAN]]
  BY DEF ZeroLevels
<1> QED
  BY <1>1, Starting, LimitsAssumption DEF Init, Consistent, Bottom

LEMMA NextConsistent == Consistent /\ [Next]_vars => Consistent'
<1> SUFFICES ASSUME Consistent, [Next]_vars PROVE Consistent'
  OBVIOUS
<1>1. /\ Agrees(MAX_LEVEL, jems, nest) /\ nest \in Stacks /\ Bottom(nest)
      /\ Counted(nest) \in Stacks /\ Len(Counted(nest)) = Len(nest)
      /\ Bottom(Counted(nest))
      /\ Count(1) = Counted(nest) /\ Count(2) = Counted(Counted(nest))
      /\ top = Last(nest) /\ top \in Frames
  BY CountIsCounted, CountedFacts, BottomKept, StackFacts
     DEF Consistent, Agrees, Follows, top
<1>2. (AtKey => TakesKey(Last(nest))) /\ (AtValue => TakesValue(Last(nest)))
  BY <1>1 DEF AtKey, AtValue, TakesKey, TakesValue, Frames
<1>3. Deeper => Len(nest) < MAX_LEVEL
  BY <1>1, StackFacts, LimitsAssumption DEF Deeper
<1>4. ASSUME NEW value \in Scalars, PutScalar(value) PROVE Consistent'
  <2>1. jems' = emit_char(commify(jems), value) /\ nest' = Counted(nest)
    BY <1>1, <1>4 DEF PutScalar, jems_scalar
  <2> QED
    BY <1>1, <1>2, <1>4, <2>1, ValuePut DEF PutScalar, Consistent
<1>5. ASSUME NEW string \in Strings, PutString(string) PROVE Consistent'
  <2>1. jems' = jems_string(jems, string) /\ nest' = Counted(nest)
    BY <1>1, <1>5 DEF PutString
  <2>2. CASE AtValue
    BY <1>1, <1>2, <2>1, <2>2, ValuePut DEF jems_string, Consistent
  <2>3. CASE AtKey
    BY <1>1, <1>2, <2>1, <2>3, KeyPut DEF Consistent
  <2> QED
    BY <1>5, <2>2, <2>3 DEF PutString
<1>6. ASSUME NEW key \in Strings, NEW value \in Scalars \cup Strings, PutPair(key, value)
      PROVE  Consistent'
  <2>1. jems' = emit_char(commify(jems_string(jems, key)), value)
        /\ nest' = Counted(Counted(nest)) /\ AtKey
    BY <1>1, <1>6 DEF PutPair, jems_key_scalar, jems_key_string, jems_scalar, jems_string
  <2>2. Agrees(MAX_LEVEL, jems_string(jems, key), Counted(nest)) /\ TakesValue(Last(Counted(nest)))
    BY <1>1, <1>2, <2>1, KeyPut
  <2>3. Agrees(MAX_LEVEL, jems', nest')
    BY <2>1, <2>2, ValuePut
  <2> QED
    BY <1>1, <2>1, <2>3, BottomKept DEF Consistent
<1>7. ASSUME Open PROVE Consistent'
  <2>1. AtValue /\ Deeper
        /\ \/ jems' = jems_object_open(jems)
              /\ nest' = Append(Counted(nest), [kind |-> "object", items |-> 0])
           \/ jems' = jems_array_open(jems)
              /\ nest' = Append(Counted(nest), [kind |-> "array", items |-> 0])
    BY <1>1, <1>7 DEF Open, Opened
  <2>2. Agrees(MAX_LEVEL, jems', nest')
    BY <1>1, <1>2, <1>3, <2>1, Opening
  <2>3. Bottom(nest')
    <3>1. \A kind \in {"object", "array"} : [kind |-> kind, items |-> 0] \in Frames
      BY DEF Frames
    <3>2. \A kind \in {"object", "array"} :
            Bottom(Append(Counted(nest), [kind |-> kind, items |-> 0]))
      BY <1>1, <1>3, <2>1, <3>1, BottomKept
    <3> QED
      BY <2>1, <3>2
  <2> QED
    BY <2>2, <2>3 DEF Consistent
<1>8. ASSUME NEW key \in Strings, OpenPair(key) PROVE Consistent'
  <2> DEFINE j == jems_string(jems, key)
             m == Counted(nest)
  <2>1. AtKey /\ Deeper
        /\ \/ jems' = jems_object_open(j)
              /\ nest' = Append(Counted(m), [kind |-> "object", items |-> 0])
           \/ jems' = jems_array_open(j)
              /\ nest' = Append(Counted(m), [kind |-> "array", items |-> 0])
    BY <1>1, <1>8 DEF OpenPair, Opened, jems_key_object_open, jems_key_array_open
  <2>2. Agrees(MAX_LEVEL, j, m) /\ TakesValue(Last(m)) /\ Len(m) < MAX_LEVEL
    BY <1>1, <1>2, <1>3, <2>1, KeyPut
  <2>3. m \in Stacks /\ Bottom(m)
    BY <1>1
  <2> HIDE DEF j, m
  <2>4. Agrees(MAX_LEVEL, jems', nest')
    BY <2>1, <2>2, Opening
  <2>5. Bottom(nest')
    <3>1. \A kind \in {"object", "array"} : [kind |-> kind, items |-> 0] \in Frames
      BY DEF Frames
    <3>2. Counted(m) \in Stacks /\ Bottom(Counted(m)) /\ Len(Counted(m)) < MAX_LEVEL
      BY <2>2, <2>3, CountedFacts, BottomKept
    <3>3. \A kind \in {"object", "array"} :
            Bottom(Append(Counted(m), [kind |-> kind, items |-> 0]))
      BY <3>1, <3>2, BottomKept
    <3> QED
      BY <2>1, <3>3
  <2> QED
    BY <2>4, <2>5 DEF Consistent
<1>9. ASSUME Close PROVE Consistent'
  <2>1. top.kind # "document" /\ nest' = Front(nest)
        /\ \/ TakesKey(Last(nest)) /\ jems' = jems_object_close(jems)
           \/ Last(nest).kind = "array" /\ jems' = jems_array_close(jems)
    BY <1>1, <1>2, <1>9 DEF Close, AtKey
  <2>2. Len(nest) >= 2
    BY <1>1, <2>1, BottomKept
  <2>3. Agrees(MAX_LEVEL, jems', nest')
    BY <1>1, <2>1, <2>2, Closing
  <2>4. Bottom(nest')
    BY <1>1, <2>1, <2>2, BottomKept
  <2> QED
    BY <2>3, <2>4 DEF Consistent
<1>10. ASSUME Restart PROVE Consistent'
  <2>1. jems.levels \in [0 .. (MAX_LEVEL - 1) -> [item_count : Nat, is_object : BOOLEAN]]
    BY <1>1 DEF Agrees, Follows, Emitters
  <2> QED
    BY <1>10, <2>1, Starting, LimitsAssumption DEF Restart, Consistent, Bottom
<1>11. CASE UNCHANGED vars
  BY <1>1, <1>11 DEF vars, Consistent
<1> QED
  BY <1>4, <1>5, <1>6, <1>7, <1>8, <1>9, <1>10, <1>11 DEF Next

THEOREM AlwaysConsistent == Spec => []Consistent
  BY InitConsistent, NextConsistent, PTL DEF Spec

(* What has been written is the beginning of a JSON text, and the reader   *)
(* is in the containers the client thinks it is in, at the same places,    *)
(* whatever tokens there are and however many levels.                      *)
THEOREM AlwaysReadable == Spec => []Readable
<1>1. Consistent => Readable
  BY DEF Consistent, Agrees, PlacesOf, Readable
<1> QED
  BY <1>1, AlwaysConsistent, PTL

(* The emitter reports the depth and the number of items that the client   *)
(* has put.                                                                *)
THEOREM AlwaysReportsPosition == Spec => []ReportsPosition
<1>1. Consistent => ReportsPosition
  BY LevelFacts DEF Consistent, Agrees, ReportsPosition, jems_curr_level, jems_item_count, top
<1> QED
  BY <1>1, AlwaysConsistent, PTL
=============================================================================
