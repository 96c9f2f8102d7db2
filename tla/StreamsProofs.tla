--------------------------- MODULE StreamsProofs ---------------------------
(***************************************************************************)
(* Proofs about what the converters of the Responses API make of the lines *)
(* of an upstream, and about the streams of all APIs side by side, without *)
(* the bounds of MCStreams.                                                *)
(***************************************************************************)
EXTENDS MCStreams, RelayProofs

-----------------------------------------------------------------------------
(* Responses: what the client has heard, and what the converter remembers   *)
(* of it                                                                    *)

Orderly(s) == \A i \in 1..Len(s) : Reader!Follows(SubSeq(s, 1, i - 1), s[i])

(* The answer was opened and is not completed; the items that were added,   *)
(* done and filled.                                                         *)
Heard(s, added, done, filled) ==
  /\ s \in Seq(Outs) /\ Orderly(s) /\ s # << >> /\ s[1].type = "created"
  /\ \A i \in DOMAIN s : s[i].type # "completed"
  /\ Reader!With(s, "added") = added /\ Reader!With(s, "done") = done
  /\ Reader!With(s, "delta") = filled

Filled(s) == Reader!With(s, "delta")

(* st is what the converter remembers and s what came out, after lines.     *)
ClaudeItems(lines, st, s) ==
  LET items == 0..(st.next - 1)
      open  == IF st.active = "none" THEN {} ELSE {st.index}
  IN  /\ Heard(s, items, items \ open, Filled(s))
      /\ open \subseteq items
      /\ Filled(s) \subseteq st.output \cup (IF st.filled THEN open ELSE {})
      /\ IF lines # << >> /\ Last(lines).type \in {"open", "piece"}
         THEN st.active = Last(lines).block /\ st.active # "none"
         ELSE st.active = "none"

Talking(st) == (IF st.inReasoning THEN {st.reasoning} ELSE {}) \cup (IF st.inText THEN {st.message} ELSE {})

(* A thought was interrupted by text.                                       *)
Interrupted(lines) ==
  \E i, j \in DOMAIN lines : i < j /\ lines[i].type = "thought" /\ lines[j].type = "text"

GeminiShape(lines, st) ==
  /\ \/ st.reasoning = Nowhere /\ st.message = Nowhere /\ st.next = 0
     \/ st.reasoning = 0 /\ st.message = Nowhere /\ st.next = 1
     \/ st.reasoning = Nowhere /\ st.message = 0 /\ st.next = 1
     \/ st.reasoning = 0 /\ st.message = 1 /\ st.next = 2
     \/ st.reasoning = 1 /\ st.message = 0 /\ st.next = 2
  /\ st.inReasoning => st.reasoning # Nowhere
  /\ st.inText <=> st.message # Nowhere
  /\ st.reasoning # Nowhere /\ ~ st.inReasoning => st.message # Nowhere /\ Interrupted(lines)
  /\ st.reasoning # Nowhere => "thought" \in Types(lines)

GeminiItems(lines, st, s) ==
  /\ GeminiShape(lines, st)
  /\ Heard(s, Given(st), Given(st) \ Talking(st), Filled(s))
  /\ Filled(s) \subseteq Given(st)

(* How far a stream of Chat has come that keeps to its turns.               *)
ChatTypes == {"reasoning", "text", "finish", "usage", "[DONE]", "call", "args"}
Stage(type) ==
  CASE type = "reasoning" -> 1 [] type = "text" -> 2 [] type \in {"call", "args"} -> 3
    [] type = "finish" -> 4 [] type = "usage" -> 5 [] type = "[DONE]" -> 6
StageOf(lines) == IF lines = << >> THEN 0 ELSE Stage(Last(lines).type)

Numbers(lines) == {lines[i].n : i \in {j \in DOMAIN lines : lines[j].type = "call"}}

(* The items of the calls, while they are open.                             *)
Calling(st, g, c) == IF st.active = "tool" THEN g..(g + c - 1) ELSE {}

(* g items were given to reasoning and text, and c to the calls of numbers. *)
ChatShape(turn, numbers, st, g, c) ==
  /\ st.reasoning \in {0, Nowhere}
  /\ st.message \in {Nowhere, IF st.reasoning = Nowhere THEN 0 ELSE 1}
  /\ g = (IF st.reasoning = Nowhere THEN 0 ELSE 1) + (IF st.message = Nowhere THEN 0 ELSE 1)
  /\ st.calls = 0..(c - 1) /\ numbers = st.calls
  /\ st.inReasoning => st.reasoning = 0 /\ st.message = Nowhere
  /\ st.inText => st.message # Nowhere
  /\ c > 0 => ~ st.inReasoning /\ ~ st.inText
  /\ turn <= 1 => st.message = Nowhere /\ (st.reasoning = Nowhere \/ st.inReasoning)
  /\ turn <= 2 => c = 0 /\ (st.message = Nowhere \/ st.inText)
  /\ turn <= 3 => (c > 0 => st.active = "tool")
  /\ st.active = "tool" => c > 0

ChatItems(lines, st, s, g, c) ==
  /\ ChatShape(StageOf(lines), Numbers(lines), st, g, c)
  /\ Heard(s, 0..(g + c - 1), (0..(g + c - 1)) \ (Talking(st) \cup Calling(st, g, c)), Filled(s))
  /\ Filled(s) \subseteq 0..(g + c - 1)

-----------------------------------------------------------------------------

LEMMA OrderlyAppend ==
  ASSUME NEW s \in Seq(Outs), NEW e \in Outs, NEW t, t = Append(s, e)
  PROVE  Orderly(t) <=> Orderly(s) /\ Reader!Follows(s, e)
  <1>1. /\ t \in Seq(Outs) /\ Len(t) = Len(s) + 1 /\ Len(s) \in Nat /\ t[Len(s) + 1] = e
        /\ \A i \in 1..Len(s) : t[i] = s[i]
    BY AppendProperties
  <1>2. \A i \in 1..(Len(s) + 1) : SubSeq(t, 1, i - 1) = SubSeq(s, 1, i - 1)
    <2> SUFFICES ASSUME NEW i \in 1..(Len(s) + 1) PROVE SubSeq(t, 1, i - 1) = SubSeq(s, 1, i - 1)
      OBVIOUS
    <2>1. /\ i - 1 \in Nat /\ i - 1 <= Len(s) /\ i - 1 <= Len(t)
          /\ \A j \in 1..(i - 1) : j \in 1..Len(s) /\ j \in 1..Len(t)
      BY <1>1
    <2> DEFINE a == SubSeq(t, 1, i - 1)
               b == SubSeq(s, 1, i - 1)
    <2>2. a \in Seq(Outs) /\ Len(a) = i - 1 /\ \A j \in 1..(i - 1) : a[j] = t[j]
      BY <1>1, <2>1, SubSeqProperties
    <2>3. b \in Seq(Outs) /\ Len(b) = i - 1 /\ \A j \in 1..(i - 1) : b[j] = s[j]
      BY <1>1, <2>1, SubSeqProperties
    <2> HIDE DEF a, b
    <2>4. \A j \in 1..Len(a) : a[j] = b[j]
      BY <1>1, <2>1, <2>2, <2>3
    <2>5. a = b
      BY <2>2, <2>3, <2>4, SeqEqual
    <2> QED
      BY <2>5 DEF a, b
  <1>3. SubSeq(s, 1, (Len(s) + 1) - 1) = s
    <2>1. (Len(s) + 1) - 1 = Len(s)
      BY <1>1
    <2>2. SubSeq(s, 1, Len(s)) = s
      <3> DEFINE b == SubSeq(s, 1, Len(s))
      <3>1. b \in Seq(Outs) /\ Len(b) = Len(s) /\ \A j \in 1..Len(s) : b[j] = s[j]
        BY <1>1, SubSeqProperties
      <3> HIDE DEF b
      <3>2. b = s
        BY <3>1, SeqEqual
      <3> QED
        BY <3>2 DEF b
    <2> QED
      BY <2>1, <2>2
  <1> DEFINE F(i) == Reader!Follows(SubSeq(s, 1, i - 1), t[i])
  <1>4. Orderly(t) <=> \A i \in 1..(Len(s) + 1) : F(i)
    BY <1>1, <1>2 DEF Orderly
  <1>5. F(Len(s) + 1) <=> Reader!Follows(s, e)
    BY <1>1, <1>3
  <1>6. Orderly(s) <=> \A i \in 1..Len(s) : F(i)
    BY <1>1 DEF Orderly
  <1> HIDE DEF F
  <1>7. (\A i \in 1..(Len(s) + 1) : F(i)) <=> F(Len(s) + 1) /\ \A i \in 1..Len(s) : F(i)
    <2>1. \A i \in 1..(Len(s) + 1) : i = Len(s) + 1 \/ i \in 1..Len(s)
      BY <1>1
    <2>2. Len(s) + 1 \in 1..(Len(s) + 1) /\ \A i \in 1..Len(s) : i \in 1..(Len(s) + 1)
      BY <1>1
    <2> QED
      BY <2>1, <2>2
  <1> QED
    BY <1>4, <1>5, <1>6, <1>7

Widened(t, s, e, type) ==
  Reader!With(t, type) = Reader!With(s, type) \cup (IF e.type = type THEN {e.item} ELSE {})

LEMMA WithAppend ==
  ASSUME NEW s \in Seq(Outs), NEW e \in Outs, NEW t, t = Append(s, e), NEW type
  PROVE  Widened(t, s, e, type)
  <1>1. /\ DOMAIN t = 1..(Len(s) + 1) /\ DOMAIN s = 1..Len(s) /\ Len(s) \in Nat /\ t[Len(s) + 1] = e
        /\ \A i \in 1..Len(s) : t[i] = s[i]
    BY AppendProperties
  <1>2. \A i \in DOMAIN t : i = Len(s) + 1 \/ i \in DOMAIN s
    BY <1>1
  <1>3. Len(s) + 1 \in DOMAIN t /\ \A i \in DOMAIN s : i \in DOMAIN t /\ t[i] = s[i]
    BY <1>1
  <1> QED
    BY <1>1, <1>2, <1>3 DEF Reader!With, Widened

(* One more event.                                                          *)
LEMMA HeardMore ==
  ASSUME NEW s, NEW added, NEW done, NEW filled, Heard(s, added, done, filled),
         NEW e \in Outs, e.type # "completed", Reader!Follows(s, e), NEW t, t = s \o <<e>>
  PROVE  Heard(t, added \cup (IF e.type = "added" THEN {e.item} ELSE {}),
                  done \cup (IF e.type = "done" THEN {e.item} ELSE {}),
                  filled \cup (IF e.type = "delta" THEN {e.item} ELSE {}))
  <1>1. s \in Seq(Outs)
    BY DEF Heard
  <1>2. /\ t = Append(s, e) /\ t \in Seq(Outs) /\ t # << >> /\ DOMAIN t = 1..(Len(s) + 1)
        /\ \A i \in 1..Len(s) : t[i] = s[i]
        /\ t[Len(s) + 1] = e
    BY <1>1, AppendFacts, AppendProperties
  <1>3. Orderly(t)
    BY <1>1, <1>2, OrderlyAppend DEF Heard
  <1>4. Len(s) \in Nat /\ DOMAIN s = 1..Len(s) /\ 1 \in 1..Len(s)
    BY <1>1, EmptySeq DEF Heard
  <1>5. t[1].type = "created" /\ \A i \in DOMAIN t : t[i].type # "completed"
    <2>1. \A i \in DOMAIN t : i = Len(s) + 1 \/ i \in 1..Len(s)
      BY <1>2, <1>4
    <2> QED
      BY <1>2, <1>4, <2>1 DEF Heard
  <1>6. t = Append(s, e)
    BY <1>2
  <1>7. Widened(t, s, e, "added") /\ Widened(t, s, e, "done") /\ Widened(t, s, e, "delta")
    BY <1>1, <1>6, WithAppend
  <1> QED
    BY <1>2, <1>3, <1>5, <1>7 DEF Heard, Widened

LEMMA AboutIs ==
  ASSUME NEW type \in {"added", "delta", "done"}, NEW i \in Nat, NEW kind \in Shape!Kinds
  PROVE  /\ About(type, i, kind) \in Outs
         /\ About(type, i, kind).type = type /\ About(type, i, kind).item = i
  BY DEF About, Shape!About, Outs

LEMMA HeardAdded ==
  ASSUME NEW s, NEW added, NEW done, NEW filled, Heard(s, added, done, filled),
         NEW i \in Nat, NEW kind \in Shape!Kinds, i \notin added,
         NEW t, t = s \o <<About("added", i, kind)>>
  PROVE  Heard(t, added \cup {i}, done, filled)
  <1> DEFINE e == About("added", i, kind)
  <1>1. e \in Outs /\ e.type = "added" /\ e.item = i
    BY AboutIs
  <1> HIDE DEF e
  <1>2. Reader!Follows(s, e)
    BY <1>1 DEF Reader!Follows, Heard
  <1>3. Heard(t, added \cup {i}, done \cup {}, filled \cup {})
    BY <1>1, <1>2, HeardMore DEF e
  <1>4. done \cup {} = done /\ filled \cup {} = filled
    OBVIOUS
  <1> QED
    BY <1>3, <1>4

LEMMA HeardDelta ==
  ASSUME NEW s, NEW added, NEW done, NEW filled, Heard(s, added, done, filled),
         NEW i \in Nat, NEW kind \in Shape!Kinds, i \in added, i \notin done,
         NEW t, t = s \o <<About("delta", i, kind)>>
  PROVE  Heard(t, added, done, filled \cup {i})
  <1> DEFINE e == About("delta", i, kind)
  <1>1. e \in Outs /\ e.type = "delta" /\ e.item = i
    BY AboutIs
  <1> HIDE DEF e
  <1>2. Reader!Follows(s, e)
    BY <1>1 DEF Reader!Follows, Reader!IsOpen, Heard
  <1>3. Heard(t, added \cup {}, done \cup {}, filled \cup {i})
    <2>1. t = s \o <<e>> /\ e.type # "completed"
      BY <1>1 DEF e
    <2> DEFINE a == added \cup (IF e.type = "added" THEN {e.item} ELSE {})
               d == done \cup (IF e.type = "done" THEN {e.item} ELSE {})
               f == filled \cup (IF e.type = "delta" THEN {e.item} ELSE {})
    <2>2. Heard(t, a, d, f)
      <3>1. e \in Outs
        BY <1>1
      <3> QED
        BY <1>2, <2>1, <3>1, HeardMore
    <2>3. a = added \cup {} /\ d = done \cup {} /\ f = filled \cup {i}
      BY <1>1
    <2> HIDE DEF a, d, f
    <2> QED
      BY <2>2, <2>3
  <1>4. done \cup {} = done /\ added \cup {} = added
    OBVIOUS
  <1> QED
    BY <1>3, <1>4

LEMMA HeardDone ==
  ASSUME NEW s, NEW added, NEW done, NEW filled, Heard(s, added, done, filled),
         NEW i \in Nat, NEW kind \in Shape!Kinds, i \in added, i \notin done,
         NEW t, t = s \o <<About("done", i, kind)>>
  PROVE  Heard(t, added, done \cup {i}, filled)
  <1> DEFINE e == About("done", i, kind)
  <1>1. e \in Outs /\ e.type = "done" /\ e.item = i
    BY AboutIs
  <1> HIDE DEF e
  <1>2. Reader!Follows(s, e)
    BY <1>1 DEF Reader!Follows, Reader!IsOpen, Heard
  <1>3. Heard(t, added \cup {}, done \cup {i}, filled \cup {})
    BY <1>1, <1>2, HeardMore DEF e
  <1>4. filled \cup {} = filled /\ added \cup {} = added
    OBVIOUS
  <1> QED
    BY <1>3, <1>4

LEMMA HeardNothing ==
  ASSUME NEW s, NEW added, NEW done, NEW filled, Heard(s, added, done, filled),
         NEW t, t = s \o << >>
  PROVE  Heard(t, added, done, filled)
  <1>1. s \o << >> = s
    BY ConcatEmptySeq DEF Heard
  <1> QED
    BY <1>1

(* response.completed, once all items are done.                             *)
LEMMA HeardCompleted ==
  ASSUME NEW s, NEW items, NEW filled, Heard(s, items, items, filled),
         NEW st \in States, filled \subseteq st.output, NEW t, t = s \o Complete(st).out
  PROVE  t \in Seq(Outs) /\ Orderly(t)
  <1> DEFINE kind == IF st.called THEN "function_call" ELSE "none"
             e == Shape!Completed(kind, st.output)
  <1>1. e \in Outs /\ e.type = "completed" /\ e.output = st.output
    <2>1. kind \in Shape!Kinds \cup {"none"} /\ st.output \in SUBSET Nat
      BY DEF Shape!Kinds, States
    <2> HIDE DEF kind
    <2> QED
      BY <2>1 DEF Shape!Completed, Outs
  <1>2. Complete(st).out = <<e>>
    BY DEF Complete, Result
  <1> HIDE DEF e
  <1>3. Reader!Follows(s, e) /\ s \in Seq(Outs) /\ Orderly(s)
    BY <1>1 DEF Reader!Follows, Heard
  <1>4. t = Append(s, e) /\ t \in Seq(Outs)
    BY <1>1, <1>2, <1>3, AppendFacts
  <1> QED
    BY <1>1, <1>3, <1>4, OrderlyAppend

(* What the client hears first.                                             *)
LEMMA HeardOpening == Heard(Opening2, {}, {}, {})
  <1> DEFINE c == Shape!Plain("created")
             p == Shape!Plain("progress")
             none == << >>
             one == <<c>>
  <1>1. c \in Outs /\ p \in Outs /\ c.type = "created" /\ p.type = "progress"
    <2>1. 0 \in Nat /\ "none" \in Shape!Kinds \cup {"none"} /\ {} \in SUBSET Nat
      OBVIOUS
    <2> QED
      BY <2>1, OutsAre
  <1>2. Opening2 = <<c, p>>
    BY DEF Opening2
  <1> HIDE DEF c, p
  <1>3. none \in Seq(Outs) /\ Orderly(none) /\ Reader!Follows(none, c)
    BY <1>1, EmptySeq DEF Orderly, Reader!Follows
  <1>4. one \in Seq(Outs) /\ one = Append(none, c) /\ one # << >> /\ Last(one) = c /\ Reader!Last(one) = c
    BY <1>1 DEF Last, Reader!Last
  <1>5. Orderly(one)
    BY <1>1, <1>3, <1>4, OrderlyAppend
  <1>6. Reader!Follows(one, p)
    BY <1>1, <1>4 DEF Reader!Follows
  <1>7. Opening2 = Append(one, p) /\ Opening2 \in Seq(Outs) /\ Len(Opening2) = 2 /\ DOMAIN Opening2 = 1..2
        /\ Opening2[1] = c /\ Opening2[2] = p
    BY <1>1, <1>2
  <1>8. Orderly(Opening2)
    BY <1>1, <1>4, <1>5, <1>6, <1>7, OrderlyAppend
  <1>9. \A i \in DOMAIN Opening2 : Opening2[i].type \in {"created", "progress"}
    BY <1>1, <1>7
  <1> HIDE DEF one, none
  <1>10. \A type \in {"added", "done", "delta"} : Reader!With(Opening2, type) = {}
    BY <1>9 DEF Reader!With
  <1> QED
    BY <1>1, <1>7, <1>8, <1>9, <1>10 DEF Heard

LEMMA HeardFilled ==
  ASSUME NEW s, NEW added, NEW done, NEW filled, Heard(s, added, done, filled)
  PROVE  s \in Seq(Outs) /\ Orderly(s) /\ filled = Filled(s)
  BY DEF Heard, Filled

(* One more line.                                                           *)
LEMMA MoreLines ==
  ASSUME NEW lines \in Seq(ConvLines), NEW line \in ConvLines, NEW more, more = Append(lines, line)
  PROVE  /\ more # << >> /\ Last(more) = line
         /\ Types(more) = Types(lines) \cup {line.type}
         /\ Numbers(more) = Numbers(lines) \cup (IF line.type = "call" THEN {line.n} ELSE {})
  <1>1. /\ DOMAIN more = 1..(Len(lines) + 1) /\ DOMAIN lines = 1..Len(lines) /\ Len(lines) \in Nat
        /\ more[Len(lines) + 1] = line /\ \A i \in 1..Len(lines) : more[i] = lines[i]
    BY AppendProperties
  <1>2. \A i \in DOMAIN more : i = Len(lines) + 1 \/ i \in DOMAIN lines
    BY <1>1
  <1>3. Len(lines) + 1 \in DOMAIN more /\ \A i \in DOMAIN lines : i \in DOMAIN more /\ more[i] = lines[i]
    BY <1>1
  <1>4. more # << >> /\ Last(more) = line
    <2>1. Len(more) = Len(lines) + 1
      BY AppendProperties
    <2> QED
      BY <1>1, <2>1 DEF Last
  <1>5. Types(more) = Types(lines) \cup {line.type}
    BY <1>1, <1>2, <1>3 DEF Types
  <1>6. Numbers(more) = Numbers(lines) \cup (IF line.type = "call" THEN {line.n} ELSE {})
    BY <1>1, <1>2, <1>3 DEF Numbers
  <1> QED
    BY <1>4, <1>5, <1>6

LEMMA InterruptedMore ==
  ASSUME NEW lines \in Seq(ConvLines), NEW line \in ConvLines, NEW more, more = Append(lines, line)
  PROVE  /\ Interrupted(lines) => Interrupted(more)
         /\ line.type = "text" /\ "thought" \in Types(lines) => Interrupted(more)
  <1>1. /\ DOMAIN more = 1..(Len(lines) + 1) /\ DOMAIN lines = 1..Len(lines) /\ Len(lines) \in Nat
        /\ more[Len(lines) + 1] = line /\ \A i \in 1..Len(lines) : more[i] = lines[i]
    BY AppendProperties
  <1>2. ASSUME Interrupted(lines) PROVE Interrupted(more)
    <2>1. PICK i, j \in DOMAIN lines : i < j /\ lines[i].type = "thought" /\ lines[j].type = "text"
      BY <1>2 DEF Interrupted
    <2>2. i \in DOMAIN more /\ j \in DOMAIN more /\ more[i] = lines[i] /\ more[j] = lines[j]
      BY <1>1
    <2> QED
      BY <2>1, <2>2 DEF Interrupted
  <1>3. ASSUME line.type = "text", "thought" \in Types(lines) PROVE Interrupted(more)
    <2>1. PICK i \in DOMAIN lines : lines[i].type = "thought"
      BY <1>3 DEF Types
    <2>2. /\ i \in DOMAIN more /\ more[i] = lines[i] /\ Len(lines) + 1 \in DOMAIN more
          /\ i < Len(lines) + 1 /\ more[Len(lines) + 1] = line
      BY <1>1
    <2> QED
      BY <1>3, <2>1, <2>2 DEF Interrupted
  <1> QED
    BY <1>2, <1>3

(* What it means of the last line that an upstream keeps to its turns.      *)
NextInTurn(lines, line) ==
  /\ InTurn(lines)
  /\ source = "gemini" /\ line.type = "thought" => ~ Interrupted(lines)
  /\ source = "chat" /\ lines # << >> =>
       /\ line.type = "reasoning" => Last(lines).type = "reasoning"
       /\ line.type = "text" => Last(lines).type \in {"reasoning", "text"}

LEMMA InTurnMore ==
  ASSUME NEW lines \in Seq(ConvLines), NEW line \in ConvLines, NEW more, more = Append(lines, line),
         InTurn(more)
  PROVE  NextInTurn(lines, line)
  <1> DEFINE n == Len(lines) + 1
  <1>1. /\ DOMAIN more = 1..n /\ DOMAIN lines = 1..Len(lines) /\ Len(lines) \in Nat
        /\ more[n] = line /\ \A i \in 1..Len(lines) : more[i] = lines[i]
    BY AppendProperties
  <1>2. /\ n \in DOMAIN more
        /\ \A i \in DOMAIN lines : i \in DOMAIN more /\ more[i] = lines[i] /\ i < n
    BY <1>1
  <1> HIDE DEF n
  <1>3. source = "chat" => \A i, j \in DOMAIN more : i < j =>
          /\ more[j].type = "reasoning" => more[i].type = "reasoning"
          /\ more[j].type = "text" => more[i].type \in {"reasoning", "text"}
    BY DEF InTurn
  <1>4. source = "gemini" => \A i, j, k \in DOMAIN more :
          i < j /\ j < k /\ more[i].type = "thought" /\ more[j].type = "text" => more[k].type # "thought"
    BY DEF InTurn
  <1>5. InTurn(lines)
    <2>1. source = "chat" => \A i, j \in DOMAIN lines : i < j =>
            /\ lines[j].type = "reasoning" => lines[i].type = "reasoning"
            /\ lines[j].type = "text" => lines[i].type \in {"reasoning", "text"}
      BY <1>2, <1>3
    <2>2. source = "gemini" => \A i, j, k \in DOMAIN lines :
            i < j /\ j < k /\ lines[i].type = "thought" /\ lines[j].type = "text" => lines[k].type # "thought"
      BY <1>2, <1>4
    <2> QED
      BY <2>1, <2>2 DEF InTurn
  <1>6. source = "gemini" /\ line.type = "thought" => ~ Interrupted(lines)
    BY <1>1, <1>2, <1>4 DEF Interrupted
  <1>7. ASSUME source = "chat", lines # << >>
        PROVE  /\ line.type = "reasoning" => Last(lines).type = "reasoning"
               /\ line.type = "text" => Last(lines).type \in {"reasoning", "text"}
    <2>1. Len(lines) \in DOMAIN lines /\ Last(lines) = lines[Len(lines)]
      BY <1>1, <1>7 DEF Last
    <2> QED
      BY <1>1, <1>2, <1>3, <1>7, <2>1
  <1> QED
    BY <1>5, <1>6, <1>7 DEF NextInTurn

-----------------------------------------------------------------------------
(* Responses: the lines of Claude *)

Claudes(more, r, t, st) == ClaudeItems(more, r.st, t) /\ r.st.first = st.first

LEMMA StartHeard ==
  ASSUME NEW lines, NEW st \in States, NEW s, ClaudeItems(lines, st, s), st.active = "none",
         NEW more, more # << >>, Last(more).type = "open", Last(more).block \in Upstream!Blocks,
         NEW r, r = StartItem(st, Last(more).block), NEW t, t = s \o r.out
  PROVE  Claudes(more, r, t, st)
  <1> DEFINE b == Last(more).block
             n == st.next
             m == st.next + 1
             next == [st EXCEPT !.active = b, !.index = st.next, !.next = @ + 1, !.filled = FALSE]
  <1>1. n \in Nat /\ b # "none" /\ m \in Nat /\ m - 1 = n /\ n - 1 \in Int
    BY DEF States, Upstream!Blocks
  <1>2. r.st = next /\ r.out = <<About("added", n, ItemKind(b))>>
    BY DEF StartItem, Result
  <1>3. /\ next.active = b /\ next.index = n /\ next.next = m /\ next.filled = FALSE
        /\ next.output = st.output /\ next.first = st.first
    BY DEF States
  <1> HIDE DEF next
  <1>4. Heard(s, 0..(n - 1), (0..(n - 1)) \ {}, Filled(s)) /\ Filled(s) \subseteq st.output
    BY DEF ClaudeItems
  <1>5. n \notin 0..(n - 1) /\ (0..(n - 1)) \cup {n} = 0..n /\ (0..n) \ {n} = 0..(n - 1)
        /\ (0..(n - 1)) \ {} = 0..(n - 1) /\ n \in 0..n
    BY <1>1
  <1> HIDE DEF n, m, b
  <1>6. Heard(t, (0..(n - 1)) \cup {n}, (0..(n - 1)) \ {}, Filled(s))
    BY <1>1, <1>2, <1>4, <1>5, HeardAdded, ItemKindTyped
  <1>7. Filled(t) = Filled(s)
    BY <1>6, HeardFilled
  <1>8. Heard(t, 0..n, (0..n) \ {n}, Filled(t))
    BY <1>5, <1>6, <1>7
  <1> QED
    BY <1>1, <1>2, <1>3, <1>4, <1>5, <1>7, <1>8 DEF Claudes, ClaudeItems, b

LEMMA FillHeard ==
  ASSUME NEW lines, NEW st \in States, NEW s, ClaudeItems(lines, st, s), st.active # "none",
         NEW more, more # << >>, Last(more).type = "piece", Last(more).block = st.active,
         NEW r, r = FillItem(st), NEW t, t = s \o r.out
  PROVE  Claudes(more, r, t, st)
  <1> DEFINE next == [st EXCEPT !.filled = TRUE]
             i == st.index
             items == 0..(st.next - 1)
  <1>1. r.st = next /\ r.out = <<About("delta", i, ItemKind(st.active))>>
    BY DEF FillItem, Result
  <1>2. /\ next.active = st.active /\ next.index = i /\ next.next = st.next /\ next.filled = TRUE
        /\ next.output = st.output /\ next.first = st.first /\ i \in Nat
    BY DEF States
  <1> HIDE DEF next
  <1>3. Heard(s, items, items \ {i}, Filled(s)) /\ i \in items /\ Filled(s) \subseteq st.output \cup {i}
    BY DEF ClaudeItems
  <1> HIDE DEF items, i
  <1>4. Heard(t, items, items \ {i}, Filled(s) \cup {i})
    <2> DEFINE done == items \ {i}
               k == ItemKind(st.active)
    <2>1. Heard(s, items, done, Filled(s)) /\ i \in items /\ i \notin done
      BY <1>3
    <2>2. k \in Shape!Kinds /\ t = s \o <<About("delta", i, k)>>
      BY <1>1, ItemKindTyped
    <2> HIDE DEF done, k
    <2>3. Heard(t, items, done, Filled(s) \cup {i})
      BY <1>2, <2>1, <2>2, HeardDelta
    <2> QED
      BY <2>3 DEF done
  <1>5. Filled(t) = Filled(s) \cup {i}
    BY <1>4, HeardFilled
  <1> QED
    BY <1>1, <1>2, <1>3, <1>4, <1>5 DEF Claudes, ClaudeItems, items, i

LEMMA CloseHeard ==
  ASSUME NEW lines, NEW st \in States, NEW s, ClaudeItems(lines, st, s), st.active # "none",
         NEW more, more # << >>, Last(more).type = "close",
         NEW r, r = CloseItem(st), NEW t, t = s \o r.out
  PROVE  Claudes(more, r, t, st)
  <1> DEFINE next == [st EXCEPT !.active = "none",
                         !.output = IF st.filled \/ st.active = "tool" THEN @ \cup {st.index} ELSE @,
                         !.called = @ \/ st.active = "tool" \/ (st.active = "thinking" /\ st.filled)]
             i == st.index
             items == 0..(st.next - 1)
  <1>1. r.st = next /\ r.out = <<About("done", i, ItemKind(st.active))>>
    BY DEF CloseItem, Result
  <1>2. /\ next.active = "none" /\ next.next = st.next /\ next.filled = st.filled
        /\ st.output \subseteq next.output /\ (st.filled => i \in next.output) /\ next.first = st.first
        /\ i \in Nat
    BY DEF States
  <1> HIDE DEF next
  <1>3. /\ Heard(s, items, items \ {i}, Filled(s)) /\ i \in items
        /\ Filled(s) \subseteq st.output \cup (IF st.filled THEN {i} ELSE {})
    BY DEF ClaudeItems
  <1> HIDE DEF items, i
  <1>4. Heard(t, items, (items \ {i}) \cup {i}, Filled(s))
    BY <1>1, <1>2, <1>3, HeardDone, ItemKindTyped
  <1>5. Filled(t) = Filled(s)
    BY <1>4, HeardFilled
  <1>6. (items \ {i}) \cup {i} = items \ {}
    BY <1>3
  <1>7. Heard(t, items, items \ {}, Filled(t)) /\ Filled(t) \subseteq next.output
    BY <1>2, <1>3, <1>4, <1>5, <1>6
  <1> QED
    BY <1>1, <1>2, <1>7 DEF Claudes, ClaudeItems, items

ClaudeSteps(line, more, r, t, st) ==
  /\ t \in Seq(Outs) /\ Orderly(t) /\ r.st.first = st.first
  /\ line.type # "stop" => ClaudeItems(more, r.st, t)

LEMMA ClaudeStep ==
  ASSUME NEW lines \in Seq(ConvLines), NEW line \in ConvLines, NEW more, more = Append(lines, line),
         NEW st \in States, NEW s, ClaudeItems(lines, st, s),
         Upstream!Follows(lines, line), line.type \in {"start", "delta", "stop", "open", "piece", "close"},
         line.type \in {"open", "piece", "close"} => line.block \in Upstream!Blocks,
         NEW r, r = ClaudeLine(st, line), NEW t, t = s \o r.out
  PROVE  ClaudeSteps(line, more, r, t, st)
  <1> USE DEF ClaudeSteps
  <1>1. more # << >> /\ Last(more) = line
    BY MoreLines
  <1> DEFINE last == IF lines = << >> THEN Upstream!Bare("nothing") ELSE Last(lines)
             open == last.type \in {"open", "piece"}
  <1>2. /\ line.type = "start" => lines = << >>
        /\ line.type = "open" => last.type \in {"start", "close"}
        /\ line.type \in {"piece", "close"} => open /\ last.block = line.block
        /\ line.type \in {"delta", "stop"} => last.type \in {"start", "close", "delta", "bare"}
    <2>1. last.type # "blank"
      <3>1. lines # << >> => Last(lines) \in ConvLines
        BY EmptySeq DEF Last
      <3> QED
        BY <3>1 DEF ConvLines, Upstream!Bare
    <2> QED
      BY <2>1 DEF Upstream!Follows, Upstream!IsError, Upstream!Last, Last
  <1>3. IF open THEN st.active = last.block /\ st.active # "none" ELSE st.active = "none"
    BY DEF ClaudeItems, Upstream!Bare
  <1>4. ClaudeItems(lines, st, s) => Heard(s, 0..(st.next - 1), (0..(st.next - 1)) \ {}, Filled(s)) \/ st.active # "none"
    BY DEF ClaudeItems
  <1>5. ClaudeItems(more, r.st, t) => t \in Seq(Outs) /\ Orderly(t)
    BY DEF ClaudeItems, Heard
  <1> HIDE DEF last, open
  <1>6. CASE line.type = "open"
    <2>1. r = StartItem(st, Last(more).block) /\ st.active = "none"
      BY <1>1, <1>2, <1>3, <1>6 DEF ClaudeLine, open
    <2>2. more # << >> /\ Last(more).type = "open" /\ Last(more).block \in Upstream!Blocks
      BY <1>1, <1>6, <2>1
    <2>3. Claudes(more, r, t, st)
      BY <2>1, <2>2, StartHeard
    <2> QED
      BY <1>5, <2>3 DEF Claudes
  <1>7. CASE line.type = "piece"
    <2>1. r = FillItem(st) /\ st.active = line.block /\ st.active # "none"
      BY <1>2, <1>3, <1>7 DEF ClaudeLine
    <2>2. more # << >> /\ Last(more).type = "piece" /\ Last(more).block = st.active
      BY <1>1, <1>7, <2>1
    <2>3. Claudes(more, r, t, st)
      BY <2>1, <2>2, FillHeard
    <2> QED
      BY <1>5, <2>3 DEF Claudes
  <1>8. CASE line.type = "close"
    <2>1. r = CloseItem(st) /\ st.active # "none"
      BY <1>2, <1>3, <1>8 DEF ClaudeLine
    <2>2. more # << >> /\ Last(more).type = "close"
      BY <1>1, <1>8, <2>1
    <2>3. Claudes(more, r, t, st)
      BY <2>1, <2>2, CloseHeard
    <2> QED
      BY <1>5, <2>3 DEF Claudes
  <1>9. CASE line.type \in {"start", "delta"}
    <2>1. r = Result(st, << >>)
      BY <1>9 DEF ClaudeLine
    <2>2. r.st = st /\ r.out = << >>
      BY <2>1, ResultFields
    <2>3. st.active = "none"
      BY <1>2, <1>3, <1>9 DEF open, last, Upstream!Bare
    <2>4. s \in Seq(Outs) /\ t = s
      BY <2>2, ConcatEmptySeq DEF ClaudeItems, Heard
    <2>5. ClaudeItems(more, st, s)
      BY <1>1, <1>9, <2>3 DEF ClaudeItems
    <2> QED
      BY <1>5, <2>2, <2>4, <2>5
  <1>10. CASE line.type = "stop"
    <2>1. st.active = "none"
      BY <1>2, <1>3, <1>10 DEF open
    <2>2. CloseItem(st) = Result(st, << >>)
      BY <2>1 DEF CloseItem
    <2> DEFINE c == CloseItem(st)
    <2>3. r = Result(Complete(c.st).st, c.out \o Complete(c.st).out)
      BY <1>10 DEF ClaudeLine, Then
    <2>4. c.st = st /\ c.out = << >>
      BY <2>2, ResultFields
    <2> HIDE DEF c
    <2>5. Complete(st) \in Results /\ Complete(st).out \in Seq(Outs) /\ Complete(st).st = st
      BY CompleteTyped, ResultFields DEF Complete, Results
    <2>6. r = Result(st, Complete(st).out)
      BY <2>3, <2>4, <2>5, ConcatEmptySeq
    <2>7. r.st = st /\ r.out = Complete(st).out
      BY <2>6, ResultFields
    <2> DEFINE items == 0..(st.next - 1)
    <2>8. Heard(s, items, items \ {}, Filled(s)) /\ Filled(s) \subseteq st.output /\ items \ {} = items
      BY <2>1 DEF ClaudeItems
    <2> HIDE DEF items
    <2>9. Heard(s, items, items, Filled(s)) /\ Filled(s) \subseteq st.output
      BY <2>8
    <2>10. t = s \o Complete(st).out
      BY <2>7
    <2> QED
      BY <1>10, <2>7, <2>9, <2>10, HeardCompleted
  <1> QED
    BY <1>6, <1>7, <1>8, <1>9, <1>10

-----------------------------------------------------------------------------
(* Responses: the items that Gemini and Chat share *)

(* What closing, and filling, an item of text or reasoning leaves alone.    *)
Apart(st, u) ==
  /\ u \in States /\ u.first = st.first /\ u.active = st.active /\ u.calls = st.calls

(* What is joined to what is joined.                                        *)
LEMMA Grouped ==
  \A s, x, y \in Seq(Outs) : s \o (x \o y) = (s \o x) \o y
  BY Regroup

ReasoningShut(st, r) ==
  /\ r \in Results /\ Apart(st, r.st) /\ r.st.next = st.next
  /\ r.st.reasoning = st.reasoning /\ r.st.message = st.message
  /\ ~ r.st.inReasoning /\ r.st.inText = st.inText

ReasoningCloses(s, added, done, filled, st) ==
  LET r == CloseReasoning(st)
  IN  /\ Heard(s \o r.out, added, done \cup (IF st.inReasoning THEN {st.reasoning} ELSE {}), filled)
      /\ ReasoningShut(st, r)

LEMMA CloseReasoningHeard ==
  ASSUME NEW s, NEW added, NEW done, NEW filled, Heard(s, added, done, filled),
         NEW st \in States, st.inReasoning => st.reasoning \in added /\ st.reasoning \notin done
  PROVE  ReasoningCloses(s, added, done, filled, st)
  <1> SUFFICES ASSUME NEW r, r = CloseReasoning(st), NEW t, t = s \o r.out,
                      NEW d, d = done \cup (IF st.inReasoning THEN {st.reasoning} ELSE {})
               PROVE  Heard(t, added, d, filled) /\ ReasoningShut(st, r)
    BY DEF ReasoningCloses
  <1> DEFINE next == [st EXCEPT !.inReasoning = FALSE]
             i == st.reasoning
             e == <<About("done", i, "reasoning")>>
  <1>1. /\ i \in Nat /\ "reasoning" \in Shape!Kinds /\ st.inReasoning \in BOOLEAN
        /\ next.inReasoning = FALSE /\ next.inText = st.inText /\ next.next = st.next
        /\ next.reasoning = st.reasoning /\ next.message = st.message
        /\ Apart(st, next) /\ Apart(st, st)
    BY DEF States, Shape!Kinds, Apart
  <1>2. r = IF st.inReasoning THEN Result(next, e) ELSE Result(st, << >>)
    BY DEF CloseReasoning
  <1>3. r \in Results
    BY CloseReasoningTyped
  <1> HIDE DEF next, e, i
  <1>4. CASE st.inReasoning
    <2>1. r.st = next /\ r.out = e
      BY <1>2, <1>4, ResultFields
    <2>2. Heard(t, added, done \cup {i}, filled)
      <3>1. i \in added /\ i \notin done /\ t = s \o <<About("done", i, "reasoning")>>
        BY <1>4, <2>1 DEF e, i
      <3> QED
        BY <1>1, <3>1, HeardDone
    <2>3. d = done \cup {i}
      BY <1>4 DEF i
    <2> QED
      BY <1>1, <1>3, <2>1, <2>2, <2>3 DEF ReasoningShut
  <1>5. CASE ~ st.inReasoning
    <2>1. r.st = st /\ r.out = << >> /\ d = done
      BY <1>2, <1>5, ResultFields
    <2>2. Heard(t, added, done, filled)
      BY <2>1, HeardNothing
    <2> QED
      BY <1>1, <1>3, <1>5, <2>1, <2>2 DEF ReasoningShut
  <1> QED
    BY <1>4, <1>5

TextShut(st, r) ==
  /\ r \in Results /\ Apart(st, r.st) /\ r.st.next = st.next
  /\ r.st.reasoning = st.reasoning /\ r.st.message = st.message
  /\ r.st.inReasoning = st.inReasoning /\ ~ r.st.inText

TextCloses(s, added, done, filled, st) ==
  LET r == CloseText(st)
  IN  /\ Heard(s \o r.out, added, done \cup (IF st.inText THEN {st.message} ELSE {}), filled)
      /\ TextShut(st, r)

LEMMA CloseTextHeard ==
  ASSUME NEW s, NEW added, NEW done, NEW filled, Heard(s, added, done, filled),
         NEW st \in States, st.inText => st.message \in added /\ st.message \notin done
  PROVE  TextCloses(s, added, done, filled, st)
  <1> SUFFICES ASSUME NEW r, r = CloseText(st), NEW t, t = s \o r.out,
                      NEW d, d = done \cup (IF st.inText THEN {st.message} ELSE {})
               PROVE  Heard(t, added, d, filled) /\ TextShut(st, r)
    BY DEF TextCloses
  <1> DEFINE next == [st EXCEPT !.inText = FALSE]
             i == st.message
             e == <<About("done", i, "message")>>
  <1>1. /\ i \in Nat /\ "message" \in Shape!Kinds /\ st.inText \in BOOLEAN
        /\ next.inText = FALSE /\ next.inReasoning = st.inReasoning /\ next.next = st.next
        /\ next.reasoning = st.reasoning /\ next.message = st.message
        /\ Apart(st, next) /\ Apart(st, st)
    BY DEF States, Shape!Kinds, Apart
  <1>2. r = IF st.inText THEN Result(next, e) ELSE Result(st, << >>)
    BY DEF CloseText
  <1>3. r \in Results
    BY CloseTextTyped
  <1> HIDE DEF next, e, i
  <1>4. CASE st.inText
    <2>1. r.st = next /\ r.out = e
      BY <1>2, <1>4, ResultFields
    <2>2. Heard(t, added, done \cup {i}, filled)
      <3>1. i \in added /\ i \notin done /\ t = s \o <<About("done", i, "message")>>
        BY <1>4, <2>1 DEF e, i
      <3> QED
        BY <1>1, <3>1, HeardDone
    <2>3. d = done \cup {i}
      BY <1>4 DEF i
    <2> QED
      BY <1>1, <1>3, <2>1, <2>2, <2>3 DEF TextShut
  <1>5. CASE ~ st.inText
    <2>1. r.st = st /\ r.out = << >> /\ d = done
      BY <1>2, <1>5, ResultFields
    <2>2. Heard(t, added, done, filled)
      BY <2>1, HeardNothing
    <2> QED
      BY <1>1, <1>3, <1>5, <2>1, <2>2 DEF TextShut
  <1> QED
    BY <1>4, <1>5

(* A piece: the item is announced unless it is open.                        *)
LEMMA PieceHeard ==
  ASSUME NEW s, NEW added, NEW done, NEW filled, Heard(s, added, done, filled),
         NEW i \in Nat, i \notin done, NEW kind \in Shape!Kinds, NEW open \in BOOLEAN, open <=> i \in added,
         NEW x, x = IF open THEN << >> ELSE <<About("added", i, kind)>>,
         NEW t, t = s \o (x \o <<About("delta", i, kind)>>)
  PROVE  Heard(t, added \cup {i}, done, filled \cup {i})
  <1> DEFINE y == <<About("delta", i, kind)>>
             u == s \o x
             a == added \cup {i}
  <1>1. s \in Seq(Outs) /\ x \in Seq(Outs) /\ y \in Seq(Outs)
    BY AboutIs, NoOut DEF Heard
  <1> HIDE DEF y
  <1>2. t = u \o y
    BY <1>1, Regroup DEF y
  <1>3. Heard(u, a, done, filled)
    <2>1. CASE open
      <3>1. x = << >> /\ a = added
        BY <2>1
      <3> HIDE DEF u, a
      <3>2. Heard(u, added, done, filled)
        BY <3>1, HeardNothing DEF u
      <3> QED
        BY <3>1, <3>2
    <2>2. CASE ~ open
      <3>1. x = <<About("added", i, kind)>> /\ i \notin added
        BY <2>2
      <3> HIDE DEF u
      <3>2. u = s \o <<About("added", i, kind)>>
        BY <3>1 DEF u
      <3> QED
        BY <3>1, <3>2, HeardAdded
    <2> QED
      BY <2>1, <2>2
  <1>4. i \in a
    OBVIOUS
  <1> HIDE DEF u, a
  <1>5. t = u \o <<About("delta", i, kind)>>
    BY <1>2 DEF y
  <1>6. Heard(t, a, done, filled \cup {i})
    BY <1>3, <1>4, <1>5, HeardDelta
  <1> QED
    BY <1>6 DEF a

Reasoned(st, i, r) ==
  /\ r \in Results /\ Apart(st, r.st) /\ r.st.next = st.next
  /\ r.st.reasoning = i /\ r.st.message = st.message
  /\ r.st.inReasoning /\ r.st.inText = st.inText

ReasonsOn(s, added, done, filled, st, i) ==
  LET r == Reason(st, i)
  IN  Heard(s \o r.out, added \cup {i}, done, filled \cup {i}) /\ Reasoned(st, i, r)

LEMMA ReasonHeard ==
  ASSUME NEW s, NEW added, NEW done, NEW filled, Heard(s, added, done, filled),
         NEW st \in States, NEW i \in Nat, i \notin done, st.inReasoning <=> i \in added
  PROVE  ReasonsOn(s, added, done, filled, st, i)
  <1> SUFFICES ASSUME NEW r, r = Reason(st, i), NEW t, t = s \o r.out
               PROVE  Heard(t, added \cup {i}, done, filled \cup {i}) /\ Reasoned(st, i, r)
    BY DEF ReasonsOn
  <1> DEFINE next == [st EXCEPT !.reasoning = i, !.inReasoning = TRUE, !.called = TRUE]
             open == st.inReasoning
             x == IF open THEN << >> ELSE <<About("added", i, "reasoning")>>
             y == <<About("delta", i, "reasoning")>>
  <1>1. /\ "reasoning" \in Shape!Kinds /\ open \in BOOLEAN
        /\ next.inReasoning = TRUE /\ next.inText = st.inText /\ next.next = st.next
        /\ next.reasoning = i /\ next.message = st.message /\ Apart(st, next)
    BY DEF States, Shape!Kinds, Apart
  <1>2. r = Result(next, x \o y)
    BY DEF Reason
  <1>3. r \in Results
    BY ReasonTyped
  <1> HIDE DEF next
  <1> DEFINE z == x \o y
  <1> HIDE DEF z
  <1>4. r.st = next /\ r.out = z
    <2>1. r = Result(next, z)
      BY <1>2 DEF z
    <2> QED
      BY <2>1, ResultFields
  <1>5. Heard(t, added \cup {i}, done, filled \cup {i})
    <2>1. t = s \o (x \o <<About("delta", i, "reasoning")>>)
      BY <1>4 DEF z
    <2> HIDE DEF open
    <2>2. x = IF open THEN << >> ELSE <<About("added", i, "reasoning")>>
      OBVIOUS
    <2> HIDE DEF x, y
    <2>3. open <=> i \in added
      BY DEF open
    <2>4. open \in BOOLEAN /\ "reasoning" \in Shape!Kinds
      BY <1>1
    <2> QED
      BY <2>1, <2>2, <2>3, <2>4, PieceHeard
  <1> QED
    BY <1>1, <1>3, <1>4, <1>5 DEF Reasoned

Said(st, i, r) ==
  /\ r \in Results /\ Apart(st, r.st) /\ r.st.next = st.next
  /\ r.st.message = i /\ r.st.reasoning = st.reasoning
  /\ r.st.inText /\ r.st.inReasoning = st.inReasoning

SaysOn(s, added, done, filled, st, i) ==
  LET r == Say(st, i)
  IN  Heard(s \o r.out, added \cup {i}, done, filled \cup {i}) /\ Said(st, i, r)

LEMMA SayHeard ==
  ASSUME NEW s, NEW added, NEW done, NEW filled, Heard(s, added, done, filled),
         NEW st \in States, NEW i \in Nat, i \notin done, st.inText <=> i \in added
  PROVE  SaysOn(s, added, done, filled, st, i)
  <1> SUFFICES ASSUME NEW r, r = Say(st, i), NEW t, t = s \o r.out
               PROVE  Heard(t, added \cup {i}, done, filled \cup {i}) /\ Said(st, i, r)
    BY DEF SaysOn
  <1> DEFINE next == [st EXCEPT !.message = i, !.inText = TRUE]
             open == st.inText
             x == IF open THEN << >> ELSE <<About("added", i, "message")>>
             y == <<About("delta", i, "message")>>
  <1>1. /\ "message" \in Shape!Kinds /\ open \in BOOLEAN
        /\ next.inReasoning = st.inReasoning /\ next.inText = TRUE /\ next.next = st.next
        /\ next.message = i /\ next.reasoning = st.reasoning /\ Apart(st, next)
    BY DEF States, Shape!Kinds, Apart
  <1>2. r = Result(next, x \o y)
    BY DEF Say
  <1>3. r \in Results
    BY SayTyped
  <1> HIDE DEF next
  <1> DEFINE z == x \o y
  <1> HIDE DEF z
  <1>4. r.st = next /\ r.out = z
    <2>1. r = Result(next, z)
      BY <1>2 DEF z
    <2> QED
      BY <2>1, ResultFields
  <1>5. Heard(t, added \cup {i}, done, filled \cup {i})
    <2>1. t = s \o (x \o <<About("delta", i, "message")>>)
      BY <1>4 DEF z
    <2> HIDE DEF open
    <2>2. x = IF open THEN << >> ELSE <<About("added", i, "message")>>
      OBVIOUS
    <2> HIDE DEF x, y
    <2>3. open <=> i \in added
      BY DEF open
    <2>4. open \in BOOLEAN /\ "message" \in Shape!Kinds
      BY <1>1
    <2> QED
      BY <2>1, <2>2, <2>3, <2>4, PieceHeard
  <1> QED
    BY <1>1, <1>3, <1>4, <1>5 DEF Said

BothShut(st, b) ==
  /\ b \in Results /\ Apart(st, b.st) /\ b.st.next = st.next
  /\ b.st.reasoning = st.reasoning /\ b.st.message = st.message
  /\ ~ b.st.inReasoning /\ ~ b.st.inText

BothClose(s, added, done, filled, st) ==
  LET b == Then(CloseReasoning(st), CloseText)
  IN  Heard(s \o b.out, added, done \cup Talking(st), filled) /\ BothShut(st, b)

LEMMA CloseBothHeard ==
  ASSUME NEW s, NEW added, NEW done, NEW filled, Heard(s, added, done, filled),
         NEW st \in States, st.inReasoning /\ st.inText => st.reasoning # st.message,
         st.inReasoning => st.reasoning \in added /\ st.reasoning \notin done,
         st.inText => st.message \in added /\ st.message \notin done
  PROVE  BothClose(s, added, done, filled, st)
  <1> SUFFICES ASSUME NEW b, b = Then(CloseReasoning(st), CloseText), NEW t, t = s \o b.out,
                      NEW d, d = done \cup Talking(st)
               PROVE  Heard(t, added, d, filled) /\ BothShut(st, b)
    BY DEF BothClose
  <1> DEFINE r == CloseReasoning(st)
             x == CloseText(r.st)
             z == r.out \o x.out
             u == s \o r.out
             c == done \cup (IF st.inReasoning THEN {st.reasoning} ELSE {})
  <1>1. b = Result(x.st, z) /\ b \in Results
    BY CloseBothIs, CloseBothTyped
  <1>2. Heard(u, added, c, filled) /\ ReasoningShut(st, r)
    <2>1. ReasoningCloses(s, added, done, filled, st)
      BY CloseReasoningHeard
    <2> QED
      BY <2>1 DEF ReasoningCloses
  <1> HIDE DEF r
  <1>3. /\ r.st \in States /\ r.out \in Seq(Outs) /\ r.st.inText = st.inText /\ r.st.message = st.message
        /\ r.st.reasoning = st.reasoning /\ ~ r.st.inReasoning /\ r.st.next = st.next /\ Apart(st, r.st)
    BY <1>2 DEF ReasoningShut, Apart, Results
  <1>4. st.inText => st.message \in added /\ st.message \notin c
    BY DEF States
  <1>5. d = c \cup (IF st.inText THEN {st.message} ELSE {})
    BY DEF Talking
  <1> DEFINE q == r.st
             v == u \o x.out
  <1>6. Heard(v, added, d, filled) /\ TextShut(q, x)
    <2> HIDE DEF u, c, q
    <2>1. q \in States /\ q.inText = st.inText /\ q.message = st.message
      BY <1>3 DEF q
    <2>2. q.inText => q.message \in added /\ q.message \notin c
      BY <1>4, <2>1
    <2>3. TextCloses(u, added, c, filled, q)
      BY <1>2, <2>1, <2>2, CloseTextHeard
    <2>4. x = CloseText(q)
      BY DEF q
    <2> HIDE DEF x
    <2>5. Heard(u \o x.out, added, c \cup (IF q.inText THEN {q.message} ELSE {}), filled) /\ TextShut(q, x)
      BY <2>3, <2>4 DEF TextCloses
    <2>6. c \cup (IF q.inText THEN {q.message} ELSE {}) = d
      BY <1>5, <2>1
    <2> QED
      BY <2>5, <2>6
  <1> HIDE DEF x, c
  <1>7. x.out \in Seq(Outs) /\ s \in Seq(Outs) /\ b.st = x.st /\ b.out = z
    <2>1. x \in Results
      BY <1>6 DEF TextShut
    <2> HIDE DEF z
    <2>2. b.st = x.st /\ b.out = z
      BY <1>1, ResultFields
    <2> QED
      BY <2>1, <2>2 DEF Results, Heard
  <1>8. t = v
    <2> DEFINE ro == r.out
               xo == x.out
    <2>1. s \in Seq(Outs) /\ ro \in Seq(Outs) /\ xo \in Seq(Outs) /\ t = s \o (ro \o xo)
      BY <1>3, <1>7
    <2>2. v = (s \o ro) \o xo
      OBVIOUS
    <2> HIDE DEF ro, xo, v
    <2>3. s \o (ro \o xo) = (s \o ro) \o xo
      BY <2>1, Grouped
    <2> QED
      BY <2>1, <2>2, <2>3
  <1>9. Apart(st, b.st)
    BY <1>3, <1>6, <1>7 DEF Apart, TextShut
  <1> QED
    BY <1>1, <1>3, <1>6, <1>7, <1>8, <1>9 DEF TextShut, BothShut

-----------------------------------------------------------------------------
(* Responses: the lines of Gemini *)

Geminis(more, r, t, st) == GeminiItems(more, r.st, t) /\ r.st.first = st.first

LEMMA ThoughtHeard ==
  ASSUME NEW lines, NEW st \in States, NEW s, GeminiItems(lines, st, s), ~ Interrupted(lines),
         NEW more, NEW line \in ConvLines, line.type = "thought", "thought" \in Types(more),
         NEW r, r = GeminiLine(st, line), NEW t, t = s \o r.out
  PROVE  Geminis(more, r, t, st)
  <1> DEFINE given == GiveOut(st, st.reasoning)
             u == given[2]
             i == given[1]
             m == st.next + 1
             next == [st EXCEPT !.next = m]
             a == Given(st)
  <1>1. /\ \/ st.reasoning = Nowhere /\ st.message = Nowhere /\ st.next = 0
           \/ st.reasoning = 0 /\ st.message = Nowhere /\ st.next = 1
           \/ st.reasoning = Nowhere /\ st.message = 0 /\ st.next = 1
           \/ st.reasoning = 0 /\ st.message = 1 /\ st.next = 2
           \/ st.reasoning = 1 /\ st.message = 0 /\ st.next = 2
        /\ st.inReasoning <=> st.reasoning # Nowhere
        /\ st.inText <=> st.message # Nowhere
    BY DEF GeminiItems, GeminiShape
  <1>2. r = Reason(u, i)
    BY DEF GeminiLine
  <1>3. m \in Nat /\ (st.next = 0 => m = 1) /\ (st.next = 1 => m = 2)
    BY DEF States
  <1>4. given = IF st.reasoning = Nowhere THEN <<st.next, next>> ELSE <<st.reasoning, st>>
    BY DEF GiveOut
  <1> HIDE DEF m
  <1>5. next \in States /\ next.next = m /\ next.message = st.message /\ next.inReasoning = st.inReasoning
        /\ next.inText = st.inText /\ next.first = st.first
    BY <1>3 DEF States
  <1> HIDE DEF next
  <1>6. /\ u \in States /\ u.message = st.message /\ u.first = st.first
        /\ u.inReasoning = st.inReasoning /\ u.inText = st.inText
        /\ \/ i = 0 /\ st.message = Nowhere /\ u.next = 1
           \/ i = 0 /\ st.message = 1 /\ u.next = 2
           \/ i = 1 /\ st.message = 0 /\ u.next = 2
        /\ i = (IF st.reasoning = Nowhere THEN st.next ELSE st.reasoning)
    BY <1>1, <1>3, <1>4, <1>5 DEF Nowhere
  <1> HIDE DEF given, u, i
  <1>7. /\ a = (IF st.inReasoning THEN {i} ELSE {}) \cup (IF st.message = Nowhere THEN {} ELSE {st.message})
        /\ a \ Talking(st) = {}
    BY <1>1, <1>6 DEF Given, Talking, Nowhere
  <1>8. Heard(s, a, {}, Filled(s)) /\ Filled(s) \subseteq a
    BY <1>7 DEF GeminiItems
  <1> HIDE DEF a
  <1>9. Heard(t, a \cup {i}, {}, Filled(s) \cup {i}) /\ Reasoned(u, i, r)
    <2>1. i \in Nat /\ i \notin {} /\ (u.inReasoning <=> i \in a)
      BY <1>6, <1>7 DEF Nowhere
    <2>2. ReasonsOn(s, a, {}, Filled(s), u, i)
      BY <1>6, <1>8, <2>1, ReasonHeard
    <2> QED
      BY <1>2, <2>2 DEF ReasonsOn
  <1>10. /\ r.st.reasoning = i /\ r.st.message = st.message /\ r.st.next = u.next /\ r.st.inReasoning
         /\ r.st.inText = st.inText /\ r.st.first = st.first
    BY <1>6, <1>9 DEF Reasoned, Apart
  <1>11. Given(r.st) = a \cup {i} /\ Given(r.st) \ Talking(r.st) = {}
    BY <1>1, <1>6, <1>7, <1>10 DEF Given, Talking, Nowhere
  <1>12. Filled(t) = Filled(s) \cup {i}
    BY <1>9, HeardFilled
  <1>13. Heard(t, Given(r.st), Given(r.st) \ Talking(r.st), Filled(t)) /\ Filled(t) \subseteq Given(r.st)
    BY <1>8, <1>9, <1>11, <1>12
  <1>14. GeminiShape(more, r.st)
    BY <1>1, <1>6, <1>10 DEF GeminiShape, Nowhere
  <1> QED
    BY <1>10, <1>13, <1>14 DEF Geminis, GeminiItems

LEMMA TextHeard ==
  ASSUME NEW lines, NEW st \in States, NEW s, GeminiItems(lines, st, s),
         NEW more, NEW line \in ConvLines, line.type = "text", Types(lines) \subseteq Types(more),
         "thought" \in Types(lines) => Interrupted(more),
         NEW r, r = GeminiLine(st, line), NEW t, t = s \o r.out
  PROVE  Geminis(more, r, t, st)
  <1> DEFINE c == CloseReasoning(st)
             q == c.st
             given == GiveOut(q, q.message)
             u == given[2]
             i == given[1]
             y == Say(u, i)
             m == q.next + 1
             next == [q EXCEPT !.next = m]
             a == Given(st)
             o == IF st.inReasoning THEN {st.reasoning} ELSE {}
             d == (a \ Talking(st)) \cup o
             w == s \o c.out
             v == w \o y.out
  <1>1. r = Result(y.st, c.out \o y.out)
    BY GeminiTextIs DEF GeminiLine
  <1>2. /\ \/ st.reasoning = Nowhere /\ st.message = Nowhere /\ st.next = 0
           \/ st.reasoning = 0 /\ st.message = Nowhere /\ st.next = 1
           \/ st.reasoning = Nowhere /\ st.message = 0 /\ st.next = 1
           \/ st.reasoning = 0 /\ st.message = 1 /\ st.next = 2
           \/ st.reasoning = 1 /\ st.message = 0 /\ st.next = 2
        /\ st.inReasoning => st.reasoning # Nowhere
        /\ st.inText <=> st.message # Nowhere
        /\ st.reasoning # Nowhere => Interrupted(more) /\ "thought" \in Types(more)
    BY DEF GeminiItems, GeminiShape
  <1>3. /\ a = (IF st.reasoning = Nowhere THEN {} ELSE {st.reasoning})
               \cup (IF st.inText THEN {st.message} ELSE {})
        /\ d = (IF st.reasoning = Nowhere THEN {} ELSE {st.reasoning})
        /\ st.inReasoning => st.reasoning \in a /\ st.reasoning \notin (a \ Talking(st))
    BY <1>2 DEF Given, Talking, Nowhere
  <1>4. Heard(s, a, a \ Talking(st), Filled(s)) /\ Filled(s) \subseteq a
    BY DEF GeminiItems
  <1> HIDE DEF a
  <1>5. Heard(w, a, d, Filled(s)) /\ ReasoningShut(st, c)
    <2> DEFINE dd == a \ Talking(st)
    <2>1. Heard(s, a, dd, Filled(s)) /\ (st.inReasoning => st.reasoning \in a /\ st.reasoning \notin dd)
      BY <1>3, <1>4
    <2> HIDE DEF dd
    <2>2. ReasoningCloses(s, a, dd, Filled(s), st)
      BY <2>1, CloseReasoningHeard
    <2> QED
      BY <2>2 DEF ReasoningCloses, dd
  <1> HIDE DEF c, d, o, w
  <1>6. /\ q \in States /\ c.out \in Seq(Outs) /\ q.next = st.next /\ q.message = st.message
        /\ q.reasoning = st.reasoning /\ ~ q.inReasoning /\ q.inText = st.inText /\ q.first = st.first
    BY <1>5 DEF ReasoningShut, Apart, Results
  <1> HIDE DEF q
  <1>7. m \in Nat /\ m = q.next + 1
    BY <1>6 DEF States
  <1>8. given = IF q.message = Nowhere THEN <<q.next, next>> ELSE <<q.message, q>>
    BY DEF GiveOut
  <1> HIDE DEF m
  <1>9. /\ next \in States /\ next.next = m /\ next.message = q.message /\ next.inReasoning = q.inReasoning
        /\ next.reasoning = q.reasoning /\ next.inText = q.inText /\ next.first = q.first
    BY <1>6, <1>7 DEF States
  <1> HIDE DEF next
  <1>10. /\ u \in States /\ u.reasoning = st.reasoning /\ ~ u.inReasoning /\ u.inText = st.inText
         /\ u.first = st.first /\ i \in Nat
    BY <1>2, <1>6, <1>8, <1>9 DEF Nowhere
  <1>11. /\ \/ st.reasoning = Nowhere /\ i = 0 /\ u.next = 1
            \/ st.reasoning = 0 /\ i = 1 /\ u.next = 2
            \/ st.reasoning = 1 /\ i = 0 /\ u.next = 2
         /\ st.inText => st.message = i
    BY <1>2, <1>6, <1>7, <1>8, <1>9 DEF Nowhere
  <1> HIDE DEF given
  <1>12. y = Say(u, i)
    OBVIOUS
  <1> HIDE DEF u, i, y
  <1>13. i \notin d /\ (u.inText <=> i \in a)
    BY <1>2, <1>3, <1>10, <1>11
  <1>14. Heard(v, a \cup {i}, d, Filled(s) \cup {i}) /\ Said(u, i, y)
    <2>1. SaysOn(w, a, d, Filled(s), u, i)
      BY <1>5, <1>10, <1>13, SayHeard
    <2> QED
      BY <1>12, <2>1 DEF SaysOn
  <1>15. r.st = y.st /\ r.out = c.out \o y.out /\ y.out \in Seq(Outs)
    <2> DEFINE z == c.out \o y.out
    <2> HIDE DEF z
    <2>1. r = Result(y.st, z)
      BY <1>1 DEF z
    <2>2. r.st = y.st /\ r.out = z
      BY <2>1, ResultFields
    <2> QED
      BY <1>14, <2>2 DEF z, Said, Results
  <1>16. t = v
    <2> DEFINE co == c.out
               yo == y.out
    <2>1. s \in Seq(Outs) /\ co \in Seq(Outs) /\ yo \in Seq(Outs) /\ t = s \o (co \o yo)
      BY <1>4, <1>6, <1>15 DEF Heard
    <2>2. v = (s \o co) \o yo
      BY DEF w
    <2> HIDE DEF co, yo, v
    <2>3. s \o (co \o yo) = (s \o co) \o yo
      BY <2>1, Grouped
    <2> QED
      BY <2>1, <2>2, <2>3
  <1>17. /\ r.st.reasoning = st.reasoning /\ r.st.message = i /\ r.st.next = u.next /\ ~ r.st.inReasoning
         /\ r.st.inText /\ r.st.first = st.first
    BY <1>10, <1>11, <1>14, <1>15 DEF Said, Apart
  <1>18. Given(r.st) = a \cup {i} /\ Given(r.st) \ Talking(r.st) = d
    BY <1>2, <1>3, <1>11, <1>17 DEF Given, Talking, Nowhere
  <1>19. Filled(t) = Filled(s) \cup {i}
    BY <1>14, <1>16, HeardFilled
  <1>20. Heard(t, Given(r.st), Given(r.st) \ Talking(r.st), Filled(t)) /\ Filled(t) \subseteq Given(r.st)
    BY <1>4, <1>14, <1>16, <1>18, <1>19
  <1>21. GeminiShape(more, r.st)
    BY <1>2, <1>11, <1>17 DEF GeminiShape, Nowhere
  <1> QED
    BY <1>17, <1>20, <1>21 DEF Geminis, GeminiItems

GeminiEnds(r, t, st) == t \in Seq(Outs) /\ Orderly(t) /\ r.st.first = st.first

(* The last line: what is open is closed, and all of it is listed.          *)
LEMMA FinishHeard ==
  ASSUME NEW lines, NEW st \in States, NEW s, GeminiItems(lines, st, s),
         NEW line \in ConvLines, line.type = "finish",
         NEW r, r = GeminiLine(st, line), NEW t, t = s \o r.out
  PROVE  GeminiEnds(r, t, st)
  <1> DEFINE c == CloseReasoning(st)
             x == CloseText(c.st)
             b == Then(CloseReasoning(st), CloseText)
             l == Listing(x.st)
             u == [x.st EXCEPT !.output = Given(x.st)]
             a == Given(st)
             w == s \o b.out
             z == c.out \o x.out
  <1>1. r = Result(l.st, z \o l.out) /\ b = Result(x.st, z)
    BY GeminiFinishIs, CloseBothIs DEF GeminiLine
  <1> HIDE DEF z, x
  <1>2. b.st = x.st /\ b.out = z
    BY <1>1, ResultFields
  <1>3. Heard(w, a, a, Filled(s)) /\ BothShut(st, b) /\ Filled(s) \subseteq a
    <2> DEFINE d == a \ Talking(st)
    <2>1. /\ st.inReasoning => st.reasoning \in a /\ st.reasoning \notin d
          /\ st.inText => st.message \in a /\ st.message \notin d
          /\ (st.inReasoning /\ st.inText => st.reasoning # st.message) /\ d \cup Talking(st) = a
      BY DEF GeminiItems, GeminiShape, Given, Talking, Nowhere
    <2>2. Heard(s, a, d, Filled(s)) /\ Filled(s) \subseteq a
      BY DEF GeminiItems
    <2> HIDE DEF a, d
    <2>3. BothClose(s, a, d, Filled(s), st)
      BY <2>1, <2>2, CloseBothHeard
    <2> QED
      BY <2>1, <2>2, <2>3 DEF BothClose
  <1>4. /\ x.st \in States /\ Given(x.st) = a /\ x.st.first = st.first
        /\ b.out \in Seq(Outs) /\ s \in Seq(Outs)
    <2>1. s \in Seq(Outs)
      BY DEF GeminiItems, Heard
    <2> QED
      BY <1>2, <1>3, <2>1 DEF BothShut, Apart, Given, Results
  <1> HIDE DEF a
  <1>5. u \in States /\ u.output = a /\ u.first = st.first
    <2>1. Given(x.st) \in SUBSET Nat
      BY <1>4, GivenTyped
    <2> DEFINE g == Given(x.st)
    <2> HIDE DEF g
    <2>2. u = [x.st EXCEPT !.output = g]
      BY DEF g
    <2>3. g \in SUBSET Nat /\ g = a
      BY <1>4, <2>1 DEF g
    <2> HIDE DEF u
    <2> QED
      BY <1>4, <2>2, <2>3 DEF States
  <1>6. l = Complete(u)
    BY DEF Listing
  <1> HIDE DEF b, w, u
  <1>7. l.st = u /\ l.out = Complete(u).out /\ l \in Results
    BY <1>5, <1>6, CompleteTyped, ResultFields DEF Complete
  <1> DEFINE v == w \o Complete(u).out
  <1>8. v \in Seq(Outs) /\ Orderly(v)
    <2>1. Filled(s) \subseteq u.output
      BY <1>3, <1>5
    <2> QED
      BY <1>3, <1>5, <2>1, HeardCompleted
  <1> HIDE DEF l, v
  <1>9. r.st = l.st /\ r.out = b.out \o l.out /\ l.out \in Seq(Outs)
    <2> DEFINE k == z \o l.out
    <2> HIDE DEF k
    <2>1. r = Result(l.st, k)
      BY <1>1 DEF k
    <2>2. r.st = l.st /\ r.out = k
      BY <2>1, ResultFields
    <2> QED
      BY <1>2, <1>7, <2>2 DEF k, Results
  <1>10. t = v
    <2> DEFINE bo == b.out
               lo == l.out
    <2>1. s \in Seq(Outs) /\ bo \in Seq(Outs) /\ lo \in Seq(Outs) /\ t = s \o (bo \o lo)
      BY <1>4, <1>9
    <2>2. v = (s \o bo) \o lo
      BY <1>7 DEF w, v
    <2> HIDE DEF bo, lo
    <2>3. s \o (bo \o lo) = (s \o bo) \o lo
      BY <2>1, Grouped
    <2> QED
      BY <2>1, <2>2, <2>3
  <1> QED
    BY <1>5, <1>7, <1>8, <1>9, <1>10 DEF GeminiEnds

GeminiSteps(line, more, r, t, st) ==
  /\ t \in Seq(Outs) /\ Orderly(t) /\ r.st.first = st.first
  /\ line.type \notin {"finish", "bare"} => GeminiItems(more, r.st, t)

LEMMA GeminiStep ==
  ASSUME NEW lines \in Seq(ConvLines), NEW line \in ConvLines, NEW more, more = Append(lines, line),
         NEW st \in States, NEW s, GeminiItems(lines, st, s),
         line.type \in {"call", "text", "bare", "finish", "thought"},
         line.type = "thought" => ~ Interrupted(lines),
         NEW r, r = GeminiLine(st, line), NEW t, t = s \o r.out
  PROVE  GeminiSteps(line, more, r, t, st)
  <1> USE DEF GeminiSteps
  <1>1. Types(more) = Types(lines) \cup {line.type}
    BY MoreLines
  <1>2. Geminis(more, r, t, st) => t \in Seq(Outs) /\ Orderly(t) /\ r.st.first = st.first /\ GeminiItems(more, r.st, t)
    BY DEF Geminis, GeminiItems, Heard
  <1>3. s \in Seq(Outs) /\ Orderly(s)
    BY DEF GeminiItems, Heard
  <1>4. CASE line.type = "thought"
    <2>1. Geminis(more, r, t, st)
      BY <1>1, <1>4, ThoughtHeard
    <2> QED
      BY <1>2, <2>1
  <1>5. CASE line.type = "text"
    <2>1. Types(lines) \subseteq Types(more) /\ ("thought" \in Types(lines) => Interrupted(more))
      BY <1>1, <1>5, InterruptedMore
    <2>2. Geminis(more, r, t, st)
      BY <1>5, <2>1, TextHeard
    <2> QED
      BY <1>2, <2>2
  <1>6. CASE line.type = "finish"
    <2> HIDE DEF GeminiSteps
    <2>1. GeminiEnds(r, t, st)
      BY <1>6, FinishHeard
    <2> QED
      BY <1>6, <2>1 DEF GeminiEnds, GeminiSteps
  <1>7. CASE line.type = "bare"
    <2>1. r = Result(st, << >>)
      BY <1>7 DEF GeminiLine
    <2>2. r.st = st /\ r.out = << >>
      BY <2>1, ResultFields
    <2>3. t = s
      BY <1>3, <2>2, ConcatEmptySeq
    <2> QED
      BY <1>3, <1>7, <2>2, <2>3
  <1>8. CASE line.type = "call"
    <2> DEFINE next == [st EXCEPT !.called = TRUE]
    <2>1. r = Result(next, << >>)
      BY <1>8 DEF GeminiLine
    <2>2. /\ next.first = st.first /\ next.reasoning = st.reasoning /\ next.message = st.message
          /\ next.next = st.next /\ next.inReasoning = st.inReasoning /\ next.inText = st.inText
      BY DEF States
    <2> HIDE DEF next
    <2>3. r.st = next /\ r.out = << >>
      BY <2>1, ResultFields
    <2>4. t = s
      BY <1>3, <2>3, ConcatEmptySeq
    <2>5. Given(next) = Given(st) /\ Talking(next) = Talking(st)
      BY <2>2 DEF Given, Talking
    <2>6. GeminiShape(more, next)
      <3>1. GeminiShape(lines, st) /\ Types(lines) \subseteq Types(more)
            /\ (Interrupted(lines) => Interrupted(more))
        BY <1>1, InterruptedMore DEF GeminiItems
      <3> QED
        BY <2>2, <3>1 DEF GeminiShape
    <2>7. GeminiItems(more, next, s)
      BY <2>5, <2>6 DEF GeminiItems
    <2> QED
      BY <1>3, <2>2, <2>3, <2>4, <2>7
  <1> QED
    BY <1>4, <1>5, <1>6, <1>7, <1>8

-----------------------------------------------------------------------------
(* Responses: the lines of Chat *)

LEMMA CountUp ==
  ASSUME NEW c \in Nat
  PROVE  Cardinality(0..(c - 1)) = c
  <1>1. 0 \in Int /\ c - 1 \in Int
    OBVIOUS
  <1>2. Cardinality(0..(c - 1)) = IF 0 > c - 1 THEN 0 ELSE (c - 1) - 0 + 1
    BY <1>1, FS_Interval
  <1> QED
    BY <1>2

LEMMA ChatFacts ==
  ASSUME NEW lines, NEW st \in States, NEW s, NEW g \in Nat, NEW c \in Nat, ChatItems(lines, st, s, g, c)
  PROVE  /\ Given(st) = 0..(g - 1) /\ Cardinality(Given(st)) = g /\ Cardinality(st.calls) = c
         /\ Talking(st) \subseteq Given(st) /\ ~(st.inReasoning /\ st.inText)
         /\ c > 0 => Talking(st) = {}
         /\ s \in Seq(Outs) /\ Orderly(s)
  <1>1. /\ st.reasoning \in {0, Nowhere}
        /\ st.message \in {Nowhere, IF st.reasoning = Nowhere THEN 0 ELSE 1}
        /\ g = (IF st.reasoning = Nowhere THEN 0 ELSE 1) + (IF st.message = Nowhere THEN 0 ELSE 1)
        /\ st.calls = 0..(c - 1)
        /\ st.inReasoning => st.reasoning = 0 /\ st.message = Nowhere
        /\ st.inText => st.message # Nowhere
        /\ c > 0 => ~ st.inReasoning /\ ~ st.inText
        /\ s \in Seq(Outs) /\ Orderly(s)
    BY DEF ChatItems, ChatShape, Heard
  <1>2. Given(st) = 0..(g - 1)
    <2>1. CASE st.reasoning = Nowhere /\ st.message = Nowhere
      BY <1>1, <2>1 DEF Given, Nowhere
    <2>2. CASE st.reasoning = 0 /\ st.message = Nowhere
      BY <1>1, <2>2 DEF Given, Nowhere
    <2>3. CASE st.reasoning = Nowhere /\ st.message = 0
      BY <1>1, <2>3 DEF Given, Nowhere
    <2>4. CASE st.reasoning = 0 /\ st.message = 1
      BY <1>1, <2>4 DEF Given, Nowhere
    <2> QED
      BY <1>1, <2>1, <2>2, <2>3, <2>4 DEF Nowhere
  <1>3. Talking(st) \subseteq Given(st)
    BY <1>1 DEF Talking, Given, Nowhere
  <1>4. c > 0 => Talking(st) = {}
    BY <1>1 DEF Talking
  <1> QED
    BY <1>1, <1>2, <1>3, <1>4, CountUp

(* The calls are done one after the other.                                  *)
LEMMA HeardDoneAll ==
  ASSUME NEW s, NEW added, NEW done, NEW filled, Heard(s, added, done, filled),
         NEW g \in Nat, NEW c \in Nat,
         NEW out \in Seq(Outs), Len(out) = c, \A i \in 1..c : out[i] = About("done", i - 1 + g, "function_call"),
         g..(g + c - 1) \subseteq added, g..(g + c - 1) \cap done = {}
  PROVE  Heard(s \o out, added, done \cup (g..(g + c - 1)), filled)
  <1> DEFINE D(n) == done \cup (g..(g + n - 1))
             S == {n \in 0..c : Heard(s \o SubSeq(out, 1, n), added, D(n), filled)}
  <1>1. s \in Seq(Outs) /\ "function_call" \in Shape!Kinds
    BY DEF Heard, Shape!Kinds
  <1>2. 0 \in S
    <2>1. SubSeq(out, 1, 0) = << >> /\ D(0) = done
      BY SubSeqProperties, EmptySeq
    <2> HIDE DEF D
    <2>2. Heard(s \o << >>, added, done, filled)
      BY HeardNothing
    <2>3. Heard(s \o SubSeq(out, 1, 0), added, D(0), filled)
      BY <2>1, <2>2
    <2> QED
      BY <2>3
  <1>3. ASSUME NEW n \in 1..c, n - 1 \in S PROVE n \in S
    <2> DEFINE m == n - 1
               i == m + g
               x == SubSeq(out, 1, m)
               y == SubSeq(out, 1, n)
               e == About("done", i, "function_call")
    <2>1. m \in 0..c /\ n \in 0..c /\ i \in Nat /\ i \in g..(g + c - 1) /\ n = m + 1 /\ out[n] = e
      OBVIOUS
    <2>2. Heard(s \o x, added, D(m), filled)
      BY <1>3
    <2>3. D(n) = D(m) \cup {i} /\ i \notin D(m) /\ i \in added
      BY <2>1
    <2>4. y = Append(x, e) /\ x \in Seq(Outs) /\ y \in Seq(Outs) /\ e \in Outs
      <3>1. /\ x \in Seq(Outs) /\ Len(x) = m /\ \A j \in 1..m : x[j] = out[j]
            /\ y \in Seq(Outs) /\ Len(y) = n /\ \A j \in 1..n : y[j] = out[j]
        BY <2>1, SubSeqProperties
      <3>2. e \in Outs
        BY <1>1, <2>1, AboutIs
      <3> HIDE DEF x, y, e, m
      <3> DEFINE ap == Append(x, e)
      <3>3. ap \in Seq(Outs) /\ Len(ap) = n /\ ap[n] = e /\ \A j \in 1..m : ap[j] = x[j]
        BY <2>1, <3>1, <3>2, AppendProperties
      <3> HIDE DEF ap
      <3>4. \A j \in 1..Len(y) : y[j] = ap[j]
        <4>1. \A j \in 1..n : j = n \/ j \in 1..m
          BY <2>1
        <4> QED
          BY <2>1, <3>1, <3>3, <4>1
      <3>5. y = ap
        BY <3>1, <3>3, <3>4, SeqEqual
      <3> QED
        BY <3>1, <3>2, <3>5 DEF ap
    <2>5. s \o y = (s \o x) \o <<e>>
      <3> HIDE DEF x, y, e
      <3>1. y = x \o <<e>> /\ <<e>> \in Seq(Outs)
        BY <2>4, AppendFacts
      <3>2. s \o (x \o <<e>>) = (s \o x) \o <<e>>
        BY <1>1, <2>4, <3>1, Regroup
      <3> QED
        BY <3>1, <3>2
    <2> DEFINE u == s \o x
               v == s \o y
               dm == D(m)
    <2>6. Heard(v, added, dm \cup {i}, filled)
      <3>1. Heard(u, added, dm, filled) /\ v = u \o <<About("done", i, "function_call")>> /\ i \notin dm /\ i \in added
        BY <2>2, <2>3, <2>5
      <3> HIDE DEF u, v, dm, i
      <3> QED
        BY <1>1, <2>1, <3>1, HeardDone
    <2>7. D(n) = dm \cup {i}
      BY <2>3
    <2> HIDE DEF D, dm, i
    <2> QED
      BY <2>1, <2>6, <2>7
  <1>4. \A n \in 0..c : n \in S
    <2> HIDE DEF S
    <2> QED
      BY <1>2, <1>3, InductionTo
  <1>5. SubSeq(out, 1, c) = out
    <2> DEFINE b == SubSeq(out, 1, c)
    <2>1. b \in Seq(Outs) /\ Len(b) = c /\ \A j \in 1..c : b[j] = out[j]
      BY SubSeqProperties
    <2> HIDE DEF b
    <2>2. b = out
      BY <2>1, SeqEqual
    <2> QED
      BY <2>2 DEF b
  <1>6. Heard(s \o SubSeq(out, 1, c), added, D(c), filled)
    BY <1>4
  <1> QED
    BY <1>5, <1>6

(* Reasoning and text are closed; the calls stay open.                      *)
ChatBoth(st, s, g, c) ==
  LET b == Then(CloseReasoning(st), CloseText)
  IN  /\ Heard(s \o b.out, 0..(g + c - 1), (0..(g + c - 1)) \ Calling(st, g, c), Filled(s))
      /\ BothShut(st, b)

LEMMA ChatBothHeard ==
  ASSUME NEW lines, NEW st \in States, NEW s, NEW g \in Nat, NEW c \in Nat, ChatItems(lines, st, s, g, c)
  PROVE  ChatBoth(st, s, g, c)
  <1> DEFINE items == 0..(g + c - 1)
             calling == Calling(st, g, c)
             d == items \ (Talking(st) \cup calling)
  <1>1. /\ Given(st) = 0..(g - 1) /\ Talking(st) \subseteq Given(st) /\ ~(st.inReasoning /\ st.inText)
        /\ c > 0 => Talking(st) = {}
    BY ChatFacts
  <1>2. Heard(s, items, d, Filled(s))
    BY DEF ChatItems, Calling
  <1>3. /\ 0..(g - 1) \subseteq items /\ (c = 0 => calling = {}) /\ (c > 0 \/ c = 0)
        /\ calling \subseteq items
    BY DEF Calling
  <1> HIDE DEF items, calling
  <1>4. Talking(st) \cap calling = {} /\ Talking(st) \subseteq items
    BY <1>1, <1>3
  <1>5. d \cup Talking(st) = items \ calling
    BY <1>4
  <1>6. /\ st.inReasoning => st.reasoning \in items /\ st.reasoning \notin d
        /\ st.inText => st.message \in items /\ st.message \notin d
    BY <1>4 DEF Talking
  <1> HIDE DEF d
  <1>7. BothClose(s, items, d, Filled(s), st)
    BY <1>1, <1>2, <1>6, CloseBothHeard
  <1> QED
    BY <1>5, <1>7 DEF BothClose, ChatBoth, items, calling

AllShut(st, r) ==
  /\ r \in Results /\ r.st.first = st.first /\ r.st.calls = st.calls /\ r.st.active # "tool"
  /\ r.st.reasoning = st.reasoning /\ r.st.message = st.message
  /\ ~ r.st.inReasoning /\ ~ r.st.inText

ChatAll(st, s, g, c) ==
  LET r == CloseAll(st)
  IN  Heard(s \o r.out, 0..(g + c - 1), 0..(g + c - 1), Filled(s)) /\ AllShut(st, r)

LEMMA FuncBlocksHeard ==
  ASSUME NEW u \in States, NEW c \in Nat, Cardinality(u.calls) = c, NEW g \in Nat, Cardinality(Given(u)) = g,
         NEW s, NEW filled, Heard(s, 0..(g + c - 1), (0..(g + c - 1)) \ Calling(u, g, c), filled),
         NEW x, x = CloseFuncBlocks(u)
  PROVE  /\ Heard(s \o x.out, 0..(g + c - 1), 0..(g + c - 1), filled)
         /\ x \in Results /\ x.st.active # "tool" /\ x.st.first = u.first /\ x.st.calls = u.calls
         /\ x.st.reasoning = u.reasoning /\ x.st.message = u.message
         /\ x.st.inReasoning = u.inReasoning /\ x.st.inText = u.inText
  <1> DEFINE items == 0..(g + c - 1)
             calling == Calling(u, g, c)
             next == [u EXCEPT !.active = "none"]
             ends == [i \in DOMAIN Calls(u) |-> About("done", Calls(u)[i], "function_call")]
  <1>1. x = IF u.active # "tool" THEN Result(u, << >>) ELSE Result(next, ends)
    BY DEF CloseFuncBlocks
  <1>2. /\ next.active = "none" /\ next.first = u.first /\ next.calls = u.calls
        /\ next.reasoning = u.reasoning /\ next.message = u.message
        /\ next.inReasoning = u.inReasoning /\ next.inText = u.inText
    BY DEF States
  <1> HIDE DEF next
  <1>3. x \in Results
    BY CloseFuncBlocksTyped
  <1>4. CASE u.active # "tool"
    <2>1. x.st = u /\ x.out = << >>
      BY <1>1, <1>4, ResultFields
    <2>2. items \ calling = items
      BY <1>4 DEF Calling
    <2> HIDE DEF items, calling
    <2>3. Heard(s, items, items, filled)
      BY <2>2 DEF items, calling
    <2>4. Heard(s \o << >>, items, items, filled)
      BY <2>3, HeardNothing
    <2> QED
      BY <1>3, <1>4, <2>1, <2>4 DEF items
  <1>5. CASE u.active = "tool"
    <2>1. x = Result(next, ends)
      BY <1>1, <1>5
    <2>2. /\ DOMAIN Calls(u) = 1..c /\ \A i \in 1..c : Calls(u)[i] = i - 1 + g
      BY CallsTyped
    <2>3. \A i \in 1..c : ends[i] = About("done", i - 1 + g, "function_call")
      BY <2>2
    <2>4. DOMAIN ends = 1..c
      BY <2>2
    <2> HIDE DEF ends
    <2>5. x.st = next /\ x.out = ends
      BY <2>1, ResultFields
    <2>6. ends \in Seq(Outs) /\ Len(ends) = c
      <3>1. ends \in Seq(Outs)
        BY <1>3, <2>5 DEF Results
      <3> QED
        BY <2>4, <3>1
    <2> DEFINE d == items \ calling
    <2>7. calling = g..(g + c - 1) /\ g..(g + c - 1) \subseteq items /\ g..(g + c - 1) \cap d = {}
          /\ d \cup (g..(g + c - 1)) = items
      BY <1>5 DEF Calling
    <2>8. Heard(s, items, d, filled)
      OBVIOUS
    <2> HIDE DEF d, items
    <2>9. Heard(s \o ends, items, d \cup (g..(g + c - 1)), filled)
      BY <2>3, <2>6, <2>7, <2>8, HeardDoneAll
    <2> QED
      BY <1>2, <1>3, <2>5, <2>7, <2>9 DEF items
  <1> QED
    BY <1>4, <1>5

LEMMA ChatAllHeard ==
  ASSUME NEW lines, NEW st \in States, NEW s, NEW g \in Nat, NEW c \in Nat, ChatItems(lines, st, s, g, c)
  PROVE  ChatAll(st, s, g, c)
  <1> DEFINE b == Then(CloseReasoning(st), CloseText)
             u == b.st
             x == CloseFuncBlocks(u)
             r == CloseAll(st)
             w == s \o b.out
             items == 0..(g + c - 1)
             z == b.out \o x.out
  <1>1. r = Result(x.st, z)
    BY CloseAllIs
  <1>2. Heard(w, items, items \ Calling(st, g, c), Filled(s)) /\ BothShut(st, b)
    <2>1. ChatBoth(st, s, g, c)
      BY ChatBothHeard
    <2> QED
      BY <2>1 DEF ChatBoth
  <1> HIDE DEF b
  <1>3. /\ u \in States /\ u.first = st.first /\ u.active = st.active /\ u.calls = st.calls
        /\ u.reasoning = st.reasoning /\ u.message = st.message /\ ~ u.inReasoning /\ ~ u.inText
        /\ b.out \in Seq(Outs)
    BY <1>2 DEF BothShut, Apart, Results
  <1>4. Calling(u, g, c) = Calling(st, g, c) /\ Given(u) = Given(st)
    BY <1>3 DEF Calling, Given
  <1>5. Cardinality(Given(u)) = g /\ Cardinality(u.calls) = c /\ s \in Seq(Outs)
    BY <1>3, <1>4, ChatFacts
  <1> HIDE DEF u, w, z
  <1>6. x = CloseFuncBlocks(u)
    OBVIOUS
  <1> HIDE DEF x
  <1>7. Heard(w, 0..(g + c - 1), (0..(g + c - 1)) \ Calling(u, g, c), Filled(s))
    BY <1>2, <1>4
  <1>8. /\ Heard(w \o x.out, items, items, Filled(s))
        /\ x \in Results /\ x.st.active # "tool" /\ x.st.first = u.first /\ x.st.calls = u.calls
        /\ x.st.reasoning = u.reasoning /\ x.st.message = u.message
        /\ x.st.inReasoning = u.inReasoning /\ x.st.inText = u.inText
    BY <1>3, <1>5, <1>6, <1>7, FuncBlocksHeard
  <1> HIDE DEF items, r
  <1>9. r.st = x.st /\ r.out = z /\ r \in Results
    BY <1>1, ResultFields, CloseAllTyped DEF r
  <1>10. s \o r.out = w \o x.out
    <2> DEFINE bo == b.out
               xo == x.out
    <2>1. s \in Seq(Outs) /\ bo \in Seq(Outs) /\ xo \in Seq(Outs) /\ r.out = bo \o xo
      BY <1>3, <1>5, <1>8, <1>9 DEF z, Results
    <2>2. w \o x.out = (s \o bo) \o xo
      BY DEF w
    <2> HIDE DEF bo, xo
    <2>3. s \o (bo \o xo) = (s \o bo) \o xo
      BY <2>1, Grouped
    <2> QED
      BY <2>1, <2>2, <2>3
  <1>11. AllShut(st, r)
    BY <1>3, <1>8, <1>9 DEF AllShut
  <1>12. Heard(s \o r.out, items, items, Filled(s))
    BY <1>8, <1>10
  <1> QED
    BY <1>11, <1>12 DEF ChatAll, items, r

(* After the line: what the converter remembers, and what was heard.        *)
Chats(more, r, t, st) ==
  /\ r.st.first = st.first
  /\ \E g, c \in Nat : ChatItems(more, r.st, t, g, c)

LEMMA ChatReasoning ==
  ASSUME NEW lines, NEW st \in States, NEW s, NEW g \in Nat, NEW c \in Nat, ChatItems(lines, st, s, g, c),
         NEW k \in Nat, StageOf(lines) = k, k <= 1, NEW more, StageOf(more) = 1, Numbers(more) = Numbers(lines),
         NEW line \in ConvLines, line.type = "reasoning",
         NEW r, r = ChatLine(st, line), NEW t, t = s \o r.out
  PROVE  Chats(more, r, t, st)
  <1> DEFINE u == MoveMessage(st)
  <1>1. r = Reason(u, 0)
    BY DEF ChatLine
  <1> DEFINE same == /\ u \in States /\ u.inReasoning = st.inReasoning /\ u.inText = st.inText
                     /\ u.reasoning = st.reasoning /\ u.first = st.first
                     /\ u.calls = st.calls /\ u.active = st.active
  <1> DEFINE a == 0..(g + c - 1)
  <1>2. /\ st.message = Nowhere /\ ~ st.inText /\ c = 0 /\ st.active # "tool" /\ st.calls = 0..(c - 1)
        /\ st.reasoning \in {0, Nowhere} /\ (st.inReasoning <=> st.reasoning = 0)
        /\ g = (IF st.reasoning = Nowhere THEN 0 ELSE 1)
        /\ Numbers(more) = st.calls
    BY DEF ChatItems, ChatShape, Nowhere
  <1>3. u.message = Nowhere /\ same
    <2>1. u \in States
      BY MoveMessageTyped
    <2>2. st.inReasoning = u.inReasoning /\ u.inText = st.inText /\ u.reasoning = st.reasoning
          /\ u.first = st.first /\ u.calls = st.calls /\ u.active = st.active /\ u.message = Nowhere
      BY <1>2 DEF MoveMessage, States
    <2> QED
      BY <2>1, <2>2
  <1> HIDE DEF u
  <1>4. a = (IF st.inReasoning THEN {0} ELSE {}) /\ a \ (Talking(st) \cup Calling(st, g, c)) = {}
    <2>1. a = (IF st.inReasoning THEN {0} ELSE {})
      <3>1. CASE st.inReasoning
        <4>1. g + c - 1 = 0
          BY <1>2, <3>1 DEF Nowhere
        <4> QED
          BY <3>1, <4>1
      <3>2. CASE ~ st.inReasoning
        <4>1. g + c - 1 = -1
          BY <1>2, <3>2 DEF Nowhere
        <4> QED
          BY <3>2, <4>1
      <3> QED
        BY <3>1, <3>2
    <2>2. Calling(st, g, c) = {} /\ Talking(st) = (IF st.inReasoning THEN {0} ELSE {})
      BY <1>2 DEF Talking, Calling
    <2> QED
      BY <2>1, <2>2
  <1>5. Heard(s, a, {}, Filled(s)) /\ Filled(s) \subseteq a
    BY <1>4 DEF ChatItems, Calling
  <1> HIDE DEF a
  <1>6. Heard(t, a \cup {0}, {}, Filled(s) \cup {0}) /\ Reasoned(u, 0, r)
    <2>1. 0 \in Nat /\ 0 \notin {} /\ (u.inReasoning <=> 0 \in a) /\ u \in States
      BY <1>4, <1>3
    <2>2. ReasonsOn(s, a, {}, Filled(s), u, 0)
      BY <1>5, <2>1, ReasonHeard
    <2> QED
      BY <1>1, <2>2 DEF ReasonsOn
  <1>7. /\ r.st.reasoning = 0 /\ r.st.message = Nowhere /\ r.st.inReasoning /\ ~ r.st.inText
        /\ r.st.first = st.first /\ r.st.calls = 0..(0 - 1) /\ r.st.active # "tool" /\ Numbers(more) = r.st.calls
    BY <1>2, <1>6, <1>3 DEF Reasoned, Apart
  <1>8. Filled(t) = Filled(s) \cup {0}
    BY <1>6, HeardFilled
  <1>9. /\ 0..(1 + 0 - 1) = {0} /\ a \cup {0} = {0}
        /\ {0} \ (Talking(r.st) \cup {}) = {}
    BY <1>4, <1>7 DEF Talking
  <1>10. Heard(t, 0..(1 + 0 - 1), (0..(1 + 0 - 1)) \ (Talking(r.st) \cup {}), Filled(t))
        /\ Filled(t) \subseteq 0..(1 + 0 - 1)
    BY <1>5, <1>6, <1>8, <1>9
  <1>11. ChatShape(1, Numbers(more), r.st, 1, 0)
    BY <1>7 DEF ChatShape, Nowhere
  <1>12. ChatItems(more, r.st, t, 1, 0)
    BY <1>7, <1>10, <1>11 DEF ChatItems, Calling
  <1> QED
    BY <1>7, <1>12 DEF Chats

LEMMA ChatText ==
  ASSUME NEW lines, NEW st \in States, NEW s, NEW g \in Nat, NEW c \in Nat, ChatItems(lines, st, s, g, c),
         NEW k \in Nat, StageOf(lines) = k, k <= 2, NEW more, StageOf(more) = 2, Numbers(more) = Numbers(lines),
         NEW line \in ConvLines, line.type = "text",
         NEW r, r = ChatLine(st, line), NEW t, t = s \o r.out
  PROVE  Chats(more, r, t, st)
  <1> DEFINE cr == CloseReasoning(st)
             u == cr.st
             i == IF u.reasoning = Nowhere THEN 0 ELSE 1
             y == Say(u, i)
             z == cr.out \o y.out
             a == 0..(g + c - 1)
             d == a \ (Talking(st) \cup Calling(st, g, c))
             e == d \cup (IF st.inReasoning THEN {st.reasoning} ELSE {})
             w == s \o cr.out
             v == w \o y.out
  <1>1. r = Result(y.st, z)
    BY Zenon DEF ChatLine, Then
  <1>2. /\ c = 0 /\ st.calls = 0..(0 - 1) /\ st.active # "tool" /\ Numbers(more) = st.calls
        /\ st.reasoning \in {0, Nowhere}
        /\ st.message \in {Nowhere, IF st.reasoning = Nowhere THEN 0 ELSE 1}
        /\ g = (IF st.reasoning = Nowhere THEN 0 ELSE 1) + (IF st.message = Nowhere THEN 0 ELSE 1)
        /\ st.inReasoning => st.reasoning = 0 /\ st.message = Nowhere
        /\ st.inText <=> st.message # Nowhere
    BY DEF ChatItems, ChatShape, Nowhere
  <1>3. /\ a = (IF st.reasoning = 0 THEN {0} ELSE {}) \cup (IF st.inText THEN {st.message} ELSE {})
        /\ e = (IF st.reasoning = 0 THEN {0} ELSE {})
        /\ st.inReasoning => st.reasoning \in a /\ st.reasoning \notin d
    <2>1. Calling(st, g, c) = {}
      BY <1>2 DEF Calling
    <2>2. a = (IF st.reasoning = 0 THEN {0} ELSE {}) \cup (IF st.inText THEN {st.message} ELSE {})
      <3>1. CASE st.reasoning = 0 /\ st.inText
        <4>1. g + c - 1 = 1 /\ st.message = 1
          BY <1>2, <3>1 DEF Nowhere
        <4> QED
          BY <3>1, <4>1
      <3>2. CASE st.reasoning # 0 /\ st.inText
        <4>1. g + c - 1 = 0 /\ st.message = 0
          BY <1>2, <3>2 DEF Nowhere
        <4> QED
          BY <3>2, <4>1
      <3>3. CASE st.reasoning = 0 /\ ~ st.inText
        <4>1. g + c - 1 = 0
          BY <1>2, <3>3 DEF Nowhere
        <4> QED
          BY <3>3, <4>1
      <3>4. CASE st.reasoning # 0 /\ ~ st.inText
        <4>1. g + c - 1 = -1
          BY <1>2, <3>4 DEF Nowhere
        <4> QED
          BY <3>4, <4>1
      <3> QED
        BY <3>1, <3>2, <3>3, <3>4
    <2>3. st.inText => st.message = (IF st.reasoning = 0 THEN 1 ELSE 0)
      BY <1>2 DEF Nowhere
    <2> HIDE DEF a
    <2>4. d = a \ Talking(st)
      BY <2>1
    <2> QED
      BY <1>2, <2>2, <2>3, <2>4 DEF Talking, Nowhere
  <1>4. Heard(s, a, d, Filled(s)) /\ Filled(s) \subseteq a
    BY DEF ChatItems
  <1> HIDE DEF a, d
  <1>5. Heard(w, a, e, Filled(s)) /\ ReasoningShut(st, cr)
    <2>1. ReasoningCloses(s, a, d, Filled(s), st)
      BY <1>3, <1>4, CloseReasoningHeard
    <2> QED
      BY <2>1 DEF ReasoningCloses
  <1> HIDE DEF cr, e, w
  <1>6. /\ u \in States /\ cr.out \in Seq(Outs) /\ u.message = st.message /\ u.calls = st.calls
        /\ u.active = st.active
        /\ u.reasoning = st.reasoning /\ ~ u.inReasoning /\ u.inText = st.inText /\ u.first = st.first
    BY <1>5 DEF ReasoningShut, Apart, Results
  <1> HIDE DEF u
  <1>7. i \in Nat /\ i = (IF st.reasoning = 0 THEN 1 ELSE 0) /\ (st.inText => st.message = i)
    BY <1>2, <1>6 DEF Nowhere
  <1>8. y = Say(u, i)
    OBVIOUS
  <1> HIDE DEF i, y
  <1>9. i \notin e /\ (u.inText <=> i \in a)
    BY <1>2, <1>3, <1>6, <1>7
  <1>10. Heard(v, a \cup {i}, e, Filled(s) \cup {i}) /\ Said(u, i, y)
    <2>1. SaysOn(w, a, e, Filled(s), u, i)
      BY <1>5, <1>6, <1>7, <1>9, SayHeard
    <2> QED
      BY <1>8, <2>1 DEF SaysOn
  <1> HIDE DEF z
  <1>11. r.st = y.st /\ r.out = z /\ y.out \in Seq(Outs)
    BY <1>1, <1>10, ResultFields DEF Said, Results
  <1>12. t = v
    <2> DEFINE co == cr.out
               yo == y.out
    <2>1. s \in Seq(Outs) /\ co \in Seq(Outs) /\ yo \in Seq(Outs) /\ t = s \o (co \o yo)
      BY <1>4, <1>6, <1>11 DEF Heard, z
    <2>2. v = (s \o co) \o yo
      BY DEF w
    <2> HIDE DEF co, yo, v
    <2>3. s \o (co \o yo) = (s \o co) \o yo
      BY <2>1, Grouped
    <2> QED
      BY <2>1, <2>2, <2>3
  <1>13. /\ r.st.reasoning = st.reasoning /\ r.st.message = i /\ ~ r.st.inReasoning
         /\ r.st.inText /\ r.st.first = st.first /\ r.st.calls = st.calls /\ r.st.active # "tool"
    BY <1>2, <1>6, <1>10, <1>11 DEF Said, Apart
  <1> DEFINE n == i + 1
  <1>14. n \in Nat /\ ChatShape(2, Numbers(more), r.st, n, 0)
    BY <1>2, <1>7, <1>13 DEF ChatShape, Nowhere
  <1>15. Calling(r.st, n, 0) = {} /\ Talking(r.st) = {i}
    BY <1>13 DEF Calling, Talking
  <1>16. n + 0 - 1 = i /\ 0..i = a \cup {i} /\ (0..i) \ ({i} \cup {}) = e
    <2>1. n + 0 - 1 = i
      BY <1>7
    <2>2. 0..i = {0, i}
      BY <1>7
    <2> QED
      BY <1>2, <1>3, <1>7, <2>1, <2>2
  <1>17. Filled(t) = Filled(s) \cup {i}
    BY <1>10, <1>12, HeardFilled
  <1> HIDE DEF n
  <1>18. Heard(t, 0..(n + 0 - 1), (0..(n + 0 - 1)) \ (Talking(r.st) \cup Calling(r.st, n, 0)), Filled(t))
    BY <1>10, <1>12, <1>15, <1>16, <1>17
  <1>19. Filled(t) \subseteq 0..(n + 0 - 1)
    BY <1>4, <1>16, <1>17
  <1>20. ChatItems(more, r.st, t, n, 0)
    BY <1>14, <1>18, <1>19 DEF ChatItems
  <1>21. r.st.first = st.first /\ n \in Nat /\ 0 \in Nat
    BY <1>13, <1>14
  <1> QED
    BY <1>20, <1>21 DEF Chats

LEMMA ChatCall ==
  ASSUME NEW lines, NEW st \in States, NEW s, NEW g \in Nat, NEW c \in Nat, ChatItems(lines, st, s, g, c),
         NEW k \in Nat, StageOf(lines) = k, k <= 3, NEW more, StageOf(more) = 3,
         NEW line \in ConvLines, line.type = "call", line.n = c, Numbers(more) = Numbers(lines) \cup {c},
         NEW r, r = ChatLine(st, line), NEW t, t = s \o r.out
  PROVE  Chats(more, r, t, st)
  <1> DEFINE b == Then(CloseReasoning(st), CloseText)
             u == b.st
             j == CallIndex(u, c)
             all == u.calls \cup {c}
             next == [u EXCEPT !.calls = all, !.active = "tool", !.called = TRUE]
             x == AddCall(u, c)
             items == 0..(g + c - 1)
             d == items \ Calling(st, g, c)
             w == s \o b.out
             z == b.out \o x.out
             n == c + 1
  <1>1. r = Result(x.st, z)
    BY Zenon DEF ChatLine, Then
  <1>2. Heard(w, items, d, Filled(s)) /\ BothShut(st, b)
    <2>1. ChatBoth(st, s, g, c)
      BY ChatBothHeard
    <2> QED
      BY <2>1 DEF ChatBoth
  <1>3. /\ st.calls = 0..(c - 1) /\ Numbers(lines) = st.calls /\ (c > 0 => st.active = "tool")
        /\ Filled(s) \subseteq items /\ (st.active = "tool" => c > 0) /\ s \in Seq(Outs)
    BY DEF ChatItems, ChatShape, Heard
  <1>4. d = 0..(g - 1)
    <2>1. CASE c = 0
      <3>1. Calling(st, g, c) = {} /\ g + c - 1 = g - 1
        BY <1>3, <2>1 DEF Calling
      <3> QED
        BY <3>1
    <2>2. CASE c > 0
      <3>1. Calling(st, g, c) = g..(g + c - 1)
        BY <1>3, <2>2 DEF Calling
      <3> QED
        BY <2>2, <3>1
    <2> QED
      BY <2>1, <2>2
  <1> HIDE DEF b, d, w
  <1>5. /\ u \in States /\ u.first = st.first /\ u.calls = st.calls /\ b.out \in Seq(Outs)
        /\ u.reasoning = st.reasoning /\ u.message = st.message /\ ~ u.inReasoning /\ ~ u.inText
    BY <1>2 DEF BothShut, Apart, Results
  <1> HIDE DEF u
  <1>6. j = c + g
    <2>1. Given(u) = Given(st)
      BY <1>5 DEF Given
    <2>2. Cardinality(Given(u)) = g
      BY <2>1, ChatFacts
    <2> QED
      BY <2>2 DEF CallIndex
  <1>7. x = Result(next, <<About("added", j, "function_call")>>)
    <2>1. c \notin u.calls
      BY <1>3, <1>5
    <2> QED
      BY <2>1 DEF AddCall
  <1>8. all = 0..c
    BY <1>3, <1>5
  <1>9. /\ next.calls = all /\ next.active = "tool" /\ next.first = u.first /\ next.reasoning = u.reasoning
        /\ next.message = u.message /\ next.inReasoning = u.inReasoning /\ next.inText = u.inText
    BY <1>5 DEF States
  <1> HIDE DEF next, x, z, all
  <1>10. x.st = next /\ x.out = <<About("added", j, "function_call")>> /\ r.st = x.st /\ r.out = z
    BY <1>1, <1>7, ResultFields
  <1> HIDE DEF j
  <1>11. j \in Nat /\ j \notin items /\ "function_call" \in Shape!Kinds
    BY <1>6 DEF Shape!Kinds
  <1>12. x.out \in Seq(Outs)
    BY <1>10, <1>11, AboutIs, NoOut
  <1>13. t = w \o <<About("added", j, "function_call")>>
    <2> DEFINE bo == b.out
               xo == x.out
    <2>1. s \in Seq(Outs) /\ bo \in Seq(Outs) /\ xo \in Seq(Outs) /\ t = s \o (bo \o xo)
      BY <1>3, <1>5, <1>10, <1>12 DEF z
    <2>2. w = s \o bo
      BY DEF w
    <2> HIDE DEF bo, xo
    <2>3. s \o (bo \o xo) = (s \o bo) \o xo
      BY <2>1, Grouped
    <2> QED
      BY <1>10, <2>1, <2>2, <2>3 DEF xo
  <1>14. Heard(t, items \cup {j}, d, Filled(s))
    BY <1>2, <1>11, <1>13, HeardAdded
  <1>15. Filled(t) = Filled(s)
    BY <1>14, HeardFilled
  <1>16. /\ r.st.calls = 0..c /\ r.st.active = "tool" /\ r.st.first = st.first /\ r.st.reasoning = st.reasoning
         /\ r.st.message = st.message /\ ~ r.st.inReasoning /\ ~ r.st.inText
    BY <1>5, <1>8, <1>9, <1>10
  <1>17. n \in Nat /\ n - 1 = c /\ n > 0 /\ 0..(g + n - 1) = items \cup {j} /\ g + n - 1 = g + c
    BY <1>6
  <1>18. Calling(r.st, g, n) = g..(g + c) /\ Talking(r.st) = {}
    BY <1>16, <1>17 DEF Calling, Talking
  <1>19. (0..(g + n - 1)) \ (Talking(r.st) \cup Calling(r.st, g, n)) = d
    <2>1. (0..(g + c)) \ (g..(g + c)) = 0..(g - 1)
      OBVIOUS
    <2> QED
      BY <1>4, <1>17, <1>18, <2>1
  <1>20. ChatShape(3, Numbers(more), r.st, g, n)
    <2>1. /\ st.reasoning \in {0, Nowhere}
          /\ st.message \in {Nowhere, IF st.reasoning = Nowhere THEN 0 ELSE 1}
          /\ g = (IF st.reasoning = Nowhere THEN 0 ELSE 1) + (IF st.message = Nowhere THEN 0 ELSE 1)
      BY DEF ChatItems, ChatShape
    <2>2. Numbers(more) = r.st.calls /\ r.st.calls = 0..(n - 1)
      BY <1>3, <1>5, <1>8, <1>16, <1>17 DEF all
    <2> QED
      BY <1>16, <1>17, <2>1, <2>2 DEF ChatShape
  <1> HIDE DEF n
  <1>21. Heard(t, 0..(g + n - 1), (0..(g + n - 1)) \ (Talking(r.st) \cup Calling(r.st, g, n)), Filled(t))
    BY <1>14, <1>15, <1>17, <1>19
  <1>22. Filled(t) \subseteq 0..(g + n - 1)
    BY <1>3, <1>15, <1>17
  <1>23. ChatItems(more, r.st, t, g, n)
    BY <1>20, <1>21, <1>22 DEF ChatItems
  <1> QED
    BY <1>16, <1>17, <1>23 DEF Chats

LEMMA ChatArgs ==
  ASSUME NEW lines, NEW st \in States, NEW s, NEW g \in Nat, NEW c \in Nat, ChatItems(lines, st, s, g, c),
         NEW k \in Nat, StageOf(lines) = k, k <= 3, NEW more, StageOf(more) = 3,
         NEW line \in ConvLines, line.type = "args", line.n \in Numbers(lines), Numbers(more) = Numbers(lines),
         NEW r, r = ChatLine(st, line), NEW t, t = s \o r.out
  PROVE  Chats(more, r, t, st)
  <1> DEFINE b == Then(CloseReasoning(st), CloseText)
             u == b.st
             j == CallIndex(u, line.n)
             x == Result(u, <<About("delta", j, "function_call")>>)
             items == 0..(g + c - 1)
             d == items \ Calling(st, g, c)
             w == s \o b.out
             z == b.out \o x.out
  <1>1. r = Result(x.st, z)
    BY Zenon DEF ChatLine, Then
  <1>2. Heard(w, items, d, Filled(s)) /\ BothShut(st, b)
    <2>1. ChatBoth(st, s, g, c)
      BY ChatBothHeard
    <2> QED
      BY <2>1 DEF ChatBoth
  <1>3. /\ line.n \in 0..(c - 1) /\ c > 0 /\ st.active = "tool"
        /\ Filled(s) \subseteq items /\ s \in Seq(Outs)
    BY DEF ChatItems, ChatShape, Heard
  <1> HIDE DEF b, w
  <1>4. /\ u \in States /\ u.first = st.first /\ u.calls = st.calls /\ u.active = st.active /\ b.out \in Seq(Outs)
        /\ u.reasoning = st.reasoning /\ u.message = st.message /\ ~ u.inReasoning /\ ~ u.inText
    BY <1>2 DEF BothShut, Apart, Results
  <1> HIDE DEF u
  <1>5. j = line.n + g
    <2>1. Given(u) = Given(st)
      BY <1>4 DEF Given
    <2>2. Cardinality(Given(u)) = g
      BY <2>1, ChatFacts
    <2> QED
      BY <2>2 DEF CallIndex
  <1> HIDE DEF z
  <1>6. x.st = u /\ x.out = <<About("delta", j, "function_call")>> /\ r.st = x.st /\ r.out = z
    BY <1>1, ResultFields
  <1> HIDE DEF j, x
  <1>7. j \in Nat /\ j \in items /\ j \notin d /\ "function_call" \in Shape!Kinds
    <2>1. Calling(st, g, c) = g..(g + c - 1)
      BY <1>3 DEF Calling
    <2> QED
      BY <1>3, <1>5, <2>1 DEF Shape!Kinds
  <1>8. x.out \in Seq(Outs)
    BY <1>6, <1>7, AboutIs, NoOut
  <1>9. t = w \o <<About("delta", j, "function_call")>>
    <2> DEFINE bo == b.out
               xo == x.out
    <2>1. s \in Seq(Outs) /\ bo \in Seq(Outs) /\ xo \in Seq(Outs) /\ t = s \o (bo \o xo)
      BY <1>3, <1>4, <1>6, <1>8 DEF z
    <2>2. w = s \o bo
      BY DEF w
    <2> HIDE DEF bo, xo
    <2>3. s \o (bo \o xo) = (s \o bo) \o xo
      BY <2>1, Grouped
    <2> QED
      BY <1>6, <2>1, <2>2, <2>3 DEF xo
  <1> HIDE DEF items, d
  <1>10. Heard(t, items, d, Filled(s) \cup {j})
    BY <1>2, <1>7, <1>9, HeardDelta
  <1>11. Filled(t) = Filled(s) \cup {j}
    BY <1>10, HeardFilled
  <1>12. Calling(u, g, c) = Calling(st, g, c) /\ Talking(u) = {}
    BY <1>4 DEF Calling, Talking
  <1>13. Heard(t, 0..(g + c - 1), (0..(g + c - 1)) \ (Talking(u) \cup Calling(u, g, c)), Filled(t))
    BY <1>10, <1>11, <1>12 DEF items, d
  <1>14. Filled(t) \subseteq 0..(g + c - 1)
    BY <1>3, <1>7, <1>11 DEF items
  <1>15. ChatShape(3, Numbers(more), u, g, c)
    BY <1>3, <1>4 DEF ChatItems, ChatShape
  <1>16. ChatItems(more, u, t, g, c)
    BY <1>13, <1>14, <1>15 DEF ChatItems
  <1>17. r.st = u /\ r.st.first = st.first
    BY <1>4, <1>6
  <1> QED
    BY <1>16, <1>17 DEF Chats

LEMMA ChatFinish ==
  ASSUME NEW lines, NEW st \in States, NEW s, NEW g \in Nat, NEW c \in Nat, ChatItems(lines, st, s, g, c),
         NEW more, StageOf(more) = 4, Numbers(more) = Numbers(lines),
         NEW line \in ConvLines, line.type = "finish",
         NEW r, r = ChatLine(st, line), NEW t, t = s \o r.out
  PROVE  Chats(more, r, t, st)
  <1> DEFINE items == 0..(g + c - 1)
             u == r.st
  <1>1. r = CloseAll(st)
    BY DEF ChatLine
  <1>2. Heard(t, items, items, Filled(s)) /\ AllShut(st, r)
    <2>1. ChatAll(st, s, g, c)
      BY ChatAllHeard
    <2> QED
      BY <1>1, <2>1 DEF ChatAll
  <1>3. Filled(t) = Filled(s) /\ Filled(s) \subseteq items
    BY <1>2, HeardFilled DEF ChatItems
  <1>4. Calling(u, g, c) = {} /\ Talking(u) = {}
    BY <1>2 DEF AllShut, Calling, Talking
  <1>5. ChatShape(4, Numbers(more), u, g, c)
    BY <1>2 DEF ChatItems, ChatShape, AllShut
  <1> HIDE DEF items
  <1>6. items \ ({} \cup {}) = items
    OBVIOUS
  <1>7. Heard(t, items, items \ (Talking(u) \cup Calling(u, g, c)), Filled(t)) /\ Filled(t) \subseteq items
    BY <1>2, <1>3, <1>4, <1>6
  <1>8. ChatItems(more, u, t, g, c)
    BY <1>5, <1>7 DEF ChatItems, items
  <1>9. r.st.first = st.first
    BY <1>2 DEF AllShut
  <1> QED
    BY <1>8, <1>9 DEF Chats

LEMMA ChatUsage ==
  ASSUME NEW lines, NEW st \in States, NEW s, NEW g \in Nat, NEW c \in Nat, ChatItems(lines, st, s, g, c),
         NEW more, StageOf(more) = 5, Numbers(more) = Numbers(lines),
         NEW line \in ConvLines, line.type = "usage",
         NEW r, r = ChatLine(st, line), NEW t, t = s \o r.out
  PROVE  Chats(more, r, t, st)
  <1>1. r = Result(st, << >>)
    BY DEF ChatLine
  <1>2. r.st = st /\ r.out = << >>
    BY <1>1, ResultFields
  <1>3. t = s
    BY <1>2, ConcatEmptySeq DEF ChatItems, Heard
  <1>4. ChatShape(5, Numbers(more), st, g, c)
    BY DEF ChatItems, ChatShape
  <1>5. ChatItems(more, st, t, g, c)
    BY <1>3, <1>4 DEF ChatItems
  <1> QED
    BY <1>2, <1>5 DEF Chats

LEMMA ChatDone ==
  ASSUME NEW lines, NEW st \in States, NEW s, NEW g \in Nat, NEW c \in Nat, ChatItems(lines, st, s, g, c),
         NEW r, r = GenerateCompleted(st), NEW t, t = s \o r.out
  PROVE  t \in Seq(Outs) /\ Orderly(t) /\ r.st.first = st.first
  <1> DEFINE a == CloseAll(st)
             u == a.st
             list == Given(u) \cup Range(Calls(u))
             v == [u EXCEPT !.output = list]
             l == Ending(u)
             items == 0..(g + c - 1)
             w == s \o a.out
             z == a.out \o l.out
  <1>1. r = Result(l.st, z)
    BY GenerateCompletedIs
  <1>2. Heard(w, items, items, Filled(s)) /\ AllShut(st, a)
    <2>1. ChatAll(st, s, g, c)
      BY ChatAllHeard
    <2> QED
      BY <2>1 DEF ChatAll
  <1>3. Filled(s) \subseteq items /\ s \in Seq(Outs)
    BY DEF ChatItems, Heard
  <1> HIDE DEF a, w
  <1>4. /\ u \in States /\ u.first = st.first /\ u.calls = st.calls /\ a.out \in Seq(Outs)
        /\ u.reasoning = st.reasoning /\ u.message = st.message
    BY <1>2 DEF AllShut, Results
  <1> HIDE DEF u
  <1>5. Given(u) = 0..(g - 1) /\ Cardinality(u.calls) = c
    <2>1. Given(u) = Given(st)
      BY <1>4 DEF Given
    <2> QED
      BY <1>4, <2>1, ChatFacts
  <1>6. list \in SUBSET Nat /\ items \subseteq list
    <2>1. /\ Calls(u) \in Seq(Nat) /\ DOMAIN Calls(u) = 1..c
          /\ \A i \in 1..c : Calls(u)[i] = i - 1 + Cardinality(Given(u))
      BY <1>4, <1>5, CallsTyped
    <2>2. Cardinality(Given(u)) = g
      <3>1. Given(u) = Given(st)
        BY <1>4 DEF Given
      <3> QED
        BY <3>1, ChatFacts
    <2>3. Range(Calls(u)) \subseteq Nat
      BY <2>1, <2>2 DEF Range
    <2>4. \A m \in items : m \in list
      <3> SUFFICES ASSUME NEW m \in items, m \notin 0..(g - 1) PROVE m \in Range(Calls(u))
        BY <1>5
      <3> DEFINE i == m - g + 1
      <3>1. i \in 1..c /\ i - 1 + g = m
        OBVIOUS
      <3> HIDE DEF i
      <3>2. Calls(u)[i] = m /\ i \in DOMAIN Calls(u)
        BY <2>1, <2>2, <3>1
      <3> QED
        BY <3>2 DEF Range
    <2> QED
      BY <1>5, <2>3, <2>4
  <1>7. l = Complete(v)
    BY DEF Ending
  <1> HIDE DEF list
  <1>8. v \in States /\ v.output = list /\ v.first = u.first
    BY <1>4, <1>6 DEF States
  <1> HIDE DEF v, l, z
  <1>9. l.st = v /\ l.out = Complete(v).out /\ l \in Results /\ r.st = l.st /\ r.out = z
    BY <1>1, <1>7, <1>8, CompleteTyped, ResultFields DEF Complete
  <1> DEFINE x == w \o Complete(v).out
  <1>10. x \in Seq(Outs) /\ Orderly(x)
    <2>1. Filled(s) \subseteq v.output
      BY <1>3, <1>6, <1>8
    <2> HIDE DEF items
    <2> QED
      BY <1>2, <1>8, <2>1, HeardCompleted
  <1>11. t = x
    <2> DEFINE ao == a.out
               lo == l.out
    <2>1. s \in Seq(Outs) /\ ao \in Seq(Outs) /\ lo \in Seq(Outs) /\ t = s \o (ao \o lo)
      BY <1>3, <1>4, <1>9 DEF z, Results
    <2>2. x = (s \o ao) \o lo
      BY <1>9 DEF w
    <2> HIDE DEF ao, lo, x
    <2>3. s \o (ao \o lo) = (s \o ao) \o lo
      BY <2>1, Grouped
    <2> QED
      BY <2>1, <2>2, <2>3
  <1> QED
    BY <1>4, <1>8, <1>9, <1>10, <1>11

ChatSteps(line, more, r, t, st) ==
  /\ t \in Seq(Outs) /\ Orderly(t) /\ r.st.first = st.first
  /\ line.type # "[DONE]" => Chats(more, r, t, st)

LEMMA ChatStep ==
  ASSUME NEW lines \in Seq(ConvLines), NEW line \in ConvLines, NEW more, more = Append(lines, line),
         NEW st \in States, NEW s, NEW g \in Nat, NEW c \in Nat, ChatItems(lines, st, s, g, c),
         NEW k \in Nat, StageOf(lines) = k,
         line.type \in {"reasoning", "text", "finish", "usage", "[DONE]", "call", "args"},
         k < Stage(line.type) \/ (k = Stage(line.type) /\ k <= 3),
         line.type = "call" => line.n = c, line.type = "args" => line.n \in Numbers(lines),
         NEW r, r = IF line.type = "[DONE]" THEN GenerateCompleted(st) ELSE ChatLine(st, line),
         NEW t, t = s \o r.out
  PROVE  ChatSteps(line, more, r, t, st)
  <1> USE DEF ChatSteps
  <1>1. /\ Numbers(more) = Numbers(lines) \cup (IF line.type = "call" THEN {line.n} ELSE {})
        /\ StageOf(more) = Stage(line.type)
    BY MoreLines DEF StageOf
  <1>2. Chats(more, r, t, st) => t \in Seq(Outs) /\ Orderly(t) /\ r.st.first = st.first
    BY DEF Chats, ChatItems, Heard
  <1>3. CASE line.type = "reasoning"
    <2>1. k <= 1 /\ StageOf(more) = 1 /\ Numbers(more) = Numbers(lines) /\ r = ChatLine(st, line)
      BY <1>1, <1>3 DEF Stage
    <2>2. Chats(more, r, t, st)
      BY <1>3, <2>1, ChatReasoning
    <2> QED
      BY <1>2, <2>2
  <1>4. CASE line.type = "text"
    <2>1. k <= 2 /\ StageOf(more) = 2 /\ Numbers(more) = Numbers(lines) /\ r = ChatLine(st, line)
      BY <1>1, <1>4 DEF Stage
    <2>2. Chats(more, r, t, st)
      BY <1>4, <2>1, ChatText
    <2> QED
      BY <1>2, <2>2
  <1>5. CASE line.type = "call"
    <2>1. /\ k <= 3 /\ StageOf(more) = 3 /\ Numbers(more) = Numbers(lines) \cup {c}
          /\ line.n = c /\ r = ChatLine(st, line)
      BY <1>1, <1>5 DEF Stage
    <2>2. Chats(more, r, t, st)
      BY <1>5, <2>1, ChatCall
    <2> QED
      BY <1>2, <2>2
  <1>6. CASE line.type = "args"
    <2>1. /\ k <= 3 /\ StageOf(more) = 3 /\ Numbers(more) = Numbers(lines)
          /\ line.n \in Numbers(lines) /\ r = ChatLine(st, line)
      BY <1>1, <1>6 DEF Stage
    <2>2. Chats(more, r, t, st)
      BY <1>6, <2>1, ChatArgs
    <2> QED
      BY <1>2, <2>2
  <1>7. CASE line.type = "finish"
    <2>1. StageOf(more) = 4 /\ Numbers(more) = Numbers(lines) /\ r = ChatLine(st, line)
      BY <1>1, <1>7 DEF Stage
    <2>2. Chats(more, r, t, st)
      BY <1>7, <2>1, ChatFinish
    <2> QED
      BY <1>2, <2>2
  <1>8. CASE line.type = "usage"
    <2>1. StageOf(more) = 5 /\ Numbers(more) = Numbers(lines) /\ r = ChatLine(st, line)
      BY <1>1, <1>8 DEF Stage
    <2>2. Chats(more, r, t, st)
      BY <1>8, <2>1, ChatUsage
    <2> QED
      BY <1>2, <2>2
  <1>9. CASE line.type = "[DONE]"
    <2>1. r = GenerateCompleted(st)
      BY <1>9
    <2> QED
      BY <1>9, <2>1, ChatDone
  <1> QED
    BY <1>3, <1>4, <1>5, <1>6, <1>7, <1>8, <1>9

-----------------------------------------------------------------------------
(* Responses: whatever the upstream sends, the answer stays orderly         *)

Failed(lines) == Types(lines) \cap {"fault", "rejected"} # {}

(* After its last line the upstream only fails.                             *)
Going(lines) ==
  CASE source = "claude" -> "stop" \notin Types(lines)
    [] source = "gemini" -> Types(lines) \cap {"finish", "bare"} = {}
    [] source = "chat" -> lines # << >> => Last(lines).type # "[DONE]"

HeardOf(lines, st, s) ==
  CASE source = "claude" -> ClaudeItems(lines, st, s)
    [] source = "gemini" -> GeminiItems(lines, st, s)
    [] source = "chat" ->
         /\ lines # << >> => Last(lines).type \in ChatTypes
         /\ ChatItems(lines, st, s, Cardinality(Given(st)), Cardinality(st.calls))

(* lines have turned the converter into st, and s came out.                 *)
Coming(lines, st, s) ==
  /\ s \in Seq(Outs) /\ Orderly(s) /\ st.first = FALSE
  /\ ~ Failed(lines) /\ Going(lines) => HeardOf(lines, st, s)

LEMMA StageMoves ==
  ASSUME NEW last \in ChatTypes, NEW type \in ChatTypes,
         Rank(type) > Rank(last) \/ (Rank(type) = 1 /\ Rank(last) = 1),
         type = "reasoning" => last = "reasoning", type = "text" => last \in {"reasoning", "text"}
  PROVE  Stage(last) < Stage(type) \/ (Stage(last) = Stage(type) /\ Stage(last) <= 3)
  <1>1. CASE type \in {"reasoning", "text"}
    BY <1>1 DEF Stage
  <1>2. CASE type \in {"call", "args"}
    <2>1. Stage(type) = 3 /\ Rank(type) = 1
      BY <1>2 DEF Stage, Rank
    <2>2. last \in {"reasoning", "text", "call", "args"}
      BY <2>1 DEF Rank, ChatTypes
    <2>3. Stage(last) \in 1..3
      BY <2>2 DEF Stage
    <2> QED
      BY <2>1, <2>3
  <1>3. CASE type = "finish"
    <2>1. Stage(type) = 4 /\ Rank(type) = 2
      BY <1>3 DEF Stage, Rank
    <2>2. last \in {"reasoning", "text", "call", "args"}
      BY <2>1 DEF Rank, ChatTypes
    <2>3. Stage(last) \in 1..3
      BY <2>2 DEF Stage
    <2> QED
      BY <2>1, <2>3
  <1>4. CASE type = "usage"
    <2>1. Stage(type) = 5 /\ Rank(type) = 3
      BY <1>4 DEF Stage, Rank
    <2>2. last \in {"reasoning", "text", "call", "args", "finish"}
      BY <2>1 DEF Rank, ChatTypes
    <2>3. Stage(last) \in 1..4
      BY <2>2 DEF Stage
    <2> QED
      BY <2>1, <2>3
  <1>5. CASE type = "[DONE]"
    <2>1. Stage(type) = 6 /\ Rank(type) = 4
      BY <1>5 DEF Stage, Rank
    <2>2. last \in {"reasoning", "text", "call", "args", "finish", "usage"}
      BY <2>1 DEF Rank, ChatTypes
    <2>3. Stage(last) \in 1..5
      BY <2>2 DEF Stage
    <2> QED
      BY <2>1, <2>3
  <1> QED
    BY <1>1, <1>2, <1>3, <1>4, <1>5 DEF ChatTypes

(* One line more, which the upstream may send.                              *)
Comes(more, r, t) == Coming(more, r.st, t)

LEMMA FailedMore ==
  ASSUME NEW lines \in Seq(ConvLines), NEW line \in ConvLines, NEW more, more = Append(lines, line)
  PROVE  Failed(more) <=> Failed(lines) \/ line.type \in {"fault", "rejected"}
  <1>1. Types(more) = Types(lines) \cup {line.type}
    BY MoreLines
  <1> QED
    BY <1>1 DEF Failed

LEMMA ClaudeComes ==
  ASSUME source = "claude", NEW st \in States, sent \in Seq(ConvLines), ~ Failed(sent),
         NEW s, Coming(sent, st, s), NEW line \in ConvLines, line \in ClaudeLines,
         NEW more, more = Append(sent, line),
         NEW r, r = ClaudeLine(st, line), NEW t, t = s \o r.out
  PROVE  Comes(more, r, t)
  <1>1. /\ Upstream!Follows(sent, line) /\ "stop" \notin Types(sent)
        /\ line.type \in {"start", "delta", "stop", "open", "piece", "close"}
        /\ line.type \in {"open", "piece", "close"} => line.block \in Upstream!Blocks
    BY DEF ClaudeLines, Plain, Line
  <1>2. ClaudeItems(sent, st, s) /\ st.first = FALSE
    BY <1>1 DEF Coming, HeardOf, Going
  <1>3. /\ t \in Seq(Outs) /\ Orderly(t) /\ r.st.first = st.first
        /\ line.type # "stop" => ClaudeItems(more, r.st, t)
    <2>1. ClaudeSteps(line, more, r, t, st)
      BY <1>1, <1>2, ClaudeStep
    <2> QED
      BY <2>1 DEF ClaudeSteps
  <1>4. Types(more) = Types(sent) \cup {line.type}
    BY MoreLines
  <1> QED
    BY <1>2, <1>3, <1>4 DEF Comes, Coming, HeardOf, Going

LEMMA GeminiComes ==
  ASSUME source = "gemini", NEW st \in States, sent \in Seq(ConvLines), ~ Failed(sent),
         NEW s, Coming(sent, st, s), NEW line \in ConvLines, line \in GeminiLines,
         NEW more, more = Append(sent, line), InTurn(more),
         NEW r, r = GeminiLine(st, line), NEW t, t = s \o r.out
  PROVE  Comes(more, r, t)
  <1>1. /\ Types(sent) \cap {"finish", "bare"} = {}
        /\ line.type \in {"call", "text", "bare", "finish", "thought"}
        /\ line.type = "thought" => ~ Interrupted(sent)
    <2>1. NextInTurn(sent, line)
      BY InTurnMore
    <2> QED
      BY <2>1 DEF GeminiLines, Plain, Line, NextInTurn
  <1>2. GeminiItems(sent, st, s) /\ st.first = FALSE
    BY <1>1 DEF Coming, HeardOf, Going
  <1>3. /\ t \in Seq(Outs) /\ Orderly(t) /\ r.st.first = st.first
        /\ line.type \notin {"finish", "bare"} => GeminiItems(more, r.st, t)
    <2>1. GeminiSteps(line, more, r, t, st)
      BY <1>1, <1>2, GeminiStep
    <2> QED
      BY <2>1 DEF GeminiSteps
  <1>4. Types(more) = Types(sent) \cup {line.type}
    BY MoreLines
  <1> QED
    BY <1>2, <1>3, <1>4 DEF Comes, Coming, HeardOf, Going

LEMMA ChatComes ==
  ASSUME source = "chat", NEW st \in States, sent \in Seq(ConvLines), ~ Failed(sent),
         NEW s, Coming(sent, st, s), NEW line \in ConvLines, line \in ChatLines,
         NEW more, more = Append(sent, line), InTurn(more),
         NEW r \in Results, r = IF line.type = "[DONE]" THEN GenerateCompleted(st) ELSE ChatLine(st, line),
         NEW t, t = s \o r.out
  PROVE  Comes(more, r, t)
  <1> DEFINE g == Cardinality(Given(st))
             c == Cardinality(st.calls)
             k == StageOf(sent)
  <1>1. /\ line.type \in ChatTypes
        /\ sent # << >> => \/ Rank(line.type) > Rank(Last(sent).type)
                           \/ Rank(line.type) = 1 /\ Rank(Last(sent).type) = 1
        /\ line.type = "call" => line.n = Cardinality(Numbers(sent))
        /\ line.type = "args" => line.n \in Numbers(sent)
    BY DEF ChatLines, Plain, Line, ChatTypes, Numbers
  <1>2. Stage(line.type) \in 1..6 /\ (Stage(line.type) = 6 <=> line.type = "[DONE]")
    BY <1>1 DEF Stage, ChatTypes
  <1>3. sent = << >> => k = 0
    BY DEF StageOf
  <1>4. sent # << >> => Last(sent).type # "[DONE]"
    BY <1>1 DEF Rank, ChatTypes
  <1>5. ChatItems(sent, st, s, g, c) /\ st.first = FALSE /\ (sent # << >> => Last(sent).type \in ChatTypes)
    BY <1>4 DEF Coming, HeardOf, Going
  <1>6. g \in Nat /\ c \in Nat
    BY GivenTyped, CallsTyped
  <1>7. k \in Nat /\ (k < Stage(line.type) \/ (k = Stage(line.type) /\ k <= 3))
    <2>1. CASE sent = << >>
      BY <1>2, <1>3, <2>1
    <2>2. CASE sent # << >>
      <3>1. NextInTurn(sent, line)
        BY InTurnMore
      <3>2. Stage(Last(sent).type) < Stage(line.type)
              \/ (Stage(Last(sent).type) = Stage(line.type) /\ Stage(Last(sent).type) <= 3)
        BY <1>1, <1>5, <2>2, <3>1, StageMoves DEF NextInTurn
      <3>3. k = Stage(Last(sent).type) /\ k \in 1..6
        BY <1>5, <2>2 DEF StageOf, Stage, ChatTypes
      <3> QED
        BY <3>2, <3>3
    <2> QED
      BY <2>1, <2>2
  <1>8. Cardinality(Numbers(sent)) = c
    BY <1>5, <1>6, CountUp DEF ChatItems, ChatShape
  <1> HIDE DEF g, c, k
  <1>9. line.type = "call" => line.n = c
    BY <1>1, <1>8
  <1>10. k = StageOf(sent)
    BY DEF k
  <1>11. /\ t \in Seq(Outs) /\ Orderly(t) /\ r.st.first = st.first
         /\ line.type # "[DONE]" => Chats(more, r, t, st)
    <2>1. ChatSteps(line, more, r, t, st)
      BY <1>1, <1>5, <1>6, <1>7, <1>9, <1>10, ChatStep DEF ChatTypes
    <2> QED
      BY <2>1 DEF ChatSteps
  <1>12. StageOf(more) = Stage(line.type)
    BY MoreLines DEF StageOf
  <1>13. line.type # "[DONE]" => HeardOf(more, r.st, t)
    <2> SUFFICES ASSUME line.type # "[DONE]" PROVE HeardOf(more, r.st, t)
      OBVIOUS
    <2>1. PICK h \in Nat, d \in Nat : ChatItems(more, r.st, t, h, d)
      BY <1>11 DEF Chats
    <2>2. r.st \in States
      BY DEF Results
    <2> DEFINE u == r.st
    <2> HIDE DEF u
    <2>3. ChatItems(more, u, t, h, d) /\ u \in States
      BY <2>1, <2>2 DEF u
    <2>4. Cardinality(Given(u)) = h /\ Cardinality(u.calls) = d
      BY <2>3, ChatFacts
    <2>5. more # << >> => Last(more).type \in ChatTypes
      BY <1>1, MoreLines
    <2>6. HeardOf(more, u, t)
      BY <2>3, <2>4, <2>5 DEF HeardOf
    <2> QED
      BY <2>6 DEF u
  <1>14. line.type = "[DONE]" => ~ Going(more)
    BY MoreLines DEF Going
  <1> QED
    BY <1>5, <1>11, <1>13, <1>14 DEF Comes, Coming

LEMMA BodyComes ==
  ASSUME source \in {"claude", "gemini", "chat"}, sent \in Seq(ConvLines), ~ Failed(sent),
         NEW st \in States, NEW s, Coming(sent, st, s), NEW line \in ConvLines, line \in Spoken \cup FailureOf,
         NEW more, more = Append(sent, line), InTurn(more),
         NEW r \in Results, r = Body(st, line), NEW t, t = s \o r.out
  PROVE  Comes(more, r, t)
  <1>1. CASE line \in FailureOf
    <2>1. line.type \in {"fault", "rejected"}
      BY <1>1 DEF FailureOf, Failures, Plain, Line
    <2>2. Failed(more)
      BY <2>1, FailedMore, Zenon
    <2>3. r = Result(st, << >>)
      BY <2>1, Zenon DEF Body, ClaudeLine, GeminiLine, ChatLine
    <2>4. r.st = st /\ r.out = << >>
      BY <2>3, ResultFields
    <2>5. t = s
      BY <2>4, ConcatEmptySeq DEF Coming
    <2> QED
      BY <2>2, <2>4, <2>5 DEF Comes, Coming
  <1>2. CASE line \in Spoken
    <2>1. CASE source = "claude"
      BY <1>2, <2>1, ClaudeComes DEF Spoken, Body
    <2>2. CASE source = "gemini"
      BY <1>2, <2>2, GeminiComes DEF Spoken, Body
    <2>3. CASE source = "chat"
      <3>1. r = IF line.type = "[DONE]" THEN GenerateCompleted(st) ELSE ChatLine(st, line)
        BY <2>3 DEF Body
      <3> QED
        BY <1>2, <2>3, <3>1, ChatComes DEF Spoken
    <2> QED
      BY <2>1, <2>2, <2>3
  <1> QED
    BY <1>1, <1>2

(* Before its first line the answer is opened.                              *)
LEMMA OpeningComes ==
  ASSUME source \in {"claude", "gemini", "chat"}
  PROVE  Coming(<< >>, OpenedState, Opening2)
  <1> DEFINE st == OpenedState
             none == << >>
  <1>1. Heard(Opening2, {}, {}, {})
    BY HeardOpening
  <1>2. Filled(Opening2) = {} /\ Opening2 \in Seq(Outs) /\ Orderly(Opening2)
    BY <1>1, HeardFilled
  <1>3. /\ st.first = FALSE /\ st.next = 0 /\ st.active = "none" /\ st.output = {} /\ st.calls = {}
        /\ st.reasoning = Nowhere /\ st.message = Nowhere /\ ~ st.inReasoning /\ ~ st.inText
        /\ st.filled = FALSE /\ st \in States
    BY OpeningTyped DEF OpenedState, FreshState
  <1> HIDE DEF st
  <1>4. 0..(0 - 1) = {} /\ {} \ {} = {} /\ {} \cup {} = {}
    OBVIOUS
  <1>5. Given(st) = {} /\ Talking(st) = {} /\ Calling(st, 0, 0) = {}
    BY <1>3 DEF Given, Talking, Calling
  <1>6. none = << >> /\ Types(none) = {} /\ Numbers(none) = {} /\ StageOf(none) = 0
    BY DEF Types, Numbers, StageOf
  <1>7. ClaudeItems(none, st, Opening2)
    BY <1>1, <1>2, <1>3, <1>4 DEF ClaudeItems
  <1>8. GeminiItems(none, st, Opening2)
    <2>1. GeminiShape(none, st)
      BY <1>3 DEF GeminiShape
    <2> QED
      BY <1>1, <1>2, <1>4, <1>5, <2>1 DEF GeminiItems
  <1>9. ChatItems(none, st, Opening2, 0, 0)
    <2>1. ChatShape(0, {}, st, 0, 0)
      BY <1>3, <1>4 DEF ChatShape
    <2>2. 0..(0 + 0 - 1) = {}
      OBVIOUS
    <2> QED
      BY <1>1, <1>2, <1>4, <1>5, <1>6, <2>1, <2>2 DEF ChatItems
  <1>10. Cardinality(Given(st)) = 0 /\ Cardinality(st.calls) = 0
    BY <1>3, <1>5, FS_EmptySet
  <1> HIDE DEF none
  <1>11. HeardOf(none, st, Opening2)
    <2>1. CASE source = "claude"
      BY <1>7, <2>1 DEF HeardOf
    <2>2. CASE source = "gemini"
      BY <1>8, <2>2 DEF HeardOf
    <2>3. CASE source = "chat"
      <3>1. ChatItems(none, st, Opening2, Cardinality(Given(st)), Cardinality(st.calls))
        BY <1>9, <1>10
      <3> QED
        BY <1>6, <2>3, <3>1 DEF HeardOf
    <2> QED
      BY <2>1, <2>2, <2>3
  <1> QED
    BY <1>2, <1>3, <1>11 DEF Coming, st, none

-----------------------------------------------------------------------------
(* Responses: what is written follows what was                              *)

LEMMA SubSeqMore ==
  ASSUME NEW S, NEW q \in Seq(S), NEW n \in 1..Len(q)
  PROVE  /\ SubSeq(q, 1, n) = Append(SubSeq(q, 1, n - 1), q[n]) /\ q[n] \in S
         /\ SubSeq(q, 1, n - 1) \in Seq(S)
  <1> DEFINE m == n - 1
             e == q[n]
             x == SubSeq(q, 1, m)
             y == SubSeq(q, 1, n)
  <1>1. /\ m \in Nat /\ n = m + 1 /\ e \in S
        /\ x \in Seq(S) /\ Len(x) = m /\ \A j \in 1..m : x[j] = q[j]
        /\ y \in Seq(S) /\ Len(y) = n /\ \A j \in 1..n : y[j] = q[j]
    BY SubSeqProperties
  <1>2. \A j \in 1..n : j = n \/ j \in 1..m
    BY <1>1
  <1>3. y[n] = e
    BY <1>1
  <1> HIDE DEF x, y, e, m
  <1> DEFINE ap == Append(x, e)
  <1>4. ap \in Seq(S) /\ Len(ap) = n /\ ap[n] = e /\ \A j \in 1..m : ap[j] = x[j]
    BY <1>1, AppendProperties
  <1> HIDE DEF ap
  <1>5. \A j \in 1..Len(y) : y[j] = ap[j]
    <2> SUFFICES ASSUME NEW j \in 1..Len(y) PROVE y[j] = ap[j]
      OBVIOUS
    <2>1. CASE j = n
      BY <1>3, <1>4, <2>1
    <2>2. CASE j \in 1..m
      BY <1>1, <1>4, <2>2
    <2> QED
      BY <1>1, <1>2, <2>1, <2>2
  <1>6. y = ap
    BY <1>1, <1>4, <1>5, SeqEqual
  <1> QED
    BY <1>1, <1>6 DEF ap, x, y, e, m

LEMMA SubSeqAll ==
  ASSUME NEW S, NEW q \in Seq(S)
  PROVE  SubSeq(q, 1, Len(q)) = q /\ SubSeq(q, 1, 0) = << >>
  <1> DEFINE b == SubSeq(q, 1, Len(q))
  <1>1. b \in Seq(S) /\ Len(b) = Len(q) /\ \A j \in 1..Len(q) : b[j] = q[j]
    BY SubSeqProperties
  <1>2. SubSeq(q, 1, 0) = << >>
    BY SubSeqProperties, EmptySeq
  <1> HIDE DEF b
  <1>3. b = q
    BY <1>1, SeqEqual
  <1> QED
    BY <1>2, <1>3 DEF b

LEMMA ConvertedIn ==
  ASSUME KnownSource, NEW lines \in Seq(SourceLines)
  PROVE  Converted(lines) \in Results
  <1>1. PICK f \in [0..Len(lines) -> Results] : Converted(lines) = f[Len(lines)]
    BY ConvertedUnfolds
  <1>2. Len(lines) \in 0..Len(lines)
    OBVIOUS
  <1> QED
    BY <1>1, <1>2

(* More lines only add to what came out.                                    *)
Prolongs(r, p) == \E t \in Seq(Outs) : Converted(r).out = Converted(p).out \o t

LEMMA ConvertedPrefix ==
  ASSUME KnownSource, NEW p \in Seq(SourceLines), NEW q \in Seq(SourceLines), NEW r, r = p \o q
  PROVE  Prolongs(r, p)
  <1> DEFINE N == Len(q)
             S == {n \in 0..N : Prolongs(p \o SubSeq(q, 1, n), p)}
             begun == Converted(p).out
  <1>1. N \in Nat /\ begun \in Seq(Outs)
    BY ConvertedIn DEF Results
  <1>2. 0 \in S
    <2> DEFINE w == p \o SubSeq(q, 1, 0)
    <2>1. w = p
      BY SubSeqAll, ConcatEmptySeq
    <2>2. begun = begun \o << >> /\ << >> \in Seq(Outs)
      BY <1>1, ConcatEmptySeq, EmptySeq
    <2>3. Prolongs(p, p)
      BY <2>2 DEF Prolongs
    <2> HIDE DEF w
    <2>4. Prolongs(w, p)
      BY <2>1, <2>3
    <2>5. 0 \in 0..N
      BY <1>1
    <2> QED
      BY <2>4, <2>5 DEF w
  <1>3. ASSUME NEW n \in 1..N, n - 1 \in S PROVE n \in S
    <2> DEFINE x == SubSeq(q, 1, n - 1)
               y == SubSeq(q, 1, n)
               line == q[n]
    <2>1. y = Append(x, line) /\ line \in SourceLines /\ x \in Seq(SourceLines)
      BY SubSeqMore
    <2>2. Prolongs(p \o x, p)
      BY <1>3
    <2> HIDE DEF x, y, line
    <2>3. y = x \o <<line>> /\ <<line>> \in Seq(SourceLines)
      BY <2>1, AppendFacts
    <2>4. p \o y = (p \o x) \o <<line>> /\ p \o x \in Seq(SourceLines)
      <3>1. p \o (x \o <<line>>) = (p \o x) \o <<line>>
        BY <2>1, <2>3, Regroup
      <3> QED
        BY <2>1, <2>3, <3>1, ConcatProperties
    <2> DEFINE w == p \o x
    <2>5. w \in Seq(SourceLines) /\ p \o y = Append(w, line)
      BY <2>1, <2>4, AppendFacts
    <2>6. Prolongs(w, p)
      BY <2>2
    <2> HIDE DEF w
    <2>7. Converted(w) \in Results /\ Converted(Append(w, line)) = Joined(Converted(w), line)
      BY <2>1, <2>5, ConvertedAppend
    <2> DEFINE c == Convert(Converted(w).st, line)
    <2>8. c \in Results
      BY <2>1, <2>7, ConvertTyped DEF Results, KnownSource
    <2>9. Converted(Append(w, line)) = Result(c.st, Converted(w).out \o c.out)
      BY <2>7 DEF Joined
    <2> HIDE DEF c
    <2>10. Converted(Append(w, line)).out = Converted(w).out \o c.out
      <3> DEFINE o == Converted(w).out \o c.out
                 cs == c.st
      <3>1. Converted(Append(w, line)) = Result(cs, o)
        BY <2>9
      <3> HIDE DEF o, cs
      <3>2. Converted(Append(w, line)).out = o
        BY <3>1, ResultFields
      <3> QED
        BY <3>2 DEF o
    <2>11. PICK t \in Seq(Outs) : Converted(w).out = begun \o t
      BY <2>6 DEF Prolongs
    <2> DEFINE co == c.out
    <2>12. co \in Seq(Outs)
      BY <2>8 DEF Results
    <2> HIDE DEF begun
    <2>13. Converted(Append(w, line)).out = (begun \o t) \o co
      BY <2>10, <2>11
    <2> HIDE DEF co
    <2>14. (begun \o t) \o co = begun \o (t \o co) /\ t \o co \in Seq(Outs)
      <3>1. begun \o (t \o co) = (begun \o t) \o co
        BY <1>1, <2>11, <2>12, Grouped
      <3> QED
        BY <2>11, <2>12, <3>1, ConcatProperties
    <2>15. Prolongs(Append(w, line), p)
      BY <2>13, <2>14 DEF Prolongs, begun
    <2>16. Prolongs(p \o SubSeq(q, 1, n), p)
      BY <2>5, <2>15 DEF y
    <2>17. n \in 0..N
      BY <1>1
    <2> QED
      BY <2>16, <2>17
  <1>4. \A n \in 0..N : n \in S
    <2> HIDE DEF S
    <2> QED
      BY <1>1, <1>2, <1>3, InductionTo
  <1>5. Prolongs(p \o SubSeq(q, 1, N), p)
    BY <1>1, <1>4
  <1> QED
    BY <1>5, SubSeqAll

(* Of an answer that is orderly every event follows those before it.        *)
LEMMA OrderlyFollows ==
  ASSUME NEW s \in Seq(Outs), NEW e \in Outs, NEW t \in Seq(Outs), NEW v, v = s \o (<<e>> \o t), Orderly(v)
  PROVE  Reader!Follows(s, e)
  <1>1. <<e>> \o t \in Seq(Outs) /\ Len(<<e>> \o t) = 1 + Len(t) /\ (<<e>> \o t)[1] = e
        /\ Len(t) \in Nat /\ Len(s) \in Nat
    BY ConcatProperties
  <1> DEFINE u == <<e>> \o t
             n == Len(s) + 1
  <1>2. /\ v \in Seq(Outs) /\ Len(v) = Len(s) + Len(u) /\ \A j \in 1..Len(s) : v[j] = s[j]
        /\ v[n] = e /\ n \in 1..Len(v)
    <2>1. u \in Seq(Outs) /\ Len(u) = 1 + Len(t) /\ u[1] = e /\ v = s \o u
      BY <1>1
    <2> HIDE DEF u
    <2>2. /\ v \in Seq(Outs) /\ Len(v) = Len(s) + Len(u)
          /\ \A j \in 1..Len(s) : v[j] = s[j]
          /\ \A j \in (Len(s) + 1)..(Len(s) + Len(u)) : v[j] = u[j - Len(s)]
      BY <1>1, <2>1, ConcatProperties, LenProperties
    <2>3. n \in (Len(s) + 1)..(Len(s) + Len(u)) /\ n - Len(s) = 1
      BY <1>1, <2>1
    <2> QED
      BY <1>1, <2>1, <2>2, <2>3
  <1> DEFINE a == SubSeq(v, 1, n - 1)
  <1>3. a \in Seq(Outs) /\ Len(a) = Len(s) /\ \A j \in 1..Len(s) : a[j] = v[j]
    <2>1. n - 1 = Len(s) /\ Len(s) <= Len(v)
      BY <1>1, <1>2
    <2> QED
      BY <1>1, <1>2, <2>1, SubSeqProperties
  <1>4. Reader!Follows(a, v[n])
    BY <1>2 DEF Orderly
  <1> HIDE DEF a, n, u
  <1>5. a = s
    BY <1>2, <1>3, SeqEqual
  <1> QED
    BY <1>2, <1>4, <1>5

-----------------------------------------------------------------------------
(* Responses: what the upstream's lines convert to is an orderly answer     *)

Answered ==
  IF source = "responses" THEN Converted(sent).out = sent /\ Orderly(sent)
  ELSE sent = << >> \/ (InTurn(sent) => Coming(sent, Converted(sent).st, Converted(sent).out))

LEMMA AnsweredOrderly ==
  ASSUME KnownSource, Answered, InTurn(sent)
  PROVE  Orderly(Converted(sent).out)
  <1>1. CASE source = "responses"
    BY <1>1 DEF Answered
  <1>2. CASE source # "responses" /\ sent = << >>
    <2>1. Converted(sent) = Result(FreshState, << >>)
      BY <1>2, ConvertedNone
    <2>2. Converted(sent).out = << >>
      BY <2>1, ResultFields
    <2> QED
      BY <2>2 DEF Orderly
  <1>3. CASE source # "responses" /\ sent # << >>
    BY <1>3 DEF Answered, Coming
  <1> QED
    BY <1>1, <1>2, <1>3

LEMMA AnsweredInit == StreamInit => Answered
  <1> SUFFICES ASSUME StreamInit PROVE Answered
    OBVIOUS
  <1>1. sent = << >> /\ KnownSource
    BY KnownIs DEF StreamInit
  <1>2. Converted(sent) = Result(FreshState, << >>)
    BY <1>1, ConvertedNone
  <1>3. Converted(sent).out = << >>
    BY <1>2, ResultFields
  <1> QED
    BY <1>1, <1>3 DEF Answered, Orderly

LEMMA SameAnswered ==
  ASSUME source' = source, NEW more, sent' = more
  PROVE  Answered' <=> IF source = "responses" THEN Converted(more).out = more /\ Orderly(more)
                       ELSE more = << >> \/ (InTurn(more) => Coming(more, Converted(more).st, Converted(more).out))
  <1>1. Converted(more)' = Converted(more)
    BY SameSource
  <1>2. Converted(sent)' = Converted(more)'
    OBVIOUS
  <1> QED
    BY <1>1, <1>2 DEF Answered, Coming, HeardOf, Going, InTurn

(* A line that passes through.                                              *)
LEMMA PassedThrough ==
  ASSUME StreamTypes, source = "responses", Answered, NEW line \in Spoken \cup FailureOf,
         NEW more, more = Append(sent, line)
  PROVE  Converted(more).out = more /\ Orderly(more)
  <1>1. KnownSource /\ SourceLines = Outs /\ sent \in Seq(Outs) /\ line \in Outs
    BY KnownIs, SpokenTyped DEF StreamTypes, SourceLines
  <1>2. Converted(sent).out = sent /\ Orderly(sent)
    BY DEF Answered
  <1>3. Reader!Follows(sent, line)
    <2>1. CASE line \in ResponsesLines
      BY <2>1 DEF ResponsesLines
    <2>2. CASE line \in FailureOf
      <3>1. line.type \in {"fault", "rejected"}
        BY <2>2 DEF FailureOf, Reader!Plain, Reader!About
      <3> QED
        BY <3>1 DEF Reader!Follows
    <2> QED
      BY <2>1, <2>2 DEF Spoken
  <1>4. Orderly(more)
    BY <1>1, <1>2, <1>3, OrderlyAppend
  <1>5. Converted(more) = Joined(Converted(sent), line)
    BY <1>1, ConvertedAppend
  <1> DEFINE st == Converted(sent).st
             c == Convert(st, line)
             one == <<line>>
             o == sent \o c.out
             cs == c.st
  <1>6. c = Result(st, one)
    BY DEF Convert
  <1>7. Converted(more) = Result(cs, o)
    BY <1>2, <1>5 DEF Joined
  <1> HIDE DEF st, c
  <1>8. c.out = one
    BY <1>6, ResultFields
  <1> HIDE DEF cs, o
  <1>9. Converted(more).out = o
    BY <1>7, ResultFields
  <1>10. more = sent \o <<line>>
    BY <1>1, AppendFacts
  <1>11. o = more
    BY <1>8, <1>10 DEF o
  <1> QED
    BY <1>4, <1>9, <1>11

(* The first line, which opens the answer.                                  *)
LEMMA FirstLine ==
  ASSUME StreamTypes, source # "responses", sent = << >>, NEW line \in Spoken \cup FailureOf,
         NEW more, more = Append(sent, line), InTurn(more)
  PROVE  Coming(more, Converted(more).st, Converted(more).out)
  <1>1. /\ KnownSource /\ SourceLines = ConvLines /\ sent \in Seq(ConvLines) /\ line \in ConvLines
        /\ source \in {"claude", "gemini", "chat"}
    BY KnownIs, SpokenTyped DEF StreamTypes, SourceLines, KnownSource
  <1>2. ~(source = "chat" /\ line.type = "[DONE]")
    <2>1. line \in Failures => line.type # "[DONE]"
      BY DEF Failures, Plain, Line
    <2>2. line \in ChatLines => line.type # "[DONE]"
      BY DEF ChatLines
    <2> QED
      BY <1>1, <2>1, <2>2 DEF Spoken, FailureOf
  <1> DEFINE c == Convert(FreshState, line)
             r == Body(OpenedState, line)
             ro == r.out
             rs == r.st
             t == Opening2 \o ro
  <1>3. c = Result(rs, t)
    BY <1>1, <1>2, ConvertIs, FreshTyped
  <1>4. r \in Results /\ OpenedState \in States /\ Opening2 \in Seq(Outs)
    BY <1>1, OpeningTyped, BodyTyped
  <1>5. Converted(sent) = Result(FreshState, << >>)
    BY <1>1, ConvertedNone
  <1>6. Converted(more) = Joined(Converted(sent), line)
    BY <1>1, ConvertedAppend
  <1>7. Converted(sent).st = FreshState /\ Converted(sent).out = << >>
    BY <1>5, ResultFields
  <1>8. Converted(more) = Result(c.st, << >> \o c.out)
    BY <1>6, <1>7 DEF Joined
  <1>9. ~ Failed(sent) /\ Coming(sent, OpenedState, Opening2)
    BY <1>1, OpeningComes DEF Failed, Types
  <1> HIDE DEF c, r
  <1>10. ro \in Seq(Outs)
    BY <1>4 DEF Results
  <1> HIDE DEF ro, rs
  <1>11. t \in Seq(Outs)
    BY <1>4, <1>10, ConcatProperties
  <1>12. Comes(more, r, t)
    <2>1. r = Body(OpenedState, line) /\ t = Opening2 \o r.out
      BY DEF r, ro
    <2> HIDE DEF t
    <2> QED
      BY <1>1, <1>4, <1>9, <2>1, BodyComes
  <1> HIDE DEF t
  <1>13. c.st = rs /\ c.out = t
    BY <1>3, ResultFields
  <1>14. Converted(more) = Result(rs, t)
    BY <1>8, <1>11, <1>13, ConcatEmptySeq
  <1>15. Converted(more).st = rs /\ Converted(more).out = t
    BY <1>14, ResultFields
  <1> QED
    BY <1>12, <1>15 DEF Comes, rs

(* Any other line.                                                          *)
LEMMA LaterLine ==
  ASSUME StreamTypes, source # "responses", sent # << >>, ~ Failed(sent), Answered,
         NEW line \in Spoken \cup FailureOf, NEW more, more = Append(sent, line), InTurn(more)
  PROVE  Coming(more, Converted(more).st, Converted(more).out)
  <1>1. /\ KnownSource /\ SourceLines = ConvLines /\ sent \in Seq(ConvLines) /\ line \in ConvLines
        /\ source \in {"claude", "gemini", "chat"}
    BY KnownIs, SpokenTyped DEF StreamTypes, SourceLines, KnownSource
  <1> DEFINE before == Converted(sent)
             st == before.st
             s == before.out
             c == Convert(st, line)
             t == s \o c.out
             cs == c.st
  <1>2. Coming(sent, st, s)
    <2>1. InTurn(sent)
      BY <1>1, InTurnMore DEF NextInTurn
    <2> QED
      BY <2>1 DEF Answered
  <1>3. before \in Results /\ Converted(more) = Joined(before, line)
    BY <1>1, ConvertedAppend
  <1>4. Converted(more) = Result(cs, t)
    BY <1>3 DEF Joined
  <1> HIDE DEF before
  <1>5. st \in States /\ s \in Seq(Outs)
    BY <1>3 DEF Results
  <1> HIDE DEF st, s
  <1>6. ~ st.first
    BY <1>2 DEF Coming
  <1>7. c = Body(st, line)
    BY <1>1, <1>5, <1>6, ConvertIs
  <1>8. c \in Results
    BY <1>1, <1>5, <1>7, BodyTyped
  <1> HIDE DEF c
  <1>9. Comes(more, c, t)
    BY <1>1, <1>2, <1>5, <1>7, <1>8, BodyComes
  <1> HIDE DEF t, cs
  <1>10. Converted(more).st = cs /\ Converted(more).out = t
    BY <1>4, ResultFields
  <1> QED
    BY <1>9, <1>10 DEF Comes, cs

LEMMA AnsweredStep == StreamTypes /\ Answered /\ [StreamNext]_streamVars => Answered'
  <1> SUFFICES ASSUME StreamTypes, Answered, [StreamNext]_streamVars PROVE Answered'
    OBVIOUS
  <1>1. CASE ReadLine
    <2>1. PICK line \in Spoken \cup FailureOf : sent' = Append(sent, line)
      BY <1>1 DEF ReadLine
    <2>2. source' = source /\ ~ Failed(sent)
      BY <1>1 DEF ReadLine, Failed
    <2>3. PICK more : more = Append(sent, line)
      OBVIOUS
    <2>4. source = "responses" => Converted(more).out = more /\ Orderly(more)
      BY <2>3, PassedThrough
    <2>5. source # "responses" /\ InTurn(more) => Coming(more, Converted(more).st, Converted(more).out)
      BY <2>2, <2>3, FirstLine, LaterLine
    <2>6. sent' = more
      BY <2>1, <2>3
    <2> QED
      BY <2>2, <2>4, <2>5, <2>6, SameAnswered
  <1>2. CASE ~ ReadLine
    <2>1. source' = source /\ sent' = sent
      BY <1>2 DEF StreamNext, Scan, Answer, ScanOver, StopScanning, PreflightLine, PreflightOver, PreflightExpires,
                  ProcessLine, WriteEvent, LinesOver, ReaderLeaves, streamVars, scannerVars
    <2>2. PICK more : more = sent
      OBVIOUS
    <2> QED
      BY <2>1, <2>2, SameAnswered DEF Answered
  <1> QED
    BY <1>1, <1>2

-----------------------------------------------------------------------------
(* Responses: the theorems                                                  *)

(* What is written next is what the lines converted so far, and then those  *)
(* that are still to come, have next: it follows what was written.          *)
LEMMA NextFollows ==
  ASSUME ResponsesInv, Answered, InTurn(sent), phase # "done", phase # "preflight", present, unwritten # << >>
  PROVE  Head(unwritten) \in Outs /\ Reader!Follows(received, Head(unwritten))
  <1>1. StreamTypes /\ KnownSource
    BY KnownIs DEF ResponsesInv, StreamTypes
  <1>2. PICK passed \in Seq(SourceLines) :
          sent = passed \o (bufferedLines \o Scanned) /\ Replayed(passed)
    BY DEF ResponsesInv, Held
  <1> DEFINE rest == bufferedLines \o Scanned
             e == Head(unwritten)
             tail == Tail(unwritten)
             whole == Converted(sent).out
  <1>3. rest \in Seq(SourceLines)
    <2>1. bufferedLines \in Seq(SourceLines) /\ Scanned \in Seq(SourceLines)
      BY <1>1, ScannedTyped DEF StreamTypes
    <2> QED
      BY <2>1, ConcatProperties
  <1>4. sent = passed \o rest
    BY <1>2
  <1> HIDE DEF rest
  <1>5. Prolongs(sent, passed)
    BY <1>1, <1>3, <1>4, ConvertedPrefix
  <1>6. PICK more \in Seq(Outs) : whole = Converted(passed).out \o more
    BY <1>5 DEF Prolongs
  <1>7. Converted(passed).out = received \o unwritten
    BY <1>2 DEF Replayed
  <1>8. received \in Seq(Outs) /\ unwritten \in Seq(Outs)
    BY <1>1 DEF StreamTypes
  <1>9. /\ e \in Outs /\ tail \in Seq(Outs) /\ <<e>> \in Seq(Outs)
        /\ unwritten = <<e>> \o tail
    BY <1>8, HeadFirst
  <1>10. Orderly(whole)
    BY <1>1, AnsweredOrderly
  <1> HIDE DEF e, tail, whole
  <1>11. whole = received \o (<<e>> \o (tail \o more)) /\ tail \o more \in Seq(Outs)
    <2>1. whole = (received \o unwritten) \o more
      BY <1>6, <1>7
    <2>2. (received \o unwritten) \o more = received \o (unwritten \o more)
      BY <1>6, <1>8, Grouped
    <2>3. (<<e>> \o tail) \o more = <<e>> \o (tail \o more)
      BY <1>6, <1>9, Grouped
    <2> QED
      BY <1>6, <1>9, <2>1, <2>2, <2>3, ConcatProperties
  <1> DEFINE after == tail \o more
  <1>12. after \in Seq(Outs) /\ whole = received \o (<<e>> \o after)
    BY <1>11
  <1> HIDE DEF after
  <1>13. Reader!Follows(received, e)
    BY <1>8, <1>9, <1>10, <1>12, OrderlyFollows
  <1> QED
    BY <1>9, <1>13 DEF e

LEMMA OnlyFollowingWritten ==
  ResponsesInv /\ Answered /\ [StreamNext]_streamVars => [InTurn(sent) => Reader!OneMore]_received
  <1> SUFFICES ASSUME ResponsesInv, Answered, [StreamNext]_streamVars, received' # received, InTurn(sent)
               PROVE  /\ Len(received') = Len(received) + 1
                      /\ received = Reader!Front(received')
                      /\ Reader!Follows(received, Reader!Last(received'))
    BY DEF Reader!OneMore
  <1>1. WriteEvent
    BY DEF StreamNext, Scan, Answer, ReadLine, ScanOver, StopScanning, PreflightLine, PreflightOver,
           PreflightExpires, ProcessLine, LinesOver, ReaderLeaves, streamVars
  <1> DEFINE e == Head(unwritten)
             more == received'
             n == Len(received) + 1
  <1>2. /\ phase = "replay" /\ unwritten # << >> /\ present
        /\ more = Append(received, e)
    BY <1>1 DEF WriteEvent
  <1>3. e \in Outs /\ Reader!Follows(received, e) /\ received \in Seq(Outs)
    BY <1>2, NextFollows DEF ResponsesInv, StreamTypes
  <1> HIDE DEF e, more
  <1>4. /\ more \in Seq(Outs) /\ Len(more) = n /\ more[n] = e /\ Len(received) \in Nat
        /\ \A i \in 1..Len(received) : more[i] = received[i]
    BY <1>2, <1>3, AppendProperties
  <1>5. Reader!Last(more) = e
    BY <1>4 DEF Reader!Last
  <1>6. Reader!Front(more) = received
    <2> DEFINE a == SubSeq(more, 1, n - 1)
    <2>1. n - 1 = Len(received) /\ \A i \in 1..(n - 1) : more[i] \in Outs
      BY <1>3, <1>4
    <2>2. a \in Seq(Outs) /\ Len(a) = n - 1 /\ \A i \in 1..(n - 1) : a[i] = more[i]
      BY <1>4, <2>1, SubSeqProperties
    <2>3. Reader!Front(more) = a
      BY <1>4 DEF Reader!Front
    <2> HIDE DEF a, n
    <2>4. a = received
      BY <1>3, <1>4, <2>1, <2>2, SeqEqual
    <2> QED
      BY <2>3, <2>4
  <1> QED
    BY <1>3, <1>4, <1>5, <1>6 DEF more

LEMMA AnsweredAlways == StreamSpec => []Answered
  <1>1. ResponsesInv => StreamTypes
    BY DEF ResponsesInv
  <1> QED
    BY <1>1, AnsweredInit, AnsweredStep, ResponsesInvAlways, PTL DEF StreamSpec

(* Whatever upstream is converted, the client of Responses sees each item   *)
(* opened once, filled while open and closed, before the response           *)
(* completes, for as long as the upstream keeps to InTurn: Chat thinks,     *)
(* then speaks, then calls, and Gemini does not resume a thought that its   *)
(* text has interrupted.                                                    *)
THEOREM ResponsesProper == StreamSpec => ResponseStreamProper
  <1>1. StreamInit => received = << >>
    BY DEF StreamInit
  <1> QED
    BY <1>1, ResponsesInvAlways, AnsweredAlways, OnlyFollowingWritten, PTL
    DEF StreamSpec, ResponseStreamProper

-----------------------------------------------------------------------------
(* The streams side by side                                                 *)

StreamsInv == RelayInv /\ ResponsesInv /\ Answered /\ ChunkInv

(* What one part does is a step of it and leaves the others as they are.    *)
LEMMA OneStepOfEach ==
  [StreamsNext]_streamsVars => [RelayNext]_relayVars /\ [StreamNext]_streamVars /\ [ChunkNext]_chunkVars
  <1>1. UNCHANGED streamsVars => UNCHANGED relayVars /\ UNCHANGED streamVars /\ UNCHANGED chunkVars
    BY DEF streamsVars
  <1>2. StreamsNext => [RelayNext]_relayVars
    BY DEF StreamsNext, Rest
  <1>3. StreamsNext => [StreamNext]_streamVars
    BY DEF StreamsNext, Rest
  <1>4. StreamsNext => [ChunkNext]_chunkVars
    BY DEF StreamsNext, Rest
  <1> QED
    BY <1>1, <1>2, <1>3, <1>4

LEMMA StreamsInvInit == StreamsInit => StreamsInv
  BY RelayInvInit, ResponsesInvInit, AnsweredInit, ChunkInvInit DEF StreamsInit, StreamsInv

LEMMA StreamsInvStep == StreamsInv /\ [StreamsNext]_streamsVars => StreamsInv'
  <1>1. ResponsesInv => StreamTypes
    BY DEF ResponsesInv
  <1> QED
    BY <1>1, OneStepOfEach, RelayInvStep, ResponsesInvStep, AnsweredStep, ChunkInvStep DEF StreamsInv

LEMMA StreamsInvAlways == StreamsSpec => []StreamsInv
  <1> QED
    BY StreamsInvInit, StreamsInvStep, PTL DEF StreamsSpec

(* Whatever the API, the provider and the upstream: a stream that came to   *)
(* its end reaches the client whole.                                        *)
THEOREM AnswersAlwaysWhole == StreamsSpec => []AnswersWhole
  <1>1. StreamsInv => AnswersWhole
    BY RelayWholeOf, ConvertedWholeOf, ChunksWholeOf DEF StreamsInv, AnswersWhole
  <1> QED
    BY <1>1, StreamsInvAlways, PTL

(* Whatever the API, the provider and the upstream: every client sees a     *)
(* well-formed stream of the API it called, up to where it ends or breaks;  *)
(* a client of Responses for as long as its upstream keeps to InTurn.       *)
THEOREM ProtocolsAlwaysKept == StreamsSpec => ProtocolsKept
  <1>1. StreamsInit => written = << >> /\ received = << >> /\ heard = << >>
    BY DEF StreamsInit, RelayInit, StreamInit, ChunkInit
  <1>2. StreamsInv /\ [StreamsNext]_streamsVars =>
          [\E e \in Client!Events : Client!Proper(written, e) /\ written' = Append(written, e)]_written
    BY OneStepOfEach, OnlyProperWritten DEF StreamsInv
  <1>3. StreamsInv /\ [StreamsNext]_streamsVars =>
          [InTurn(sent) => Reader!OneMore]_received
    BY OneStepOfEach, OnlyFollowingWritten DEF StreamsInv
  <1>4. StreamsInv /\ [StreamsNext]_streamsVars =>
          [ /\ heard = SubSeq(heard', 1, Len(heard))
            /\ \A i \in Len(heard) + 1 .. Len(heard') :
                 Reading!MayFollow(SubSeq(heard', 1, i - 1), heard'[i]) ]_heard
    BY OneStepOfEach, ChunkInvStep, ExtendsFollows DEF StreamsInv
  <1> QED
    BY <1>1, <1>2, <1>3, <1>4, StreamsInvAlways, PTL
    DEF StreamsSpec, ProtocolsKept, ClientStreamProper, Client!MessageSpec,
        ResponseStreamProper, ChunkStreamProper, Reading!ChunkSpec
=============================================================================
