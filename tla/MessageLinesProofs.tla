------------------------- MODULE MessageLinesProofs -------------------------
(***************************************************************************)
(* The Message_Buffer gives lines back whole, and its arrays are never         *)
(* overrun, whatever the chunks, for every text and every size of the buffer;  *)
(* and server_send answers with one line at a time.                          *)
(***************************************************************************)
EXTENDS MessageLines, SequenceTheorems, WellFoundedInduction, TLAPS

\* How many bytes were taken out of the buffer.
Taken == arrived - Len(data)

\* What the buffer holds is the part of the input that recv has returned and no
\* line has used, and a line begins where it begins.
Gathered ==
  /\ Len(data) <= arrived
  /\ \A i \in 1..Len(data) : data[i] = input[Taken + i]
  /\ Taken \in Newlines(input) \cup {0}

LineInv ==
  /\ input \in Seq(Bytes) /\ arrived \in 0..Len(input)
  /\ data \in Seq(Bytes)
  /\ pc # "end" => Gathered
  /\ BuffersHold /\ LinesAreWhole

\* What server_send was given, and what it has sent.
AnswersInv ==
  /\ sentJson \in Seq(Nat) /\ out \in Seq(Nat \X Nat)
  /\ AnswersAreLines

-----------------------------------------------------------------------------
\* A newline in the buffer has a first one before it, or is it.
LEMMA FirstIsFirst ==
  ASSUME NEW S, S \subseteq Nat, S # {}
  PROVE  First(S) \in S /\ \A j \in S : First(S) <= j
<1>1. PICK i \in S : \A j \in S : ~(<< j, i >> \in OpToRel(<, Nat))
  BY NatLessThanWellFounded, WFMin, Zenon
<1>2. ASSUME NEW j \in S PROVE i <= j
  <2>1. i \in Nat /\ j \in Nat
    OBVIOUS
  <2>2. << j, i >> \in {ss \in Nat \X Nat : ss[1] < ss[2]} <=> j < i
    BY <2>1
  <2>3. ~(j < i)
    BY <1>1, <2>2, Zenon DEF OpToRel
  <2> QED BY <2>1, <2>3
<1> QED BY <1>2 DEF First

LEMMA LineInit == Init => LineInv /\ AnswersInv
<1> SUFFICES ASSUME Init PROVE LineInv /\ AnswersInv
  OBVIOUS
<1>1. input \in Seq(Bytes) /\ Len(input) \in Nat /\ Size > 0
  BY LinesAssumption, LenProperties DEF Init
<1>2. data \in Seq(Bytes) /\ Len(data) = 0
  BY DEF Init
<1>3. Gathered
  <2>1. arrived = 0
    BY DEF Init
  <2>2. Taken = 0
    BY <1>2, <2>1 DEF Taken
  <2> QED BY <1>2, <2>1, <2>2 DEF Gathered
<1>4. BuffersHold /\ LinesAreWhole
  <2>1. pc = "recv"
    BY DEF Init
  <2>2. Len(data) <= Size
    BY <1>2, LinesAssumption
  <2> QED BY <2>1, <2>2 DEF BuffersHold, LinesAreWhole
<1>5. LineInv
  BY <1>1, <1>2, <1>3, <1>4 DEF Init, LineInv
<1> QED BY <1>5 DEF Init, AnswersInv, AnswersAreLines

\* A chunk that fits goes behind what is there.
LEMMA ReceiveGathers ==
  ASSUME LineInv, Receive
  PROVE  LineInv' /\ (pc' # "end" => Taken' = Taken)
<1>1. PICK n \in 1..ChunkSize :
        /\ pc = "recv" /\ input' = input /\ arrived + n <= Len(input) /\ arrived' = arrived + n
        /\ IF Fits(n)
           THEN data' = data \o SubSeq(input, arrived + 1, arrived + n) /\ pc' = "extract"
           ELSE pc' = "end" /\ UNCHANGED data
  BY DEF Receive
<1>2. n \in Nat \ {0} /\ Len(input) \in Nat /\ Len(data) \in Nat /\ Size \in Nat
  BY LinesAssumption, LenProperties DEF LineInv
<1>3. arrived \in Nat /\ arrived' \in 0..Len(input)
  BY <1>1, <1>2 DEF LineInv
<1>4. CASE ~Fits(n)
  BY <1>1, <1>3, <1>4 DEF LineInv, BuffersHold, LinesAreWhole
<1>5. CASE Fits(n)
  <2>1. PICK chunk : chunk = SubSeq(input, arrived + 1, arrived + n)
    OBVIOUS
  <2>2. \A i \in arrived + 1 .. arrived + n : input[i] \in Bytes
    BY <1>1, <1>2, <1>3, ElementOfSeq DEF LineInv
  <2>3. /\ chunk \in Seq(Bytes) /\ Len(chunk) = n
        /\ \A i \in 1..n : chunk[i] = input[arrived + i]
    <3>1. arrived + 1 \in Int /\ arrived + n \in Int
      BY <1>2, <1>3
    <3>2. /\ chunk \in Seq(Bytes)
          /\ Len(chunk) = IF arrived + 1 <= arrived + n THEN (arrived + n) - (arrived + 1) + 1 ELSE 0
          /\ \A i \in 1..((arrived + n) - (arrived + 1) + 1) : chunk[i] = input[(arrived + 1) + i - 1]
      BY <2>1, <2>2, <3>1, SubSeqProperties
    <3>3. Len(chunk) = n
      BY <1>2, <1>3, <3>2
    <3>4. ASSUME NEW i \in 1..n PROVE chunk[i] = input[arrived + i]
      <4>1. i \in 1..((arrived + n) - (arrived + 1) + 1) /\ (arrived + 1) + i - 1 = arrived + i
        BY <1>2, <1>3
      <4> QED BY <3>2, <4>1
    <3> QED BY <3>2, <3>3, <3>4
  <2>4. /\ data' = data \o chunk /\ data' \in Seq(Bytes) /\ Len(data') = Len(data) + n
        /\ \A i \in 1..Len(data') :
             data'[i] = IF i <= Len(data) THEN data[i] ELSE chunk[i - Len(data)]
    <3>1. data' = data \o chunk /\ data \in Seq(Bytes)
      BY <1>1, <1>5, <2>1 DEF LineInv
    <3>2. /\ data \o chunk \in Seq(Bytes) /\ Len(data \o chunk) = Len(data) + Len(chunk)
          /\ \A i \in 1..Len(data) + Len(chunk) :
               (data \o chunk)[i] = IF i <= Len(data) THEN data[i] ELSE chunk[i - Len(data)]
      BY <2>3, <3>1, ConcatProperties
    <3> QED BY <2>3, <3>1, <3>2
  <2>5. Gathered
    BY <1>1 DEF LineInv
  <2>6. Taken' = Taken /\ Len(data') <= arrived'
    <3>1. Len(data') = Len(data) + n /\ arrived' = arrived + n /\ Len(data) <= arrived
      BY <1>1, <2>4, <2>5 DEF Gathered
    <3> QED BY <1>2, <1>3, <3>1 DEF Taken
  <2>7. ASSUME NEW i \in 1..Len(data') PROVE data'[i] = input[Taken + i]
    <3>1. CASE i <= Len(data)
      BY <1>2, <2>4, <2>5, <3>1 DEF Gathered
    <3>2. CASE i > Len(data)
      <4>1. i - Len(data) \in 1..n /\ arrived + (i - Len(data)) = Taken + i
        BY <1>2, <1>3, <2>4, <3>2 DEF Taken
      <4> QED BY <1>2, <2>3, <2>4, <3>2, <4>1
    <3> QED BY <1>2, <2>4, <3>1, <3>2
  <2>8. Gathered'
    BY <1>1, <2>5, <2>6, <2>7 DEF Gathered, Newlines
  <2>9. Len(data') <= Size
    BY <1>5, <2>4 DEF Fits
  <2> QED BY <1>1, <1>3, <1>5, <2>4, <2>6, <2>8, <2>9 DEF LineInv, BuffersHold, LinesAreWhole
<1> QED BY <1>4, <1>5

\* A line goes out of the buffer with its newline, and fits where it is copied.
LEMMA ExtractIsWhole ==
  ASSUME LineInv, Extract
  PROVE  LineInv' /\ Taken' - length' - 1 = Taken
<1>1. PICK k : k = First(Newlines(data))
  OBVIOUS
<1>2. Len(data) \in Nat /\ Len(input) \in Nat /\ Size \in Nat /\ arrived \in Nat
      /\ arrived <= Len(input) /\ Len(data) <= Size
  BY LinesAssumption, LenProperties DEF LineInv, BuffersHold
<1>3. k \in Newlines(data) /\ \A j \in Newlines(data) : k <= j
  <2>1. Newlines(data) \subseteq Nat /\ Newlines(data) # {}
    BY <1>2 DEF Newlines, Extract
  <2> QED BY <1>1, <2>1, FirstIsFirst
<1>4. k \in 1..Len(data) /\ data[k] \in Newline /\ k \in Nat
  BY <1>2, <1>3 DEF Newlines
<1>5. \A i \in 1..(k - 1) : data[i] \notin Newline
  BY <1>2, <1>3, <1>4 DEF Newlines
<1>6. CopyLength(k - 1) = k - 1
  BY <1>2, <1>4 DEF CopyLength
<1>7. /\ message' = SubSeq(data, 1, k - 1) /\ length' = k - 1
      /\ data' = SubSeq(data, k + 1, Len(data)) /\ pc' = "sanitize"
      /\ input' = input /\ arrived' = arrived
  <2>1. Consumed(k - 1) + 1 = k + 1
    BY <1>4 DEF Consumed
  <2> QED BY <1>1, <1>6, <2>1 DEF Extract
<1>8. \A i \in 1..Len(data) : data[i] \in Bytes
  BY ElementOfSeq DEF LineInv
<1>9. /\ message' \in Seq(Bytes) /\ Len(message') = k - 1
      /\ \A i \in 1..(k - 1) : message'[i] = data[i]
  <2>1. 1 \in Int /\ k - 1 \in Int /\ \A i \in 1..(k - 1) : data[i] \in Bytes
    BY <1>2, <1>4, <1>8
  <2>2. /\ message' \in Seq(Bytes)
        /\ Len(message') = IF 1 <= k - 1 THEN (k - 1) - 1 + 1 ELSE 0
        /\ \A i \in 1..((k - 1) - 1 + 1) : message'[i] = data[1 + i - 1]
    BY <1>7, <2>1, SubSeqProperties
  <2>3. Len(message') = k - 1
    BY <1>4, <2>2
  <2>4. ASSUME NEW i \in 1..(k - 1) PROVE message'[i] = data[i]
    <3>1. i \in 1..((k - 1) - 1 + 1) /\ 1 + i - 1 = i
      BY <1>4
    <3> QED BY <2>2, <3>1
  <2> QED BY <2>2, <2>3, <2>4
<1>10. /\ data' \in Seq(Bytes) /\ Len(data') = Len(data) - k
       /\ \A i \in 1..Len(data') : data'[i] = data[k + i]
  <2>1. Len(data) \in Int /\ k + 1 \in Int /\ \A i \in (k + 1)..Len(data) : data[i] \in Bytes
    BY <1>2, <1>4, <1>8
  <2>2. /\ data' \in Seq(Bytes)
        /\ Len(data') = IF k + 1 <= Len(data) THEN Len(data) - (k + 1) + 1 ELSE 0
        /\ \A i \in 1..(Len(data) - (k + 1) + 1) : data'[i] = data[(k + 1) + i - 1]
    BY <1>7, <2>1, SubSeqProperties
  <2>3. Len(data') = Len(data) - k
    BY <1>2, <1>4, <2>2
  <2>4. ASSUME NEW i \in 1..Len(data') PROVE data'[i] = data[k + i]
    <3>1. i \in 1..(Len(data) - (k + 1) + 1) /\ (k + 1) + i - 1 = k + i
      BY <1>2, <1>4, <2>3
    <3> QED BY <2>2, <3>1
  <2> QED BY <2>2, <2>3, <2>4
<1>11. Gathered
  BY DEF LineInv, Extract
<1>12. Taken' = Taken + k /\ Taken \in Nat /\ Taken + k <= arrived
  <2>1. Len(data') = Len(data) - k /\ arrived' = arrived /\ Len(data) <= arrived
    BY <1>7, <1>10, <1>11 DEF Gathered
  <2> QED BY <1>2, <1>4, <2>1 DEF Taken
<1>13. Taken + k \in Newlines(input)
  BY <1>2, <1>4, <1>11, <1>12 DEF Gathered, Newlines
<1>14. Gathered'
  <2>1. ASSUME NEW i \in 1..Len(data') PROVE data'[i] = input[Taken' + i]
    <3>1. k + i \in 1..Len(data) /\ Taken + (k + i) = Taken' + i
      BY <1>2, <1>4, <1>10, <1>12
    <3> QED BY <1>10, <1>11, <3>1 DEF Gathered
  <2>2. Len(data') <= arrived'
    <3>1. Len(data') = Len(data) - k /\ arrived' = arrived
      BY <1>7, <1>10
    <3>2. Len(data) <= arrived
      BY <1>11 DEF Gathered
    <3> QED BY <1>2, <1>4, <3>1, <3>2
  <2>3. Taken' \in Newlines(input') \cup {0} /\ input' = input
    BY <1>7, <1>12, <1>13
  <2> QED BY <2>1, <2>2, <2>3 DEF Gathered, Newlines
<1>15. message' = SubSeq(input, Taken + 1, Taken + k - 1)
  <2>1. \A i \in (Taken + 1)..(Taken + k - 1) : input[i] \in Bytes
    BY <1>2, <1>4, <1>12, ElementOfSeq DEF LineInv
  <2>2. PICK l : l = SubSeq(input, Taken + 1, Taken + k - 1)
    OBVIOUS
  <2>3. /\ l \in Seq(Bytes)
        /\ Len(l) = IF Taken + 1 <= Taken + k - 1 THEN (Taken + k - 1) - (Taken + 1) + 1 ELSE 0
        /\ \A i \in 1..((Taken + k - 1) - (Taken + 1) + 1) : l[i] = input[(Taken + 1) + i - 1]
    BY <1>4, <1>12, <2>1, <2>2, SubSeqProperties
  <2>4. Len(l) = Len(message')
    BY <1>4, <1>9, <1>12, <2>3
  <2>5. ASSUME NEW i \in 1..Len(message') PROVE message'[i] = l[i]
    <3>1. i \in 1..(k - 1) /\ k \in Nat /\ k <= Len(data) /\ Taken \in Nat
      BY <1>2, <1>4, <1>9, <1>12
    <3>2. i \in 1..((Taken + k - 1) - (Taken + 1) + 1) /\ (Taken + 1) + i - 1 = Taken + i
      BY <3>1
    <3>3. i \in 1..Len(data)
      BY <1>2, <3>1
    <3> QED BY <1>9, <1>11, <2>3, <3>1, <3>2, <3>3 DEF Gathered
  <2>6. message' = l
    BY <1>9, <2>3, <2>4, <2>5, SeqEqual
  <2> QED BY <2>2, <2>6
<1>16. Newlines(message') = {}
  BY <1>5, <1>9 DEF Newlines
<1>17. LinesAreWhole'
  <2>1. arrived' - Len(data') = Taken + k /\ (Taken + k) - length' = Taken + 1
    BY <1>4, <1>7, <1>12 DEF Taken
  <2>2. (Taken + 1) - 1 \in Newlines(input) \cup {0}
    BY <1>11, <1>12 DEF Gathered
  <2>3. PICK m : m = Taken + k
    OBVIOUS
  <2>4. PICK l : l = Taken + 1
    OBVIOUS
  <2>5. input' = input
    BY <1>7
  <2>6. m \in Newlines(input') /\ l - 1 \in Newlines(input') \cup {0}
    BY <1>13, <2>2, <2>3, <2>4, <2>5
  <2>7. message' = SubSeq(input', l, m - 1)
    <3>1. m - 1 = Taken + k - 1
      BY <1>4, <1>12, <2>3
    <3> QED BY <1>15, <2>4, <2>5, <3>1
  <2>8. arrived' - Len(data') = m /\ m - length' = l
    BY <2>1, <2>3, <2>4
  <2> QED BY <1>16, <2>6, <2>7, <2>8 DEF LinesAreWhole, Newlines
<1>18. BuffersHold'
  BY <1>2, <1>4, <1>7, <1>9, <1>10 DEF BuffersHold
<1>19. Taken' - length' - 1 = Taken
  BY <1>4, <1>7, <1>12
<1> QED BY <1>2, <1>7, <1>10, <1>14, <1>17, <1>18, <1>19 DEF LineInv

LEMMA LineStepKeeps == LineInv /\ [Next]_vars => LineInv'
<1> SUFFICES ASSUME LineInv, [Next]_vars PROVE LineInv'
  OBVIOUS
<1>1. ASSUME UNCHANGED << input, arrived, data >>, pc # "end" \/ pc' = "end", pc' # "sanitize"
      PROVE  LineInv'
  BY <1>1 DEF LineInv, Gathered, Taken, Newlines, BuffersHold, LinesAreWhole
<1>2. CASE Closed \/ NoLine \/ Sanitize \/ Serve
  BY <1>1, <1>2 DEF Closed, NoLine, Sanitize, Serve
<1>3. CASE UNCHANGED vars
  BY <1>3 DEF vars, LineInv, Gathered, Taken, Newlines, BuffersHold, LinesAreWhole
<1> QED BY <1>2, <1>3, ReceiveGathers, ExtractIsWhole DEF Next, Step, Ended

LEMMA AnswersKept == AnswersInv /\ [Next]_vars => AnswersInv'
<1> SUFFICES ASSUME AnswersInv, [Next]_vars PROVE AnswersInv'
  OBVIOUS
<1>1. CASE UNCHANGED << sentJson, out >>
  BY <1>1 DEF AnswersInv, AnswersAreLines
<1>2. CASE Serve
  <2>1. PICK n \in Replies :
          /\ sentJson' = Append(sentJson, n)
          /\ out' = IF n + 1 > Size THEN out ELSE Append(out, SentLine(n))
    BY <1>2 DEF Serve
  <2>2. n \in Nat /\ Size \in Nat \ {0, 1} /\ Len(out) \in Nat /\ Len(sentJson) \in Nat
    BY LinesAssumption, LenProperties DEF AnswersInv
  <2>3. sentJson' \in Seq(Nat) /\ Len(sentJson') = Len(sentJson) + 1
    BY <2>1, <2>2, AppendProperties DEF AnswersInv
  <2>4. CASE n + 1 > Size
    BY <2>1, <2>2, <2>3, <2>4 DEF AnswersInv, AnswersAreLines
  <2>5. CASE n + 1 <= Size
    <3>1. PICK m \in Nat : SentLine(n) = << m, 1 >> /\ m + 1 < Size
      BY <2>2, <2>5 DEF SentLine
    <3>2. /\ out' \in Seq(Nat \X Nat) /\ Len(out') = Len(out) + 1
          /\ \A i \in 1..Len(out) : out'[i] = out[i]
          /\ out'[Len(out) + 1] = << m, 1 >>
      <4>1. << m, 1 >> \in Nat \X Nat /\ out \in Seq(Nat \X Nat)
        BY DEF AnswersInv
      <4>2. out' = Append(out, << m, 1 >>)
        BY <2>1, <2>2, <2>5, <3>1
      <4> HIDE DEF AnswersInv
      <4>3. /\ Append(out, << m, 1 >>) \in Seq(Nat \X Nat)
            /\ Len(Append(out, << m, 1 >>)) = Len(out) + 1
            /\ \A i \in 1..Len(out) : Append(out, << m, 1 >>)[i] = out[i]
            /\ Append(out, << m, 1 >>)[Len(out) + 1] = << m, 1 >>
        BY <4>1, AppendProperties
      <4> QED BY <4>2, <4>3
    <3>3. ASSUME NEW i \in 1..Len(out') PROVE out'[i][2] = 1 /\ out'[i][1] + out'[i][2] < Size
      <4>1. DOMAIN out = 1..Len(out)
        BY LenProperties DEF AnswersInv
      <4>2. CASE i \in 1..Len(out)
        BY <3>2, <4>1, <4>2 DEF AnswersInv, AnswersAreLines
      <4>3. CASE i = Len(out) + 1
        BY <3>1, <3>2, <4>3
      <4> QED BY <2>2, <3>2, <4>2, <4>3
    <3>4. DOMAIN out' = 1..Len(out')
      BY <3>2, LenProperties
    <3>5. Len(out) <= Len(sentJson)
      BY DEF AnswersInv, AnswersAreLines
    <3>6. Len(out') <= Len(sentJson')
      BY <2>2, <2>3, <3>2, <3>5
    <3> QED BY <2>3, <3>2, <3>3, <3>4, <3>6 DEF AnswersInv, AnswersAreLines
  <2> QED BY <2>2, <2>4, <2>5
<1> QED BY <1>1, <1>2 DEF Next, Step, Ended, vars, Receive, Closed, Extract, NoLine, Sanitize

-----------------------------------------------------------------------------
\* The lines of a text, as the recursion computes them.  Each induction below is
\* on the first number that would be an exception.

Line(s, n) == SelectSeq(RawLine(s, n), Keeps)

\* One step of the recursion, with what it has computed before in f.
AddLine(s, f, n) ==
  IF n = 0 THEN << >>
  ELSE IF s[n] \in Newline /\ Len(Line(s, n)) # 0 THEN Append(f[n - 1], Line(s, n))
  ELSE f[n - 1]

LEMMA LinesUpToExist ==
  ASSUME NEW s, NEW m \in Nat
  PROVE  \E f : f = [n \in 0..m |-> AddLine(s, f, n)]
<1> DEFINE Missing == {k \in Nat : ~ \E f : f = [n \in 0..k |-> AddLine(s, f, n)]}
<1>1. ASSUME Missing # {} PROVE FALSE
  <2>1. PICK k \in Missing : \A j \in Missing : k <= j
    BY <1>1, FirstIsFirst
  <2>2. k \in Nat
    OBVIOUS
  <2>3. CASE k = 0
    <3>1. PICK f : f = [n \in 0..0 |-> << >>]
      OBVIOUS
    <3>2. f = [n \in 0..0 |-> AddLine(s, f, n)]
      BY <3>1 DEF AddLine
    <3> QED BY <2>1, <2>3, <3>2
  <2>4. CASE k # 0
    <3>1. k - 1 \in Nat /\ k - 1 \notin Missing
      BY <2>1, <2>2, <2>4
    <3>2. PICK f : f = [n \in 0..(k - 1) |-> AddLine(s, f, n)]
      BY <3>1
    <3>3. PICK g : g = [n \in 0..k |-> IF n = k THEN AddLine(s, f, k) ELSE f[n]]
      OBVIOUS
    <3>4. ASSUME NEW n \in 0..k PROVE g[n] = AddLine(s, g, n)
      <4>1. n # 0 => n - 1 \in 0..k /\ n - 1 # k /\ g[n - 1] = f[n - 1]
        BY <2>2, <3>3
      <4>2. AddLine(s, g, n) = AddLine(s, f, n)
        BY <4>1 DEF AddLine
      <4>3. n # k => n \in 0..(k - 1)
        BY <2>2
      <4> QED BY <3>2, <3>3, <4>2, <4>3
    <3>5. g = [n \in 0..k |-> AddLine(s, g, n)]
      BY <3>3, <3>4
    <3> QED BY <2>1, <3>5
  <2> QED BY <2>3, <2>4
<1> QED BY <1>1

LEMMA LinesOfStep ==
  ASSUME NEW s, Len(s) \in Nat, NEW n \in 0..Len(s)
  PROVE  LinesOf(s)[n] = AddLine(s, LinesOf(s), n)
<1>1. LinesOf(s) = CHOOSE f : f = [m \in 0..Len(s) |-> AddLine(s, f, m)]
  BY Zenon DEF LinesOf, AddLine, Line
<1>2. LinesOf(s) = [m \in 0..Len(s) |-> AddLine(s, LinesOf(s), m)]
  BY <1>1, LinesUpToExist, Zenon
<1> QED BY <1>2, Zenon

\* Bytes that are no newline add no line.
LEMMA NoNewlineNoLine ==
  ASSUME NEW s, Len(s) \in Nat, NEW m \in 0..Len(s), NEW n \in 0..m,
         \A i \in (n + 1)..m : s[i] \notin Newline
  PROVE  LinesOf(s)[m] = LinesOf(s)[n]
<1> DEFINE Other == {k \in n..m : LinesOf(s)[k] # LinesOf(s)[n]}
<1>1. ASSUME Other # {} PROVE FALSE
  <2>1. PICK k \in Other : \A j \in Other : k <= j
    <3>1. Other \subseteq Nat
      OBVIOUS
    <3> QED BY <1>1, <3>1, FirstIsFirst
  <2>2. k \in (n + 1)..m /\ k - 1 \in n..m /\ k \in 0..Len(s) /\ k # 0
    BY <2>1
  <2>3. k - 1 \notin Other
    BY <2>1, <2>2
  <2>4. LinesOf(s)[k] = AddLine(s, LinesOf(s), k)
    BY <2>2, LinesOfStep
  <2>5. AddLine(s, LinesOf(s), k) = LinesOf(s)[k - 1]
    BY <2>2 DEF AddLine
  <2> QED BY <2>1, <2>2, <2>3, <2>4, <2>5
<1>2. m \in n..m
  OBVIOUS
<1> QED BY <1>1, <1>2

\* The line between two newlines with none in between.
LEMMA RawLineIs ==
  ASSUME NEW s, Len(s) \in Nat, NEW n \in Newlines(s), NEW q \in Newlines(s) \cup {0},
         q < n, \A i \in (q + 1)..(n - 1) : s[i] \notin Newline
  PROVE  RawLine(s, n) = SubSeq(s, q + 1, n - 1)
<1> DEFINE Before(i) == i < n /\ \A j \in Newlines(s) : j < n => j <= i
<1>1. Newlines(s) \subseteq 1..Len(s) /\ \A i \in Newlines(s) : s[i] \in Newline
  BY DEF Newlines
<1>2. q \in Nat /\ n \in Nat /\ n <= Len(s)
  BY <1>1
<1>3. Before(q)
  <2>1. ASSUME NEW j \in Newlines(s), j < n, ~(j <= q) PROVE FALSE
    <3>1. j \in (q + 1)..(n - 1)
      BY <1>1, <1>2, <2>1
    <3> QED BY <1>1, <3>1
  <2> QED BY <2>1
<1>4. ASSUME NEW i \in Newlines(s) \cup {0}, Before(i) PROVE i = q
  <2>1. i \in Nat
    BY <1>1
  <2>2. q <= i
    BY <1>4, <2>1, <1>2
  <2>3. i <= q
    BY <1>3, <1>4, <2>1, <1>2
  <2> QED BY <2>1, <2>2, <2>3, <1>2
<1>5. (CHOOSE i \in Newlines(s) \cup {0} : Before(i)) = q
  BY <1>3, <1>4
<1> QED BY <1>5 DEF RawLine

-----------------------------------------------------------------------------
(* How far the served lines have come, at each place of the loop: up to what was
   taken out of the buffer, the line under way apart.                       *)
UpToNow ==
  /\ \E n \in 0..arrived : served = LinesOf(input)[n]
  /\ pc = "recv" => Newlines(data) = {}
  /\ pc \in {"recv", "extract"} => served = LinesOf(input)[Taken]
  /\ pc = "sanitize" => served = LinesOf(input)[Taken - length - 1]
  /\ pc = "serve" => LinesOf(input)[Taken] = Append(served, message)

LEMMA UpToNowInit == Init => UpToNow
<1> SUFFICES ASSUME Init PROVE UpToNow
  OBVIOUS
<1>1. input \in Seq(Bytes) /\ Len(input) \in Nat
  BY LinesAssumption, LenProperties DEF Init
<1>2. LinesOf(input)[0] = << >>
  BY <1>1, LinesOfStep DEF AddLine
<1>3. Len(data) = 0 /\ arrived = 0
  BY DEF Init
<1>4. Taken = 0
  BY <1>3 DEF Taken
<1>5. Newlines(data) = {}
  <2>1. \A i \in 1..Len(data) : FALSE
    BY <1>3
  <2> QED BY <2>1, Zenon DEF Newlines
<1> QED BY <1>2, <1>4, <1>5 DEF Init, UpToNow

\* Sanitizing a line makes it the next one to serve, or leaves nothing of it.
LEMMA SanitizeKeepsUpToNow ==
  ASSUME LineInv, UpToNow, Sanitize
  PROVE  UpToNow'
<1>1. /\ pc = "sanitize" /\ message' = SelectSeq(message, Keeps)
      /\ pc' = IF Len(message') = 0 THEN "extract" ELSE "serve"
      /\ UNCHANGED << input, arrived, data, served >>
  BY DEF Sanitize
<1>2. /\ input \in Seq(Bytes) /\ Len(input) \in Nat /\ arrived \in 0..Len(input)
      /\ Len(data) \in Nat /\ Len(data) <= arrived /\ Taken \in 0..arrived
  BY <1>1, LenProperties DEF LineInv, Gathered, Taken
<1>3. PICK q : q = Taken - length - 1
  OBVIOUS
<1>4. /\ Taken \in Newlines(input) /\ q \in Newlines(input) \cup {0}
      /\ message = SubSeq(input, q + 1, Taken - 1) /\ Newlines(message) = {}
      /\ length = Len(message)
  <2>1. length = Len(message) /\ LinesAreWhole /\ Taken - length \in Int
    BY <1>1, <1>2 DEF LineInv, BuffersHold, LinesAreWhole, Taken
  <2> QED BY <1>1, <1>3, <2>1 DEF LinesAreWhole, Taken
<1>5. q \in Nat /\ q + 1 \in Int /\ Taken - 1 \in Int
  BY <1>2, <1>4 DEF Newlines
<1>6. /\ Len(message) = IF q + 1 <= Taken - 1 THEN (Taken - 1) - (q + 1) + 1 ELSE 0
      /\ \A i \in 1..((Taken - 1) - (q + 1) + 1) : message[i] = input[(q + 1) + i - 1]
  <2>1. \A i \in (q + 1)..(Taken - 1) : input[i] \in Bytes
    BY <1>2, <1>5, ElementOfSeq
  <2> QED BY <1>4, <1>5, <2>1, SubSeqProperties
<1>7. q < Taken
  <2>1. Len(message) \in Nat
    BY <1>5, <1>6
  <2>2. q = Taken - Len(message) - 1
    BY <1>3, <1>4
  <2> QED BY <1>2, <2>1, <2>2
<1>8. ASSUME NEW i \in (q + 1)..(Taken - 1) PROVE input[i] \notin Newline
  <2>1. i - q \in 1..Len(message) /\ message[i - q] = input[i]
    BY <1>2, <1>5, <1>6
  <2> QED BY <1>4, <2>1 DEF Newlines
<1>9. RawLine(input, Taken) = message
  BY <1>2, <1>4, <1>7, <1>8, RawLineIs
<1>10. Line(input, Taken) = message'
  BY <1>1, <1>9 DEF Line
<1>11. LinesOf(input)[Taken - 1] = served
  <2>1. Taken - 1 \in 0..Len(input) /\ q \in 0..(Taken - 1)
    BY <1>2, <1>5, <1>7
  <2>2. LinesOf(input)[Taken - 1] = LinesOf(input)[q]
    BY <1>2, <1>8, <2>1, NoNewlineNoLine
  <2> QED BY <1>1, <1>3, <2>2 DEF UpToNow
<1>12. LinesOf(input)[Taken]
         = IF Len(message') # 0 THEN Append(served, message') ELSE served
  <2>1. Taken \in 0..Len(input) /\ Taken # 0 /\ input[Taken] \in Newline
    BY <1>2, <1>4 DEF Newlines
  <2>2. LinesOf(input)[Taken] = AddLine(input, LinesOf(input), Taken)
    BY <1>2, <2>1, LinesOfStep
  <2> QED BY <1>10, <1>11, <2>1, <2>2 DEF AddLine
<1>13. Taken' = Taken
  BY <1>1 DEF Taken
<1> QED BY <1>1, <1>12, <1>13 DEF UpToNow

LEMMA UpToNowKept == LineInv /\ UpToNow /\ [Next]_vars => UpToNow'
<1> SUFFICES ASSUME LineInv, UpToNow, [Next]_vars PROVE UpToNow'
  OBVIOUS
<1>1. Len(input) \in Nat /\ arrived \in 0..Len(input)
  BY LenProperties DEF LineInv
<1>2. CASE Receive
  <2>1. PICK n \in 1..ChunkSize :
          /\ pc = "recv" /\ input' = input /\ arrived' = arrived + n /\ served' = served
          /\ pc' \in {"extract", "end"}
    BY <1>2 DEF Receive
  <2>2. arrived' \in Nat /\ arrived <= arrived'
    BY <1>1, <2>1, LinesAssumption
  <2>3. \E k \in 0..arrived' : served' = LinesOf(input')[k]
    BY <1>1, <2>1, <2>2 DEF UpToNow
  <2>4. pc' # "end" => Taken' = Taken
    BY <1>2, ReceiveGathers
  <2> QED BY <2>1, <2>3, <2>4 DEF UpToNow
<1>3. CASE Extract
  <2>1. /\ pc = "extract" /\ pc' = "sanitize"
        /\ UNCHANGED << input, arrived, served >>
    BY <1>3 DEF Extract
  <2>2. Taken' - length' - 1 = Taken
    BY <1>3, ExtractIsWhole
  <2> QED BY <2>1, <2>2 DEF UpToNow
<1>4. CASE Sanitize
  BY <1>4, SanitizeKeepsUpToNow
<1>5. CASE Serve
  <2>1. /\ pc = "serve" /\ pc' = "extract" /\ served' = Append(served, message)
        /\ UNCHANGED << input, arrived, data >>
    BY <1>5 DEF Serve
  <2>2. Taken' = Taken /\ Taken \in 0..arrived
    <3>1. Gathered /\ Len(data) \in Nat
      BY <2>1, LenProperties DEF LineInv
    <3> QED BY <1>1, <2>1, <3>1 DEF Taken, Gathered
  <2> QED BY <2>1, <2>2 DEF UpToNow
<1>6. CASE NoLine
  BY <1>6 DEF NoLine, UpToNow, Taken, Newlines
<1>7. CASE Closed
  BY <1>7 DEF Closed, UpToNow
<1>8. CASE UNCHANGED vars
  BY <1>8 DEF vars, UpToNow, Taken, Newlines
<1> QED BY <1>2, <1>3, <1>4, <1>5, <1>6, <1>7, <1>8 DEF Next, Step, Ended

\* Before a recv the buffer holds no newline, so what has arrived was served.
LEMMA UpToNowIsInOrder == LineInv /\ UpToNow => LinesServedInOrder
<1> SUFFICES ASSUME LineInv, UpToNow, pc = "recv"
             PROVE  served = LinesOf(input)[arrived]
  BY DEF UpToNow, LinesServedInOrder
<1>1. /\ Len(input) \in Nat /\ arrived \in 0..Len(input) /\ Len(data) \in Nat
      /\ Gathered /\ Taken \in 0..arrived
  BY LenProperties DEF LineInv, Gathered, Taken
<1>2. ASSUME NEW i \in (Taken + 1)..arrived PROVE input[i] \notin Newline
  <2>1. i - Taken \in 1..Len(data) /\ data[i - Taken] = input[i]
    BY <1>1 DEF Gathered, Taken
  <2> QED BY <2>1 DEF UpToNow, Newlines
<1>3. LinesOf(input)[arrived] = LinesOf(input)[Taken]
  BY <1>1, <1>2, NoNewlineNoLine
<1> QED BY <1>3 DEF UpToNow

-----------------------------------------------------------------------------
THEOREM LineInvariance == Spec => []LineInv
  BY LineInit, LineStepKeeps, PTL DEF Spec

(* The buffer's arrays are never overrun, and message_buffer_sanitize reads no
   byte that message_buffer_extract did not copy, for every size of buffer and
   chunk: raw_length is never more than the array holds.                    *)
THEOREM BuffersHoldAlways == Spec => []BuffersHold
<1>1. LineInv => BuffersHold
  BY DEF LineInv
<1> QED BY <1>1, LineInvariance, PTL

(* Every line the receive loop takes out is the client's, from one newline to the
   next, for every text and every division into chunks.                     *)
THEOREM LinesAreWholeAlways == Spec => []LinesAreWhole
<1>1. LineInv => LinesAreWhole
  BY DEF LineInv
<1> QED BY <1>1, LineInvariance, PTL

(* The lines served are the client's, each once, whole and in the order they
   were written, those that sanitizing leaves empty left out; and no line that
   has arrived waits while the thread does: for every text, every division into
   chunks and every size of buffer and chunk.                               *)
THEOREM LinesServedInOrderHolds == Spec => []LinesServedInOrder
  BY LineInit, LineStepKeeps, UpToNowInit, UpToNowKept, UpToNowIsInOrder, PTL DEF Spec

(* Each send leaves one line on the socket, for every size of buffer and of the
   object sent: the newline always has a place.                             *)
THEOREM AnswersAreLinesAlways == Spec => []AnswersAreLines
<1>1. AnswersInv => AnswersAreLines
  BY DEF AnswersInv
<1> QED BY <1>1, LineInit, AnswersKept, PTL DEF Spec
=============================================================================
