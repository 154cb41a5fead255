-------------------------- MODULE HttpParserProofs --------------------------
(***************************************************************************)
(* Proofs about the HTTP parsers: the type and safety invariants of        *)
(* HttpParser, and that it implements HttpFraming, for messages of any     *)
(* length and whatever the sender sends.                                   *)
(***************************************************************************)
EXTENDS HttpParser, Recursion, SequenceTheorems

------------------------------------------------------------------------------
\* Numbers.

LEMMA MinIn ==
  ASSUME NEW S \in SUBSET Nat, S # {}
  PROVE  Min(S) \in S /\ \A y \in S : Min(S) <= y
BY LeastNumber DEF Min

LEMMA MaxIn ==
  ASSUME NEW n \in Nat, NEW S \in SUBSET (0 .. n), S # {}
  PROVE  Max(S) \in S /\ \A y \in S : y <= Max(S)
<1>1. \A x, y \in S : x >= y <=> y <= x
  OBVIOUS
<1>2. \E x \in S : \A y \in S : x >= y
  BY <1>1, GreatestNumber
<1> QED
  BY <1>1, <1>2 DEF Max

\* A number that is read digit by digit is one: the recursion has a solution.
LEMMA NumberType ==
  ASSUME NEW X, NEW s \in Seq(X), NEW base \in Nat
  PROVE  Number(s, base) \in Nat /\ (s = <<>> => Number(s, base) = 0)
<1> DEFINE ends == {i \in 0 .. Len(s) : i = Len(s) \/ s[i + 1] \notin Numerals}
           n == Min(ends)
           value[i \in 0 .. n] == IF i = 0 THEN 0 ELSE value[i - 1] * base + numeral[s[i]]
           step == [i \in 1 .. n |-> [m \in Nat |-> m * base + numeral[s[i]]]]
<1>1. n \in Nat /\ n <= Len(s) /\ \A i \in 0 .. Len(s) : i < n => s[i + 1] \in Numerals
  <2>1. Len(s) \in Nat
    OBVIOUS
  <2>2. ends \in SUBSET Nat /\ Len(s) \in ends
    BY <2>1
  <2>3. n \in ends /\ \A i \in ends : n <= i
    <3> HIDE DEF ends
    <3> QED
      BY <2>2, MinIn
  <2>4. n \in 0 .. Len(s) /\ (n = Len(s) \/ s[n + 1] \notin Numerals)
    BY <2>3
  <2>5. ASSUME NEW i \in 0 .. Len(s), i < n PROVE s[i + 1] \in Numerals
    <3>1. ~(n <= i)
      BY ONLY <2>1, <2>4, <2>5, i \in 0 .. Len(s)
    <3>2. i \notin ends
      <4> HIDE DEF ends, n
      <4> QED
        BY <2>3, <3>1
    <3> QED
      BY <3>2
  <2> HIDE DEF n, ends
  <2> QED
    BY <2>1, <2>4, <2>5
<1> HIDE DEF n
<1>2. \A d \in Numerals : numeral[d] \in Nat
  BY DEF numeral, Numerals
<1>3. \A i \in 1 .. n : numeral[s[i]] \in Nat
  <2> SUFFICES ASSUME NEW i \in 1 .. n PROVE s[i] \in Numerals
    BY <1>2
  <2>1. i - 1 \in 0 .. Len(s) /\ i - 1 < n /\ (i - 1) + 1 = i
    BY <1>1
  <2> QED
    BY <1>1, <2>1
<1>4. \A i \in 1 .. n : \A m \in Nat : step[i][m] \in Nat
  BY <1>3
<1>5. PICK g : Recurs(g, step, 0, n, Nat)
  <2> HIDE DEF step
  <2>1. n \in Nat /\ 0 \in Nat
    BY <1>1
  <2> QED
    BY <1>4, <2>1, FiniteRecursion DEF Recurrence
<1>6. g = [i \in 0 .. n |-> IF i = 0 THEN 0 ELSE g[i - 1] * base + numeral[s[i]]]
  <2>1. ASSUME NEW i \in 0 .. n, i # 0
        PROVE  i \in 1 .. n /\ i - 1 \in 0 .. n
    BY <1>1, <2>1
  <2> QED
    BY <1>5, <2>1 DEF Recurs
<1>7. value = [i \in 0 .. n |-> IF i = 0 THEN 0 ELSE value[i - 1] * base + numeral[s[i]]]
  BY <1>6
<1> HIDE DEF value
<1> DEFINE T == {i \in Nat : i <= n => value[i] \in Nat}
<1>8. 0 \in T
  BY <1>1, <1>7
<1>9. ASSUME NEW i \in Nat, i \in T PROVE i + 1 \in T
  <2> SUFFICES ASSUME i + 1 <= n PROVE value[i + 1] \in Nat
    OBVIOUS
  <2>1. i + 1 \in 0 .. n /\ i + 1 \in 1 .. n /\ i + 1 # 0 /\ (i + 1) - 1 = i /\ i <= n
    BY <1>1
  <2>2. value[i + 1] = value[i] * base + numeral[s[i + 1]]
    BY <1>7, <2>1
  <2>3. value[i] \in Nat
    BY <1>9, <2>1
  <2>4. numeral[s[i + 1]] \in Nat
    BY <1>3, <2>1
  <2> QED
    BY ONLY <2>2, <2>3, <2>4, base \in Nat
<1>10. n \in T
  <2> HIDE DEF T
  <2> QED
    BY <1>1, <1>8, <1>9, SetInduction
<1>11. value[n] \in Nat
  BY <1>1, <1>10
<1>12. ASSUME s = <<>> PROVE value[n] = 0
  <2>1. n = 0
    BY <1>1, <1>12
  <2> QED
    BY <1>1, <1>7, <2>1
<1> QED
  BY <1>11, <1>12 DEF Number, value, n

LEMMA strtolType ==
  ASSUME NEW X, NEW s \in Seq(X)
  PROVE  strtol(s) \in Nat
BY NumberType DEF strtol

LEMMA strtolOfNothing == strtol(<<>>) = 0
<1>1. <<>> \in Seq(Nat)
  OBVIOUS
<1> QED
  BY <1>1, NumberType DEF strtol

LEMMA atoiType ==
  ASSUME NEW X, NEW s \in Seq(X)
  PROVE  atoi(s) \in Int
<1> DEFINE starts == {i \in 0 .. Len(s) : i = Len(s) \/ s[i + 1] # SP}
           n == Min(starts)
           t == SubSeq(s, n + 1, Len(s))
<1>1. n \in Nat
  <2>1. starts \in SUBSET Nat /\ Len(s) \in starts
    OBVIOUS
  <2> HIDE DEF starts
  <2> QED
    BY <2>1, MinIn
<1> HIDE DEF n
<1>2. t \in Seq(X)
  BY <1>1, SubSeqProperties
<1> HIDE DEF t
<1>3. t # <<>> => Tail(t) \in Seq(X)
  BY <1>2, HeadTailProperties
<1>4. Number(t, 10) \in Int /\ (t # <<>> => -Number(Tail(t), 10) \in Int)
  <2>1. \A r \in Seq(X) : Number(r, 10) \in Nat
    BY NumberType
  <2>2. \A m \in Nat : m \in Int /\ -m \in Int
    OBVIOUS
  <2> QED
    BY <1>2, <1>3, <2>1, <2>2, Zenon
<1> QED
  BY <1>4 DEF atoi, t, n

------------------------------------------------------------------------------
\* What the headers announce.

HeaderType == [name : Words \cup {"other"}, value : Seq(ValueWords \cup {"other"})]

\* It depends on the headers up to the k-th alone.
LEMMA SameHeaders ==
  ASSUME NEW k \in Nat, NEW hs, NEW gs, \A i \in 1 .. k : hs[i] = gs[i]
  PROVE  LengthBy(hs, k) = LengthBy(gs, k) /\ (ChunkedBy(hs, k) <=> ChunkedBy(gs, k))
<1> DEFINE l(s) == {i \in 1 .. k : s[i].name = "Content-Length"}
<1>1. l(hs) = l(gs)
  OBVIOUS
<1>2. ASSUME l(hs) # {} PROVE Max(l(hs)) \in 1 .. k
  <2>1. l(hs) \in SUBSET (0 .. k)
    OBVIOUS
  <2>2. Max(l(hs)) \in l(hs)
    <3> HIDE DEF l
    <3> QED
      BY <1>2, <2>1, MaxIn
  <2> QED
    BY <2>2
<1>3. LengthBy(hs, k) = LengthBy(gs, k)
  <2>1. l(hs) # {} => hs[Max(l(hs))].value = gs[Max(l(gs))].value
    BY <1>1, <1>2
  <2> QED
    BY <1>1, <2>1 DEF LengthBy
<1> QED
  BY <1>3 DEF ChunkedBy

\* The k-th header counts if it is a Content-Length, and does not otherwise.
LEMMA LastHeader ==
  ASSUME NEW k \in Nat, k > 0, NEW hs
  PROVE  LengthBy(hs, k) = IF hs[k].name = "Content-Length" THEN atoi(hs[k].value)
                                                          ELSE LengthBy(hs, k - 1)
<1> DEFINE l(m) == {i \in 1 .. m : hs[i].name = "Content-Length"}
<1>1. ASSUME hs[k].name = "Content-Length" PROVE LengthBy(hs, k) = atoi(hs[k].value)
  <2>1. l(k) \in SUBSET (0 .. k) /\ k \in l(k)
    BY <1>1
  <2>2. Max(l(k)) \in l(k) /\ k <= Max(l(k))
    <3> HIDE DEF l
    <3> QED
      BY <2>1, MaxIn
  <2>3. Max(l(k)) = k
    BY <2>1, <2>2
  <2>4. l(k) # {}
    BY <2>1
  <2> QED
    BY <2>3, <2>4 DEF LengthBy
<1>2. ASSUME hs[k].name # "Content-Length" PROVE LengthBy(hs, k) = LengthBy(hs, k - 1)
  <2>1. l(k) = l(k - 1)
    BY <1>2
  <2> QED
    BY <2>1 DEF LengthBy
<1> QED
  BY <1>1, <1>2

\* Without headers nothing is announced.
LEMMA NoHeaders ==
  ASSUME NEW hs
  PROVE  LengthBy(hs, 0) = 0 /\ ~ChunkedBy(hs, 0)
<1>1. 1 .. 0 = {}
  OBVIOUS
<1> QED
  BY <1>1 DEF LengthBy, ChunkedBy

\* The last header takes a word more.
LEMMA LastGrows ==
  ASSUME NEW hs \in Seq(HeaderType), hs # <<>>, NEW h \in HeaderType, NEW gs,
         gs = [hs EXCEPT ![Len(hs)] = h]
  PROVE  /\ gs \in Seq(HeaderType) /\ gs # <<>> /\ Len(gs) = Len(hs) /\ Len(hs) - 1 \in Nat
         /\ gs[Len(hs)] = h
         /\ LengthBy(gs, Len(hs) - 1) = LengthBy(hs, Len(hs) - 1)
         /\ ChunkedBy(gs, Len(hs) - 1) <=> ChunkedBy(hs, Len(hs) - 1)
<1> DEFINE n == Len(hs)
<1>1. n \in 1 .. n /\ n \in Nat /\ n - 1 \in Nat
  BY EmptySeq
<1>2. gs \in Seq(HeaderType) /\ Len(gs) = n
  BY <1>1, ExceptSeq
<1>3. gs # <<>>
  BY <1>1, <1>2, EmptySeq
<1>4. gs[n] = h
  BY <1>1
<1>5. \A i \in 1 .. (n - 1) : gs[i] = hs[i]
  BY <1>1
<1> QED
  BY <1>1, <1>2, <1>3, <1>4, <1>5, SameHeaders

------------------------------------------------------------------------------
\* The cases that only go to another state.

Sizing  == {"ChunkSize", "ChunkExtensionName", "ChunkExtensionValue"}
Trailer == {"ChunkSizeNewLine_2", "ChunkSizeNewLine_3", "ChunkTrailerName", "ChunkTrailerValue"}

LEMMA Moved ==
  ASSUME NEW t, Move(t)
  PROVE  /\ UNCHANGED <<kind, contentSize, chunked, chunks, line, content, result>>
         /\ \/ state \in FirstLineStates /\ state' \in FirstLineStates \cup {"HeaderLineStart"}
            \/ /\ state \in BetweenLines /\ state' \in BetweenLines
               /\ state' = "HeaderLws" => state = "HeaderLws"
            \/ state = "HeaderName" /\ state' = "SpaceBeforeHeaderValue"
            \/ state = "SpaceBeforeHeaderValue" /\ state' = "HeaderValue"
            \/ state \in Sizing /\ state' \in Sizing \cup {"ChunkSizeNewLine"}
            \/ state = "ChunkDataNewLine_1" /\ state' = "ChunkDataNewLine_2"
            \/ state = "ChunkDataNewLine_2" /\ state' = "ChunkSize"
            \/ state \in Trailer \ {"ChunkSizeNewLine_3"} /\ state' \in Trailer
            \/ state = "ChunkTrailerValue" /\ state' = "ChunkSizeNewLine"
<1>1. PICK m \in Moves : state = m[1] /\ state' = m[3]
  BY DEF Move
<1>2. UNCHANGED <<kind, contentSize, chunked, chunks, line, content, result>>
  BY DEF Move
<1>3. CASE m \in RequestLineMoves \cup VersionMoves
  BY <1>1, <1>2, <1>3
     DEF RequestLineMoves, VersionMoves, FirstLineStates, States, Comparing, HeaderStates,
         BetweenLines, ChunkStates
<1>4. CASE m \in StatusLineMoves
  BY <1>1, <1>2, <1>4
     DEF StatusLineMoves, FirstLineStates, States, Comparing, HeaderStates, BetweenLines,
         ChunkStates
<1>5. CASE m \in HeaderMoves
  BY <1>1, <1>2, <1>5
     DEF HeaderMoves, FirstLineStates, States, Comparing, HeaderStates, BetweenLines, ChunkStates
<1>6. CASE m \in ChunkLineMoves
  BY <1>1, <1>2, <1>6 DEF ChunkLineMoves, Sizing
<1>7. CASE m \in TrailerMoves
  BY <1>1, <1>2, <1>7 DEF TrailerMoves, Trailer
<1>8. \/ m \in RequestLineMoves \cup VersionMoves
      \/ m \in StatusLineMoves \/ m \in HeaderMoves \/ m \in ChunkLineMoves \/ m \in TrailerMoves
  BY <1>1 DEF Moves
<1> QED
  BY <1>3, <1>4, <1>5, <1>6, <1>7, <1>8

------------------------------------------------------------------------------
\* The inductive invariant.

\* Where a state belongs.
LEMMA StateSorts ==
  /\ FirstLineStates \cap HeaderStates = {} /\ FirstLineStates \cap ChunkStates = {}
  /\ HeaderStates \cap ChunkStates = {} /\ BetweenLines \subseteq HeaderStates
  /\ FirstLineStates \cup HeaderStates \cup ChunkStates \cup {"Post"} = States
  /\ "Post" \notin FirstLineStates \cup HeaderStates \cup ChunkStates
  /\ Sizing \cup Trailer \subseteq ChunkStates
BY DEF FirstLineStates, States, Comparing, HeaderStates, BetweenLines, ChunkStates, Sizing, Trailer

LEMMA ParserInvInit == Init => ParserInv
<1> SUFFICES ASSUME Init PROVE ParserInv
  OBVIOUS
<1> USE DEF Init
<1>1. TypeOK
  <2>1. state \in States /\ kind \in {"request", "response"}
    BY DEF States, Comparing
  <2>2. chunkSizeStr \in Seq(isalnum) /\ headers \in Seq(HeaderType)
    BY EmptySeq
  <2>3. chunked \in BOOLEAN
    OBVIOUS
  <2>4. /\ contentSize \in Nat /\ chunkSize \in Nat /\ content \in Nat /\ announced \in Nat
        /\ statusDigits \in 0 .. 4
    <3>1. contentSize = 0 /\ chunkSize = 0 /\ content = 0 /\ announced = 0 /\ statusDigits = 0
      BY Zenon
    <3> QED
      BY ONLY <3>1
  <2>5. /\ method \in {"", "POST", "other"}
        /\ result \in {"incomplete", "completed", "error", "exception"}
    BY Zenon
  <2> QED
    BY <2>1, <2>2, <2>3, <2>4, <2>5, Zenon DEF TypeOK, HeaderType
<1>2. state \in FirstLineStates
  BY DEF FirstLineStates, States, Comparing, HeaderStates, BetweenLines, ChunkStates
<1>3. HeaderToFill /\ SizesAreFresh /\ ContentComplete
  BY DEF HeaderToFill, SizesAreFresh, ContentComplete
<1>4. Untouched /\ PartsDue /\ HeadersTaken
  BY <1>2, StateSorts DEF Untouched, PartsDue, HeadersTaken
<1> QED
  BY <1>1, <1>3, <1>4 DEF ParserInv

\* A step that only goes on in the first line, or among the headers.
LEMMA MovePreserves ==
  ASSUME ParserInv, result = "incomplete", NEW t, Move(t)
  PROVE  ParserInv'
<1> USE DEF ParserInv
<1>1. UNCHANGED <<kind, contentSize, chunkSizeStr, chunkSize, announced, chunked, method,
                  statusDigits, headers, content, result>>
  BY Moved DEF chunks, line
<1>2. TypeOK'
  <2>1. state' \in States
    BY Moved, StateSorts, Zenon DEF States, Comparing, BetweenLines, Sizing, Trailer
  <2> QED
    BY <1>1, <2>1 DEF TypeOK
<1>3. ContentComplete'
  BY <1>1, Moved, StateSorts DEF ContentComplete, Announced, BodyAllowed, BetweenLines, Sizing, Trailer
<1>4. HeaderToFill'
  BY <1>1, Moved, StateSorts DEF HeaderToFill, BetweenLines, Sizing, Trailer, HeaderStates
<1>5. SizesAreFresh'
  BY <1>1, Moved, StateSorts DEF SizesAreFresh, BetweenLines, Sizing, Trailer, ChunkStates
<1>6. Untouched'
  BY <1>1, Moved, StateSorts DEF Untouched, BetweenLines, Sizing, Trailer, HeaderStates, ChunkStates
<1>7. PartsDue'
  BY <1>1, Moved, StateSorts DEF PartsDue, BetweenLines, Sizing, Trailer, HeaderStates, ChunkStates
<1>8. HeadersTaken'
  <2>1. CASE state \in FirstLineStates
    <3>1. headers = <<>> /\ Len(headers) = 0 /\ contentSize = 0
      BY <2>1 DEF Untouched
    <3>2. LengthBy(headers, 0) = 0 /\ ~ChunkedBy(headers, 0)
      BY NoHeaders
    <3>3. state' \in HeaderStates => state' = "HeaderLineStart"
      BY <2>1, Moved, StateSorts DEF HeaderStates, ChunkStates
    <3>4. CASE state' = "HeaderLineStart"
      BY <1>1, <3>1, <3>2, <3>4 DEF HeadersTaken, BodyAllowed, BetweenLines
    <3>5. CASE state' \notin HeaderStates
      BY <3>5 DEF HeadersTaken, HeaderStates, BetweenLines
    <3> QED
      BY <3>3, <3>4, <3>5
  <2>2. CASE state \in BetweenLines /\ state' \in BetweenLines
    <3>1. state # "HeaderValue" /\ state \in HeaderStates
      BY <2>2, StateSorts DEF BetweenLines
    <3> QED
      BY <1>1, <2>2, <3>1 DEF HeadersTaken, BodyAllowed
  <2>3. CASE state = "HeaderName" /\ state' = "SpaceBeforeHeaderValue"
    BY <1>1, <2>3 DEF HeadersTaken, BodyAllowed, HeaderStates, BetweenLines
  <2>4. CASE state = "SpaceBeforeHeaderValue" /\ state' = "HeaderValue"
    BY <1>1, <2>4 DEF HeadersTaken, BodyAllowed, HeaderStates, BetweenLines
  <2>5. CASE state' \in ChunkStates
    BY <2>5, StateSorts DEF HeadersTaken
  <2> QED
    BY <2>1, <2>2, <2>3, <2>4, <2>5, Moved DEF Sizing, Trailer, ChunkStates
<1> QED
  BY <1>2, <1>3, <1>4, <1>5, <1>6, <1>7, <1>8

\* The other steps of the first line.
LEMMA FirstLinePreserves ==
  ASSUME ParserInv, result = "incomplete", NEW t,
         RequestMethod(t) \/ RequestUriEnds(t) \/ VersionEnds(t) \/ StatusCode(t) \/ StatusCodeEnds(t)
  PROVE  ParserInv'
<1> USE DEF ParserInv
<1>1. /\ UNCHANGED <<kind, contentSize, chunkSizeStr, chunkSize, announced, chunked, headers, content>>
      /\ state \in FirstLineStates /\ state' \in FirstLineStates
      /\ result' \in {"incomplete", "completed"}
  BY DEF RequestMethod, RequestUriEnds, VersionEnds, StatusCode, StatusCodeEnds, chunks, line,
         FirstLineStates, States, Comparing, HeaderStates, BetweenLines, ChunkStates
<1>2. method' \in {"", "POST", "other"}
  <2>1. method \in {"", "POST", "other"}
    BY Zenon DEF TypeOK
  <2>2. method' = method \/ \E s : method' = Method(method, s)
    BY Zenon DEF RequestMethod, RequestUriEnds, VersionEnds, StatusCode, StatusCodeEnds, line
  <2> QED
    BY <2>1, <2>2, Zenon DEF Method
<1>3. statusDigits' \in 0 .. 4
  <2>1. statusDigits \in 0 .. 4
    BY DEF TypeOK
  <2>2. CASE StatusCode(t)
    <3>1. {statusDigits + 1, 4} \in SUBSET Nat
      BY <2>1
    <3>2. Min({statusDigits + 1, 4}) \in {statusDigits + 1, 4} /\ Min({statusDigits + 1, 4}) <= 4
      BY <3>1, MinIn
    <3>3. Min({statusDigits + 1, 4}) \in 0 .. 4
      BY <2>1, <3>2
    <3> QED
      BY <2>2, <3>3 DEF StatusCode
  <2>3. CASE statusDigits' = statusDigits
    BY <2>1, <2>3
  <2> QED
    BY <2>2, <2>3 DEF RequestMethod, RequestUriEnds, VersionEnds, StatusCodeEnds, line
<1>4. headers = <<>> /\ contentSize = 0 /\ ~chunked /\ content = 0 /\ announced = 0
  BY <1>1 DEF Untouched
<1>5. state' \in States /\ state' \notin HeaderStates \cup ChunkStates \cup {"Post"}
  BY <1>1, StateSorts
<1>6. TypeOK'
  BY <1>1, <1>2, <1>3, <1>5, Zenon DEF TypeOK
<1>7. Announced' = 0
  <2>1. Len(headers) = 0 /\ LengthBy(headers, 0) = 0
    BY <1>4, NoHeaders
  <2> QED
    BY <1>1, <2>1 DEF Announced
<1>8. ContentComplete'
  BY <1>1, <1>4, <1>5, <1>7 DEF ContentComplete
<1>9. HeaderToFill' /\ SizesAreFresh' /\ HeadersTaken'
  BY <1>5 DEF HeaderToFill, SizesAreFresh, HeadersTaken, HeaderStates, BetweenLines, ChunkStates
<1>10. Untouched' /\ PartsDue'
  BY <1>1, <1>5, StateSorts DEF Untouched, PartsDue, ChunkStates
<1> QED
  BY <1>6, <1>8, <1>9, <1>10

\* What is typed in a header: a name is one of the words or another, and what
\* follows in a value is a string.
LEMMA HeaderGrowsType ==
  ASSUME NEW h \in HeaderType, NEW s, NEW t
  PROVE  /\ [h EXCEPT !.name = Joined(s, t)] \in HeaderType
         /\ [h EXCEPT !.value = Append(h.value, ValueWord(t))] \in HeaderType
         /\ [name |-> Joined(s, t), value |-> <<>>] \in HeaderType
         /\ [h EXCEPT !.value = Append(h.value, ValueWord(t))].name = h.name
<1>1. Joined(s, t) \in Words \cup {"other"}
  BY Zenon DEF Joined
<1>2. ValueWord(t) \in ValueWords \cup {"other"}
  BY Zenon DEF ValueWord
<1>3. h.name \in Words \cup {"other"} /\ h.value \in Seq(ValueWords \cup {"other"})
  BY DEF HeaderType
<1>4. Append(h.value, ValueWord(t)) \in Seq(ValueWords \cup {"other"})
  BY <1>2, <1>3, AppendProperties
<1>5. <<>> \in Seq(ValueWords \cup {"other"})
  BY EmptySeq
<1> QED
  BY <1>1, <1>3, <1>4, <1>5 DEF HeaderType

\* The steps among the headers.
LEMMA HeaderLineStartsPreserves ==
  ASSUME ParserInv, result = "incomplete", NEW t, HeaderLineStarts(t)
  PROVE  ParserInv'
<1> USE DEF ParserInv
<1>1. /\ UNCHANGED <<kind, contentSize, chunkSizeStr, chunkSize, announced, chunked, method,
                     statusDigits, content, result>>
      /\ state = "HeaderLineStart"
  BY DEF HeaderLineStarts, chunks
<1>2. headers \in Seq(HeaderType)
  BY Zenon DEF TypeOK, HeaderType
<1>3. content = 0 /\ chunkSizeStr = <<>> /\ announced = 0 /\ chunkSize = 0
  BY <1>1 DEF Untouched, PartsDue, HeaderStates, BetweenLines
<1>4. /\ BodyAllowed /\ ChunkedBy(headers, Len(headers)) => chunked
      /\ contentSize = IF BodyAllowed THEN LengthBy(headers, Len(headers)) ELSE 0
  BY <1>1 DEF HeadersTaken, HeaderStates, BetweenLines
<1>5. state' \in {"HeaderLws", "HeaderName"}
  BY DEF HeaderLineStarts
<1>6. headers' \in Seq(HeaderType) /\ headers' # <<>>
  <2>1. CASE headers # <<>> /\ headers' = headers
    BY <1>2, <2>1
  <2>2. CASE headers' = Append(headers, [name |-> Joined("", t), value |-> <<>>])
    <3>1. [name |-> Joined("", t), value |-> <<>>] \in HeaderType
      <4>1. \A h \in HeaderType : [name |-> Joined("", t), value |-> <<>>] \in HeaderType
        BY HeaderGrowsType
      <4>2. [name |-> "other", value |-> <<>>] \in HeaderType
        BY EmptySeq DEF HeaderType
      <4> QED
        BY <4>1, <4>2, Zenon
    <3> QED
      BY <1>2, <2>2, <3>1, AppendProperties
  <2> QED
    BY <2>1, <2>2 DEF HeaderLineStarts
<1>7. TypeOK'
  <2>1. state' \in States
    BY <1>5 DEF States, Comparing
  <2> QED
    BY <1>1, <1>6, <2>1 DEF TypeOK, HeaderType
<1>8. HeaderToFill' /\ SizesAreFresh' /\ Untouched' /\ PartsDue'
  <2>1. state' \notin FirstLineStates /\ state' \notin ChunkStates
    BY <1>5, StateSorts DEF HeaderStates, BetweenLines
  <2> QED
    BY <1>1, <1>3, <1>5, <1>6, <2>1
       DEF HeaderToFill, SizesAreFresh, Untouched, PartsDue, ChunkStates
<1>9. ContentComplete'
  BY <1>1, <1>3, <1>5 DEF ContentComplete
<1>10. HeadersTaken'
  <2>1. CASE state' = "HeaderLws" /\ headers' = headers
    BY <1>1, <1>4, <2>1 DEF HeadersTaken, BodyAllowed, BetweenLines
  <2>2. ASSUME NEW h, state' = "HeaderName", headers' = Append(headers, h)
        PROVE  HeadersTaken'
    <3>1. Len(headers) \in Nat /\ Len(headers') - 1 = Len(headers)
      BY <1>2, <1>6, <2>2, AppendProperties
    <3>2. \A i \in 1 .. Len(headers) : headers'[i] = headers[i]
      BY <1>2, <1>6, <2>2, AppendProperties
    <3>3. /\ LengthBy(headers', Len(headers)) = LengthBy(headers, Len(headers))
          /\ ChunkedBy(headers', Len(headers)) <=> ChunkedBy(headers, Len(headers))
      BY <3>1, <3>2, SameHeaders
    <3> QED
      BY <1>1, <1>4, <2>2, <3>1, <3>3 DEF HeadersTaken, BodyAllowed, BetweenLines
  <2> QED
    BY <2>1, <2>2 DEF HeaderLineStarts
<1> QED
  BY <1>7, <1>8, <1>9, <1>10

\* A word more in the last header, in its name or in its value.
LEMMA HeaderGrows ==
  ASSUME ParserInv, result = "incomplete", NEW t, HeaderNameGrows(t) \/ HeaderValueGrows(t)
  PROVE  ParserInv'
<1> USE DEF ParserInv
<1>1. /\ UNCHANGED <<kind, contentSize, chunkSizeStr, chunkSize, announced, chunked, method,
                     statusDigits, content, result>>
      /\ state \in {"HeaderName", "HeaderLws", "HeaderValue"}
      /\ IF state = "HeaderName" THEN HeaderNameGrows(t) /\ state' = "HeaderName"
                                 ELSE HeaderValueGrows(t) /\ state' = "HeaderValue"
  BY DEF HeaderNameGrows, HeaderValueGrows, chunks
<1>2. headers \in Seq(HeaderType)
  BY Zenon DEF TypeOK, HeaderType
<1>3. headers # <<>>
  BY <1>1 DEF HeaderToFill
<1> DEFINE n == Len(headers)
           h == IF state = "HeaderName"
                THEN [headers[n] EXCEPT !.name = Joined(headers[n].name, t)]
                ELSE [headers[n] EXCEPT !.value = Append(headers[n].value, ValueWord(t))]
<1>4. n \in Nat /\ n > 0 /\ n \in 1 .. n /\ headers[n] \in HeaderType
  BY <1>2, <1>3, EmptySeq
<1>5. h \in HeaderType
  BY <1>4, HeaderGrowsType
<1>6. state # "HeaderName" => h.name = headers[n].name
  BY <1>4, HeaderGrowsType
<1>7. headers' = [headers EXCEPT ![n] = h]
  BY <1>1 DEF HeaderNameGrows, HeaderValueGrows
<1> HIDE DEF h
<1>8. /\ headers' \in Seq(HeaderType) /\ headers' # <<>> /\ Len(headers') = n /\ headers'[n] = h
      /\ LengthBy(headers', n - 1) = LengthBy(headers, n - 1)
      /\ ChunkedBy(headers', n - 1) <=> ChunkedBy(headers, n - 1)
  <2> HIDE DEF n
  <2> QED
    BY <1>2, <1>3, <1>5, <1>7, LastGrows DEF n
<1>9. content = 0 /\ chunkSizeStr = <<>> /\ announced = 0 /\ chunkSize = 0
  BY <1>1 DEF Untouched, PartsDue, HeaderStates, BetweenLines
<1>10. state' \in {"HeaderName", "HeaderValue"}
  BY <1>1
<1>11. TypeOK'
  <2>1. state' \in States
    BY <1>10 DEF States, Comparing
  <2> QED
    BY <1>1, <1>8, <2>1 DEF TypeOK, HeaderType
<1>12. HeaderToFill' /\ SizesAreFresh' /\ Untouched' /\ PartsDue'
  <2>1. state' \notin FirstLineStates /\ state' \notin ChunkStates
    BY <1>10, StateSorts DEF HeaderStates
  <2> QED
    BY <1>1, <1>8, <1>9, <1>10, <2>1
       DEF HeaderToFill, SizesAreFresh, Untouched, PartsDue, ChunkStates
<1>13. ContentComplete'
  BY <1>1, <1>9, <1>10 DEF ContentComplete
<1>14. HeadersTaken'
  <2>1. CASE state \in {"HeaderName", "HeaderValue"}
    <3>1. /\ BodyAllowed /\ ChunkedBy(headers, n - 1) => chunked
          /\ \/ contentSize = IF BodyAllowed THEN LengthBy(headers, n - 1) ELSE 0
             \/ state = "HeaderValue" /\ BodyAllowed /\ headers[n].name = "Content-Length"
      BY <2>1 DEF HeadersTaken, HeaderStates, BetweenLines
    <3> QED
      BY <1>1, <1>6, <1>8, <2>1, <3>1 DEF HeadersTaken, BodyAllowed, BetweenLines
  <2>2. CASE state = "HeaderLws"
    <3>1. /\ BodyAllowed /\ ChunkedBy(headers, n) => chunked
          /\ contentSize = IF BodyAllowed THEN LengthBy(headers, n) ELSE 0
      BY <2>2 DEF HeadersTaken, HeaderStates, BetweenLines
    <3>2. ChunkedBy(headers, n - 1) => ChunkedBy(headers, n)
      BY <1>4 DEF ChunkedBy
    <3>3. headers[n].name # "Content-Length" => LengthBy(headers, n) = LengthBy(headers, n - 1)
      <4> HIDE DEF n
      <4> QED
        BY <1>4, LastHeader
    <3> QED
      BY <1>1, <1>6, <1>8, <2>2, <3>1, <3>2, <3>3 DEF HeadersTaken, BodyAllowed, BetweenLines
  <2> QED
    BY <1>1, <2>1, <2>2
<1> QED
  BY <1>11, <1>12, <1>13, <1>14

LEMMA HeaderValueEndsPreserves ==
  ASSUME ParserInv, result = "incomplete", NEW t, HeaderValueEnds(t)
  PROVE  ParserInv'
<1> USE DEF ParserInv
<1> DEFINE n == Len(headers)
           h == headers[n]
           length == BodyAllowed /\ h.name = "Content-Length"
<1>1. /\ UNCHANGED <<kind, chunkSizeStr, chunkSize, announced, method, statusDigits, headers, content>>
      /\ state = "HeaderValue"
      /\ \/ state' = state /\ result' = "exception" /\ UNCHANGED <<contentSize, chunked>>
         \/ /\ length /\ atoi(h.value) >= 0 /\ contentSize' = atoi(h.value)
            /\ state' = "ExpectingNewline_2" /\ UNCHANGED <<chunked, result>>
         \/ /\ ~length
            /\ chunked' = \/ chunked
                          \/ BodyAllowed /\ h.name = "Transfer-Encoding" /\ h.value = <<"chunked">>
            /\ state' = "ExpectingNewline_2" /\ UNCHANGED <<contentSize, result>>
  BY DEF HeaderValueEnds, chunks, line
<1>2. headers \in Seq(HeaderType)
  BY Zenon DEF TypeOK, HeaderType
<1>3. n \in Nat /\ n > 0 /\ n \in 1 .. n /\ h \in HeaderType
  BY <1>1, <1>2, EmptySeq DEF HeaderToFill
<1>4. h.value \in Seq(ValueWords \cup {"other"})
  BY <1>3 DEF HeaderType
<1>5. atoi(h.value) \in Int
  BY <1>4, atoiType
<1> HIDE DEF h, n
<1>6. content = 0 /\ chunkSizeStr = <<>> /\ announced = 0 /\ chunkSize = 0
  BY <1>1 DEF Untouched, PartsDue, HeaderStates, BetweenLines
<1>7. /\ BodyAllowed /\ ChunkedBy(headers, n - 1) => chunked
      /\ (contentSize = IF BodyAllowed THEN LengthBy(headers, n - 1) ELSE 0) \/ length
  BY <1>1 DEF HeadersTaken, HeaderStates, BetweenLines, h, n
<1>8. state' \in {"HeaderValue", "ExpectingNewline_2"}
  BY <1>1
<1>9. TypeOK'
  <2>1. state' \in States
    BY <1>8 DEF States, Comparing, BetweenLines
  <2>2. contentSize' \in Nat
    <3>1. contentSize \in Nat
      BY Zenon DEF TypeOK
    <3>2. \A m \in Int : m >= 0 => m \in Nat
      OBVIOUS
    <3> QED
      BY <1>1, <1>5, <3>1, <3>2, Zenon
  <2>3. chunked' \in BOOLEAN
    BY <1>1, Zenon DEF TypeOK
  <2>4. result' \in {"incomplete", "completed", "error", "exception"}
    BY <1>1
  <2> QED
    BY <1>1, <2>1, <2>2, <2>3, <2>4, Zenon DEF TypeOK
<1>10. HeaderToFill' /\ SizesAreFresh' /\ Untouched' /\ PartsDue'
  <2>1. state' \notin FirstLineStates /\ state' \notin ChunkStates
    BY <1>8, StateSorts DEF HeaderStates, BetweenLines
  <2>2. HeaderToFill'
    BY <1>1, <1>8 DEF HeaderToFill
  <2> QED
    BY <1>1, <1>6, <1>8, <2>1, <2>2 DEF SizesAreFresh, Untouched, PartsDue, ChunkStates
<1>11. ContentComplete'
  <2>1. state' # "Post" /\ result' # "completed"
    BY <1>1
  <2>2. content' + chunkSize' = announced'
    BY <1>1, <1>6
  <2> QED
    BY <2>1, <2>2 DEF ContentComplete
<1>12. HeadersTaken'
  <2>1. CASE UNCHANGED <<state, contentSize, chunked>>
    BY <1>1, <2>1 DEF HeadersTaken, BodyAllowed
  <2>2. CASE state' = "ExpectingNewline_2"
    <3>1. LengthBy(headers, n) = IF h.name = "Content-Length" THEN atoi(h.value)
                                                             ELSE LengthBy(headers, n - 1)
      BY <1>3, LastHeader DEF h
    <3>2. contentSize' = IF BodyAllowed THEN LengthBy(headers, n) ELSE 0
      BY <1>1, <1>7, <2>2, <3>1
    <3>3. BodyAllowed /\ ChunkedBy(headers, n) => chunked'
      <4> SUFFICES ASSUME BodyAllowed, NEW i \in 1 .. n,
                          headers[i] = [name |-> "Transfer-Encoding", value |-> <<"chunked">>]
                   PROVE  chunked'
        BY DEF ChunkedBy
      <4>1. CASE i = n
        <5>1. h.name = "Transfer-Encoding" /\ h.value = <<"chunked">>
          BY <4>1 DEF h
        <5> QED
          BY <1>1, <2>2, <5>1
      <4>2. CASE i # n
        <5>1. i \in 1 .. n - 1
          BY <1>3, <4>2
        <5>2. ChunkedBy(headers, n - 1)
          BY <5>1 DEF ChunkedBy
        <5> QED
          BY <1>1, <1>7, <5>2
      <4> QED
        BY <4>1, <4>2
    <3> QED
      BY <1>1, <2>2, <3>2, <3>3 DEF HeadersTaken, BodyAllowed, BetweenLines, n
  <2> QED
    BY <1>1, <2>1, <2>2
<1> QED
  BY <1>9, <1>10, <1>11, <1>12

LEMMA HeadEndsPreserves ==
  ASSUME ParserInv, result = "incomplete", NEW t, HeadEnds(t)
  PROVE  ParserInv'
<1> USE DEF ParserInv
<1>1. /\ UNCHANGED <<kind, contentSize, chunkSizeStr, chunkSize, announced, chunked, method,
                     statusDigits, headers, content>>
      /\ state = "ExpectingNewline_3"
      /\ \/ chunked /\ state' = "ChunkSize" /\ UNCHANGED result
         \/ ~chunked /\ contentSize = 0 /\ result' = "completed" /\ UNCHANGED state
         \/ ~chunked /\ contentSize > 0 /\ state' = "Post" /\ UNCHANGED result
  BY DEF HeadEnds, chunks, line
<1>2. content = 0 /\ chunkSizeStr = <<>> /\ announced = 0 /\ chunkSize = 0
  BY <1>1 DEF Untouched, PartsDue, HeaderStates, BetweenLines
<1>3. contentSize = Announced /\ contentSize \in Nat
  BY <1>1 DEF HeadersTaken, HeaderStates, BetweenLines, Announced, TypeOK
<1>4. Announced' = Announced
  BY <1>1 DEF Announced, BodyAllowed
<1>5. state' \in {"ChunkSize", "ExpectingNewline_3", "Post"}
  BY <1>1
<1>6. TypeOK'
  <2>1. state' \in States
    BY <1>5 DEF States, Comparing
  <2>2. result' \in {"incomplete", "completed", "error", "exception"}
    BY <1>1
  <2> QED
    BY <1>1, <2>1, <2>2, Zenon DEF TypeOK
<1>7. ContentComplete'
  BY <1>1, <1>2, <1>3, <1>4 DEF ContentComplete
<1>8. HeaderToFill' /\ SizesAreFresh'
  BY <1>5 DEF HeaderToFill, SizesAreFresh
<1>9. state' \notin FirstLineStates
  BY <1>5, StateSorts DEF HeaderStates, BetweenLines, ChunkStates
<1>10. Untouched' /\ PartsDue'
  BY <1>1, <1>2, <1>9 DEF Untouched, PartsDue, HeaderStates, BetweenLines, ChunkStates
<1>11. HeadersTaken'
  <2>1. CASE state' = state
    BY <1>1, <2>1 DEF HeadersTaken, BodyAllowed
  <2>2. CASE state' \in {"ChunkSize", "Post"}
    BY <2>2 DEF HeadersTaken, HeaderStates, BetweenLines
  <2> QED
    BY <1>1, <2>1, <2>2
<1> QED
  BY <1>6, <1>7, <1>8, <1>10, <1>11

\* The steps of the body.
LEMMA PostPreserves ==
  ASSUME ParserInv, result = "incomplete", NEW t, Post(t)
  PROVE  ParserInv'
<1> USE DEF ParserInv
<1>1. /\ UNCHANGED <<kind, chunkSizeStr, chunkSize, announced, chunked, method, statusDigits, headers>>
      /\ state = "Post" /\ state' = "Post"
      /\ contentSize' = contentSize - 1 /\ content' = content + 1
      /\ result' = IF contentSize' = 0 THEN "completed" ELSE result
  BY DEF Post, chunks, line
<1>2. ~chunked /\ contentSize > 0 /\ chunkSize = 0
  BY <1>1 DEF PartsDue
<1>3. contentSize \in Nat /\ content \in Nat
  BY Zenon DEF TypeOK
<1>4. contentSize' \in Nat /\ content' \in Nat /\ content' + contentSize' = content + contentSize
  BY <1>1, <1>2, <1>3
<1>5. TypeOK'
  <2>1. result' \in {"incomplete", "completed", "error", "exception"}
    BY <1>1
  <2> QED
    BY <1>1, <1>4, <2>1, Zenon DEF TypeOK
<1>6. Announced' = Announced
  BY <1>1 DEF Announced, BodyAllowed
<1>7. ContentComplete'
  <2>1. content + contentSize = Announced
    BY <1>1 DEF ContentComplete
  <2>2. content' + contentSize' = Announced'
    BY <1>4, <1>6, <2>1
  <2>3. result' = "completed" => content' = Announced'
    BY <1>1, <1>4, <2>2
  <2> QED
    BY <1>1, <1>2, <2>2, <2>3 DEF ContentComplete
<1>8. HeaderToFill' /\ SizesAreFresh' /\ HeadersTaken'
  BY <1>1 DEF HeaderToFill, SizesAreFresh, HeadersTaken, HeaderStates, BetweenLines
<1>9. Untouched'
  BY <1>1, StateSorts DEF Untouched
<1>10. PartsDue'
  <2>1. state' \notin ChunkStates
    BY <1>1, StateSorts
  <2>2. ASSUME result' = "incomplete" PROVE contentSize' > 0
    <3>1. contentSize' # 0
      BY <1>1, <2>2
    <3>2. \A m \in Nat : m # 0 => m > 0
      OBVIOUS
    <3> QED
      BY <1>4, <3>1, <3>2, Zenon
  <2> QED
    BY <1>1, <1>2, <2>1, <2>2 DEF PartsDue
<1> QED
  BY <1>5, <1>7, <1>8, <1>9, <1>10

LEMMA ChunksPreserve ==
  ASSUME ParserInv, result = "incomplete", NEW t,
         ChunkSize(t) \/ ChunkSizeNewLine(t) \/ ChunkData(t) \/ ChunksEnd(t)
  PROVE  ParserInv'
<1> USE DEF ParserInv
<1>1. /\ UNCHANGED <<kind, contentSize, chunked, method, statusDigits, headers>>
      /\ state \in {"ChunkSize", "ChunkSizeNewLine", "ChunkData", "ChunkSizeNewLine_3"}
      /\ state' \in {"ChunkSize", "ChunkSizeNewLine_2", "ChunkData", "ChunkDataNewLine_1",
                     "ChunkSizeNewLine_3"}
      /\ result' \in {"incomplete", "completed"}
  BY DEF ChunkSize, ChunkSizeNewLine, ChunkData, ChunksEnd, chunks, line
<1>2. state \in ChunkStates /\ state' \in ChunkStates
  BY <1>1 DEF ChunkStates
<1>3. chunked /\ state' \notin FirstLineStates \cup HeaderStates
  BY <1>2, StateSorts DEF PartsDue
<1>4. /\ chunkSizeStr \in Seq(isalnum) /\ chunkSize \in Nat /\ content \in Nat /\ announced \in Nat
      /\ content + chunkSize = announced
  BY <1>3 DEF TypeOK, ContentComplete
<1>5. strtol(chunkSizeStr) \in Nat
  BY <1>4, strtolType
<1>6. IF state = "ChunkData" THEN chunkSize > 0 ELSE chunkSize = 0
  BY DEF PartsDue
<1>7. /\ chunkSizeStr' \in Seq(isalnum)
      /\ state' \in {"ChunkSizeNewLine_2", "ChunkData", "ChunkDataNewLine_1"} => chunkSizeStr' = <<>>
  <2>1. CASE ChunkSize(t)
    BY <1>4, <2>1, AppendProperties DEF ChunkSize
  <2>2. CASE ChunkSizeNewLine(t)
    BY <2>2, EmptySeq DEF ChunkSizeNewLine
  <2>3. CASE ChunkData(t)
    BY <1>4, <2>3 DEF ChunkData, SizesAreFresh
  <2>4. CASE ChunksEnd(t)
    BY <1>4, <2>4 DEF ChunksEnd, chunks
  <2> QED
    BY <2>1, <2>2, <2>3, <2>4
<1>8. /\ chunkSize' \in Nat /\ content' \in Nat /\ announced' \in Nat
      /\ content' + chunkSize' = announced'
      /\ IF state' = "ChunkData" THEN chunkSize' > 0 ELSE chunkSize' = 0
      /\ result' = "completed" => chunkSize' = 0
  <2>1. CASE ChunkSize(t)
    BY <1>4, <1>6, <2>1 DEF ChunkSize
  <2>2. CASE ChunkSizeNewLine(t)
    BY <1>4, <1>5, <1>6, <2>2 DEF ChunkSizeNewLine
  <2>3. CASE ChunkData(t)
    BY <1>4, <1>6, <2>3 DEF ChunkData
  <2>4. CASE ChunksEnd(t)
    BY <1>4, <1>6, <2>4 DEF ChunksEnd, chunks
  <2> QED
    BY <2>1, <2>2, <2>3, <2>4
<1>9. TypeOK'
  <2>1. state' \in States
    BY <1>2, StateSorts
  <2>2. result' \in {"incomplete", "completed", "error", "exception"}
    BY <1>1
  <2> QED
    BY <1>1, <1>7, <1>8, <2>1, <2>2, Zenon DEF TypeOK
<1>10. ContentComplete'
  <2>1. state' # "Post" /\ chunked'
    BY <1>1, <1>3
  <2>2. ASSUME result' = "completed" PROVE content' = announced'
    <3>1. \A m \in Nat : m + 0 = m
      OBVIOUS
    <3> QED
      BY <1>8, <2>2, <3>1, Zenon
  <2> QED
    BY <1>8, <2>1, <2>2 DEF ContentComplete
<1>11. HeaderToFill' /\ SizesAreFresh' /\ HeadersTaken'
  BY <1>1, <1>3, <1>7 DEF HeaderToFill, SizesAreFresh, HeadersTaken, HeaderStates
<1>12. Untouched' /\ PartsDue'
  BY <1>1, <1>3, <1>8 DEF Untouched, PartsDue
<1> QED
  BY <1>9, <1>10, <1>11, <1>12

LEMMA ParserInvStep ==
  ASSUME ParserInv, [Next]_vars
  PROVE  ParserInv'
<1>1. CASE UNCHANGED vars
  <2>1. UNCHANGED <<kind, state, contentSize, chunkSizeStr, chunkSize, announced, chunked, method,
                    statusDigits, headers, content, result>>
    BY <1>1 DEF vars, chunks, line
  <2>2. TypeOK' /\ HeaderToFill' /\ SizesAreFresh' /\ ContentComplete'
    BY <2>1 DEF ParserInv, TypeOK, HeaderToFill, SizesAreFresh, ContentComplete, Announced, BodyAllowed
  <2>3. Untouched' /\ PartsDue' /\ HeadersTaken'
    BY <2>1 DEF ParserInv, Untouched, PartsDue, HeadersTaken, BodyAllowed
  <2> QED
    BY <2>2, <2>3 DEF ParserInv
<1>2. ASSUME NEW t, Reject(t), result = "incomplete"
      PROVE  ParserInv'
  <2>1. /\ UNCHANGED <<kind, state, contentSize, chunkSizeStr, chunkSize, announced, chunked, method,
                       statusDigits, headers, content>>
        /\ result' = "error"
    BY <1>2 DEF Reject, chunks, line
  <2> QED
    BY <2>1 DEF ParserInv, TypeOK, HeaderToFill, SizesAreFresh, ContentComplete,
                Untouched, PartsDue, HeadersTaken, Announced, BodyAllowed
<1>3. ASSUME NEW t, Accept(t), result = "incomplete"
      PROVE  ParserInv'
  BY <1>3, MovePreserves, FirstLinePreserves, HeaderLineStartsPreserves, HeaderGrows,
     HeaderValueEndsPreserves, HeadEndsPreserves, PostPreserves, ChunksPreserve
  DEF Accept
<1> QED
  BY <1>1, <1>2, <1>3 DEF Next, consume

\* Whatever is sent, the parser's counters and flags fit the state it is in.
THEOREM ParserInvariance == Spec => []ParserInv
<1>1. Init => ParserInv
  BY ParserInvInit
<1>2. ParserInv /\ [Next]_vars => ParserInv'
  BY ParserInvStep
<1> QED
  BY <1>1, <1>2, PTL DEF Spec

\* Between two lines of the head the parser's length is that of the last
\* Content-Length as a whole, and a header that asks for chunks was obeyed.
THEOREM HeadIsRead == Spec => []HeadAgrees
<1>1. ParserInv => HeadAgrees
  BY StateSorts DEF ParserInv, HeadersTaken, HeadAgrees, Announced, BetweenLines
<1> QED
  BY <1>1, ParserInvariance, PTL

\* A message is complete exactly when its content has the length announced.
THEOREM MessageIsWhole == Spec => []ContentComplete
<1>1. ParserInv => ContentComplete
  BY DEF ParserInv
<1> QED
  BY <1>1, ParserInvariance, PTL

\* There always is a header where headers.back() is taken.
THEOREM BackIsDefined == Spec => []HeaderToFill
<1>1. ParserInv => HeaderToFill
  BY DEF ParserInv
<1> QED
  BY <1>1, ParserInvariance, PTL

\* Every chunk's size is read from its own digits.
THEOREM SizesReadAfresh == Spec => []SizesAreFresh
<1>1. ParserInv => SizesAreFresh
  BY DEF ParserInv
<1> QED
  BY <1>1, ParserInvariance, PTL

------------------------------------------------------------------------------
\* The framing of bodies.

HeadStates == FirstLineStates \cup HeaderStates
ChunksFrom == Sizing \cup {"ChunkData", "ChunkDataNewLine_1", "ChunkDataNewLine_2"}

LEMMA HeadStatesApart ==
  /\ HeadStates \cap (Trailer \cup ChunksFrom \cup {"Post", "ChunkSizeNewLine"}) = {}
  /\ BetweenLines \cup {"HeaderName", "SpaceBeforeHeaderValue", "HeaderValue"} \subseteq HeadStates
BY StateSorts DEF HeadStates, ChunksFrom, Sizing, Trailer, ChunkStates, HeaderStates

\* The phases of the states, before and after a step.
LEMMA Phases ==
  /\ result = "completed" => Phase = "done"
  /\ result \in {"error", "exception"} => Phase = "refused"
  /\ result = "incomplete" =>
       /\ state \in HeadStates => Phase = "head"
       /\ state = "Post" => Phase = "fixed"
       /\ state \in Trailer => Phase = "trailer"
       /\ state \in ChunksFrom => Phase = "chunks"
       /\ state = "ChunkSizeNewLine" =>
            Phase = IF strtol(chunkSizeStr) = 0 THEN "trailer" ELSE "chunks"
BY HeadStatesApart DEF Phase, Trailer, ChunksFrom, Sizing

LEMMA PhasesAfter ==
  /\ result' = "completed" => Phase' = "done"
  /\ result' \in {"error", "exception"} => Phase' = "refused"
  /\ result' = "incomplete" =>
       /\ state' \in HeadStates => Phase' = "head"
       /\ state' = "Post" => Phase' = "fixed"
       /\ state' \in Trailer => Phase' = "trailer"
       /\ state' \in ChunksFrom => Phase' = "chunks"
       /\ state' = "ChunkSizeNewLine" =>
            Phase' = IF strtol(chunkSizeStr') = 0 THEN "trailer" ELSE "chunks"
BY HeadStatesApart DEF Phase, Trailer, ChunksFrom, Sizing

\* Where contentSize or chunkSize is due.
due == IF state = "Post" THEN contentSize ELSE chunkSize

LEMMA FramingInit == Init => Framing!Init
<1> SUFFICES ASSUME Init PROVE Framing!Init
  OBVIOUS
<1>1. state \in FirstLineStates
  BY DEF Init, FirstLineStates, States, Comparing, HeaderStates, BetweenLines, ChunkStates
<1>2. state \in HeadStates /\ state # "Post"
  BY <1>1, HeadStatesApart DEF HeadStates
<1>3. result = "incomplete" /\ content = 0 /\ chunkSize = 0
  BY Zenon DEF Init
<1>4. Phase = "head"
  BY <1>2, <1>3, Phases
<1> QED
  BY <1>2, <1>3, <1>4 DEF Framing!Init

\* Every step of the parser takes one of the framing, or none.
LEMMA MoveFrames ==
  ASSUME ParserInv, result = "incomplete", NEW t, Move(t)
  PROVE  [Framing!Next]_Framing!vars
<1>1. /\ UNCHANGED <<contentSize, chunkSizeStr, chunkSize, content>>
      /\ result' = "incomplete"
  BY Moved DEF chunks, line
<1>2. CASE state \in HeadStates /\ state' \in HeadStates
  BY <1>1, <1>2, Phases, PhasesAfter, HeadStatesApart DEF Framing!vars
<1>3. CASE state \in ChunksFrom \ {"ChunkData"} /\ state' \in ChunksFrom
  BY <1>1, <1>3, Phases, PhasesAfter DEF Framing!vars, ChunksFrom, Sizing
<1>4. CASE state \in Trailer /\ state' \in Trailer
  BY <1>1, <1>4, Phases, PhasesAfter DEF Framing!vars, Trailer
<1>5. CASE state \in Sizing /\ state' = "ChunkSizeNewLine"
  <2>1. Phase = "chunks" /\ Phase' \in {"chunks", "trailer"}
    BY <1>1, <1>5, Phases, PhasesAfter DEF ChunksFrom
  <2>2. chunkSize = 0 /\ state # "Post" /\ state' # "Post"
    BY <1>5 DEF ParserInv, PartsDue, Sizing
  <2>3. CASE Phase' = "chunks"
    BY <1>1, <2>1, <2>2, <2>3 DEF Framing!vars
  <2>4. CASE Phase' = "trailer"
    BY <1>1, <2>1, <2>2, <2>4 DEF Framing!Next, Framing!LastChunk
  <2> QED
    BY <2>1, <2>3, <2>4
<1>6. CASE state = "ChunkTrailerValue" /\ state' = "ChunkSizeNewLine"
  <2>1. chunkSizeStr' = <<>>
    BY <1>1, <1>6 DEF ParserInv, SizesAreFresh
  <2>2. Phase = "trailer" /\ Phase' = "trailer"
    BY <1>1, <1>6, <2>1, strtolOfNothing, Phases, PhasesAfter DEF Trailer
  <2> QED
    BY <1>1, <1>6, <2>2 DEF Framing!vars
<1>7. \/ state \in HeadStates /\ state' \in HeadStates
      \/ state \in ChunksFrom \ {"ChunkData"} /\ state' \in ChunksFrom
      \/ state \in Trailer /\ state' \in Trailer
      \/ state \in Sizing /\ state' = "ChunkSizeNewLine"
      \/ state = "ChunkTrailerValue" /\ state' = "ChunkSizeNewLine"
  BY Moved, HeadStatesApart DEF HeadStates, BetweenLines, ChunksFrom, Sizing
<1> QED
  BY <1>2, <1>3, <1>4, <1>5, <1>6, <1>7

LEMMA HeadFrames ==
  ASSUME ParserInv, result = "incomplete", NEW t,
         \/ RequestMethod(t) \/ RequestUriEnds(t) \/ VersionEnds(t) \/ StatusCode(t)
         \/ StatusCodeEnds(t) \/ HeaderLineStarts(t) \/ HeaderNameGrows(t)
         \/ HeaderValueGrows(t) \/ HeaderValueEnds(t)
  PROVE  [Framing!Next]_Framing!vars
<1>1. /\ UNCHANGED <<chunkSize, content>>
      /\ result' \in {"incomplete", "completed", "exception"}
  BY DEF RequestMethod, RequestUriEnds, VersionEnds, StatusCode, StatusCodeEnds,
         HeaderLineStarts, HeaderNameGrows, HeaderValueGrows, HeaderValueEnds, chunks, line
<1>2. state \in HeadStates /\ state' \in HeadStates
  BY HeadStatesApart
     DEF RequestMethod, RequestUriEnds, VersionEnds, StatusCode, StatusCodeEnds,
         HeaderLineStarts, HeaderNameGrows, HeaderValueGrows, HeaderValueEnds,
         HeadStates, FirstLineStates, States, Comparing, HeaderStates, BetweenLines, ChunkStates
<1>3. due = chunkSize /\ due' = chunkSize'
  BY <1>2, HeadStatesApart DEF due
<1>4. Phase = "head"
  BY <1>2, Phases
<1>5. CASE result' = "incomplete"
  BY <1>1, <1>2, <1>3, <1>4, <1>5, PhasesAfter DEF Framing!vars, due
<1>6. CASE result' = "completed"
  BY <1>1, <1>3, <1>4, <1>6, PhasesAfter DEF Framing!Next, Framing!Complete, due
<1>7. CASE result' = "exception"
  BY <1>1, <1>3, <1>4, <1>7, PhasesAfter DEF Framing!Next, Framing!Refuse, due
<1> QED
  BY <1>1, <1>5, <1>6, <1>7

LEMMA BodyFrames ==
  ASSUME ParserInv, result = "incomplete", NEW t,
         \/ HeadEnds(t) \/ Post(t) \/ ChunkSize(t) \/ ChunkSizeNewLine(t)
         \/ ChunkData(t) \/ ChunksEnd(t)
  PROVE  [Framing!Next]_Framing!vars
<1> USE DEF due
<1>1. contentSize \in Nat /\ chunkSize \in Nat /\ content \in Nat
  BY Zenon DEF ParserInv, TypeOK
<1>2. CASE HeadEnds(t)
  <2>1. state = "ExpectingNewline_3" /\ UNCHANGED <<contentSize, chunkSize, content>>
    BY <1>2 DEF HeadEnds, chunks
  <2>2. Phase = "head" /\ due = 0
    <3>1. state \in HeadStates
      BY <2>1, HeadStatesApart DEF BetweenLines
    <3>2. chunkSize = 0
      BY <2>1 DEF ParserInv, PartsDue
    <3> QED
      BY <2>1, <3>1, <3>2, Phases
  <2>3. CASE state' = "ChunkSize" /\ result' = result
    <3>1. Phase' = "chunks" /\ due' = due
      BY <2>1, <2>3, PhasesAfter DEF ChunksFrom, Sizing
    <3> QED
      BY <2>1, <2>2, <3>1 DEF Framing!Next, Framing!ChunkedBody
  <2>4. CASE result' = "completed" /\ state' = state
    <3>1. Phase' = "done" /\ due' = due
      BY <2>1, <2>4, PhasesAfter
    <3> QED
      BY <2>1, <2>2, <3>1 DEF Framing!Next, Framing!Complete
  <2>5. CASE contentSize > 0 /\ state' = "Post" /\ result' = result
    <3>1. Phase' = "fixed" /\ due' \in Nat \ {0}
      BY <1>1, <2>1, <2>5, PhasesAfter
    <3> QED
      BY <2>1, <2>2, <3>1 DEF Framing!Next, Framing!FixedBody
  <2> QED
    BY <1>2, <2>3, <2>4, <2>5 DEF HeadEnds
<1>3. CASE Post(t)
  <2>1. /\ state = "Post" /\ state' = "Post"
        /\ contentSize' = contentSize - 1 /\ content' = content + 1
        /\ result' = IF contentSize' = 0 THEN "completed" ELSE "incomplete"
    BY <1>3 DEF Post
  <2>2. Phase = "fixed" /\ due = contentSize /\ due' = contentSize - 1 /\ contentSize > 0
    BY <2>1, Phases DEF ParserInv, PartsDue
  <2>3. Phase' = IF due = 1 THEN "done" ELSE "fixed"
    <3>1. contentSize' = 0 <=> due = 1
      BY ONLY <1>1, <2>1, <2>2
    <3> QED
      BY <2>1, <3>1, PhasesAfter
  <2> QED
    BY <2>1, <2>2, <2>3 DEF Framing!Next, Framing!Byte
<1>4. CASE ChunkSize(t)
  BY <1>4, Phases, PhasesAfter DEF ChunkSize, Framing!vars, ChunksFrom, Sizing
<1>5. CASE ChunkSizeNewLine(t)
  <2>1. state = "ChunkSizeNewLine" /\ chunkSize = 0 /\ due = 0
    BY <1>5 DEF ChunkSizeNewLine, ParserInv, PartsDue
  <2>2. strtol(chunkSizeStr) \in Nat
    BY strtolType DEF ParserInv, TypeOK
  <2>3. chunkSize' = strtol(chunkSizeStr) /\ UNCHANGED <<content, result>>
    BY <1>5 DEF ChunkSizeNewLine
  <2>4. CASE strtol(chunkSizeStr) = 0
    <3>1. state' = "ChunkSizeNewLine_2"
      BY <1>5, <2>4 DEF ChunkSizeNewLine
    <3>2. Phase = "trailer" /\ Phase' = "trailer" /\ due' = 0
      BY <2>1, <2>3, <2>4, <3>1, Phases, PhasesAfter DEF Trailer
    <3> QED
      BY <2>1, <2>3, <3>2 DEF Framing!vars
  <2>5. CASE strtol(chunkSizeStr) # 0
    <3>1. state' = "ChunkData"
      BY <1>5, <2>5 DEF ChunkSizeNewLine
    <3>2. Phase = "chunks" /\ Phase' = "chunks" /\ due' \in Nat \ {0}
      BY <2>1, <2>2, <2>3, <2>5, <3>1, Phases, PhasesAfter DEF ChunksFrom
    <3> QED
      BY <2>1, <2>3, <3>2 DEF Framing!Next, Framing!Chunk
  <2> QED
    BY <2>4, <2>5
<1>6. CASE ChunkData(t)
  <2>1. /\ state = "ChunkData" /\ state' \in {"ChunkData", "ChunkDataNewLine_1"}
        /\ chunkSize' = chunkSize - 1 /\ content' = content + 1 /\ result' = result
    BY <1>6 DEF ChunkData
  <2>2. chunkSize > 0
    BY <2>1 DEF ParserInv, PartsDue
  <2>3. Phase = "chunks" /\ Phase' = "chunks" /\ due = chunkSize /\ due' = chunkSize - 1
    BY <2>1, Phases, PhasesAfter DEF ChunksFrom
  <2> QED
    BY <2>1, <2>2, <2>3 DEF Framing!Next, Framing!Byte
<1>7. CASE ChunksEnd(t)
  <2>1. state = "ChunkSizeNewLine_3" /\ result' = "completed" /\ UNCHANGED <<state, chunkSize, content>>
    BY <1>7 DEF ChunksEnd, chunks
  <2>2. Phase = "trailer" /\ Phase' = "done" /\ due' = due
    BY <2>1, Phases, PhasesAfter DEF Trailer
  <2> QED
    BY <2>1, <2>2 DEF Framing!Next, Framing!Complete
<1> QED
  BY <1>2, <1>3, <1>4, <1>5, <1>6, <1>7

LEMMA RejectFrames ==
  ASSUME ParserInv, result = "incomplete", NEW t, Reject(t)
  PROVE  [Framing!Next]_Framing!vars
<1>1. result' = "error" /\ UNCHANGED <<state, contentSize, chunkSize, content>>
  BY DEF Reject, chunks
<1>2. Phase' = "refused"
  BY <1>1, PhasesAfter
<1>3. Phase \notin {"done", "refused"}
  BY DEF Phase
<1> QED
  BY <1>1, <1>2, <1>3 DEF Framing!Next, Framing!Refuse

\* The parsers delimit bodies the way HttpFraming says.
THEOREM ParserFrames == Spec => ImplementsHttpFraming
<1>1. Init => Framing!Init
  BY FramingInit
<1>2. ParserInv /\ [Next]_vars => [Framing!Next]_Framing!vars
  <2> SUFFICES ASSUME ParserInv, [Next]_vars PROVE [Framing!Next]_Framing!vars
    OBVIOUS
  <2>1. CASE UNCHANGED vars
    BY <2>1 DEF vars, chunks, Phase, Framing!vars
  <2>2. ASSUME NEW t, Accept(t), result = "incomplete"
        PROVE  [Framing!Next]_Framing!vars
    BY <2>2, MoveFrames, HeadFrames, BodyFrames DEF Accept
  <2>3. ASSUME NEW t, Reject(t), result = "incomplete"
        PROVE  [Framing!Next]_Framing!vars
    BY <2>3, RejectFrames
  <2> QED
    BY <2>1, <2>2, <2>3 DEF Next, consume
<1> QED
  BY <1>1, <1>2, ParserInvariance, PTL DEF Spec, ImplementsHttpFraming, Framing!Spec

==============================================================================
