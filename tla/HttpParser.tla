----------------------------- MODULE HttpParser -----------------------------
(***************************************************************************)
(* The incremental parsers HttpRequestParser and HttpResponseParser, fed   *)
(* by a sender that may send anything.  All that a call of parse() keeps   *)
(* is in the parser and the message, so a step is one character and it     *)
(* does not matter how calls cut the input.  The caller stops at the first *)
(* verdict.                                                                *)
(*                                                                         *)
(* States that both parsers have lose the prefix Request or Response.  Of  *)
(* the message only what delimits it is kept: the method, the headers and  *)
(* the number of bytes of the content.  A run of characters that the       *)
(* parser collects and compares with a name comes as one word.             *)
(***************************************************************************)
EXTENDS Integers, Sequences, FiniteSetsExt, SequencesExt, TLC

CONSTANTS
  Digits,      \* the digits the sender uses, of "0" .. "9"
  MaxHeaders,  \* bound: headers of a message
  MaxWords,    \* bound: words in all their values together, and digits of a chunk size
  MaxBody      \* bound: bytes announced at once, and in all

CR == "\r"
LF == "\n"
SP == " "
TAB == "\t"
SEMICOLON == ";"

\* Classes of characters, with a letter that is no digit of base 16 but "H"
\* and "T"; and what isChar, isControl, isSpecial, isalnum and isalpha say.
isalpha   == {"H", "T", "P"}
isalnum   == isalpha \cup Digits
isControl == {CR, LF, TAB, "NUL"}
isSpecial == {SP, TAB, ":", SEMICOLON, "=", "/"}
Chars     == isalnum \cup isControl \cup isSpecial \cup {".", "-", "high"}
isChar    == Chars \ {"high"}

Words == {"POST", "Content-Length", "Transfer-Encoding", "chunked"}
Numerals == {"0", "1", "2", "3", "4", "5", "6", "7", "8", "9"}
ValueWords == Numerals \cup {SP, "-", "chunked"}  \* all that matters in a header's value
TokenChars == (isChar \ (isControl \cup isSpecial)) \cup Words

\* The states that collect what is compared with a word.
Comparing ==
  {"RequestMethodStart", "RequestMethod", "HeaderLineStart", "HeaderName", "HeaderLws",
   "HeaderValue"}

States == Comparing \cup
  {"RequestUriStart", "RequestUri", "HttpVersion_h", "HttpVersion_ht", "HttpVersion_htt",
   "HttpVersion_http", "HttpVersion_slash", "HttpVersion_majorStart", "HttpVersion_major",
   "HttpVersion_minorStart", "HttpVersion_minor", "ResponseStatusStart",
   "HttpVersion_statusCodeStart", "HttpVersion_statusCode", "HttpVersion_statusTextStart",
   "HttpVersion_statusText", "HttpVersion_newLine", "SpaceBeforeHeaderValue",
   "ExpectingNewline_2", "ExpectingNewline_3", "Post", "ChunkSize", "ChunkExtensionName",
   "ChunkExtensionValue", "ChunkSizeNewLine", "ChunkSizeNewLine_2", "ChunkSizeNewLine_3",
   "ChunkTrailerName", "ChunkTrailerValue", "ChunkData", "ChunkDataNewLine_1",
   "ChunkDataNewLine_2"}

VARIABLES
  kind,          \* "request" or "response": which of the two parsers
  state, contentSize, chunkSizeStr, chunkSize, chunked,
  method,        \* req.method: "", "POST" (which stands for PUT as well) or "other"
  statusDigits,  \* how many digits resp.statusCode has
  headers,       \* of the message: records of name and value
  content,       \* how many bytes the message's content has
  result,        \* of parse(): "incomplete", "completed", "error" or "exception"
  announced      \* history: the sizes of all chunks so far

line   == <<method, statusDigits, headers>>
chunks == <<chunkSizeStr, chunkSize, announced>>
vars   == <<kind, state, contentSize, chunked, chunks, line, content, result>>

TypeOK ==
  /\ kind \in {"request", "response"}
  /\ state \in States
  /\ contentSize \in Nat /\ chunkSize \in Nat /\ content \in Nat /\ announced \in Nat
  /\ chunkSizeStr \in Seq(isalnum)
  /\ chunked \in BOOLEAN
  /\ method \in {"", "POST", "other"}
  /\ statusDigits \in 0 .. 4
  /\ headers \in Seq([name : Words \cup {"other"}, value : Seq(ValueWords \cup {"other"})])
  /\ result \in {"incomplete", "completed", "error", "exception"}

Init ==
  /\ \/ kind = "request" /\ state = "RequestMethodStart"
     \/ kind = "response" /\ state = "ResponseStatusStart"
  /\ contentSize = 0 /\ chunkSizeStr = <<>> /\ chunkSize = 0 /\ chunked = FALSE
  /\ method = "" /\ statusDigits = 0 /\ headers = <<>> /\ content = 0
  /\ result = "incomplete" /\ announced = 0

------------------------------------------------------------------------------
\* Numbers.

numeral ==
  [d \in Numerals |->
     CASE d = "0" -> 0 [] d = "1" -> 1 [] d = "2" -> 2 [] d = "3" -> 3 [] d = "4" -> 4
       [] d = "5" -> 5 [] d = "6" -> 6 [] d = "7" -> 7 [] d = "8" -> 8 [] d = "9" -> 9]

\* The number that the digits s begins with make.
Number(s, base) ==
  LET n == Min({i \in 0 .. Len(s) : i = Len(s) \/ s[i + 1] \notin Numerals})
      value[i \in 0 .. n] == IF i = 0 THEN 0 ELSE value[i - 1] * base + numeral[s[i]]
  IN  value[n]

\* strtol(s, NULL, 16) of letters and digits; "x" is no character here.
strtol(s) == Number(s, 16)

\* atoi skips spaces and takes a sign.
atoi(s) ==
  LET n == Min({i \in 0 .. Len(s) : i = Len(s) \/ s[i + 1] # SP})
      t == SubSeq(s, n + 1, Len(s))
  IN  IF t # <<>> /\ Head(t) = "-" THEN -Number(Tail(t), 10) ELSE Number(t, 10)

\* What a run of characters amounts to when t follows s.
Joined(s, t) == IF s = "" /\ t \in Words THEN t ELSE "other"
Method(s, t) == IF Joined(s, t) = "POST" THEN "POST" ELSE "other"
ValueWord(t) == IF t \in ValueWords THEN t ELSE "other"

------------------------------------------------------------------------------
\* The cases that do nothing but go to another state: <<from, input, to>>.

RequestLineMoves ==
  {<<"RequestMethod", {SP}, "RequestUriStart">>,
   <<"RequestUriStart", Chars \ isControl, "RequestUri">>,
   <<"RequestUri", {SP}, "HttpVersion_h">>,
   <<"RequestUri", Chars \ (isControl \cup {SP}), "RequestUri">>,
   <<"HttpVersion_h", {"H"}, "HttpVersion_ht">>}

VersionMoves ==
  {<<"HttpVersion_ht", {"T"}, "HttpVersion_htt">>,
   <<"HttpVersion_htt", {"T"}, "HttpVersion_http">>,
   <<"HttpVersion_http", {"P"}, "HttpVersion_slash">>,
   <<"HttpVersion_slash", {"/"}, "HttpVersion_majorStart">>,
   <<"HttpVersion_majorStart", Digits, "HttpVersion_major">>,
   <<"HttpVersion_major", {"."}, "HttpVersion_minorStart">>,
   <<"HttpVersion_major", Digits, "HttpVersion_major">>,
   <<"HttpVersion_minorStart", Digits, "HttpVersion_minor">>,
   <<"HttpVersion_minor", Digits, "HttpVersion_minor">>}

StatusLineMoves ==
  {<<"ResponseStatusStart", {"H"}, "HttpVersion_ht">>,
   <<"HttpVersion_statusTextStart", isChar, "HttpVersion_statusText">>,
   <<"HttpVersion_statusText", {CR}, "HttpVersion_newLine">>,
   <<"HttpVersion_statusText", isChar \ {CR}, "HttpVersion_statusText">>}

HeaderMoves ==
  {<<"HttpVersion_newLine", {LF}, "HeaderLineStart">>,
   <<"HeaderLineStart", {CR}, "ExpectingNewline_3">>,
   <<"HeaderLws", {CR}, "ExpectingNewline_2">>,
   <<"HeaderLws", {SP, TAB}, "HeaderLws">>,
   <<"HeaderName", {":"}, "SpaceBeforeHeaderValue">>,
   <<"SpaceBeforeHeaderValue", {SP}, "HeaderValue">>,
   <<"ExpectingNewline_2", {LF}, "HeaderLineStart">>}

ChunkLineMoves ==
  {<<"ChunkSize", {SEMICOLON}, "ChunkExtensionName">>,
   <<"ChunkSize", {CR}, "ChunkSizeNewLine">>,
   <<"ChunkExtensionName", isalnum \cup {SP}, "ChunkExtensionName">>,
   <<"ChunkExtensionName", {"="}, "ChunkExtensionValue">>,
   <<"ChunkExtensionName", {CR}, "ChunkSizeNewLine">>,
   <<"ChunkExtensionValue", isalnum \cup {SP}, "ChunkExtensionValue">>,
   <<"ChunkExtensionValue", {CR}, "ChunkSizeNewLine">>,
   <<"ChunkDataNewLine_1", {CR}, "ChunkDataNewLine_2">>,
   <<"ChunkDataNewLine_2", {LF}, "ChunkSize">>}

\* Mutant of TrailerMoves: the line after a trailer is read as a chunk's size.
TrailerMoves_ToChunkSize ==
  {<<"ChunkSizeNewLine_2", {CR}, "ChunkSizeNewLine_3">>,
   <<"ChunkSizeNewLine_2", isalpha, "ChunkTrailerName">>,
   <<"ChunkTrailerName", isalnum, "ChunkTrailerName">>,
   <<"ChunkTrailerName", {":"}, "ChunkTrailerValue">>,
   <<"ChunkTrailerValue", isalnum \cup {SP}, "ChunkTrailerValue">>,
   <<"ChunkTrailerValue", {CR}, "ChunkDataNewLine_2">>}

\* The end of a trailer goes where the end of a chunk's size goes.
TrailerMoves ==
  {<<"ChunkSizeNewLine_2", {CR}, "ChunkSizeNewLine_3">>,
   <<"ChunkSizeNewLine_2", isalpha, "ChunkTrailerName">>,
   <<"ChunkTrailerName", isalnum, "ChunkTrailerName">>,
   <<"ChunkTrailerName", {":"}, "ChunkTrailerValue">>,
   <<"ChunkTrailerValue", isalnum \cup {SP}, "ChunkTrailerValue">>,
   <<"ChunkTrailerValue", {CR}, "ChunkSizeNewLine">>}

Moves ==
  RequestLineMoves \cup VersionMoves \cup StatusLineMoves \cup HeaderMoves
  \cup ChunkLineMoves \cup TrailerMoves

Move(t) ==
  /\ \E m \in Moves : state = m[1] /\ t \in m[2] /\ state' = m[3]
  /\ UNCHANGED <<kind, contentSize, chunked, chunks, line, content, result>>

------------------------------------------------------------------------------
\* The first line.

RequestMethod(t) ==
  /\ state \in {"RequestMethodStart", "RequestMethod"}
  /\ t \in TokenChars
  /\ method' = Method(method, t)
  /\ state' = "RequestMethod"
  /\ UNCHANGED <<kind, contentSize, chunked, chunks, statusDigits, headers, content, result>>

\* A request without version, of HTTP/0.9.
RequestUriEnds(t) ==
  /\ state = "RequestUri" /\ t = CR
  /\ result' = "completed"
  /\ UNCHANGED <<kind, state, contentSize, chunked, chunks, line, content>>

\* The end of the version goes on in the request's or the response's way.
VersionEnds(t) ==
  /\ state = "HttpVersion_minor"
  /\ \/ kind = "request" /\ t = CR /\ state' = "HttpVersion_newLine"
     \/ kind = "response" /\ t = SP /\ state' = "HttpVersion_statusCodeStart"
  /\ UNCHANGED <<kind, contentSize, chunked, chunks, line, content, result>>

\* Of the status code its number of digits counts, without zeros in front; an
\* int that overflows is not modelled (4 stands for more).
StatusCode(t) ==
  /\ state \in {"HttpVersion_statusCodeStart", "HttpVersion_statusCode"}
  /\ t \in Digits
  /\ statusDigits' = IF statusDigits = 0 /\ t = "0" THEN 0 ELSE Min({statusDigits + 1, 4})
  /\ state' = "HttpVersion_statusCode"
  /\ UNCHANGED <<kind, contentSize, chunked, chunks, method, headers, content, result>>

StatusCodeEnds(t) ==
  /\ state = "HttpVersion_statusCode" /\ t = SP
  /\ statusDigits = 3
  /\ state' = "HttpVersion_statusTextStart"
  /\ UNCHANGED <<kind, contentSize, chunked, chunks, line, content, result>>

------------------------------------------------------------------------------
\* Headers.

\* Mutant of HeaderLineStarts: a folded line may come first.
HeaderLineStarts_FoldsNothing(t) ==
  /\ state = "HeaderLineStart"
  /\ \/ t \in {SP, TAB} /\ state' = "HeaderLws" /\ UNCHANGED headers
     \/ /\ t \in TokenChars
        /\ headers' = Append(headers, [name |-> Joined("", t), value |-> <<>>])
        /\ state' = "HeaderName"
  /\ UNCHANGED <<kind, contentSize, chunked, chunks, method, statusDigits, content, result>>

\* A line that begins with white space goes on with the header before.
HeaderLineStarts(t) ==
  /\ state = "HeaderLineStart"
  /\ \/ /\ headers # <<>> /\ t \in {SP, TAB}
        /\ state' = "HeaderLws"
        /\ UNCHANGED headers
     \/ /\ t \in TokenChars
        /\ headers' = Append(headers, [name |-> Joined("", t), value |-> <<>>])
        /\ state' = "HeaderName"
  /\ UNCHANGED <<kind, contentSize, chunked, chunks, method, statusDigits, content, result>>

HeaderNameGrows(t) ==
  /\ state = "HeaderName" /\ t \in TokenChars
  /\ headers' = [headers EXCEPT ![Len(headers)].name = Joined(@, t)]
  /\ UNCHANGED <<kind, state, contentSize, chunked, chunks, method, statusDigits, content, result>>

HeaderValueGrows(t) ==
  /\ \/ state = "HeaderValue"
     \/ state = "HeaderLws" /\ t # SP
  /\ t \notin isControl
  /\ headers' = [headers EXCEPT ![Len(headers)].value = Append(@, ValueWord(t))]
  /\ state' = "HeaderValue"
  /\ UNCHANGED <<kind, contentSize, chunked, chunks, method, statusDigits, content, result>>

BodyAllowed == kind = "response" \/ method = "POST"

\* Mutant of HeaderValueEnds: a length that is set stays.
HeaderValueEnds_KeepsFirst(t) ==
  LET h == headers[Len(headers)] IN
  /\ state = "HeaderValue" /\ t = CR
  /\ contentSize' = IF BodyAllowed /\ h.name = "Content-Length" /\ contentSize = 0 /\ atoi(h.value) > 0
                    THEN atoi(h.value) ELSE contentSize
  /\ chunked' = (chunked \/ (BodyAllowed /\ h.name = "Transfer-Encoding" /\ h.value = <<"chunked">>))
  /\ state' = "ExpectingNewline_2"
  /\ UNCHANGED <<kind, chunks, line, content, result>>

\* The end of a header's line: a header that was folded is looked at again.  A
\* negative length becomes a size_t that reserve() refuses with an exception.
HeaderValueEnds(t) ==
  LET h == headers[Len(headers)] IN
  /\ state = "HeaderValue" /\ t = CR
  /\ \/ /\ BodyAllowed /\ h.name = "Content-Length" /\ atoi(h.value) < 0
        /\ result' = "exception"
        /\ UNCHANGED <<state, contentSize, chunked>>
     \/ /\ BodyAllowed /\ h.name = "Content-Length" /\ atoi(h.value) >= 0
        /\ contentSize' = atoi(h.value)
        /\ state' = "ExpectingNewline_2"
        /\ UNCHANGED <<chunked, result>>
     \/ /\ ~(BodyAllowed /\ h.name = "Content-Length")
        /\ chunked' = \/ chunked
                      \/ BodyAllowed /\ h.name = "Transfer-Encoding" /\ h.value = <<"chunked">>
        /\ state' = "ExpectingNewline_2"
        /\ UNCHANGED <<contentSize, result>>
  /\ UNCHANGED <<kind, chunks, line, content>>

\* The last character of the head, whatever it is if a body follows.
HeadEnds(t) ==
  /\ state = "ExpectingNewline_3"
  /\ \/ chunked /\ state' = "ChunkSize" /\ UNCHANGED result
     \/ ~chunked /\ contentSize = 0 /\ t = LF /\ result' = "completed" /\ UNCHANGED state
     \/ ~chunked /\ contentSize > 0 /\ state' = "Post" /\ UNCHANGED result
  /\ UNCHANGED <<kind, contentSize, chunked, chunks, line, content>>

------------------------------------------------------------------------------
\* Bodies.

\* Mutant of Post: it tests the length before it counts.
Post_TestsFirst(t) ==
  /\ state = "Post"
  /\ contentSize' = contentSize - 1
  /\ content' = content + 1
  /\ result' = IF contentSize = 0 THEN "completed" ELSE result
  /\ UNCHANGED <<kind, state, chunked, chunks, line>>

Post(t) ==
  /\ state = "Post"
  /\ contentSize' = contentSize - 1
  /\ content' = content + 1
  /\ result' = IF contentSize' = 0 THEN "completed" ELSE result
  /\ UNCHANGED <<kind, state, chunked, chunks, line>>

ChunkSize(t) ==
  /\ state = "ChunkSize" /\ t \in isalnum
  /\ chunkSizeStr' = Append(chunkSizeStr, t)
  /\ UNCHANGED <<kind, state, contentSize, chunked, chunkSize, announced, line, content, result>>

\* Mutant of ChunkSizeNewLine: chunkSizeStr is not cleared.
ChunkSizeNewLine_Keeps(t) ==
  /\ state = "ChunkSizeNewLine" /\ t = LF
  /\ chunkSize' = strtol(chunkSizeStr)
  /\ announced' = announced + chunkSize'
  /\ state' = IF chunkSize' = 0 THEN "ChunkSizeNewLine_2" ELSE "ChunkData"
  /\ UNCHANGED <<kind, contentSize, chunked, chunkSizeStr, line, content, result>>

ChunkSizeNewLine(t) ==
  /\ state = "ChunkSizeNewLine" /\ t = LF
  /\ chunkSize' = strtol(chunkSizeStr)
  /\ announced' = announced + chunkSize'
  /\ chunkSizeStr' = <<>>
  /\ state' = IF chunkSize' = 0 THEN "ChunkSizeNewLine_2" ELSE "ChunkData"
  /\ UNCHANGED <<kind, contentSize, chunked, line, content, result>>

ChunkData(t) ==
  /\ state = "ChunkData"
  /\ content' = content + 1
  /\ chunkSize' = chunkSize - 1
  /\ state' = IF chunkSize' = 0 THEN "ChunkDataNewLine_1" ELSE state
  /\ UNCHANGED <<kind, contentSize, chunked, chunkSizeStr, announced, line, result>>

ChunksEnd(t) ==
  /\ state = "ChunkSizeNewLine_3" /\ t = LF
  /\ result' = "completed"
  /\ UNCHANGED <<kind, state, contentSize, chunked, chunks, line, content>>

------------------------------------------------------------------------------
\* consume() of one character.

Accept(t) ==
  \/ Move(t)
  \/ RequestMethod(t) \/ RequestUriEnds(t) \/ VersionEnds(t) \/ StatusCode(t) \/ StatusCodeEnds(t)
  \/ HeaderLineStarts(t) \/ HeaderNameGrows(t) \/ HeaderValueGrows(t) \/ HeaderValueEnds(t)
  \/ HeadEnds(t)
  \/ Post(t) \/ ChunkSize(t) \/ ChunkSizeNewLine(t) \/ ChunkData(t) \/ ChunksEnd(t)

\* What no case accepts: all of a switch's last branches.
Accepted ==
  UNION {m[2] : m \in {n \in Moves : n[1] = state}}
  \cup CASE state \in {"RequestMethodStart", "RequestMethod", "HeaderName"} -> TokenChars
         [] state = "RequestUri" -> {CR}
         [] state = "HttpVersion_minor" -> IF kind = "request" THEN {CR} ELSE {SP}
         [] state = "HttpVersion_statusCodeStart" -> Digits
         [] state = "HttpVersion_statusCode" -> Digits \cup IF statusDigits = 3 THEN {SP} ELSE {}
         [] state = "HeaderLineStart" -> TokenChars \cup IF headers # <<>> THEN {SP, TAB} ELSE {}
         [] state = "HeaderLws" -> (Chars \cup Words) \ isControl
         [] state = "HeaderValue" -> ((Chars \cup Words) \ isControl) \cup {CR}
         [] state = "ExpectingNewline_3" -> IF chunked \/ contentSize > 0 THEN Chars ELSE {LF}
         [] state \in {"Post", "ChunkData"} -> Chars
         [] state = "ChunkSize" -> isalnum
         [] state \in {"ChunkSizeNewLine", "ChunkSizeNewLine_3"} -> {LF}
         [] OTHER -> {}

Reject(t) ==
  /\ t \notin Accepted
  /\ result' = "error"
  /\ UNCHANGED <<kind, state, contentSize, chunked, chunks, line, content>>

Inputs == IF state \in Comparing THEN Chars \cup Words ELSE Chars

\* The bounds on what is sent.
WithinBounds ==
  /\ Len(headers) <= MaxHeaders
  /\ FoldLeft(LAMBDA n, h : n + Len(h.value), 0, headers) <= MaxWords
  /\ Len(chunkSizeStr) <= MaxWords
  /\ contentSize <= MaxBody /\ announced <= MaxBody

consume ==
  /\ result = "incomplete"
  /\ \E t \in Inputs : Accept(t) \/ Reject(t)
  /\ WithinBounds'

Next == consume
Spec == Init /\ [][Next]_vars

------------------------------------------------------------------------------
\* Properties.

\* The length that the first k of the headers hs announce: that of the last
\* Content-Length; and whether one of them asks for chunks.
LengthBy(hs, k) ==
  LET lengths == {i \in 1 .. k : hs[i].name = "Content-Length"} IN
  IF lengths = {} THEN 0 ELSE atoi(hs[Max(lengths)].value)
ChunkedBy(hs, k) ==
  \E i \in 1 .. k : hs[i] = [name |-> "Transfer-Encoding", value |-> <<"chunked">>]

Announced == IF BodyAllowed THEN LengthBy(headers, Len(headers)) ELSE 0

\* Between two lines of the head, however headers are folded or repeated, the
\* parser's length is that of the last Content-Length as a whole.
BetweenLines == {"ExpectingNewline_2", "HeaderLineStart", "HeaderLws", "ExpectingNewline_3"}
HeadAgrees ==
  result = "incomplete" /\ state \in BetweenLines
    => /\ contentSize = Announced
       /\ BodyAllowed /\ ChunkedBy(headers, Len(headers)) => chunked

\* A message is complete exactly when its content has the length its head, or
\* all its chunks together, announced; until then what is missing is known.
ContentComplete ==
  /\ state = "Post" => content + contentSize = Announced
  /\ chunked => content + chunkSize = announced
  /\ result = "completed" => content = IF chunked THEN announced ELSE Announced

\* headers.back() is never taken of a message without headers.
HeaderToFill ==
  state \in {"HeaderLws", "HeaderName", "SpaceBeforeHeaderValue", "HeaderValue"} => headers # <<>>

\* Every chunk's size is read from its own digits, and the line after a trailer
\* from none.
SizesAreFresh ==
  state \in {"ChunkData", "ChunkDataNewLine_1", "ChunkDataNewLine_2", "ChunkSizeNewLine_2",
             "ChunkTrailerName", "ChunkTrailerValue"} => chunkSizeStr = <<>>

\* The parts of a message: what is before the headers, the headers, the chunks.
HeaderStates == BetweenLines \cup {"HeaderName", "SpaceBeforeHeaderValue", "HeaderValue"}
ChunkStates ==
  {"ChunkSize", "ChunkExtensionName", "ChunkExtensionValue", "ChunkSizeNewLine", "ChunkData",
   "ChunkDataNewLine_1", "ChunkDataNewLine_2", "ChunkSizeNewLine_2", "ChunkSizeNewLine_3",
   "ChunkTrailerName", "ChunkTrailerValue"}
FirstLineStates == States \ (HeaderStates \cup ChunkStates \cup {"Post"})

\* What each part has not touched yet: before the headers nothing is known of
\* the body, and before the body nothing of it has come.
Untouched ==
  /\ state \in FirstLineStates => headers = <<>> /\ contentSize = 0 /\ ~chunked
  /\ state \in FirstLineStates \cup HeaderStates =>
       content = 0 /\ chunkSizeStr = <<>> /\ announced = 0

\* Only a chunked message has chunks, and a part of the body whose bytes come
\* is never at its end.
PartsDue ==
  /\ state \in ChunkStates => chunked
  /\ state = "Post" => ~chunked /\ (result = "incomplete" => contentSize > 0)
  /\ IF state = "ChunkData" THEN chunkSize > 0 ELSE chunkSize = 0

\* What the parser took from the headers: from all of them between two lines,
\* else from all but the last; the last may have been taken before it is folded.
HeadersTaken ==
  LET n == Len(headers)
      k == IF state \in BetweenLines THEN n ELSE n - 1
  IN  state \in HeaderStates =>
        /\ BodyAllowed /\ ChunkedBy(headers, k) => chunked
        /\ \/ contentSize = IF BodyAllowed THEN LengthBy(headers, k) ELSE 0
           \/ state = "HeaderValue" /\ BodyAllowed /\ headers[n].name = "Content-Length"

\* Whatever is sent, the parser's counters and flags fit the state it is in.
ParserInv ==
  /\ TypeOK /\ HeaderToFill /\ SizesAreFresh /\ ContentComplete
  /\ Untouched /\ PartsDue /\ HeadersTaken

\* The body is delimited the way HttpFraming says.  What follows the digits of
\* an empty chunk is the trailer; contentSize and chunkSize count what is due.
Phase ==
  CASE result = "completed" -> "done"
    [] result \in {"error", "exception"} -> "refused"
    [] result = "incomplete" /\ state = "Post" -> "fixed"
    [] result = "incomplete" /\
         \/ state \in {"ChunkSizeNewLine_2", "ChunkSizeNewLine_3", "ChunkTrailerName",
                       "ChunkTrailerValue"}
         \/ state = "ChunkSizeNewLine" /\ strtol(chunkSizeStr) = 0 -> "trailer"
    [] result = "incomplete" /\
         \/ state \in {"ChunkSize", "ChunkExtensionName", "ChunkExtensionValue", "ChunkData",
                       "ChunkDataNewLine_1", "ChunkDataNewLine_2"}
         \/ state = "ChunkSizeNewLine" /\ strtol(chunkSizeStr) # 0 -> "chunks"
    [] OTHER -> "head"
Framing ==
  INSTANCE HttpFraming
    WITH phase <- Phase, body <- content,
         due <- IF state = "Post" THEN contentSize ELSE chunkSize
ImplementsHttpFraming == Framing!Spec
==============================================================================
