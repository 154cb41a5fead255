----------------------------- MODULE Cleansing -----------------------------
(***************************************************************************)
(* What cpplint.py does to the lines of a file before it checks them:      *)
(* comments and raw strings are taken out, and strings are collapsed.      *)
(*                                                                         *)
(* A line is a sequence of tokens.  Those that matter here are             *)
(*   "Q"          a double quote,                                          *)
(*   "QQ"         an empty string, what a string is replaced by,           *)
(*   "R(" ")R"    the ends of a raw string,                                *)
(*   "//" "/*" "*/", and "__", the indentation a line may start with.      *)
(* Everything else is text.                                                *)
(***************************************************************************)
EXTENDS Integers, FiniteSets, SequencesExt

Stripped(line) == IF line # <<>> /\ Head(line) = "__" THEN Tail(line) ELSE line
Starts(line, t) == Stripped(line) # <<>> /\ Head(Stripped(line)) = t
Count(line, T) == Cardinality({k \in DOMAIN line : line[k] \in T})
Where(line, t) == SelectInSeq(line, LAMBDA u : u = t)  \* 0 when there is none

\* How many double quotes a line holds.
Quotes(line) == Count(line, {"Q", "R(", ")R"}) + 2 * Count(line, {"QQ"})

------------------------------------------------------------------------------
\* RemoveMultiLineComments: a comment begins on a line that starts with its
\* opening and does not close it, and ends on the first line that ends with a
\* closing.  Its lines are blanked in place, NOLINT comments included.

OpensComment(line) == Starts(line, "/*") /\ Where(line, "*/") = 0
EndsWith(line, t) == line # <<>> /\ Last(line) = t

\* The lines of the comments that end, and the line of one that does not, or 0.
MultiLineComments(lines) ==
  LET Scan(st, n) ==
        IF st.begin = 0
        THEN [st EXCEPT !.begin = IF OpensComment(lines[n]) THEN n ELSE 0]
        ELSE IF EndsWith(lines[n], "*/")
        THEN [begin |-> 0, blanked |-> st.blanked \cup st.begin .. n]
        ELSE st
  IN FoldLeft(Scan, [begin |-> 0, blanked |-> {}], [n \in DOMAIN lines |-> n])

\* Mutant of RemoveMultiLineComments: the last line of a comment is left.
RemoveMultiLineComments_LeavesLast(lines) ==
  [n \in DOMAIN lines |->
    IF n \in MultiLineComments(lines).blanked /\ n + 1 \in MultiLineComments(lines).blanked
    THEN <<"/*", "*/">> ELSE lines[n]]

RemoveMultiLineComments(lines) ==
  [n \in DOMAIN lines |->
    IF n \in MultiLineComments(lines).blanked THEN <<"/*", "*/">> ELSE lines[n]]

------------------------------------------------------------------------------
\* CleanseRawStrings: a raw string becomes an empty one, and so does every
\* other line it goes over, unless the line's text before it has a //-comment.

RawToken(st, t) ==
  CASE st.inside -> [st EXCEPT !.inside = (t # ")R")]
    [] ~st.inside /\ t = "R(" /\ ~st.comment ->
         [st EXCEPT !.inside = TRUE, !.out = Append(@, "QQ")]
    [] OTHER -> [st EXCEPT !.out = Append(@, t), !.odd = (@ # (t \in {"Q", ")R"})),
                           !.comment = @ \/ (t = "//" /\ ~st.odd)]

RawLine(inside, line) ==
  FoldLeft(RawToken, [inside |-> inside, comment |-> FALSE, odd |-> FALSE,
                      out |-> IF inside THEN <<"QQ">> ELSE <<>>], line)

CleanseRawStrings(lines) ==
  LET Scan(st, line) ==
        LET raw == RawLine(st.inside, line) IN
        [inside |-> raw.inside, out |-> Append(st.out, raw.out)]
  IN FoldLeft(Scan, [inside |-> FALSE, out |-> <<>>], lines).out

------------------------------------------------------------------------------
\* CleanseComments: the text from // on goes, unless a string is open there;
\* then each comment that ends on the line.

SingleLine(line) ==
  LET p == Where(line, "//") IN
  IF p # 0 /\ Quotes(SubSeq(line, 1, p - 1)) % 2 = 0 THEN SubSeq(line, 1, p - 1) ELSE line

CommentToken(st, t) ==
  CASE st.held = <<>> /\ t # "/*" -> [st EXCEPT !.out = Append(@, t)]
    [] st.held # <<>> /\ t = "*/" -> [st EXCEPT !.held = <<>>]
    [] OTHER -> [st EXCEPT !.held = Append(@, t)]

Uncommenting(line) == FoldLeft(CommentToken, [out |-> <<>>, held |-> <<>>], line)

CleanseComments(line) ==
  LET st == Uncommenting(SingleLine(line)) IN st.out \o st.held

\* _CollapseStrings: from a quote to the next one; #include lines keep theirs.
StringToken(st, t) ==
  CASE st.held = <<>> /\ t \notin {"Q", "R(", ")R"} -> [st EXCEPT !.out = Append(@, t)]
    [] st.held # <<>> /\ t \in {"Q", "R(", ")R"} ->
         [st EXCEPT !.held = <<>>, !.out = Append(@, "QQ")]
    [] OTHER -> [st EXCEPT !.held = Append(@, t)]

Collapsing(line) == FoldLeft(StringToken, [out |-> <<>>, held |-> <<>>], line)

CollapseStrings(line) ==
  IF Starts(line, "#include") THEN line ELSE Collapsing(line).out \o Collapsing(line).held

\* CleansedLines, of lines whose multi-line comments are removed: without
\* comments, and without the text of the strings either.
Lines(lines) ==
  LET raw == CleanseRawStrings(lines) IN
  [n \in DOMAIN raw |-> CleanseComments(raw[n])]

Elided(lines) ==
  LET raw == CleanseRawStrings(lines) IN
  [n \in DOMAIN raw |-> CleanseComments(CollapseStrings(raw[n]))]
==============================================================================
