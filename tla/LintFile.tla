------------------------------ MODULE LintFile ------------------------------
(***************************************************************************)
(* ProcessFileData of cpplint.py: a file is cleansed as a whole, and then  *)
(* linted line by line.  Every line moves the nesting, the function and    *)
(* the include state, parses its NOLINT comments, and reports errors, some *)
(* of them on lines still to come.                                         *)
(*                                                                         *)
(* A file is a sequence of lines, each its tokens and its NOLINT comments, *)
(* whether it is a source file, and one whose header exists.               *)
(***************************************************************************)
EXTENDS LintState, Nesting, FnLength, Includes

CONSTANTS Files, Tokens

Line == [text : Seq(Tokens), comments : SUBSET [of : Seq(STRING), next : BOOLEAN]]
File == [lines : Seq(Line), source : BOOLEAN, has_header : BOOLEAN]

ASSUME FilesAssumption ==
  /\ {"/*", "*/", "QQ"} \subseteq Tokens
  /\ Files \subseteq File

VARIABLES
  file,
  pc,               \* "prepare", "lint" or "done"
  linenum,          \* the line that comes next
  raw_lines,        \* the lines without multi-line comments
  lines, elided,    \* of CleansedLines
  include_state, function_state, nesting_state,
  found,            \* history: every error reported, with the line at work
  skipped           \* history: the lines of inline assembly

clean_lines == <<raw_lines, lines, elided>>
state == <<include_state, function_state, nesting_state>>
vars == <<settings, filters, filters_backup, counts, nolint, file, pc, linenum, clean_lines,
          state, found, skipped>>

\* --filter=+build/include_alpha.
CommandLine == <<[sign |-> "+", of |-> <<"build", "include", "_alpha">>]>>

Init ==
  /\ file \in Files /\ pc = "prepare" /\ linenum = 0
  /\ verbose_level = 0 /\ counting = "total"
  /\ filters = AddFilters(DefaultFilters, CommandLine)
  /\ filters_backup = filters
  /\ error_count = 0 /\ errors_by_category = <<>> /\ shown = <<>>
  /\ suppressions = {} /\ suppressed_categories = {}
  /\ raw_lines = <<>> /\ lines = <<>> /\ elided = <<>>
  /\ include_state = IncludeState /\ function_state = FunctionState
  /\ nesting_state = NestingState
  /\ found = {} /\ skipped = {}

On(n, r) == [line |-> n, category |-> r.category, confidence |-> r.confidence]
OnLine(n, reports) == [k \in DOMAIN reports |-> On(n, reports[k])]

\* Error, of the reports in order, and what the history keeps of them.
Reported(supp, reports) ==
  /\ Error(supp, reports)
  /\ found' = found \cup {[report |-> reports[k], at |-> linenum] : k \in DOMAIN reports}

------------------------------------------------------------------------------
\* Before the first line.

MultiLineError == [category |-> <<"readability", "multiline_comment">>, confidence |-> 5]
StringError == [category |-> <<"readability", "multiline_string">>, confidence |-> 5]

\* The comment that does not end is told of on the line after its first, and
\* before any NOLINT comment is parsed.
Prepare ==
  /\ pc = "prepare" /\ pc' = "lint" /\ linenum' = 1
  /\ ProcessGlobalSuppressions({})
  /\ LET texts == [n \in DOMAIN file.lines |-> file.lines[n].text]
         begin == MultiLineComments(texts).begin
         removed == RemoveMultiLineComments(texts)
     IN /\ raw_lines' = [n \in DOMAIN texts |->
                          [text |-> removed[n],
                           comments |-> IF n \in MultiLineComments(texts).blanked THEN {}
                                        ELSE file.lines[n].comments]]
        /\ lines' = Lines(removed) /\ elided' = Elided(removed)
        /\ Reported({}, IF begin # 0 THEN <<On(begin + 1, MultiLineError)>> ELSE <<>>)
  /\ UNCHANGED <<settings, filters, filters_backup, file, state, skipped>>

------------------------------------------------------------------------------
\* The checks of one line.

NolintError == [category |-> <<"readability", "nolint">>, confidence |-> 5]
BracesError == [category |-> <<"readability", "braces">>, confidence |-> 4]
LoopError == [category |-> <<"whitespace", "empty_loop_body">>, confidence |-> 5]
ConditionalError == [category |-> <<"whitespace", "empty_conditional_body">>, confidence |-> 5]
EmptyIfError == [category |-> <<"whitespace", "empty_if_body">>, confidence |-> 4]

Reporting(c, r) == IF c THEN <<r>> ELSE <<>>

\* ParseNolintSuppressions of some lines: what they suppress, and the error of
\* a line that names an unknown category.
Comments(n) == IF n \in DOMAIN raw_lines THEN raw_lines[n].comments ELSE {}
Suppressed(N) == UNION {UNION {ParseNolintSuppressions(c, n) : c \in Comments(n)} : n \in N}
UnknownOn(n) == Reporting(Unknown(Comments(n)), On(n, NolintError))

\* From the bracket on the first of these places, the place of the one that
\* matches it, or <<0, 0>> when another kind of bracket or the end comes first.
Pairs == {<<"(", ")">>, <<"{", "}">>, <<"extern", "}">>}
Places == FlattenSeq([m \in DOMAIN elided |-> [q \in DOMAIN elided[m] |-> <<m, q>>]])

Matching(places, pairs) ==
  LET Scan(st, at) ==
        LET t == elided[at[1]][at[2]] IN
        CASE st.done -> st
          [] ~st.done /\ (\E q \in pairs : q[1] = t) -> [st EXCEPT !.open = Append(@, t)]
          [] ~st.done /\ (\E q \in pairs : q[2] = t) ->
               LET match == <<Last(st.open), t>> \in pairs
                   closed == match /\ Len(st.open) = 1
               IN [open |-> Front(st.open), done |-> ~match \/ closed,
                   at |-> IF closed THEN at ELSE <<0, 0>>]
          [] OTHER -> st
  IN FoldLeft(Scan, [done |-> FALSE, open |-> <<>>, at |-> <<0, 0>>], places).at

\* Where the bracket at place p of line n is closed, and what follows it there.
CloseExpression(n, p) ==
  LET at == Matching(SelectSeq(Places, LAMBDA q : q[1] > n \/ (q[1] = n /\ q[2] >= p)), Pairs) IN
  [line |-> at[1], rest |-> IF at[1] = 0 THEN <<>>
                            ELSE SubSeq(elided[at[1]], at[2] + 1, Len(elided[at[1]]))]

\* Where the one at place p of line n was opened.
ReverseCloseExpression(n, p) ==
  Matching(Reverse(SelectSeq(Places, LAMBDA q : q[1] < n \/ (q[1] = n /\ q[2] <= p))),
           {<<q[2], q[1]>> : q \in Pairs})

\* CheckForMultilineCommentsAndStrings.
MultilineReports(n) ==
  Reporting(Count(elided[n], {"/*"}) > Count(elided[n], {"*/"}), On(n, MultiLineError))
    \o Reporting(Quotes(elided[n]) % 2 = 1, On(n, StringError))

\* GetPreviousNonBlankLine, empty when there is none.
PreviousNonBlankLine(n) ==
  LET before == {m \in 1 .. (n - 1) : Stripped(elided[m]) # <<>>} IN
  IF before = {} THEN <<>> ELSE elided[CHOOSE m \in before : \A k \in before : k <= m]

\* The brace after a parenthesis that follows a macro, a lambda's captures or an
\* "=", or whose line comes after one that ends a lambda's captures.
NoBlock(n, p) ==
  LET opening == ReverseCloseExpression(n, p - 1)
      m == opening[1]
      prefix == SubSeq(elided[m], 1, opening[2] - 1)
  IN /\ m # 0
     /\ \/ prefix # <<>> /\ Last(prefix) \in {"MACRO", "]", "="}
        \/ m > 1 /\ EndsWith(elided[m - 1], "]")

\* CheckTrailingSemicolon: the brace of a block, after a closing parenthesis,
\* an else, or a line that ends a statement or a block; 0 when there is none.
BlockBrace(n) ==
  LET line == elided[n]
      prev == PreviousNonBlankLine(n)
      After(t) == {p \in 2 .. Len(line) : line[p] = "{" /\ line[p - 1] = t}
      Rightmost(P) == CHOOSE p \in P : \A q \in P : q <= p
  IN IF After(")") # {} THEN IF NoBlock(n, Rightmost(After(")"))) THEN 0 ELSE Rightmost(After(")"))
     ELSE IF After("else") # {} THEN Rightmost(After("else"))
     ELSE IF Starts(line, "{") /\ prev # <<>> /\ Last(prev) \in {";", "{", "}"}
     THEN Where(line, "{")
     ELSE 0

\* The line of a block's end that a semicolon follows, or 0.
TrailingSemicolon(n) ==
  IF BlockBrace(n) = 0 THEN 0
  ELSE LET end == CloseExpression(n, BlockBrace(n)) IN
       IF end.line # 0 /\ Starts(end.rest, ";") THEN end.line ELSE 0

\* CheckEmptyBlockBody, as far as the semicolon right after the condition.
EmptyBodyReports(n) ==
  LET line == elided[n]
      loop == Starts(line, "while") \/ Starts(line, "if")
      end == CloseExpression(n, Where(line, "("))
  IN IF loop /\ Where(line, "(") # 0 /\ end.line # 0 /\ end.rest # <<>> /\ Head(end.rest) = ";"
     THEN <<On(end.line, IF Starts(line, "if") THEN ConditionalError ELSE LoopError)>>
     ELSE <<>>

\* What follows a bracket on a line, and the first line where something does, or 0.
Fragment(from, m) == IF m = from.line THEN from.rest ELSE elided[m]
NextCode(from) ==
  LET code == {m \in from.line .. Len(elided) : Stripped(Fragment(from, m)) # <<>>} IN
  IF code = {} THEN 0 ELSE CHOOSE m \in code : \A k \in code : m <= k

\* The body between the brace at place p of line m and what closes it is empty,
\* of comments too, unless they stand where it closes.
EmptyBody(m, p, close) ==
  LET inside == Len(elided[close.line]) - Len(close.rest) - 1
      from == IF close.line = m THEN p + 1 ELSE 1
  IN /\ raw_lines[m].comments = {} /\ CleanseComments(raw_lines[m].text) = raw_lines[m].text
     /\ Stripped(SubSeq(elided[close.line], from, inside)) = <<>>
     /\ close.line > m => p = Len(elided[m])
     /\ \A k \in (m + 1) .. (close.line - 1) :
          raw_lines[k].comments = {} /\ Stripped(raw_lines[k].text) = <<>>

\* CheckEmptyBlockBody, from there on: an if with an empty body and no else.
EmptyIfReports(n) ==
  LET line == elided[n]
      end == CloseExpression(n, Where(line, "("))
      m == NextCode(end)
      p == Len(elided[m]) - Len(Fragment(end, m)) + Where(Fragment(end, m), "{")
      close == CloseExpression(m, p)
      next == NextCode(close)
  IN Reporting(/\ Starts(line, "if") /\ Where(line, "(") # 0 /\ end.line # 0
               /\ m # 0 /\ Starts(Fragment(end, m), "{")
               /\ close.line # 0 /\ EmptyBody(m, p, close)
               /\ ~(next # 0 /\ Starts(Fragment(close, next), "else")),
               On(end.line, EmptyIfError))

------------------------------------------------------------------------------
\* ProcessLine.

\* CheckLanguage: an #include, or a directive that starts a new part.
Language(n) ==
  IF IsInclude(elided[n]) THEN CheckIncludeLine(include_state, elided, n)
  ELSE [reports |-> <<>>,
        st |-> IF \E d \in {"#if", "#else", "#endif"} : Starts(elided[n], d)
               THEN ResetSection(include_state, elided[n]) ELSE include_state]

\* Mutant of Ahead: the line of the error is not looked at for NOLINT.
Ahead_Nothing(end) == {}

\* The lines whose NOLINT comments are parsed before the one they are on.
Ahead(end) == IF end = 0 THEN {} ELSE {end - 1, end}

Advance == linenum' = linenum + 1

\* In an inline assembly block nothing but the nesting and NOLINT counts.
ProcessAsmLine ==
  /\ pc = "lint" /\ linenum <= Len(elided)
  /\ nesting_state' = Update(nesting_state, elided, linenum)
  /\ InAsmBlock(nesting_state'.stack)
  /\ LET supp == suppressions \cup Suppressed({linenum}) IN
       /\ suppressions' = supp
       /\ Reported(supp, UnknownOn(linenum))
  /\ skipped' = skipped \cup {linenum}
  /\ Advance
  /\ UNCHANGED <<settings, filters, filters_backup, suppressed_categories, file, pc,
                 clean_lines, include_state, function_state>>

\* Parsing ahead can silence nothing on the line at work that was not silenced
\* before, so that the errors of one line share their suppressions.
ProcessLine ==
  /\ pc = "lint" /\ linenum <= Len(elided)
  /\ nesting_state' = Update(nesting_state, elided, linenum)
  /\ ~InAsmBlock(nesting_state'.stack)
  /\ LET n == linenum
         function == CheckForFunctionLengths(function_state, lines, n, verbose_level)
         language == Language(n)
         end == TrailingSemicolon(n)
         supp == suppressions \cup Suppressed({n} \cup Ahead(end))
     IN /\ function_state' = function.st /\ include_state' = language.st
        /\ suppressions' = supp
        /\ Reported(supp,
             UnknownOn(n) \o OnLine(n, function.reports) \o MultilineReports(n)
               \o (IF end = 0 THEN <<>>
                   ELSE UnknownOn(end - 1) \o UnknownOn(end) \o <<On(end, BracesError)>>)
               \o EmptyBodyReports(n) \o EmptyIfReports(n) \o OnLine(n, language.reports))
  /\ Advance
  /\ UNCHANGED <<settings, filters, filters_backup, suppressed_categories, file, pc,
                 clean_lines, skipped>>

\* After the last line: blocks left open, headers that are used and not
\* included, and the header of a source file.
EndOfData ==
  /\ pc = "lint" /\ linenum > Len(elided) /\ pc' = "done"
  /\ Reported(suppressions,
       CompletedBlocks(nesting_state.stack)
         \o CheckForIncludeWhatYouUse(include_state, elided, file.source)
         \o (IF file.has_header THEN CheckHeaderFileIncluded(include_state) ELSE <<>>))
  /\ UNCHANGED <<settings, filters, filters_backup, nolint, file, linenum, clean_lines,
                 state, skipped>>

Next == Prepare \/ ProcessAsmLine \/ ProcessLine \/ EndOfData

Spec == Init /\ [][Next]_vars

------------------------------------------------------------------------------
\* Comments.

\* What C++ makes of each token: code, or part of a string, a raw string, a
\* line comment or a block comment.  A string and a line comment end with
\* their line.
Class(st, t) ==
  CASE st = "code" -> CASE t \in {"Q", ")R"} -> "string" [] t = "R(" -> "raw"
                        [] t = "//" -> "line" [] t = "/*" -> "block" [] OTHER -> "code"
    [] OTHER -> st
Closes(st, t) == <<st, t>> \in {<<"string", "Q">>, <<"raw", ")R">>, <<"block", "*/">>}

\* The code of a line is what is code, and an empty string where a string
\* starts; a raw string is one on every line it goes over.
LexToken(st, t) ==
  LET class == Class(st.in, t) IN
  [in |-> IF st.in = class /\ Closes(st.in, t) THEN "code" ELSE class,
   read |-> st.read \cup {<<class, t>>},
   code |-> CASE class = "code" -> Append(st.code, t)
              [] class \in {"string", "raw"} /\ st.in # class -> Append(st.code, "QQ")
              [] OTHER -> st.code]

Lex(before, text) ==
  FoldLeft(LexToken, [in |-> before, read |-> {},
                      code |-> IF before = "raw" THEN <<"QQ">> ELSE <<>>], text)

\* What is open after each line, and so what each starts in, and what is made
\* of it.
Lexed(f) ==
  LET open[n \in 0 .. Len(f.lines)] ==
        IF n = 0 THEN "code"
        ELSE LET in == Lex(open[n - 1], f.lines[n].text).in
             IN IF in \in {"raw", "block"} THEN in ELSE "code"
  IN [n \in DOMAIN f.lines |->
       [from |-> open[n - 1], line |-> Lex(open[n - 1], f.lines[n].text)]]

\* The lines cpplint can be expected to understand: a comment over several
\* lines has them for itself, a comment on one line holds no quote, // or raw
\* string, no line of a raw string starts with /*, a string ends on its line,
\* holds no end of a raw string and is in no #include, and no comment is left
\* open.
SimpleLine(text, from, l) ==
  /\ "block" \in {from, l.in} => \A r \in l.read : r[1] = "block"
  /\ from = "block" /\ l.in # "block" => EndsWith(text, "*/")
  /\ from # "block" /\ l.in = "block" => <<"block", "*/">> \notin l.read
  /\ from # "block" /\ l.in # "block" =>
       \A r \in l.read : r[1] = "block" => r[2] \notin {"Q", "//", "R(", ")R"}
  /\ from = "raw" => ~Starts(text, "/*")
  /\ l.in # "string"
  /\ \A r \in l.read : r[1] = "string" => r[2] \notin {"R(", ")R"}
  /\ "#include" \in Range(text) => \A r \in l.read : r[1] # "string"

Simple(f) ==
  /\ \A n \in DOMAIN f.lines : SimpleLine(f.lines[n].text, Lexed(f)[n].from, Lexed(f)[n].line)
  /\ Lexed(f) = <<>> \/ Last(Lexed(f)).line.in # "block"

\* The checks see the code and nothing but the code: on a file cpplint can be
\* expected to understand, what is left of each line is what the language says
\* is neither comment nor string, and of a string that there is one.
CodeKept ==
  pc = "lint" /\ linenum = 1 /\ Simple(file) =>
    \A n \in DOMAIN elided : elided[n] = Lexed(file)[n].line.code

------------------------------------------------------------------------------
\* Nesting.

\* The nesting is that of the lines that count, as if the others and their
\* directives were not there, whatever the conditionals that were opened,
\* nested and closed so far.
StackOfActiveLines ==
  pc = "lint" =>
    nesting_state.stack =
      StackOf(elided, Counting(elided, 0, linenum - 1), linenum - 1)

------------------------------------------------------------------------------
\* Includes.

\* Two lines no compilation has both of, with no #if between the first of them
\* and the #else that ends its part.
Exclusive(m, n) ==
  \E i \in Around(elided, m) \cap Around(elided, n) :
    /\ Part(elided, i, m) # Part(elided, i, n)
    /\ \A k \in (m + 1) .. n :
         Starts(elided[k], "#if") => Part(elided, i, k) # Part(elided, i, m)

Included(h) == {n \in 1 .. (linenum - 1) : /\ IsInclude(elided[n]) /\ IncludeOf(elided[n]) = h
                                           /\ ~Headers[h].source}
Names == {IncludeOf(elided[n]) : n \in {m \in 1 .. (linenum - 1) : IsInclude(elided[m])}}
NoStrayElse == \A n \in DOMAIN elided : Starts(elided[n], "#else") => Around(elided, n) # {}
Twice(n) == \E e \in found : e.report = On(n, Report(<<>>))

\* A header included outside of every conditional, and one that such a header of
\* the file's module includes.
Outside(h) == Recorded(Headers[h]) /\ \E n \in Included(h) : Around(elided, n) = {}
Inherited(h) == \E m \in Names : /\ file.source /\ Headers[m].module
                                  /\ Outside(m) /\ h \in Headers[m].includes
NeverIncluded(h) ==
  Included(h) = {} /\ \A m \in Names : Included(m) # {} => h \notin Headers[m].includes
ModuleFound == ~file.source \/ \E m \in Names : Headers[m].module /\ Outside(m)

\* The headers whose last use is on a line, and whether one was asked for there.
LastUsed(n) == {h \in Required(elided) : LastUse(elided, h) = n}
AskedFor(n) == \E e \in found : e.report = On(n, Report(<<"_what_you_use">>))

\* A header that was included outside of every conditional is known ever after,
\* whatever comes between, and any other until the next #else: including it
\* again is reported, and using it is not.  Of two parts of a conditional,
\* neither is told of the other's headers.  And a header that is used and never
\* included is asked for, unless the file's own header was not found.
IncludesKnown ==
  skipped = {} /\ NoStrayElse =>
    /\ \A h \in Names : Recorded(Headers[h]) =>
         \A n \in Included(h) :
           /\ (\E m \in Included(h) :
                 m < n /\ (Around(elided, m) = {} \/ \A k \in m .. n : ~Starts(elided[k], "#else")))
                => Twice(n)
           /\ (\A m \in Included(h) : m < n => Exclusive(m, n)) => ~Twice(n)
    /\ pc = "done" =>
         \A n \in DOMAIN elided :
           /\ (\A h \in LastUsed(n) : Outside(h) \/ Inherited(h)) => ~AskedFor(n)
           /\ (\E h \in LastUsed(n) : NeverIncluded(h)) /\ ModuleFound => AskedFor(n)

------------------------------------------------------------------------------
\* NOLINT.

\* What a NOLINT comment says, on the line itself or on the one before it.
Silenced(r) ==
  \E m \in DOMAIN raw_lines : \E c \in raw_lines[m].comments :
    r.line = m + (IF c.next THEN 1 ELSE 0) /\ c.of \in {All, r.category}

\* Errors told of before the comments of their line, or of the one before it, are
\* parsed: a multi-line comment that does not end, the body of a loop whose
\* condition ends below, an unknown category that is parsed ahead.
Early(e) == e.report.line > e.at /\ e.report.category # BracesError.category
Printed(r) == \E k \in DOMAIN shown : shown[k] = r

\* A NOLINT comment silences the errors on its line, no others, and not before
\* or after it, wherever the check that reports them stood: except for those
\* that are told of too early.
NolintHonoured ==
  \A e \in found :
    (\A f \in found : Early(f) => f.report # e.report) =>
      (Printed(e.report) <=> ~Silenced(e.report))

\* The state from one line to the next: the lines that are to be linted, the
\* blocks they are in, and what Error goes by.
Blocks == [kind : {"namespace", "class", "extern", "block"}, starting_linenum : Nat,
           seen_open_brace : BOOLEAN, open_parentheses : Int,
           inline_asm : {NoAsm, InsideAsm, EndAsm, BlockAsm}]
Conditionals == [stack_before_if : Seq(Blocks), stack_before_else : Seq(Blocks), seen_else : BOOLEAN]
Reports == {e.report : e \in found}

TypeOK ==
  /\ pc \in {"prepare", "lint", "done"}
  /\ file \in File /\ elided \in Seq(Seq(Tokens)) /\ DOMAIN raw_lines = DOMAIN elided
  /\ nesting_state \in [stack : Seq(Blocks), pp_stack : Seq(Conditionals)]
  /\ shown \in Seq(Reports) /\ error_count \in Nat
  /\ verbose_level = 0 /\ counting = "total" /\ suppressed_categories = {}
  /\ filters = AddFilters(DefaultFilters, CommandLine)
  /\ CASE pc = "prepare" -> /\ linenum = 0 /\ raw_lines = <<>> /\ suppressions = {} /\ found = {}
                            /\ nesting_state = NestingState
       [] pc = "lint"    -> linenum \in 1 .. Len(elided) + 1
       [] pc = "done"    -> linenum = Len(elided) + 1

\* The comments that were parsed: of the lines so far, and of no others than the
\* file's.
CommentsParsed ==
  /\ suppressions \subseteq Suppressed(DOMAIN raw_lines)
  /\ \A n \in DOMAIN raw_lines : n < linenum => Suppressed({n}) \subseteq suppressions

\* What is printed was told of too early, or is not silenced; and what is not
\* silenced is printed.
PrintedIsDue ==
  /\ \A k \in DOMAIN shown :
       \E e \in found : e.report = shown[k] /\ (Early(e) \/ ~Silenced(e.report))
  /\ \A e \in found : Silenced(e.report) \/ Printed(e.report)

\* What an #else or an #endif to come goes back to is at hand.
PartsKept == pc = "lint" => Restorable(elided, nesting_state.pp_stack, linenum - 1)

\* An include is forgotten at the #else of its part, unless an #if came between:
\* what a list holds are includes that are not, each in the list of the last #if
\* before it, and of a header that was included and not forgotten the first of
\* those.  An include is told of when there is one before it.
Forgotten(m, n) ==
  \E e \in (m + 1) .. n :
    Starts(elided[e], "#else") /\ \A k \in (m + 1) .. e : ~Starts(elided[k], "#if")

IncludesListed ==
  skipped = {} /\ pc # "prepare" =>
    LET list == include_state.include_list
        n == linenum - 1
        Section(m) == Directives(elided, "#if", 1, m) + 1
    IN /\ Len(list) = Section(n)
       /\ \A s \in DOMAIN list : \A k \in DOMAIN list[s] :
            LET i == list[s][k] IN
            /\ i.line \in Included(i.header) /\ Recorded(Headers[i.header])
            /\ s = Section(i.line) /\ ~Forgotten(i.line, n)
       /\ \A h \in Names : Recorded(Headers[h]) =>
            \A m \in Included(h) :
              /\ ~Forgotten(m, n) =>
                   \E s \in DOMAIN list : \E k \in DOMAIN list[s] :
                     list[s][k].header = h /\ list[s][k].line <= m
              /\ Twice(m) <=> \E l \in Included(h) : l < m /\ ~Forgotten(l, m)

\* Nothing is told of before its line, or asked for before the end.
NoneAhead ==
  \A e \in found :
    /\ e.report = On(e.report.line, Report(<<>>)) => e.report.line \in 1 .. (linenum - 1)
    /\ e.report.category = Report(<<"_what_you_use">>).category => pc = "done"

\* From line to line: an error is printed exactly when it is due, because its
\* comments are among those that were parsed, wherever it is reported; and of the
\* conditionals that are open the stacks are kept that their parts start from,
\* and of the headers included those that are known.
LintFileInv ==
  /\ TypeOK /\ CommentsParsed /\ PrintedIsDue /\ PartsKept
  /\ IncludesListed /\ NoneAhead
==============================================================================
