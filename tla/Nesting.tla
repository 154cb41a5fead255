------------------------------ MODULE Nesting ------------------------------
(***************************************************************************)
(* NestingState of cpplint.py: the stack of the classes, namespaces and    *)
(* blocks a line is in, and what #if, #else and #endif do to it.           *)
(*                                                                         *)
(* A line is a sequence of tokens: "ns" and "cls" for the words namespace  *)
(* and class or struct, "extern" for extern "C" {, "asm", brackets, ";",   *)
(* "=", ">" and "]", which tell a template argument, and directives.       *)
(***************************************************************************)
EXTENDS Cleansing

NoAsm == "no"
InsideAsm == "inside"
EndAsm == "end"
BlockAsm == "block"

\* _BlockInfo, and what _ClassInfo, _NamespaceInfo and _ExternCInfo make of it.
BlockInfo(kind, n, seen) ==
  [kind |-> kind, starting_linenum |-> n, seen_open_brace |-> seen,
   open_parentheses |-> 0, inline_asm |-> NoAsm]

NestingState == [stack |-> <<>>, pp_stack |-> <<>>]

SeenOpenBrace(stack) == stack = <<>> \/ Last(stack).seen_open_brace
InAsmBlock(stack) == stack # <<>> /\ Last(stack).inline_asm # NoAsm
SetTop(stack, top) == [stack EXCEPT ![Len(stack)] = top]

------------------------------------------------------------------------------
\* UpdatePreprocessor: #else goes back to the stack before the #if, and #endif
\* to the one before the first #else.

PreprocessorInfo(stack) ==
  [stack_before_if |-> stack, stack_before_else |-> <<>>, seen_else |-> FALSE]

\* Mutant of UpdatePreprocessor: #elif after #else forgets the first part.
UpdatePreprocessor_LastPart(st, line) ==
  LET pp == IF st.pp_stack = <<>> THEN PreprocessorInfo(<<>>) ELSE Last(st.pp_stack) IN
  CASE Starts(line, "#if") ->
         [st EXCEPT !.pp_stack = Append(@, PreprocessorInfo(st.stack))]
    [] Starts(line, "#else") /\ st.pp_stack # <<>> ->
         [stack |-> pp.stack_before_if,
          pp_stack |-> SetTop(st.pp_stack, [pp EXCEPT !.seen_else = TRUE,
                                                      !.stack_before_else = st.stack])]
    [] Starts(line, "#endif") /\ st.pp_stack # <<>> ->
         [stack |-> IF pp.seen_else THEN pp.stack_before_else ELSE st.stack,
          pp_stack |-> Front(st.pp_stack)]
    [] OTHER -> st

\* #elif is "#else" too; without an #if, #else and #endif do nothing.
UpdatePreprocessor(st, line) ==
  LET pp == IF st.pp_stack = <<>> THEN PreprocessorInfo(<<>>) ELSE Last(st.pp_stack) IN
  CASE Starts(line, "#if") ->
         [st EXCEPT !.pp_stack = Append(@, PreprocessorInfo(st.stack))]
    [] Starts(line, "#else") /\ st.pp_stack # <<>> ->
         [stack |-> pp.stack_before_if,
          pp_stack |-> SetTop(st.pp_stack,
                         IF pp.seen_else THEN pp
                         ELSE [pp EXCEPT !.seen_else = TRUE, !.stack_before_else = st.stack])]
    [] Starts(line, "#endif") /\ st.pp_stack # <<>> ->
         [stack |-> IF pp.seen_else THEN pp.stack_before_else ELSE st.stack,
          pp_stack |-> Front(st.pp_stack)]
    [] OTHER -> st

------------------------------------------------------------------------------
\* Update, one part of a line after the other.

MatchAsm(line) ==
  Starts(line, "asm") /\ Len(Stripped(line)) > 1 /\ Stripped(line)[2] \in {"(", "{"}

\* The parentheses of the line belong to the innermost block before it.
CountParentheses(stack, line) ==
  IF stack = <<>> THEN stack
  ELSE LET top == Last(stack)
           change == Count(line, {"("}) - Count(line, {")"})
           depth == top.open_parentheses + change
       IN SetTop(stack, [top EXCEPT
            !.open_parentheses = depth,
            !.inline_asm =
               IF @ \in {NoAsm, EndAsm}
               THEN IF change # 0 /\ depth = 1 /\ MatchAsm(line) THEN InsideAsm ELSE NoAsm
               ELSE IF @ = InsideAsm /\ depth = 0 THEN EndAsm ELSE @])

\* namespace a { namespace b { ...: what is left is the text after the last
\* opening brace.
ConsumeNamespaces(stack, line, n) ==
  LET Consume(st, k) ==
        IF ~Starts(st.line, "ns") THEN st
        ELSE LET rest == Tail(Stripped(st.line))
                 brace == Where(rest, "{")
             IN [stack |-> Append(st.stack, BlockInfo("namespace", n, brace # 0)),
                 line |-> IF brace # 0 THEN SubSeq(rest, brace + 1, Len(rest)) ELSE rest]
  IN FoldLeft(Consume, [stack |-> stack, line |-> line], [k \in DOMAIN line |-> k])

\* The first of the tokens that decide, on this line and those below it.  "[",
\* "." and "<", over which the code goes on, are no tokens of the lines.
InTemplateArgumentList(rest, below) ==
  LET tokens == SelectSeq(rest \o FlattenSeq(below),
                          LAMBDA t : t \in {"{", "}", ";", ">", "=", "]"})
  IN tokens # <<>> /\ Head(tokens) \in {">", "=", "]"}

ConsumeClass(st, n, below) ==
  IF Starts(st.line, "cls") /\ (st.stack = <<>> \/ Last(st.stack).open_parentheses = 0)
  THEN LET rest == Tail(Stripped(st.line)) IN
       [line |-> rest,
        stack |-> IF InTemplateArgumentList(rest, below) THEN st.stack
                  ELSE Append(st.stack, BlockInfo("class", n, FALSE))]
  ELSE st

\* One brace, semicolon or closing parenthesis, with the rest of the line from
\* the token before it on.
ConsumeToken(stack, t, n, rest) ==
  CASE t \in {"{", "extern"} /\ ~SeenOpenBrace(stack) ->
         SetTop(stack, [Last(stack) EXCEPT !.seen_open_brace = TRUE])
    [] t = "extern" /\ SeenOpenBrace(stack) ->
         Append(stack, BlockInfo(IF Head(rest) = "extern" THEN "extern" ELSE "block", n, TRUE))
    [] t = "{" /\ SeenOpenBrace(stack) ->
         Append(stack, [BlockInfo("block", n, TRUE) EXCEPT
                          !.inline_asm = IF MatchAsm(rest) THEN BlockAsm ELSE NoAsm])
    [] t \in {";", ")"} /\ ~SeenOpenBrace(stack) -> Front(stack)
    [] t = "}" /\ stack # <<>> -> Front(stack)
    [] OTHER -> stack

ConsumeBraces(st, n) ==
  LET Consume(acc, k) ==
        IF st.line[k] \in {"{", "}", ";", ")", "extern"}
        THEN [from |-> k + 1,
              stack |-> ConsumeToken(acc.stack, st.line[k], n,
                                     SubSeq(st.line, acc.from, Len(st.line)))]
        ELSE acc
  IN FoldLeft(Consume, [from |-> 1, stack |-> st.stack], [k \in DOMAIN st.line |-> k]).stack

\* What a line does to the stack, preprocessor directives aside.
UpdateStack(stack, lines, n) ==
  ConsumeBraces(
    ConsumeClass(ConsumeNamespaces(CountParentheses(stack, lines[n]), lines[n], n),
                 n, SubSeq(lines, n + 1, Len(lines))), n)

Update(st, lines, n) ==
  LET pp == UpdatePreprocessor(st, lines[n]) IN
  [pp EXCEPT !.stack = UpdateStack(@, lines, n)]

\* CheckCompletedBlocks: classes and namespaces still open at the end.
CompletedBlocks(stack) ==
  LET open == {k \in DOMAIN stack : stack[k].kind \in {"class", "namespace"}}
      order == SetToSortSeq(open, <)
  IN [k \in 1 .. Cardinality(open) |->
       LET block == stack[order[k]] IN
       [line |-> block.starting_linenum, confidence |-> 5,
        category |-> IF block.kind = "class" THEN <<"build", "class">>
                     ELSE <<"build", "namespaces">>]]

------------------------------------------------------------------------------
\* What the lines of a file say as a whole, the reference of what is done to
\* them one by one.

\* The conditionals, by the line of their #if: the line of their #endif, one
\* after the last when there is none, and the part a line is in, the number of
\* their #else and #elif so far.
Directives(lines, d, i, j) == Cardinality({k \in i .. j : Starts(lines[k], d)})
Inside(lines, i, j) == Directives(lines, "#if", i, j) - Directives(lines, "#endif", i, j)
Ifs(lines) == {i \in DOMAIN lines : Starts(lines[i], "#if")}
EndOf(lines, i) ==
  LET ends == {j \in (i + 1) .. Len(lines) : Inside(lines, i, j) = 0} \cup {Len(lines) + 1}
  IN CHOOSE j \in ends : \A k \in ends : j <= k
Elses(lines, i) ==
  {k \in (i + 1) .. (EndOf(lines, i) - 1) : Starts(lines[k], "#else") /\ Inside(lines, i, k) = 1}
Part(lines, i, n) == Cardinality({k \in Elses(lines, i) : k <= n})
Around(lines, n) == {i \in Ifs(lines) : i <= n /\ n < EndOf(lines, i)}

\* The lines up to n that count there: of a conditional that is closed its first
\* part, of one that is open the part that n is in; and if conditional c were
\* closed.
Counting(lines, c, n) ==
  {k \in 1 .. n : \A i \in Around(lines, k) :
     Part(lines, i, k) = IF i = c \/ EndOf(lines, i) <= n THEN 0 ELSE Part(lines, i, n)}

\* The stack after line m, as if there were no other lines than those in K.
StackOf(lines, K, m) ==
  LET stack[k \in 0 .. m] ==
        IF k = 0 THEN <<>>
        ELSE IF k \in K THEN UpdateStack(stack[k - 1], lines, k) ELSE stack[k - 1]
  IN stack[m]

\* What pp_stack holds after line n: the conditionals that are open, from the
\* outermost to the innermost, each with the stack before its #if and the one
\* after its first part.
Restorable(lines, pp_stack, n) ==
  \E open \in [DOMAIN pp_stack -> Around(lines, n)] :
    /\ Range(open) = Around(lines, n)
    /\ \A q \in DOMAIN open :
         /\ Inside(lines, open[q], n) = Len(pp_stack) - q + 1
         /\ \A p \in 1 .. (q - 1) :
              open[p] < open[q] /\ Part(lines, open[p], open[q]) = Part(lines, open[p], n)
         /\ pp_stack[q].stack_before_if = StackOf(lines, Counting(lines, 0, n), open[q] - 1)
         /\ pp_stack[q].seen_else = (Part(lines, open[q], n) > 0)
         /\ pp_stack[q].seen_else =>
              pp_stack[q].stack_before_else = StackOf(lines, Counting(lines, open[q], n), n)

=============================================================================
