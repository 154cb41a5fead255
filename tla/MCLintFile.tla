----------------------------- MODULE MCLintFile -----------------------------
(***************************************************************************)
(* The files TLC runs LintFile on: every sequence of lines of some small   *)
(* languages, one for each part of the linter.                             *)
(***************************************************************************)
EXTENDS LintFile

Text(t) == [text |-> t, comments |-> {}]
Noted(t, of, next) == [text |-> t, comments |-> {[of |-> of, next |-> next]}]

\* Files of at most k lines of a language.
UpTo(L, k) == UNION {[1 .. n -> L] : n \in 0 .. k}

Comment == {Text(<<"x">>), Text(<<"/*", "x">>), Text(<<"x", "*/">>),
            Text(<<"/*", "x", "*/", "x">>), Text(<<"x", "//", "R(", "x">>),
            Text(<<"__", "x", "R(", "//", "x">>), Text(<<"x", ")R", "x">>),
            Text(<<"Q", "//", "Q", "x", "//", "/*">>), Text(<<"/*", "x", "*/">>)}

Conditional == {Text(<<"#if">>), Text(<<"#else">>), Text(<<"#endif">>)}
Block == Conditional \cup {Text(<<"cls", "{">>), Text(<<"}">>)}
Scope == {Text(<<"ns", "{", "ns", "x", "{">>), Text(<<"cls", "x", ";">>), Text(<<"cls", ">", "cls">>),
          Text(<<"fn", "(", "cls", ")", "{">>), Text(<<"extern">>), Text(<<"asm", "(">>),
          Text(<<")", ";">>), Text(<<"__", "asm", "{">>), Text(<<"}", ";">>)}

Include == Conditional \cup {Text(<<"#include", "b">>)}
Own == Include \cup {Text(<<"#include", "a.h">>)}
Order == {Text(<<"#include", h>>) : h \in {"a.h", "b", "c.h", "Py.h", "d.cc", "e.h"}} \cup {Text(<<"x">>)}

Streams == <<"readability", "streams">>
Nolint == {Text(<<"while", "(">>), Text(<<")", ";">>), Noted(<<")", ";">>, All, FALSE),
           Text(<<"}", "else", "{">>), Noted(<<"}", ";">>, <<"readability", "braces">>, FALSE),
           Noted(<<"}", ";">>, Streams, FALSE), Noted(<<"x", "Q">>, <<"bogus">>, TRUE),
           Noted(<<"x">>, All, TRUE), Text(<<"/*">>)}

Lambda == {Text(<<"x", "]">>), Text(<<"MACRO", "(">>), Text(<<"]", "(", ")", "{">>), Text(<<"x", "(">>),
           Text(<<")", "{">>), Noted(<<"}", ";">>, <<"readability", "braces">>, FALSE)}

Body == {Text(<<"fn", "(", ")">>), Text(<<"__", "{">>), Text(<<"TEST", "(", ")", "{">>), Text(<<"x">>),
         Text(<<"}">>), Noted(<<"}">>, All, FALSE), Text(<<"asm", "(", "x">>)}

Branch == {Text(<<"if", "(", ")", "{">>), Text(<<"if", "(", ")">>), Text(<<"{">>), Text(<<"}">>),
           Text(<<"else", "{">>), Noted(<<"x">>, <<"whitespace", "empty_if_body">>, TRUE),
           Noted(<<>>, Streams, FALSE)}

What == <<"build", "include", "_what_you_use">>
Use == {Text(<<"#if">>), Text(<<"#else">>), Text(<<"#include", "b">>), Text(<<"#include", "a.h">>),
        Text(<<"use", "b">>), Noted(<<"x", "use", "string">>, What, FALSE), Text(<<"use", "string">>)}

WithoutHeader(F) == [lines : F, source : {FALSE}, has_header : {FALSE}]

WithHeader(F) == [lines : F, source : {TRUE}, has_header : {TRUE}]

\* The longest files of comments and of conditionals start with a line that the
\* others can depend on.
Opens(line) == {"/*", "R(", "#if", "{", "#include"} \cap Range(line.text) # {}
Opened(L, k) == {f \in [1 .. k -> L] : Opens(f[1])}
Guarded(L, k) == {f \in [1 .. k -> L] : f[1].text = <<"#if">>}

FilesDef ==
  WithoutHeader(UpTo(Comment, 3) \cup Opened(Comment, 4) \cup UpTo(Block, 4)
                  \cup Opened(Block, 5) \cup Guarded(Block, 6) \cup UpTo(Scope, 3)
                  \cup UpTo(Nolint, 4) \cup UpTo(Lambda, 4) \cup UpTo(Body, 4)
                  \cup UpTo(Branch, 4) \cup UpTo(Use, 3))
    \cup WithHeader(UpTo(Own, 4) \cup UpTo(Include, 4) \cup Opened(Include, 5)
                      \cup Guarded(Include, 6) \cup UpTo(Order, 3) \cup UpTo(Use, 4))

TokensDef ==
  {"/*", "*/", "QQ"}
    \cup UNION {Range(l.text) : l \in Comment \cup Block \cup Scope \cup Own \cup Order \cup Nolint
                                     \cup Lambda \cup Body \cup Branch \cup Use}

\* A header of another directory, with a base name of its own.
Header(rank) ==
  [rank |-> rank, angle |-> FALSE, cxx |-> FALSE, standard |-> FALSE, base |-> "other",
   near |-> FALSE, bare |-> FALSE, third_party |-> FALSE, own |-> FALSE, source |-> FALSE,
   module |-> FALSE, includes |-> {}]

HeadersDef ==
  "a.h" :> [Header(1) EXCEPT !.base = "same", !.near = TRUE, !.own = TRUE, !.module = TRUE,
                             !.includes = {"string"}]
    @@ "b" :> [Header(2) EXCEPT !.angle = TRUE, !.standard = TRUE]
    @@ "c.h" :> [Header(3) EXCEPT !.angle = TRUE]
    @@ "Py.h" :> [Header(4) EXCEPT !.bare = TRUE, !.third_party = TRUE]
    @@ "d.cc" :> [Header(5) EXCEPT !.source = TRUE, !.cxx = TRUE]
    @@ "e.h" :> [Header(6) EXCEPT !.bare = TRUE, !.base = "first"]
    @@ "string" :> [Header(7) EXCEPT !.angle = TRUE, !.standard = TRUE]
==============================================================================
