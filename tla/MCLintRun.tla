----------------------------- MODULE MCLintRun -----------------------------
(***************************************************************************)
(* The source trees and command lines TLC runs LintRun on: two files, one  *)
(* in proj/lib and one in proj, each of two lines, and a CPPLINT.cfg in    *)
(* each of the two directories.                                            *)
(***************************************************************************)
EXTENDS LintRun

Tab == <<"whitespace", "tab">>
Alpha == <<"build", "include", "_alpha">>

Minus(c) == [sign |-> "-", of |-> c]
Plus(c) == [sign |-> "+", of |-> c]
Option(n, v) == [name |-> n, val |-> v]
Cfg(os) == [readable |-> TRUE, options |-> os]

NoComment == {}
Line(comments, width, reports) == [comments |-> comments, width |-> width, reports |-> reports]
TabError == [category |-> Tab, confidence |-> 1]
AlphaError == [category |-> Alpha, confidence |-> 4]

Plain == <<Line({}, 70, <<TabError, AlphaError>>), Line({}, 90, <<TabError>>)>>
Silent == <<Line({[of |-> Tab, next |-> FALSE]}, 70, <<TabError, AlphaError>>),
            Line({[of |-> Tab, next |-> TRUE]}, 70, <<TabError>>)>>
Above2 == <<Line({[of |-> All, next |-> TRUE]}, 70, <<AlphaError>>),
            Line({[of |-> <<"none">>, next |-> FALSE]}, 70, <<AlphaError, TabError>>)>>

File(dir, ext, readable, marks, lines, crlf) ==
  [dir |-> dir, ext |-> ext, readable |-> readable, marks |-> marks, lines |-> lines,
   crlf |-> crlf]

InLib == <<"proj", "lib">>
InProj == <<"proj">>

Firsts == {File(InLib, "cc", TRUE, {}, Plain, {2}), File(InLib, "cc", TRUE, {}, Silent, {}),
           File(InLib, "cc", TRUE, {"kernel"}, Above2, {1, 2}),
           File(InLib, "cc", FALSE, {}, <<>>, {})}
Seconds == {File(InProj, "h", TRUE, {}, Plain, {}), File(InProj, "h", TRUE, {"c"}, Silent, {1}),
            File(InProj, "txt", TRUE, {}, Plain, {})}

LibConfigs == {
  <<Option("filter", <<Minus(Tab)>>)>>,
  <<Option("filter", <<Minus(<<"whitespace">>), Plus(Tab)>>), Option("filter", <<Minus(Tab)>>)>>,
  <<Option("noparent", TRUE), Option("filter", <<Plus(<<"build">>)>>)>>,
  <<Option("linelength", 60), Option("exclude_files", {"one"}), Option("linelength", 50)>>,
  <<Option("extensions", {"cc", "txt"}), Option("filter", <<Plus(Alpha)>>)>>,
  <<Option("filter", <<[sign |-> "", of |-> Tab]>>)>>}
ProjConfigs == {
  <<Option("filter", <<Plus(Alpha)>>), Option("invalid", 0)>>,
  <<Option("filter", <<Plus(<<"build">>), Minus(Tab)>>), Option("exclude_files", {"lib"})>>,
  <<Option("filter", <<Minus(<<"build">>)>>), Option("filter", <<Plus(<<"whitespace">>), Plus(Alpha)>>)>>,
  <<Option("headers", {"h", "txt"}), Option("linelength", 100)>>}

Trees == {<<>>} \cup {InLib :> c : c \in {Cfg(os) : os \in LibConfigs}}
         \cup {InProj :> Cfg(os) : os \in ProjConfigs}
         \cup {(InLib :> l) @@ (InProj :> Cfg(os)) :
                 l \in {Cfg(o) : o \in LibConfigs} \cup {[readable |-> FALSE, options |-> <<>>]},
                 os \in ProjConfigs}

Args == {[filenames |-> <<"one", "two">>, recursive |-> r, exclude |-> {}, verbose |-> v,
          linelength |-> 80, counting |-> "toplevel", filters |-> fs] :
           r \in BOOLEAN, v \in {1, 3}, fs \in {<<>>, <<Minus(<<"whitespace">>), Plus(Alpha)>>}}
        \cup {[filenames |-> <<"one", "two", "one">>, recursive |-> FALSE, exclude |-> x,
               verbose |-> 1, linelength |-> 80, counting |-> c, filters |-> fs] :
                x \in {{}, {"two"}}, c \in {"total", "detailed"},
                fs \in {<<Plus(Tab)>>, <<[sign |-> "", of |-> Tab]>>}}

WorldsDef == {[files |-> ("one" :> f) @@ ("two" :> s), configs |-> t, args |-> a] :
               f \in Firsts, s \in Seconds, t \in Trees, a \in Args}
==============================================================================
