------------------------------ MODULE Includes ------------------------------
(***************************************************************************)
(* _IncludeState and CheckIncludeLine of cpplint.py: which headers were    *)
(* included before, per preprocessor part, and in which order they come.   *)
(*                                                                         *)
(* An #include line is <<"#include", header>>; a header is known by its    *)
(* place in the alphabet and what its name looks like.  "use" and a header *)
(* stand for a template or a function of the standard library that needs   *)
(* it.                                                                     *)
(***************************************************************************)
EXTENDS Cleansing

\* Of each header: its rank; whether it stands in <> (angle), has an extension
\* of C++ (cxx), and is one of the standard library's (standard); whether its
\* base name is the "same" as the file's, begins like it ("first"), or is
\* another ("other"), and its directory is that of the file (near); whether it
\* is named without a directory (bare), as third parties name theirs, as the
\* file's own header, and as a source file of another package; whether it is of
\* the file's module and can be opened, and what it includes.
CONSTANT Headers

SetLast(s, v) == [s EXCEPT ![Len(s)] = v]

InitialSection == 0
MyHSection == 1
CSection == 2
CppSection == 3
OtherHSection == 4

\* __init__, whose ResetSection('') starts the first section.
IncludeState == [include_list |-> <<<<>>>>, section |-> InitialSection, last_header |-> 0]

IsInclude(line) == Starts(line, "#include")
IncludeOf(line) == Stripped(line)[2]

FindHeader(st, header) ==
  \E s \in DOMAIN st.include_list : \E k \in DOMAIN st.include_list[s] :
    st.include_list[s][k].header = header

\* Mutant of ResetSection: #endif drops the list of its part.
ResetSection_Pops(st, line) ==
  [section |-> InitialSection, last_header |-> 0,
   include_list |-> CASE Starts(line, "#if") -> Append(st.include_list, <<>>)
                      [] Starts(line, "#else") -> SetLast(st.include_list, <<>>)
                      [] OTHER -> IF Len(st.include_list) > 1 THEN Front(st.include_list)
                                  ELSE st.include_list]

\* A list is added by #if, and the last one is cleared by #else: never popped.
ResetSection(st, line) ==
  [section |-> InitialSection, last_header |-> 0,
   include_list |-> CASE Starts(line, "#if") -> Append(st.include_list, <<>>)
                      [] Starts(line, "#else") -> SetLast(st.include_list, <<>>)
                      [] OTHER -> st.include_list]

\* _ClassifyInclude.
ClassifyInclude(h) ==
  CASE h.angle /\ ~h.cxx -> IF h.standard THEN "cpp" ELSE "c"
    [] ~h.angle \/ h.cxx -> CASE h.base = "same" /\ h.near -> "likely"
                              [] h.base = "other" -> "other"
                              [] OTHER -> "possible"

\* The section moves on, or back to the one of other headers; or stays, an error.
NextSection(section, class) ==
  CASE class = "c" -> IF section <= CSection THEN CSection ELSE section
    [] class = "cpp" -> IF section <= CppSection THEN CppSection ELSE section
    [] class \in {"likely", "possible"} -> IF section <= MyHSection THEN MyHSection ELSE OtherHSection
    [] class = "other" -> OtherHSection

OutOfOrder(section, class) ==
  (class = "c" /\ section > CSection) \/ (class = "cpp" /\ section > CppSection)

\* CheckIncludeLine, for the header on line n of the elided lines.
Report(name) == [category |-> <<"build", "include">> \o name, confidence |-> 4]
If(c, name) == IF c THEN <<Report(name)>> ELSE <<>>

Recorded(h) == h.own \/ ~h.third_party

CheckIncludeLine(st, lines, n) ==
  LET name == IncludeOf(lines[n])
      h == Headers[name]
      bare == If(h.bare /\ ~h.third_party, <<"_subdir">>)
      late == OutOfOrder(st.section, ClassifyInclude(h))
      section == NextSection(st.section, ClassifyInclude(h))
      last == IF late \/ section # st.section THEN 0 ELSE st.last_header
      unsorted == last > h.rank /\ n > 1 /\ IsInclude(lines[n - 1])
  IN IF FindHeader(st, name) \/ h.source
     THEN [st |-> st, reports |-> bare \o If(TRUE, <<>>)]
     ELSE IF ~Recorded(h)
     THEN [st |-> st, reports |-> bare]
     ELSE [st |-> [include_list |-> SetLast(st.include_list,
                                            Append(Last(st.include_list),
                                                   [header |-> name, line |-> n])),
                   section |-> section, last_header |-> h.rank],
           reports |-> bare \o If(late, <<"_order">>) \o If(unsorted, <<"_alpha">>)]

\* What a line needs, and the last line that needs a header.
Uses(line) ==
  IF line = <<>> \/ Head(line) \in {"#if", "#else", "#endif", "#include"} THEN {}
  ELSE {line[k + 1] : k \in {j \in DOMAIN line : line[j] = "use"}}
Required(lines) == UNION {Uses(lines[n]) : n \in DOMAIN lines}
LastUse(lines, h) ==
  LET uses == {n \in DOMAIN lines : h \in Uses(lines[n])} IN
  CHOOSE n \in uses : \A m \in uses : m <= n

\* The headers still in a list, and in a source file those that the headers of
\* its module include.
IncludeDict(st, opened) ==
  {i.header : i \in UNION {Range(st.include_list[s]) : s \in DOMAIN st.include_list}}
    \cup UNION {Headers[h].includes : h \in opened}

\* CheckForIncludeWhatYouUse, which gives up on a source file no header of whose
\* module is found: the headers missing, by the last line that needs them.
Missing(st, lines, source) ==
  LET opened == {h \in IncludeDict(st, {}) : source /\ Headers[h].module} IN
  IF source /\ opened = {} THEN {} ELSE Required(lines) \ IncludeDict(st, opened)

WhatReport(n) ==
  [line |-> n, category |-> Report(<<"_what_you_use">>).category, confidence |-> 4]

CheckForIncludeWhatYouUse(st, lines, source) ==
  FlattenSeq([n \in DOMAIN lines |->
    LET here == {h \in Missing(st, lines, source) : LastUse(lines, h) = n} IN
    [k \in 1 .. Cardinality(here) |-> WhatReport(n)]])

\* CheckHeaderFileIncluded, of a source file whose own header exists: told of
\* on the line of the first include that is still in a list.
CheckHeaderFileIncluded(st) ==
  LET all == FlattenSeq(st.include_list) IN
  IF \E k \in DOMAIN all : Headers[all[k].header].own THEN <<>>
  ELSE <<[category |-> <<"build", "include">>, confidence |-> 5,
          line |-> IF all = <<>> THEN 0 ELSE all[1].line]>>
==============================================================================
