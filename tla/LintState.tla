----------------------------- MODULE LintState -----------------------------
(***************************************************************************)
(* What cpplint.py keeps for the whole process: the filters and the counts *)
(* of _cpplint_state, and the suppressions of the file it is working on.   *)
(*                                                                         *)
(* A category is the tuple of its parts, <<"build", "include", "_order">>  *)
(* for build/include_order, so that a filter for build/include matches it  *)
(* as a prefix; a filter is a sign and such a prefix.                      *)
(***************************************************************************)
EXTENDS Integers, FiniteSets, SequencesExt

VARIABLES
  verbose_level, counting,  \* of _cpplint_state, from the command line
  filters, filters_backup,
  error_count, errors_by_category,
  suppressions,             \* _error_suppressions: pairs of category and line
  suppressed_categories,    \* _global_error_suppressions
  shown                     \* what Error printed: [file, line, category, confidence]

settings == <<verbose_level, counting>>
counts == <<error_count, errors_by_category, shown>>
nolint == <<suppressions, suppressed_categories>>

\* The elements of a sequence at the positions in K, in their order.
Kept(s, K) ==
  LET kept[n \in 0 .. Len(s)] ==
        IF n = 0 THEN <<>>
        ELSE IF n \in K THEN Append(kept[n - 1], s[n])
        ELSE kept[n - 1]
  IN  kept[Len(s)]

Categories == {<<"build", "class">>, <<"build", "include">>, <<"build", "include", "_alpha">>,
               <<"build", "include", "_order">>, <<"build", "include", "_subdir">>,
               <<"build", "include", "_what_you_use">>, <<"build", "namespaces">>,
               <<"readability", "braces">>, <<"readability", "casting">>, <<"readability", "fn_size">>,
               <<"readability", "multiline_comment">>, <<"readability", "multiline_string">>,
               <<"readability", "nolint">>, <<"whitespace", "empty_conditional_body">>,
               <<"whitespace", "empty_if_body">>, <<"whitespace", "empty_loop_body">>,
               <<"whitespace", "line_length">>, <<"whitespace", "newline">>,
               <<"whitespace", "semicolon">>, <<"whitespace", "tab">>}
LegacyCategories == {<<"readability", "streams">>, <<"readability", "function">>}
All == <<"*">>  \* the key None: a NOLINT without a category
DefaultFilters == <<[sign |-> "-", of |-> <<"build", "include", "_alpha">>]>>

------------------------------------------------------------------------------
\* Filters.

Signed(f) == f.sign \in {"+", "-"}

\* AddFilters appends, and raises ValueError when a filter has no sign.
AddFilters(old, new) == old \o new

BackupFilters == filters_backup' = filters
RestoreFilters == filters' = filters_backup

\* The last filter that matches decides.
Filtered(fs, category) ==
  LET matching == {k \in DOMAIN fs : IsPrefix(fs[k].of, category)} IN
  /\ matching # {}
  /\ fs[CHOOSE k \in matching : \A l \in matching : l <= k].sign = "-"

------------------------------------------------------------------------------
\* NOLINT comments.

\* Mutant of ProcessGlobalSuppressions: what the last file suppressed is kept.
ProcessGlobalSuppressions_Kept(marks) ==
  /\ suppressions' = suppressions
  /\ suppressed_categories' = suppressed_categories

\* ResetNolintSuppressions, and then LINT_C_FILE and LINT_KERNEL_FILE, which are
\* looked for in the whole file before its first line is linted.
ProcessGlobalSuppressions(marks) ==
  /\ suppressions' = {}
  /\ suppressed_categories' =
       (IF "c" \in marks THEN {<<"readability", "casting">>} ELSE {})
         \cup (IF "kernel" \in marks THEN {<<"whitespace", "tab">>} ELSE {})

\* A comment is [of, next]: its category, if it has one, and NOLINTNEXTLINE or
\* NOLINT.  A category that is unknown suppresses nothing, and is an error.
ParseNolintSuppressions(comment, line) ==
  IF comment.of \in Categories \cup {All}
  THEN {<<comment.of, line + (IF comment.next THEN 1 ELSE 0)>>} ELSE {}

Unknown(comments) == \E c \in comments : c.of \notin Categories \cup LegacyCategories \cup {All}

IsErrorSuppressedByNolint(supp, category, line) ==
  \/ category \in suppressed_categories
  \/ <<category, line>> \in supp
  \/ <<All, line>> \in supp

------------------------------------------------------------------------------
\* Error, for the reports of one step in their order, under the suppressions
\* parsed so far.

ShouldPrintError(supp, r) ==
  /\ ~IsErrorSuppressedByNolint(supp, r.category, r.line)
  /\ r.confidence >= verbose_level
  /\ ~Filtered(filters, r.category)

Counted(category) == IF counting = "detailed" THEN category ELSE SubSeq(category, 1, 1)

\* Mutant of Bump: the first error of a category starts it at 0.
Bump_FromZero(by, key) ==
  [k \in DOMAIN by \cup {key} |-> IF k = key /\ k \in DOMAIN by THEN by[k] + 1
                                  ELSE IF k = key THEN 0 ELSE by[k]]

Bump(by, key) ==
  [k \in DOMAIN by \cup {key} |-> (IF k \in DOMAIN by THEN by[k] ELSE 0)
                                    + (IF k = key THEN 1 ELSE 0)]

IncrementErrorCount(by, category) ==
  IF counting \in {"toplevel", "detailed"} THEN Bump(by, Counted(category)) ELSE by

\* What is printed and counted, before the first report and after each.
Errors(supp, reports) ==
  LET st[n \in 0 .. Len(reports)] ==
        IF n = 0 THEN [shown |-> shown, count |-> error_count, by |-> errors_by_category]
        ELSE IF ShouldPrintError(supp, reports[n])
        THEN [shown |-> Append(st[n - 1].shown, reports[n]),
              count |-> st[n - 1].count + 1,
              by |-> IncrementErrorCount(st[n - 1].by, reports[n].category)]
        ELSE st[n - 1]
  IN  st[Len(reports)]

Error(supp, reports) ==
  LET st == Errors(supp, reports) IN
  /\ shown' = st.shown
  /\ error_count' = st.count
  /\ errors_by_category' = st.by
==============================================================================
