------------------------------ MODULE LintRun ------------------------------
(***************************************************************************)
(* The driver of cpplint.py, from ParseArguments to the exit status: for   *)
(* each file the CPPLINT.cfg files of its directories are read upwards,    *)
(* their filters are added to those of the command line, the lines are     *)
(* linted, and the filters are restored.                                   *)
(*                                                                         *)
(* A world is a command line and a source tree.  A file has its directory  *)
(* as a path, its lines, each with its NOLINT comments, its width and the  *)
(* errors its checks report, and the lines that end in CR LF.              *)
(***************************************************************************)
EXTENDS LintState

CONSTANT Worlds

\* What all checks but the one for line lengths report of a line, in order.
Reports  == Seq([category : Categories \ {<<"whitespace", "line_length">>}, confidence : 1 .. 5])
Comments == [of : Seq(STRING), next : BOOLEAN]
LineType == [comments : SUBSET Comments, width : Nat, reports : Reports]
Filters  == Seq([sign : STRING, of : Seq(STRING)])
Settings == {"noparent", "filter", "exclude_files", "linelength", "extensions", "headers", "invalid"}
WorldsAssumption ==
  \A w \in Worlds :
    /\ IsFiniteSet(DOMAIN w.files)
    /\ \A f \in DOMAIN w.files : /\ w.files[f].dir \in Seq(STRING)
                                 /\ w.files[f].lines \in Seq(LineType)
    /\ \A p \in DOMAIN w.configs :
         /\ w.configs[p].options \in Seq(Range(w.configs[p].options))
         /\ \A o \in Range(w.configs[p].options) :
              o.name \in Settings /\ (o.name = "filter" => o.val \in Filters)
    /\ w.args.filenames \in Seq(DOMAIN w.files) /\ w.args.filters \in Filters
ASSUME WorldsAssumption

VARIABLES
  world,
  pc,
  filenames,         \* those left, the one at work first
  level,             \* how deep the directory is whose CPPLINT.cfg comes next
  keep_looking,
  cfg_filters,       \* of the CPPLINT.cfg files read so far, a line each
  line_length, valid_extensions, hpp_headers,  \* the module's globals
  linenum,
  linted,            \* history: the files whose lines were all processed
  exit_status

globals == <<line_length, valid_extensions, hpp_headers>>
walk == <<level, keep_looking, cfg_filters>>
vars == <<settings, counts, nolint, filters, filters_backup, globals, walk,
          world, pc, filenames, linenum, linted, exit_status>>

args == world.args
filename == Head(filenames)
file == world.files[filename]
Path(f) == SubSeq(world.files[f].dir, 1, level)

Init ==
  /\ world \in Worlds /\ pc = "args"
  /\ verbose_level = 1 /\ counting = "total"
  /\ filters = DefaultFilters /\ filters_backup = DefaultFilters
  /\ error_count = 0 /\ errors_by_category = <<>> /\ shown = <<>>
  /\ suppressions = {} /\ suppressed_categories = {}
  /\ line_length = 80 /\ valid_extensions = {} /\ hpp_headers = {}
  /\ level = 0 /\ keep_looking = FALSE /\ cfg_filters = <<>>
  /\ filenames = <<>> /\ linenum = 0 /\ linted = {} /\ exit_status = 0

------------------------------------------------------------------------------
\* Extensions.

GetHeaderExtensions ==
  IF hpp_headers # {} THEN hpp_headers
  ELSE IF valid_extensions # {} THEN valid_extensions \cap {"h", "hh", "hpp"}
  ELSE {"h", "hh", "hpp"}

GetAllExtensions ==
  GetHeaderExtensions \cup (IF valid_extensions # {} THEN valid_extensions ELSE {"c", "cc"})

------------------------------------------------------------------------------
\* The command line.

\* With --recursive the files come in the order of a set, each once.
Listed ==
  IF args.recursive
  THEN SetToSeqs({f \in DOMAIN world.files : world.files[f].ext \in GetAllExtensions})
  ELSE {args.filenames}

FilterExcludedFiles(names) == Kept(names, {k \in DOMAIN names : names[k] \notin args.exclude})

\* ValueError, out of main.
Raise ==
  /\ pc' = "raised"
  /\ exit_status' = 1

ParseArguments ==
  /\ pc = "args"
  /\ \E names \in Listed : filenames' = FilterExcludedFiles(names)
  /\ line_length' = args.linelength
  /\ verbose_level' = args.verbose /\ counting' = args.counting
  /\ filters' = AddFilters(DefaultFilters, args.filters)
  /\ IF \A k \in DOMAIN filters' : Signed(filters'[k])
     THEN pc' = "next" /\ UNCHANGED exit_status
     ELSE Raise
  /\ UNCHANGED <<world, valid_extensions, hpp_headers, counts, nolint, filters_backup,
                 walk, linenum, linted>>

------------------------------------------------------------------------------
\* ProcessConfigOverrides.

ProcessFile ==
  /\ pc = "next" /\ filenames # <<>>
  /\ BackupFilters
  /\ pc' = "config" /\ level' = Len(file.dir) /\ keep_looking' = TRUE /\ cfg_filters' = <<>>
  /\ UNCHANGED <<settings, counts, nolint, filters, globals, world, filenames, linenum,
                 linted, exit_status>>

\* The part of the path below the directory at this level.
base_name == IF level = Len(file.dir) THEN filename ELSE file.dir[level + 1]

\* What one option makes of the globals and the walk, unless the file is
\* excluded, and what all options of a CPPLINT.cfg do, in their order.
SetOption(st, o) ==
  IF st.excluded THEN st
  ELSE CASE o.name = "noparent" -> [st EXCEPT !.keep = FALSE]
         [] o.name = "filter" -> [st EXCEPT !.filters = Append(@, o.val)]
         [] o.name = "exclude_files" -> [st EXCEPT !.excluded = base_name \in o.val]
         [] o.name = "linelength" -> [st EXCEPT !.length = o.val]
         [] o.name = "extensions" -> [st EXCEPT !.valid = o.val]
         [] o.name = "headers" -> [st EXCEPT !.hpp = o.val]
         [] o.name = "invalid" -> st

Options(cfg) ==
  LET st[n \in 0 .. Len(cfg.options)] ==
        IF n = 0
        THEN [keep |-> keep_looking, filters |-> cfg_filters, excluded |-> FALSE,
              length |-> line_length, valid |-> valid_extensions, hpp |-> hpp_headers]
        ELSE SetOption(st[n - 1], cfg.options[n])
  IN  st[Len(cfg.options)]

NextFile ==
  /\ pc' = "next"
  /\ filenames' = Tail(filenames)

\* No CPPLINT.cfg at this level, or none that can be opened: the latter ends
\* the walk.
SkipConfig ==
  /\ pc = "config" /\ keep_looking /\ level >= 0
  /\ Path(filename) \in DOMAIN world.configs => ~world.configs[Path(filename)].readable
  /\ keep_looking' = (Path(filename) \notin DOMAIN world.configs)
  /\ level' = level - 1
  /\ UNCHANGED <<settings, counts, nolint, filters, filters_backup, globals, cfg_filters,
                 world, pc, filenames, linenum, linted, exit_status>>

ReadConfig ==
  /\ pc = "config" /\ keep_looking /\ level >= 0
  /\ Path(filename) \in DOMAIN world.configs /\ world.configs[Path(filename)].readable
  /\ LET st == Options(world.configs[Path(filename)]) IN
       /\ line_length' = st.length /\ valid_extensions' = st.valid /\ hpp_headers' = st.hpp
       /\ keep_looking' = st.keep /\ cfg_filters' = st.filters /\ level' = level - 1
       /\ IF st.excluded THEN RestoreFilters /\ NextFile
          ELSE UNCHANGED <<pc, filenames, filters>>
  /\ UNCHANGED <<settings, counts, nolint, filters_backup, world, linenum, linted, exit_status>>

\* The filter lines are applied from the last to the first.
AddAll(lines) ==
  LET added[n \in 0 .. Len(lines)] ==
        IF n = 0 THEN filters ELSE AddFilters(added[n - 1], lines[Len(lines) + 1 - n])
  IN  added[Len(lines)]

ApplyFilters ==
  /\ pc = "config" /\ (level < 0 \/ ~keep_looking)
  /\ filters' = AddAll(cfg_filters)
  /\ IF \A k \in DOMAIN filters' : Signed(filters'[k])
     THEN pc' = "open" /\ UNCHANGED exit_status
     ELSE Raise
  /\ UNCHANGED <<settings, counts, nolint, filters_backup, globals, walk, world, filenames,
                 linenum, linted>>

------------------------------------------------------------------------------
\* ProcessFile, once it is configured, and ProcessFileData.

\* Mutant of OpenFile: a file that is left alone keeps its filters.
OpenFile_KeepsFilters ==
  /\ pc = "open"
  /\ ~(file.readable /\ file.ext \in GetAllExtensions)
  /\ NextFile
  /\ UNCHANGED <<settings, counts, nolint, filters, filters_backup, globals, walk, world,
                 linenum, linted, exit_status>>

\* The extensions are those of the globals, whichever directory set them.
OpenFile ==
  /\ pc = "open"
  /\ IF file.readable /\ file.ext \in GetAllExtensions
     THEN /\ pc' = "lint" /\ linenum' = 1
          /\ ProcessGlobalSuppressions(file.marks)
          /\ UNCHANGED <<filters, filenames>>
     ELSE RestoreFilters /\ NextFile /\ UNCHANGED <<linenum, nolint>>
  /\ UNCHANGED <<settings, counts, filters_backup, globals, walk, world, linted, exit_status>>

At(f, r, n) == [file |-> f, line |-> n, category |-> r.category, confidence |-> r.confidence]
NolintError == [category |-> <<"readability", "nolint">>, confidence |-> 5]
LengthError == [category |-> <<"whitespace", "line_length">>, confidence |-> 2]
NewlineError == [category |-> <<"whitespace", "newline">>, confidence |-> 1]

If(c, r) == IF c THEN <<r>> ELSE <<>>

\* ProcessLine: the NOLINT comments of the line come before its checks.
ProcessLine ==
  /\ pc = "lint" /\ linenum <= Len(file.lines)
  /\ LET line == file.lines[linenum]
         reports == If(Unknown(line.comments), NolintError) \o line.reports
                      \o If(line.width > line_length, LengthError)
         supp == suppressions \cup
                   UNION {ParseNolintSuppressions(c, linenum) : c \in line.comments}
     IN /\ suppressions' = supp
        /\ Error(supp, [k \in DOMAIN reports |-> At(filename, reports[k], linenum)])
  /\ linenum' = linenum + 1
  /\ UNCHANGED <<settings, filters, filters_backup, suppressed_categories, globals, walk,
                 world, pc, filenames, linted, exit_status>>

\* The lines of a file that mixes LF and CR LF, from the first to the last.
Mixed(f) == IF f.crlf = DOMAIN f.lines THEN <<>>
            ELSE Kept([k \in DOMAIN f.lines |-> k], f.crlf)

EndOfFile ==
  /\ pc = "lint" /\ linenum > Len(file.lines)
  /\ Error(suppressions, [k \in DOMAIN Mixed(file) |-> At(filename, NewlineError, Mixed(file)[k])])
  /\ linted' = linted \cup {filename}
  /\ RestoreFilters /\ NextFile
  /\ UNCHANGED <<settings, nolint, filters_backup, globals, walk, world, linenum, exit_status>>

\* The counts are printed, and become the exit status.
Exit ==
  /\ pc = "next" /\ filenames = <<>>
  /\ pc' = "done" /\ exit_status' = IF error_count > 0 THEN 1 ELSE 0
  /\ UNCHANGED <<settings, counts, nolint, filters, filters_backup, globals, walk, world,
                 filenames, linenum, linted>>

Next ==
  \/ ParseArguments \/ ProcessFile \/ SkipConfig \/ ReadConfig \/ ApplyFilters
  \/ OpenFile \/ ProcessLine \/ EndOfFile \/ Exit

Spec == Init /\ [][Next]_vars

------------------------------------------------------------------------------
\* Properties.

TypeOK ==
  /\ pc \in {"args", "next", "config", "open", "lint", "done", "raised"}
  /\ exit_status \in {0, 1}

\* What the command line says.
Given == DefaultFilters \o args.filters

\* Every file starts with the filters of the command line, whatever the
\* CPPLINT.cfg files of the one before it added, and however that one ended:
\* excluded, unreadable, of a strange extension, or linted.
FiltersRestored == pc \in {"next", "done"} => filters = Given

\* The directories whose CPPLINT.cfg counts for a file, by their depth: from its
\* own upwards, as far as the first that says noparent or can not be read.
Config(f, d) == world.configs[SubSeq(world.files[f].dir, 1, d)]
Has(f, d) == SubSeq(world.files[f].dir, 1, d) \in DOMAIN world.configs
Stops(f, d) == Has(f, d) /\ \/ ~Config(f, d).readable
                            \/ \E k \in DOMAIN Config(f, d).options :
                                 Config(f, d).options[k].name = "noparent"
Above(f) == {d \in 0 .. Len(world.files[f].dir) :
              /\ Has(f, d) /\ Config(f, d).readable
              /\ \A e \in (d + 1) .. Len(world.files[f].dir) : ~Stops(f, e)}

\* The filter lines of a directory that are about a category.
About(fs, category) == \E k \in DOMAIN fs : IsPrefix(fs[k].of, category)
Deciding(f, d, category) ==
  {k \in DOMAIN Config(f, d).options :
     Config(f, d).options[k].name = "filter" /\ About(Config(f, d).options[k].val, category)}
Deepest(D) == CHOOSE d \in D : \A e \in D : e <= d
Highest(D) == CHOOSE d \in D : \A e \in D : d <= e

\* The nearest directory above level l that says something about a category
\* decides, and in it the first line that does.
Saying(f, l, category) == {d \in Above(f) : d > l /\ Deciding(f, d, category) # {}}
Nearest(f, l, category) ==
  IF Saying(f, l, category) = {} THEN <<>>
  ELSE LET d == Deepest(Saying(f, l, category)) IN
       Config(f, d).options[Highest(Deciding(f, d, category))].val

\* It does for the whole path; then the command line; then the defaults.
Off(f, category) ==
  Filtered(IF Saying(f, -1, category) # {} THEN Nearest(f, -1, category)
           ELSE IF About(args.filters, category) THEN args.filters ELSE DefaultFilters, category)

\* The file's own comments, and no other's, silence an error.
Silenced(f, e) ==
  \/ "c" \in f.marks /\ e.category = <<"readability", "casting">>
  \/ "kernel" \in f.marks /\ e.category = <<"whitespace", "tab">>
  \/ \E m \in {e.line, e.line - 1} \cap DOMAIN f.lines : \E c \in f.lines[m].comments :
       c.next = (m # e.line) /\ c.of \in {All, e.category}

\* What the checks find in a line and in a file, line lengths left aside.
FoundIn(name, n) ==
  LET line == world.files[name].lines[n] IN
  {At(name, r, n) : r \in Range(line.reports)
                       \cup IF Unknown(line.comments) THEN {NolintError} ELSE {}}
Found(name) ==
  (UNION {FoundIn(name, n) : n \in DOMAIN world.files[name].lines})
    \cup {At(name, NewlineError, n) : n \in Range(Mixed(world.files[name]))}

\* Less what those comments silence, what is not confident enough, and what the
\* nearest configuration turns off.
Deserved(name, found) ==
  {e \in found : /\ e.confidence >= args.verbose
                 /\ ~Silenced(world.files[name], e)
                 /\ ~Off(name, e.category)}

Printed(name) == {e \in Range(shown) : e.file = name /\ e.category # LengthError.category}

\* What is printed of a file that was linted is what its checks find, less what
\* its own NOLINT comments silence, what is not confident enough, and what the
\* nearest configuration turns off: no matter which files were linted before
\* it, in which order, and what their CPPLINT.cfg files and comments say.
NearestConfigDecides ==
  \A name \in linted : Printed(name) = Deserved(name, Found(name))

\* The summary and the exit status are about the errors that were printed: the
\* total, the count of each category, and 1 if and only if there was one.
CountsAgree ==
  /\ error_count = Len(shown)
  /\ counting \in {"toplevel", "detailed"} =>
       \A key \in {Counted(e.category) : e \in Range(shown)} \cup DOMAIN errors_by_category :
         /\ key \in DOMAIN errors_by_category
         /\ errors_by_category[key] =
              Cardinality({k \in DOMAIN shown : Counted(shown[k].category) = key})
  /\ pc = "done" => (exit_status = 1 <=> shown # <<>>)

------------------------------------------------------------------------------
\* The inductive invariant.

Tallied == counting \in {"toplevel", "detailed"}

\* What errors_by_category is of the errors s.
CountsOf(s) ==
  [key \in {Counted(s[k].category) : k \in DOMAIN s} |->
     Cardinality({k \in DOMAIN s : Counted(s[k].category) = key})]

CountsKept ==
  /\ error_count = Len(shown)
  /\ Tallied => errors_by_category = CountsOf(shown)
  /\ pc = "args" => errors_by_category = <<>>
  /\ pc = "done" => (exit_status = 1 <=> shown # <<>>)

ErrorType == [file : DOMAIN world.files, line : Nat, category : Categories, confidence : 1 .. 5]

\* The names are of files of the world, and so are the errors.
AtWork ==
  /\ filenames \in Seq(DOMAIN world.files) /\ linted \subseteq DOMAIN world.files
  /\ shown \in Seq(ErrorType)
  /\ pc = "args" => shown = <<>> /\ linted = {}
  /\ pc # "args" => verbose_level = args.verbose
  /\ pc \in {"config", "open", "lint"} => filenames # <<>>
  /\ pc = "lint" => linenum \in 1 .. Len(file.lines) + 1

\* The backup is what the command line says for as long as a file is at work.
BackupKept ==
  /\ FiltersRestored
  /\ pc = "config" => filters = Given
  /\ pc \in {"config", "open", "lint"} => filters_backup = Given

\* The first of some lines of filters that is about a category.
First(lines, category) ==
  LET S == {k \in DOMAIN lines : About(lines[k], category)} IN
  IF S = {} THEN <<>> ELSE lines[Highest(S)]

\* The walk knows what the directories below this level say, and when it is
\* over the filters are those of the nearest one.
WalkKept ==
  /\ pc = "config" =>
       /\ level \in -1 .. Len(file.dir)
       /\ keep_looking = \A d \in (level + 1) .. Len(file.dir) : ~Stops(filename, d)
       /\ cfg_filters \in Seq(Filters)
       /\ \A category \in Categories :
            First(cfg_filters, category) = Nearest(filename, level, category)
  /\ pc \in {"open", "lint"} =>
       \A category \in Categories : (Filtered(filters, category) <=> Off(filename, category))

\* The suppressions are those of the file at work as far as it was read.
SuppressionsKept ==
  pc = "lint" =>
    /\ suppressions = UNION {UNION {ParseNolintSuppressions(c, m) : c \in file.lines[m].comments} :
                                m \in 1 .. linenum - 1}
    /\ suppressed_categories =
         (IF "c" \in file.marks THEN {<<"readability", "casting">>} ELSE {})
           \cup (IF "kernel" \in file.marks THEN {<<"whitespace", "tab">>} ELSE {})

\* What is printed is deserved, also of a file that is still at work or is
\* linted again, and nothing of the lines that were processed is missing.
ErrorsKept ==
  /\ \A name \in DOMAIN world.files : Printed(name) \subseteq Deserved(name, Found(name))
  /\ \A name \in linted : Deserved(name, Found(name)) \subseteq Printed(name)
  /\ pc = "lint" => \A n \in 1 .. linenum - 1 :
       Deserved(filename, FoundIn(filename, n)) \subseteq Printed(filename)

\* The inductive invariant: filters, suppressions and counts are those of the
\* command line and of the file at work, whatever files came before.
LintInv ==
  TypeOK /\ AtWork /\ BackupKept /\ WalkKept /\ SuppressionsKept /\ ErrorsKept /\ CountsKept
==============================================================================
