# A formal model of netier

netier is a C++17 framework for event-driven TCP servers: one acceptor thread,
a pool of reactor threads with an edge-triggered epoll instance each, and the
application's callbacks `onConn` and `onRecv`. Its `build_support` holds the
programs that guard its sources: the linter `cpplint.py` and the runner of
clang-tidy. This directory holds TLA+ modules translated from the source of
both, TLC configurations that check them on small instances, and proofs for the
TLA+ proof system that hold for every value of the constants. Paths below are
relative to the repository.

- [The system](#the-system)
- [The modules](#the-modules)
- [What the runs check](#what-the-runs-check)
- [Bounds](#bounds)
- [Fairness](#fairness)
- [What is proved](#what-is-proved)
- [What only TLC checks](#what-only-tlc-checks)
- [Where the code and its documentation disagree](#where-the-code-and-its-documentation-disagree)
- [What is not modelled](#what-is-not-modelled)
- [Plan](#plan)

## The system

| Component | Source | State | Operations |
|---|---|---|---|
| Server | `src/server.cpp`, `include/server.hpp` | `__contextes` (descriptor -> `unique_ptr<Context>`), `__reactors`, `__acceptor`, `__threadpool`, the callbacks | constructor, `serve`, `contextCreator`, `contextDestroyer`, `schedule`, destructor |
| Acceptor | `src/acceptor.cpp` | listening socket, a reactor and an IOContext of its own | constructor, `AcceptConnection`, `getMainLoop` |
| Reactor, Epoll | `src/reactor.cpp`, `src/epoll.cpp` | the epoll descriptor, the kernel's interest and ready lists | `loop`, `addIOContext`, `delIOContext`, `poll` |
| IOContext | `src/io_context.cpp` | `__events`, `__revents`, `__registered`, two callbacks | `enableRead`, `enableWrite`, `setET`, setters of callbacks, `handleGeneral`, destructor |
| Context | `src/context.cpp` | `__state`, `__buffer`, `__wbuffer`, `__onRecv`, socket, IOContext | constructor, `handleReadableEvent`, `handleWritableEvent`, `read`, `readString`, `asyncWrite`, `syncWrite`, `write`, `writeFile`, `destroy` |
| Buffer | `src/buffer.cpp` | a `vector<char>` | `getWriter`, `getReader`, `shrink`, `put`, `get`, `moveReadCursor`, `clear` |
| ThreadPool | `src/threadpool.cpp`, `include/threadpool.hpp` | `__jobs`, `__stop`, mutex, condition variable | constructor, `asyncRunJob`, worker loop, destructor |
| Socket, Address | `src/socket.cpp`, `src/addr.cpp` | a descriptor, a `sockaddr_in` | thin wrappers of system calls |
| Examples | `examples/` | an `onRecv` | applications |
| HTTP parsers | `include/http_parser/` (vendored, unused by the core) | position in a request, a response or a URL | `parse` |
| clang-tidy runner | `build_support/run_clang_tidy.py`, `run_clang_tidy_extra.py` | a bounded queue, `failed_files`, a temporary directory, the exit status | `main`, `run_tidy` on each thread, `merge_replacement_files`, `apply_fixes` |
| cpplint, the run | `build_support/cpplint.py` | filters and their backup, counts, suppressions, globals that CPPLINT.cfg files set | `ParseArguments`, `ProcessFile`, `ProcessConfigOverrides`, `Error`, the exit status |
| cpplint, a file | `build_support/cpplint.py` | the cleansed lines, `NestingState`, `_IncludeState`, `_FunctionState` | `ProcessFileData`, `ProcessLine` and the checks it calls |
| clang-format runner | `build_support/run_clang_format.py` | a flag | one loop |

How they interact. `Server::serve` submits `Reactor::loop` to the pool once for
each reactor. The acceptor's thread accepts a socket, constructs a Context,
which registers its IOContext with reactor `fd % n`, sets its callbacks, calls
`onConn`, and returns it to `contextCreator`, which stores it in
`__contextes`. From the first `EPOLL_CTL_ADD` on, the reactor's thread may be
told of the connection and run the Context's handlers, which read, call
`onRecv`, flush `__wbuffer`, and destroy the Context by
`__contextes.erase(fd)`. Acceptor and reactors share Context, IOContext and
map with no lock; raw pointers to IOContexts live in epoll and in the vector
`poll()` returned.

What is hard, and what makes each component correct:

- **Life of a Context** (Server, Acceptor, Reactor, IOContext, Context). A
  Context is published before it is built; descriptors are reused; a handler
  may destroy the object whose method is running. Correct means: no raw
  pointer outlives its Context, a Context is handled by one reactor only and
  destroyed by its own handler only, the map owns every Context that is not
  being built, callbacks come in order and never after the destruction, and
  the Context of a client that went is destroyed in the end.
- **Bytes of a connection** (Context, Buffer, Epoll). Edge-triggered events
  are reported once, writes are short, buffers grow by 1024 bytes and are cut.
  Correct means: nothing is lost, doubled or reordered on either path, no edge
  is lost, what waits is flushed.
- **Jobs** (ThreadPool). A condition variable, jobs that submit jobs, jobs that
  never return, a destructor at any time. Correct means: each accepted job
  runs once and in order, no wake-up is lost, the destructor lets the queue run
  dry and returns when it can.
- **Server** as a whole: with as many workers as loops, every reactor runs;
  the destructor cannot finish while they do.
- **HTTP parsers**: the result does not depend on how the input is cut,
  lengths are honoured, no state is reached that no input should lead to.

- **clang-tidy runner**: threads take entries from a bounded queue, die of
  exceptions before `task_done`, and report failures in a list no lock guards.
  Correct means: the queue's count is the work there is, the exit status tells
  whether a file failed, the script ends.
- **cpplint, the run**: filters, suppressions and settings are globals that one
  file after the other changes. Correct means: what is printed of a file does
  not depend on the files before it, the nearest configuration decides, counts
  and exit status agree with what was printed.
- **cpplint, a file**: five passes take comments and strings out, and machines
  that move with each line follow blocks, conditionals, includes and functions.
  Correct means: the checks see code and nothing but code, branches of a
  conditional do not disturb each other, and a comment that silences an error
  does so wherever the check that reports it stands.

PROJECT.json lists the hazards one by one, at their lines, with the properties
aimed at them.

## The modules

| Module | Models | Depends on |
|---|---|---|
| `Connections` | the life of Contexts: acceptor thread, reactor threads, kernel, clients, map | |
| `AppCallbacks` | abstract: what an application may rely on, connection by connection | |
| `MCConnections` | values of constants and symmetry for TLC | `Connections` |
| `ConnectionsProofs` | theorems about `Connections` | `Connections`, TLAPS |
| `Buffer` | the operations of Buffer as functions on sequences | |
| `Stream` | the bytes of one connection and the calls of the application | `Buffer` |
| `StreamProofs` | theorems about `Stream` | `Stream`, TLAPS |
| `ThreadPool` | the pool | `WorkQueue` (refinement) |
| `ThreadPoolProofs` | theorems about `ThreadPool` | `ThreadPool`, `Recursion` |
| `WorkQueue` | abstract: a work-conserving FIFO queue of width n | |
| `HttpParser` | the request and the response parser, character by character | `HttpFraming` (refinement) |
| `HttpFraming` | abstract: how the body of a message is delimited | |
| `HttpParserProofs` | theorems about `HttpParser` | `HttpParser`, `Recursion` |
| `ClangTidy` | run_clang_tidy.py: main, its threads, the queue | |
| `ClangTidyProofs` | theorems about `ClangTidy` | `ClangTidy`, TLAPS |
| `LintState` | cpplint's filters, suppressions, counts, and `Error` | |
| `LintRun` | cpplint from the command line to the exit status | `LintState` |
| `MCLintRun` | the source trees and command lines for TLC | `LintRun` |
| `LintRunProofs` | theorems about `LintRun` | `LintRun`, `Recursion` |
| `Recursion` | induction and recursion over the natural numbers, for the proofs | TLAPS |
| `Cleansing` | how comments and strings are taken out of lines, as functions | |
| `Nesting`, `FnLength`, `Includes` | the three states that move with each line, as functions; in `Nesting` also what the conditionals of a whole file say | `Cleansing` |
| `LintFile` | `ProcessFileData`: a file from its first line to its last | `LintState`, `Nesting`, `FnLength`, `Includes` |
| `MCLintFile` | the lines and headers for TLC | `LintFile` |
| `LintFileProofs` | theorems about `LintFile` | `LintFile`, `Recursion` |

### Connections

A member of `Conns` stands for a client's connection and for the objects made
for it. Objects are never reused, so that a use after destruction is visible;
descriptors are reused as the kernel does.

| Variable | In the code |
|---|---|
| `sock`, `fdOf`, `peer`, `rx` | the kernel's side of the socket; `peer` is what the client did last |
| `interest`, `ready` | epoll's interest list (`IN`, `OUT`, `ET`) and ready list |
| `ctx` | whether the Context is not yet made, alive or destroyed |
| `state` | `Context::__state`; CLOSED and INVALID are one value, "DONE", since only the text of messages differs |
| `installed` | which of `__readableCb`, `__writableCb`, `__onRecv` are assigned |
| `buf`, `revents` | `Context::__buffer` (a count), `IOContext::__revents` |
| `contextes` | `Server::__contextes`; `Null` is the entry `operator[]` makes at server.cpp:47 if the reactor erased the Context already |
| `apc`, `acur` | where the acceptor is, and the Context it builds |
| `rpc`, `cur`, `batch` | where each reactor is, the IOContext it handles, and the rest of the vector `poll()` returned |
| `proc` | "up", "dead" (assertion, `errif`, SIGPIPE), or "corrupt" |

Acceptor steps follow `AcceptConnection`, the constructor
(context.cpp:12-32) and `contextCreator` (server.cpp:40-48) line by line, one
step for each access the reactor can see: three `epoll_ctl`, three assignments
of a `std::function`, `__state`, `onConn`, the insertion and the lookup of the
map. Reactor steps follow `Reactor::loop`, `Epoll::poll`, `handleGeneral`, and
the two handlers of Context. The application has set both callbacks of the Server, as
README.md:13-22 and the example do: the tests of an empty `__onConn`
(context.cpp:30) and of a Server without `__onRecv` (server.cpp:44) are left out.

Undefined behaviour is a choice. The uninitialised `__state` may hold any
value (`AcceptConnection`). A `std::function` that is called while it is being
assigned may be seen empty, set, or end the process (`SeesSet`, `Assigning`).
Two overlapping operations of `__contextes` may be serialised or corrupt the
map (`MapRace`); the model says nothing of a process whose map is corrupt, and
every property is about what happens before.

### Stream

One Context on its reactor's thread, after it is set up, with `onRecv` calling
`read`, `asyncWrite`, `syncWrite` and `writeFile` any number of times, against
a client that sends, reads, closes or resets at any time. The i-th byte each
side sends is the number i, so lost, doubled and reordered bytes show. Each
turn of a loop around a system call is one step, since the client can act
between two calls. `nospace` is the kernel's promise of an `EPOLLOUT` after a
write, or `epoll_wait` itself, found the send queue full. The second case
matters: `syncWrite` writes past what waits in `__wbuffer`, so the socket can be
full again between the edge `__wbuffer` waits for and the call that fetches it.

### ThreadPool

Each critical section is one step; `wait`, `notify_one`, `notify_all` and
`join` are steps of their own, and `wait` may return spuriously. `Endless`
holds the jobs that never return, as `Reactor::loop`. Jobs may submit jobs.

### HttpParser

One state machine for both parsers, since they differ in the first line and in
whether a body needs a method: `kind` tells which one runs. A step is one
`input` of the loop of `consume`; everything that outlives a call of `parse` is
in the parser and in the message, so it makes no difference how the calls cut
the input. `Moves` lists the cases of the `switch` that only assign `state`;
every other case is an action of its own, and `Reject` is all the branches that
return `ParsingError`. Characters are the classes the code tells apart
(`isChar`, `isControl`, `isSpecial`, `isalnum`, digits, and the single
characters it compares with). Where a method, header name or value is only
collected to be compared with a name, the run of characters may come as one
word of `Words`. `contentSize`, `chunkSize` and `chunkSizeStr` are the parser's
own; `announced`, the sum of all chunk sizes, is a history variable. A negative
`Content-Length` ends in the exception of `reserve` (`result = "exception"`).

Not kept, because nothing else depends on them: the URI, the numbers of the
version, the status text, `keepAlive`. Numbers that do not fit their type are
not modelled. The model stops at a verdict, as a caller must: `parse` does not
say how much of its buffer it used.

Reading the code for this module showed one thing no statement of the
repository is about: after an empty status text, `ResponseHttpVersion_statusTextStart`
takes the CR for the first character of the text (httpresponseparser.hpp:190-194),
and the first header line for the rest of it. `StatusLineMoves` does the same.

### ClangTidy

`kind` says of every entry of the compilation database what will become of it:
skipped, clean, failing, or one of the three cases in which the code does not
get as far as `task_done` (clang-tidy cannot be started, its output is not
UTF-8, the name does not match the command line and is never put). `queue` and
`unfinished` are `queue.Queue`'s, whose `put`, `get`, `task_done` and `join` are
modelled from what the script relies on. `at` and `name` are where each thread
is and what it holds; a thread that died keeps its task, as the queue's count
does. `main` is `pc`, from the setup over the loop around `put` and `join` to the
export, the fixes and the removal of the temporary directory; Ctrl-C may come
while it fills or joins. `caught` is a history variable: exporting or applying
the fixes raised.

Reading the code for this module showed things the properties take as they are:
the loop around `put` ends when the entry was put, and one that does not match
never is, so that the script spins (run_clang_tidy.py:316); `yaml` is used and
never imported, so that `-export-fixes` fails as soon as there is a replacement
file; and the bare `except` reports that as exit status 1.

### LintState and LintRun

`LintRun` is the process: a `world` is a command line and a source tree, in which
a file is its directory, its lines with the errors the checks will report and
their NOLINT comments, and a CPPLINT.cfg is a sequence of options. One action
for each stretch of code between two accesses of the state that outlives a file:
the command line, the backup of the filters, one CPPLINT.cfg of the walk upwards
(`SkipConfig`, `ReadConfig`), `ApplyFilters`, the opening of the file, one line,
the end, the exit. Every early return of `ProcessFile` is there: excluded,
unreadable, of another extension. A category is the tuple of its parts, which
makes a filter a prefix; that cpplint compares strings, so that `build/inc`
matches `build/include` too, is left out. `line_length`, `valid_extensions` and
`hpp_headers` are the module's globals.

`LintState` holds what `LintRun` and `LintFile` share: `Error` with its
suppressions, its verbosity, its filters and its counts.

Two things the model shows and no property claims otherwise: the filter lines of
one CPPLINT.cfg are applied from the last to the first, so that the first one
that matches decides (cpplint.py:6310-6313); and line length, extensions and
headers of a CPPLINT.cfg stay set for the files after it, which
cpplint.py:253 says are out of its reach.

### LintFile and the functions it is built from

A line is a sequence of tokens, those the code tells apart; everything else is
`x`. `Cleansing` is the five passes of cpplint.py over the lines, `Nesting`,
`FnLength` and `Includes` the three states, each as functions from a state and a
line to a state, as their Python methods are. `LintFile` is the machine:
`Prepare` resets the suppressions and cleanses, `ProcessLine` and `ProcessAsmLine`
are a line with every call it makes that changes state, and `EndOfData` the
checks after the last line. Of the checks, those are modelled that keep state or
look over several lines: nesting, function length, multi-line comments and
strings, trailing semicolons, empty bodies, includes, and the standard headers a
file uses and does not include. The others read one line and keep nothing; in
`LintRun` a line's `reports` stand for them. Parsing ahead, of the line on which
an error will be reported, is there (`Ahead`). What the name of a header says
(`_ClassifyInclude` and the tests of `CheckIncludeLine`) is data of `Headers`. The
command line is `--filter=+build/include_alpha` (`CommandLine`), so that no filter
hides an error and only NOLINT does; filters are `LintRun`'s subject.

`found` keeps every error that was reported and the line at work when it was, and
`skipped` the lines of inline assembly. The references the properties compare
with are written from C++ and not from cpplint: `Lexed` reads a file token by token and
says what is comment, string and code; `EndOf`, `Part` and `Around` read the conditionals of the whole
file at once; `Counting` says which lines count after a line, and `StackOf` what
the stack would be if there were no others. `Included`, `Outside` and `Exclusive` say
of the lines of a header where they stand in the conditionals, whatever
`include_list` has become. `CheckForIncludeWhatYouUse` tells of the headers that
are `Missing` line by line, by the last line that needs each, which is the order
in which the code sorts them.

What cpplint is not held to, named in the properties: `CodeKept` is about the
files in which a line does not mix a multi-line comment with something else
(`Simple`), since `/*` at the start of a raw string's line, or code after a `*/` that
ends a multi-line comment, is misread; of a `/* */` on one line it asks that it holds
no quote, raw string or `//`, of a string that it ends on its line, holds no end of a
raw string and is in no `#include`, and of the last comment that it ends. Under that
it is exact: what is left is the code, with an empty string for each string and for
each line of a raw string; `NolintHonoured` exempts the errors that are
reported before the comments of their line are parsed (`Early`), which a NOLINT
there does not silence. A comment that does not end is reported on the line
after its first (cpplint.py:1626). `IncludesKnown` claims nothing of headers that
are included within a conditional with an `#else` only: `ResetSection` clears the
last list, which after a nested `#if` is the inner one's (cpplint.py:907), and a
header that is there may be asked for.

## What the runs check

| Run | Module, configuration | Expected | Shows |
|---|---|---|---|
| `connections_safety` | `MCConnections`, two connections, two descriptors on two reactors | pass | types, live pointers, ownership by the map, one reactor for each Context, and the inductive invariant |
| `connections_reuse` | `MCConnections`, two connections that share one descriptor | pass | soundness of the map, destruction by the own handler only and of clients that went, the refinement of `AppCallbacks`, and liveness after registration |
| `connections_leak` | one connection | violation of `ClosedReclaimed` | a Context erased before it is inserted is never destroyed |
| `connections_lostedge` | one connection | violation of `DataNotifies` | an edge reported before `onRecv` is set is lost |
| `pool` | `ThreadPool`, three workers, four jobs, two endless | pass | conservation of jobs, no lost wake-up, drain, progress, the refinement of `WorkQueue`, and the inductive invariant |
| `stream` | `Stream`, every call, three bytes to the server and four to the client | pass | the read path, the write path for as long as `syncWrite` was not called, edges, flushing, hand-over, and the inductive invariant |
| `stream_sync` | `Stream`, `syncWrite` | violation of `WireInOrder` | the beginning of the buffer is sent twice |
| `stream_eof` | `Stream`, no writes | violation of `LastMessageNotifies` | the last message is dropped at the end of file |
| `http` | `HttpParser`, requests and responses of up to two headers | pass | lengths come from the headers as a whole, bodies and chunks end where they should, nothing is taken of a header that is not there, the refinement of `HttpFraming`, and the inductive invariant |
| `clang_tidy` | `ClangTidy`, two threads, three entries of every kind | pass | the queue's count, the exit status, the end, and the inductive invariant |
| `lint_files` | `MCLintRun`, two files in two directories, up to two CPPLINT.cfg files | pass | what is printed of a file, the counts, and the inductive invariant |
| `lint_lines` | `MCLintFile`, every file of up to six lines of small languages | pass | the code the checks see, conditionals and nesting, includes, NOLINT, and the inductive invariant |

Every property of a passing run has a mutant in PROJECT.json: a plausible bug
in a mapped definition that makes the property fail under the same
configuration. The mutants are operators beside the definitions they change.

Deadlock is not checked: clients need not connect or send, so the system may
come to rest, a dead process stops, a destroyed pool is done, a parser stops
at its verdict, and a script at its exit status.

## Bounds

| Bound | Value | Why it is enough |
|---|---|---|
| `Conns` | 1 or 2 | the interactions the properties are about are of a Context with another one through a shared descriptor, batch, map or reactor; two show each. The theorems hold for any number |
| `Fds` | one; or 4 and 5 | one forces reuse; two go to different reactors; `FreeFds = {}` is reached with one descriptor and two clients |
| `NumReactors` | 1, 2 | two show that a Context could be handled twice |
| `MaxEvents` | 2 | both connections in one batch |
| `MaxRx` | 0, 1 | data next to the end of file; how much data there is matters in `Stream` only |
| `Workers`, `Jobs`, `Endless` | 3, 4, 2 | two endless jobs leave one worker; with a fourth job there are two to share it |
| `read_buf_size` | 2 | a read that is full, partial and empty, and data of more than one read |
| `SndCap` | 2 | short writes and a full queue |
| `MaxSent`, `MaxWritten` | up to 3, up to 4 | more than one read buffer, and more than the queue and one buffer together; four written bytes are the fewest with which a `syncWrite` fills the socket while `__wbuffer` waits for an edge |
| `Digits` | 0 and 2 | an empty part and one of several bytes, and as two digits a number other than either |
| `MaxHeaders` | 2 | a header repeated, and a length next to a transfer encoding |
| `MaxWords` | 2 | a value folded over two lines, a sign before a digit, a chunk size of two digits |
| `MaxBody` | 4 | two chunks of two bytes, or one fixed body |
| `Workers`, `Entries` of `ClangTidy` | 2, 3 | the queue holds as many entries as there are threads, so that main blocks in `put`; two threads may both die, and one fail while the other is still at work. The theorems hold for any number |
| the worlds of `LintRun` | 4 x 3 files, 39 choices of none, one or two CPPLINT.cfg files, 16 command lines | one directory inside the other shows the walk upwards and what is nearest; one file after another, and the first one again, shows what a file leaves behind; each way out of `ProcessFile` occurs. The theorems hold for any world |
| the files of `LintFile` | 3 to 6 lines of eleven languages of 4 to 9 lines | six lines of conditionals nest one in a part of another with an `#else` on both sides; four lines of the others let an error, the comment that silences it and the line that parses it be apart; each language holds the tokens one part of the linter tells apart; the longest files of comments and of conditionals start with a line that opens something, since the others repeat a shorter file |
| `NormalTrigger`, `TestTrigger` | 1, 2 | functions on either side of each trigger within four lines |

The counters of `ClangTidy`, `LintRun` and `LintFile` are bounded by the entries,
files and lines there are. Others appear in guards with these bounds: `Send` (`MaxRx`),
`ClientSends` (`MaxSent`), `Begin` (`MaxWritten`), and `consume`, whose
`WithinBounds` leaves out the characters that would exceed them.

## Fairness

- `Connections`: weak fairness of the acceptor's step and of each reactor's
  step. Threads are scheduled by the operating system, and the code blocks in
  `accept` and `epoll_wait` only, when the step is not enabled. Returning from
  `onConn` and `onRecv` is part of the step: the application's callbacks are
  assumed to return. Clients owe nothing.
- `ThreadPool`: weak fairness of each worker and of the owner's started calls
  (`OwnerStep`). Jobs outside `Endless` return. No fairness for submissions,
  `SetStop` or spurious wake-ups. A worker's critical section is one step, so
  the mutex is assumed not to starve a thread, which POSIX does not promise but
  schedulers provide.
- `Stream`: weak fairness of the reactor's thread and of the client's reads;
  `Flushed` is about a client that reads.
- `ClangTidy`: weak fairness of main and of each thread; clang-tidy is assumed to
  return. No fairness for Ctrl-C. `Terminates` is about runs in which no entry
  kills its thread or is left out of the queue.
- `LintRun`, `LintFile`: none, they state no liveness.

Weak fairness of a disjunction never forces one alternative, so no property
rests on a choice of the environment, such as a write that fails.

## What is proved

### Connections

For any finite or infinite set of connections and descriptors, any positive
number of reactors and any `MaxEvents`, from `ConstantsAssumption` alone:

| Theorem | Statement |
|---|---|
| `TypeCorrect` | `Spec => []TypeOK` |
| `Invariance` | `Spec => []IInv` |
| `PointersLive` | `Spec => []RawPointersLive` |
| `RegistryCorrect` | `Spec => []RegistrySound` |
| `OwnedByMap` | `Spec => []EveryContextOwned` |
| `BoundToOneReactor` | `Spec => []OneReactorPerContext` |
| `OwnHandlerDestroys` | `Spec => DestroyedByOwnHandler` |
| `HealthyStay` | `Spec => HealthyKept` |
| `AppCallbacksImplemented` | `Spec => ImplementsAppCallbacks` |

The argument. `RawPointersLive` is not inductive: the map is erased by
descriptor, so a reactor that erases could free the Context of another one
unless open Contexts have different descriptors and the map names each by its
own. `IInv` says this in five parts: `KernelSound` (a Context lives exactly
while its socket is open; only live ones are registered), `HeldSound` (what a
reactor holds lives, is scheduled to it and occurs once, so that the rest of a
batch survives the destruction of the current one), `BuildingSound` (what the
acceptor builds lives until it is in the map, whatever reactors do meanwhile:
the erase of a descriptor that is not in the map frees nothing), `RegistrySound`
and `EveryContextOwned`. The key lemma is `EraseTarget`: when a reactor erases,
the map holds the Context it handles or none. The last two parts are where a
race matters, hence `proc = "up"` in them; an overlapping operation is the only
way to lose an entry.

It is `BuildingSound` that makes the model's surprise visible: the object is
safe during its construction only because the erase of its descriptor finds
nothing, and the same fact is the leak that `connections_leak` shows.

`HealthyStay` needs `StateSound` besides: outside of its constructor a Context is
CLOSED or INVALID only when its client went. What was garbage before is gone with
the assignment (`SetValid`), and a read or a write that fails is one to a client
that went.

`AppCallbacksImplemented` needs `CallbackSound` besides: a reactor that is in a
callback of a Context read its `__onRecv`, so the acceptor is past `onConn`
with it, and (with `HeldSound`) no other reactor is. `LifeMoves` and
`LifeStays` then map every step to a step of `AppCallbacks` or to a stutter.

### ThreadPool

For any finite set of workers and any jobs, endless ones among them, from
`PoolAssumption` alone:

| Theorem | Statement |
|---|---|
| `PoolInvariance` | `Spec => []PoolInv` |
| `PoolTypes` | `Spec => []TypeOK` |
| `JobsAreConserved` | `Spec => []JobsConserved` |
| `WakeupsAreKept` | `Spec => []NoLostWakeup` |
| `DestructorLeavesNothing` | `Workers # {}` implies `Spec => []DestructorDrains` |
| `StartsInOrder` | `Spec => Q!SafeSpec`, of `WorkQueue` |

The argument. `PoolInv` is `TypeOK`, `JobsConserved`, `NoLostWakeup`, `StopSound`, `Drained`
and `RefusedLast`. `NoLostWakeup` counts: while somebody waits on `__qchange`, there are
no more queued jobs than workers on their way to the queue and `notify_one`s
still to come; each of submitting, notifying, taking, going to sleep and waking
up keeps the count, and a worker goes to sleep only when the queue is empty.
`DestructorDrains` is not inductive: it holds since a worker leaves only when
the pool is stopped and the queue is empty, and from then on only refused jobs
can enter it, which is `Drained`; that they are refused needs `StopSound`.
`Workers # {}` is needed, not convenient: `ThreadPool` starts
`hardware_concurrency()` threads (threadpool.hpp:22), which may be 0, and such
a pool is destroyed with every job it accepted still in the queue.

`WorkQueue` is about the accepted jobs, but a refused one is in `jobs` too.
`RefusedLast` says that these stand at the end, since the pool never starts again
once it is stopped; so the accepted ones are the first `n` of the queue
(`AcceptedFirst`), the mapping needs no filter that skips, and a worker that
takes a job takes the head of the abstract queue or finds that queue empty.
That fewer than `Width` jobs run then counts the other workers' tasks. The
fairness of `WorkQueue!Start` stays with TLC.

### ClangTidy

For any finite, non-empty set of threads and any number of entries, from
`TidyAssumption` alone:

| Theorem | Statement |
|---|---|
| `TidyInvariant` | `Spec => []TidyInv` |
| `ExitStatus` | `Spec => []StatusTellsFailures` |

The argument. When `join` returns, `unfinished` is 0; that nothing is left then is
what has to be shown. `TasksCounted` says that `unfinished` counts the queue and
the threads with a task, those that died included (`BusyMore`, `BusyLess` and
`BusySame` are the three ways a thread changes that number), so the queue is
empty and no thread is busy; `EntriesKept` then leaves `finished` as the only
place an entry can be, and `FailuresListed` makes `failed_files` complete.
`FailuresListed` needs the fact that a thread that prints a failing entry has
listed it already, which is the order of run_clang_tidy.py:174-176.

### Stream

For any size of the reader's buffer, room in the kernel, calls of the application
and amounts of bytes, from `StreamAssumption` alone:

| Theorem | Statement |
|---|---|
| `StreamInvariance` | `Spec => []StreamInv` |
| `ReadingConserves` | `Spec => []ReadConserved` |
| `WritingConserves` | `Spec => []WriteConserved` |
| `NoEdgeLost` | `Spec => []EdgesArmed` |

The argument. Bytes are numbered, so that each conservation says that some
sequences, one behind the other, are `Bytes(1, n)`. `ReadConserved` is inductive
with the types: `ReceivedAppends` says that one turn of `__reader`'s buffer
appends what was read, and the other steps move a boundary between two
neighbours (`HeadMoves`). `WriteConserved` is not: inside `writeFile` bytes are counted as
written that are still in the file, which is `Outgoing`, and what is left of the
file is the end of the call's data, which is `CallData`. `EdgesArmed` speaks of a
thread at `epoll_wait` only; `EdgeKept` follows an edge through the turn that has
taken it: it is on the ready list, among the events that were reported, or in
the loop that drains the queue or the buffer. `GoodState` is needed for the
assertions on `__state`, which end the process otherwise.

### HttpParser

For both parsers, any set of digits and any bounds, from the assumptions on the
constants:

| Theorem | Statement |
|---|---|
| `ParserInvariance` | `Spec => []ParserInv` |
| `HeadIsRead` | `Spec => []HeadAgrees` |
| `MessageIsWhole` | `Spec => []ContentComplete` |
| `BackIsDefined` | `Spec => []HeaderToFill` |
| `SizesReadAfresh` | `Spec => []SizesAreFresh`, a part of `ParserInv` |
| `ParserFrames` | `Spec => ImplementsHttpFraming` |

The argument. `HeadAgrees` looks at the parser between two lines; what holds
within a line is `HeadersTaken`: the sizes are those of all headers but the last,
or of that one already, as a header that goes on in the next line is taken twice. It
rests on `LengthBy` and `ChunkedBy` of the first `k` headers not depending on the
others (`SameHeaders`, `LastHeader`). `ContentComplete` needs `Untouched` (nothing
of the body is known before its part of the message) and `PartsDue` (only a
chunked message has chunks, and a body whose bytes come has some to come).
`ParserFrames` maps each state to its phase of `HttpFraming`; `MoveFrames`,
`HeadFrames`, `BodyFrames` and `RejectFrames` are its cases. The numbers themselves
are recursive functions of the digits, and `NumberType` needs induction.

### LintRun

For any set of worlds, of any files, configurations and command lines with the
types of `WorldsAssumption`:

| Theorem | Statement |
|---|---|
| `LintInvariant` | `Spec => []LintInv` |
| `FiltersAreRestored` | `Spec => []FiltersRestored` |
| `NearestDecides` | `Spec => []NearestConfigDecides` |
| `CountsAreOfThePrinted` | `Spec => []CountsAgree` |

The argument. That every file starts with the filters of the command line is not
inductive: `BackupKept` adds that the backup holds them while a file is at work,
and that reading CPPLINT.cfg files does not touch the filters before all of them
are read. `WalkKept` is about the walk upwards: of the lines of filters
collected below some level, the first that is about a category is that of the
nearest directory that has one; applied in reverse, behind the command line's,
the first becomes the last that matches, which decides. `SuppressionsKept` says
that while a file is linted the suppressions are those of its own lines so far
and of its marks, so that a comment of the file before is not among them.
`ErrorsKept` puts these together: what is printed is deserved at any time, and
once a file is linted everything deserved is printed, whether the file is linted
for the first time or again. `CountsKept` says that `errors_by_category` is, as a
function, the one that counts what is printed, from which `CountsAgree` follows.
The reports of the checks that read one line are any sequence of reports
(`Reports`); those about a line's length are modelled by its width, and no
configuration is said to decide about them, as their limit is a global that
configurations change for good.

### LintFile

For any tokens, any set of files of lines of them, any headers and any triggers,
from `FilesAssumption` (what `Prepare` puts in a line is a token, and files are
files):

| Theorem | Statement |
|---|---|
| `LintFileInvariant` | `Spec => []LintFileInv` |
| `NolintIsHonoured` | `Spec => []NolintHonoured` |
| `ActiveLinesStack` | `Spec => []StackOfActiveLines` |
| `HeadersKnown` | `Spec => []IncludesKnown` |
| `CodeSeen` | `Spec => []CodeKept` |

`LintFileInv` is `TypeOK` and five parts, of which `CommentsParsed` and `PrintedIsDue`
are about NOLINT, `PartsKept` about the nesting, `IncludesListed` and `NoneAhead` about
the includes.

NOLINT. `Error` decides when a report is made, under the comments parsed so
far; `NolintHonoured` says what the comments of the whole file say. `CommentsParsed`
is the bridge: all comments of the lines before the one at work are parsed, and
none that is not in the file. `PrintedIsDue` then keeps the history and what is
printed in step. For a report on the line at work, or on an earlier one, every
comment that is about it stands on a line that was parsed (`CoveredWhenSilenced`);
for one on a line to come there is `Ahead`, if it is that of the trailing
semicolon, and nothing otherwise, which is `Early`. At the end of the file all
lines are parsed, so the errors about lines far back need nothing else.

What each check may report is needed for this, and no more: `Placed` says that its
category is one that a comment can name, and that readability/braces is reported
where `Ahead` looked. It is shown of every check (`LengthLists`, `LanguageLists`,
`WhatLists` and the others), for which the nesting and the cleansed lines need
their types: that `Update` never takes the last of an empty stack
(`ConsumeTokenType`) is part of that. The functions fold over tokens and lines
with `FoldLeft`; `FiniteFold` says that such a fold has a value for each number of
elements, `FoldStays` that it stays in a set that each step keeps, and `FoldGrows`
the same of a set that depends on the position reached. `ErrorsPrint` is what `Error` does
to a list of reports.

Nesting. That the stack is right says nothing of what `pp_stack` holds, and an
`#else` or an `#endif` replaces the stack by what is there; `PartsKept` says what
that is. The entries of `pp_stack` are those of the conditionals around the line, from
the outermost to the innermost (`Restorable`); each holds the stack before its `#if`,
and once an `#else` was seen the one after its first part, both as `StackOf` the lines
that count there. The lemmas come in three layers. How the conditionals of a file
relate from one line to the next: `EndOfIs`, `PartGrows`, `NestedIf`, `NestedElse`,
`NestedEndif`, `NestedPlain` (a line is inside what the line before it was inside,
except for what an `#if` opens and an `#endif` closes). Which lines count then:
`CountsSame`, `CountsSamePart`, `StackClosed`, `StackOfFirstPart` (a part that is left
stops counting, and closing a conditional makes its first part count again). And
what each directive leaves of every entry: `IfLeaves`, `ElseLeaves`, `EndifLeaves`,
`PlainLeaves`, put together in `UpdateRestores`. `StackOfAgrees` says that a stack
depends on which of the lines count and on nothing else, so that no property of
`UpdateStack` is needed but its type.

Includes. A list is cleared by the `#else` that finds it last, which is not always
the one of its own conditional. So what is said of a line's include is `Forgotten`:
there is an `#else` after it, and no `#if` between. `IncludesListed` gives the lists
exactly, for a file of which no line was skipped as inline assembly (`ProcessLine`
returns before `CheckLanguage` sees a directive there): the include of a line is in the list that belongs to the last `#if` before it
(`SectionGrows`: two lines have the same list when no `#if` stands between them); what
the lists hold is not forgotten; and of a header with an include that is not, they
hold one at least as early. `ListedIf`, `ListedElse`, `ListedStays` and `ListedNew`
are the four things a line does to them, and `LanguageTells` says when
`CheckIncludeLine` tells of a header. `NoneAhead` is needed since reports are kept as a
set: nothing has been told of a line before it comes. `IncludesInv` says the same in
the form in which it is inductive, with what is `Missing` at the end. `IncludesKnown`
follows because an include outside of every conditional is never forgotten
(`OutsideStays`: the conditional of the `#else` would be around both, or its `#if`
would be between), and one in another part always is (`ExclusiveGone`).

Comments. Each pass is a fold over tokens; `RawLineGrows`, `CollapsingGrows`,
`UncommentingGrows` and `LexGrows` say what one more token does to each. The passes
run one after the other, the reading by C++ at once; they are compared after every
token of a line (`PassesAgree`): how far the raw strings have been taken out, what
`Collapsing` makes of that, and what `Uncommenting` makes of the result. In code, all
three are in their initial state and what is left is the code so far; in a string
the second holds text back, and in a comment the third; and once a `//` was read the
text before it stays, which is all that `SingleLine` keeps. `StepInCode`,
`StepElsewhere` and `StepInLine` keep this for each kind of token (`LineInStep`), and at
the end of a line nothing is held back (`EndOfLine`), so that `LineKept` holds of every
line that starts and ends in no comment. The others are those that are blanked
(`CommentsAre`: `CommentOpens` and `CommentEnds` say that `RemoveMultiLineComments` sees a
comment begin and end on the lines where C++ does), and nothing is left of them
(`BlankLine`), as they hold no code (`BlankedCode`). `TextKept` puts the lines together;
the rest is that `elided` is what `Prepare` made of the file.

### Recursion

What recursive functions compute is within reach. `SetInduction` says that a set with
0 and every successor is all of `Nat`; it is proved by a pigeonhole argument over
finite sets, without an operator as a parameter. `FiniteRecursion` then shows that
a recursive function over `0 .. n` exists, and `RecursionStays` that its values
stay in a set that each step keeps. So `Errors`, `Kept`, `Options`, `AddAll` and
`Number` are written as recursive functions, and what they compute is proved.

## What only TLC checks

- Liveness, under the fairness above, that of `WorkQueue` included: the prover has
  no rule for `ENABLED` that would reach these specifications.
- The findings: what a `violation` run shows is a counterexample, not a theorem.

## Where the code and its documentation disagree

Each is a run that ends in a counterexample.

1. `connections_leak`: hang-up between `EPOLL_CTL_ADD` and the insertion into
   `__contextes` leaks the Context and its socket (README.md:7).
2. `connections_lostedge`: data that comes before `onRecv` is set stays unread
   or unannounced until more comes (README.md:18-22).
3. `stream_sync`: `syncWrite` does not advance `buf` after a short write
   (context.cpp:152, 159).
4. `stream_eof`: data that is followed by the end of file is dropped
   (context.cpp:110, 129-132).

Others have no run of their own. A handler may run before `__state` is assigned
and meet `assert(__state != MOVED)` (context.cpp:29, 42, 92), or destroy the
Context of a client that stays: what it may see is a choice of `Connections`, its
properties hold for all of it, and `HealthyKept` says that once `__state` is
assigned a Context is given up for a client that went only.
`asyncRunJob` throws after it queued the job (threadpool.hpp:36-39), so that a job
that was refused may run: `Enqueue` does the same, and the drain exempts such
jobs. What the scripts do against their words is told with their modules.

## What is not modelled

- The body of the data race on `__contextes`, and of the one on `__wbuffer`
  when `onConn` writes while the reactor flushes: their outcomes are
  unbounded. The first is a choice of the model (`MapRace`); the second is
  left to the callbacks' order.
- `Acceptor`'s own reactor loop and its blocking `accept`: a queued connection
  can be accepted whenever the thread is idle. Clients do not leave the
  backlog.
- Descriptors that `writeFile` never closes.
- `~Server`: `serve` does not return.
- `write(std::string &&)` and `write(std::vector<char> &&)`, which call
  themselves.
- `disableRead`, `disableWrite`, `setLT`, the overloads for raw descriptors
  and sockets, and the move constructors of Context and IOContext: they have no
  caller.
- Socket and Address: wrappers of system calls, present where they fail or
  block. Log output.
- Of the vendored HTTP parsers, which the core does not use, the URL parser.
- Of cpplint, the checks that read one line and keep nothing, with their regular
  expressions; output formats, `--quiet`, `--root`, `--repository` and the usage
  errors; the copyright and header guard checks, which read the file as a whole
  and change no state.
- `run_clang_format.py`: one loop over directories. Its `had_err` is overwritten
  for each of them (run_clang_format.py:124), so that only the last one decides
  about the exit status.
- CMake files: targets that build the library and call the scripts.

## Plan

Done: `Connections`, `ThreadPool` and `HttpParser` with their abstract
specifications and proofs, `Stream`, `ClangTidy`, `LintRun` and `LintFile` with
proofs.

Next, in this order:

1. Acceptor's loop with a backlog that clients may leave and a blocking
   `accept`, and a budget of descriptors that files share with sockets: the
   acceptor's thread blocks, and the server stops.
2. The `__wbuffer` shared by `onConn` and the reactor: an extension of `Stream`
   by a second thread.
3. The URL parser: what a URL is split into, against a reference definition,
   and the assertion at the end of `parse_` (urlparser.hpp:344).
