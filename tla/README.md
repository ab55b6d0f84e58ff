# TLA+ models of cc_utils

cc_utils is a C library of utilities (a command-line server for daemons, a
red-black tree, fault injection points, lists, a binary log, small algorithms)
with a benchmark of two queues. This directory holds models of its stateful
and concurrent parts, the TLC configurations that check them on small
instances, and TLAPS proofs.

Paths below are those of the repository with the prefix `src/`, as in
`PROJECT.json`, whose "map" gives the source lines of every definition.

## 1. Inventory

| Component | State | Operations | What is hard | Correct when |
|---|---|---|---|---|
| CLI server `src/src/cli/cli_server.c` | `cmd_handler` (state, socket, wakeup pipe, thread, output buffer), the socket file, exit and signal hooks | `cli_create`, `cli_destroy`, poll thread `msg_poll`/`do_accept`, `remove_all_cleanup_files`, `common_signal` | two threads share the handler without a lock; the thread starts before the handler is filled in; exit and SIGINT at any point; system calls fail half-way; clients die | replies are exact, nothing is used after `free`, `cli_destroy` returns, clients are not forgotten |
| CLI output buffer (same file, `cmdprint_t`) | `buf`, `buf_size`, `pos` | `cdp_init`, `cdp_print`, `cdp_output`, `cdp_reinit`, `cdp_destroy` | growth by one doubling at the limit, shrinking, reuse by the next client | no store outside the allocation; output = what was printed |
| CLI command table (same file) | `commands[1024]`, static `regcnt`, spin lock | `cli_register`, `command_find`, `command_execute` | `regcnt` read before the lock, lookup without it | a registered command is found, and the right function is called |
| CLI client `src/src/cli/cli_client.c` | one socket | connect, send, wait with `COMMAND_TIMEOUT`, print | timeout races the reply | the server outlives it |
| CLI codec (`cli_server.c`, `cli_client.c`) | a 1024-byte buffer on either side | `msg_encode`, `msg_decode`, `safe_write`, the byte-wise reads | buffer limits, short and interrupted writes, a client that ends half-way, end of file with nothing read | commands run with the words typed, the client shows what was printed and ends |
| CLI options `src/src/cli/options.c` | getopt's static state between commands | `parse_options` | a pointer into the previous request survives it | a command gets what its user typed and nothing of an earlier one |
| Red-black tree `src/src/rbtree.c`, `src/include/rbtree.h` | links, colors, cached leftmost node | `rb_add`, `rb_erase`, `rb_replace_node`, iteration, `rb_find_first`, postorder walk | eight mirrored cases that hand over to each other, loops with unstated parts of their invariants | red-black, and a sorted list to its users |
| Fault injection `src/src/fault_inject.c` | tree of faults by name with window and counter | register, unregister, enable, init, reinit, `fault_inject_cond_get` | every program thread evaluates faults without a lock while a controller changes them | exactly the configured window fires; never early |
| Benchmark queues `src/benchmark/cas_queue.cc` | `head`, `last`, next pointers | push, pop of a batch, the threads | two compare-and-swaps per push against a detaching consumer; nodes reused with stale links | no node lost, duplicated or reordered; the benchmark ends |
| Lists `src/include/list.h` | links | insert, remove, concat, splice | empty, single and last element | refine sequences |
| Binary log `src/src/binlog/` | one buffer per call, the file; the parser's buffer and position | create, print, destroy; parse | a buffer that moves from the stack to the heap, torn writes, a parser that reads while the log grows, two scanners of the same format | a record is stored whole, the parser shows what was logged, in order |
| Bitmap, number conversion, point array | one array or none | get and set, `str_to_int` | limits of bytes, rows and integer widths | one element changes; the value is exact |
| Spin lock, mock, allocation wrappers, JSON, RDMA example | little or none | | | see `PROJECT.json` |

Interaction: the poll thread of the CLI server runs handlers that print into
the output buffer and are found in the command table; the client talks to the
poll thread over the Unix socket; fault injection keeps its faults in a
red-black tree and is steered by a CLI command in `cli_server_example.c`. The
queues stand alone. There are no messages other than the CLI's request and
reply, and nothing is persisted but the socket file and the binary log.

## 2. Modules

    CmdPrint       output buffer
    CliProtocol    one request and its reply (EXTENDS CmdPrint)
    CliServer      main thread, poll thread, clients (INSTANCE CmdPrint)
    CliRegistry    command table
    BatchQueue     abstract queue of batches
    Chains         links read as sequences
    CasQueue       lock-free queue   } both implement BatchQueue,
    SpinQueue      spin-locked queue } both use Chains
    SortedList     abstract list in key order
    RbTree         red-black tree, implements SortedList
    FaultInject    fault injection points
    NodeLists      abstract lists of nodes
    Lists          the four intrusive lists, each implements NodeLists
    BinlogFormat   the two scanners of a format string
    Binlog         log writers, the file, the parser (EXTENDS BinlogFormat)
    Arrays         bitmap and point array
    NumConvert     str_to_int
    Options        parse_options over a model of getopt_long
    Utils          calls of the sequential parts (EXTENDS Arrays, NumConvert,
                   Options, BinlogFormat)
    XProofs        theorems about X, for CmdPrint, CliServer (INSTANCE
                   CmdPrintProofs), CliRegistry, FaultInject, Chains, SpinQueue,
                   CasQueue and Binlog (the last three EXTEND ChainsProofs)
    MC*            the small instances

Operators commented "faulty variant" precede some definitions: the same code
with one plausible slip. Each one makes the property it is listed with in
`PROJECT.json` ("mutants") fail, which shows that the property looks at that code at all. They are not used otherwise.

### CmdPrint
Memory is a function from offsets to cells; a cell is the tag of the print it
came from, `NUL`, or `JUNK` (what `malloc` and `realloc` leave). The five
functions hold `cdp->mutex` from start to end, so each is one action.
Formatting is reduced to its length `off`; empty, failed and truncated results
are refused as in the code (`Accepted`). `CString` is what `strlen` sees.

### CliProtocol
What CliServer takes as one step, byte by byte. The client checks its words,
encodes them into its buffer and writes them in pieces; `do_accept` reads up to
`\r\n`, decodes, runs the command, whose prints go through the actions of
`CmdPrint`, and writes `cdp_output` in pieces; the client reads byte by byte
into the same buffer and prints it whenever it is full and at the end of file.
Clients come one after the other, as do_accept serves them, so the output
buffer carries its size from one to the next. `Wrote` and `Interrupted` are the
two ways `safe_write` goes round its loop. The limits of the client allow a
message longer than its buffer: then it ends (`smashed`) or sends it all the
same, and the server drops it. A read of a length where none is stored makes the
server `dead`, after which nothing is said of it; `CliServer` takes that up as a
crash with a cause. At the end of
a reply that fills the buffer exactly, and of an empty one, the client's loop prints
the buffer's stale first byte; `LinesOf` states that, and nothing else, as the
difference between what was printed and what is shown.

### CliServer
`main` is the program counter of the application's thread through
`cli_create` and `cli_destroy`, `thread` that of the poll thread. Every step
between two accesses that the other side can observe is an action:
`CreateBind`, `CreatePipe`, `CreateThread`, `CreateCdp`, `CreatePublish`,
`CreateHooks`, `Register`, `CreateReturns`; `DestroyDown`, `DestroyWakeup`, `DestroyJoin`, `DestroyFree`,
`DestroyClear`. As in the code the thread is started before the buffer and the
state are initialised, so `h.state` starts as any member of `GarbageState` and
using the buffer in that window is undefined behaviour (`proc = "ub"`, after
which nothing is claimed). `bind_and_listen` follows the code: a second `bind` without an
`unlink`, and a positive error code that the caller takes for success. Failures: `pipe`, `pthread_create`, an
interrupted `poll` (the code compares `ret` with `EINTR`, so the thread ends).
SIGINT and exit may come at any point. A client connects, sends a request
(known, unknown, too long, or malformed), may be killed with part of it sent, may
give up waiting. A write to a client that is gone raises SIGPIPE.

The last thing `cli_create` does, with the poll thread already running, is to
register its own commands; the application registers more of them later. `entry` is the
one table entry that the "known" requests ask for: the lookup takes no lock, so it may
find the name (`FindCommand`) when `execute` is not there yet (`CallCommand`
through NULL). The table as a whole is `CliRegistry`. Nothing can be registered
before the first `cli_create`: `cli_register` takes its lock from `cmd_handler`.

A malformed request is one with `\r\n` inside a word. `do_accept` takes it for
complete there, and `msg_decode` reads the rest from what the stack held: one of
its three assertions fails, `argv` is overrun, or it comes out with some name
(`DecodeMalformed`).

`CrashesExplained` says for each kind of crash in the model what has to come
together for it. It is no list of all the ways the process could die: the commands' own
functions, failing `malloc`s and the like are outside the model. Undefined
behaviour needs a malformed request, a request served between `pthread_create` and
`cdp_init`, a SIGINT between `free(cmd_handler)` and `cmd_handler = NULL`, or the
join of a thread that was not created; `abort` a malformed request; a call through
NULL a request for the command that is just being registered, and never one whose
`cli_register` has returned; a NULL `cmd_handler` in the exit hook a `cli_destroy`
that has cleared it; SIGPIPE a client that gave up during its own command.

### CliRegistry
`cli_register` is split at the unlocked check, the lock, the scan, the stores
of the two fields (in either order, since the reader takes no lock) and the
unlock; `command_find` is split per slot.

### CasQueue, SpinQueue
One step per access to shared memory; the `__sync` builtins are full barriers,
so memory is sequentially consistent. `CasQueue` also models the outer loop
of the benchmark (`Rerun`), which reuses the nodes without clearing `next`.
The refinement mapping is `queue <- Contents`, the chain from `head.next` to
`last`. The abstract push happens at the second compare-and-swap, the abstract
pop at its compare-and-swap or, when a producer was faster, at the store of
`head.next`. The benchmark starts a single consumer for either queue; `SpinQueue`
allows several, because its pop tests for emptiness before it locks and then
handles the case that the queue has become empty.

### RbTree
Insertion, erasure and replacement start an operation; each iteration of the
loops in `__rb_insert` and `____rb_erase_color` is one step, so that the loop
invariants in the code's comments can be checked between iterations. The
mirrored halves are one definition over a side `d`. The word
`__rb_parent_color` is split into parent and color. The search, iteration and
postorder functions are recursive functions over the links and are compared
with the in-order sequence in every idle state. The augmented variants are
modelled with the callbacks that `RB_DECLARE_CALLBACKS_MAX` makes: every node
has a weight and the maximum of its subtree. As the code asks of its callers,
insertion updates the path above the new leaf before it rebalances;
`propagate` stops at the first node whose value stays the same. `AugmentedMax`
says that every node holds the maximum of its subtree at every step, between
the rotations too.

### FaultInject
`fault_inject_cond_get` is split at each access of the shared fault:
`enable`, the load and the store of `++hit_times`, the two comparisons of the window
(`ReadAfter`, `CheckWindow`; the second may use the `after_times` read for the first
or read it again, as the compiler likes), callback and sleep, and the caller's use
of the result. `fault_inject_init` and `fault_inject_reset` make one store per step in
the order of the source: `enable_times`, `after_times`, `enable`, `hit_times`;
`sleep_time` and `inject_err` decide nothing here. A fault is `raced` from the
first of these stores on, and after the last one if an evaluation was under way
then; the properties except it. `hit_times` is an
`int32_t` that wraps at `IntMax`. The history variable `hist` counts
evaluations and passes since the last reset. `fault_inject_unregister` may free
a fault that a thread is evaluating: the code leaves it to the caller to
prevent that, and the model gives the call up as undefined (`UseFreed`).

### Lists
A behaviour picks one of the four kinds in `Init` and makes any calls of that
kind on two lists. `m.next` and `m.prev` are the memory: `next` of a head is
`first` (or `head.next`), `prev` of a head is `last` (or `head.prev`), and the
`prev` of a `dl` node, the address of a `next` field, is the owner of that
field. So `dl_add_head`, `dl_add_after` and `dl_add_after_prevptr` are one
operator. Links of removed and freed nodes become `JUNK`: whoever reads them is
caught. The recorded `call` ties each function to the abstract operation of its
name and to its result; otherwise a function that did some other legal thing
would pass. `dl_del_head_and_init_node` is the one function that does not do what it
is named for: it keeps the only node of a list and dereferences the NULL `first`
of an empty one (`op = "segv"`, after which the behaviour ends). The abstract
operation is the plain removal of the head, and `ImplementsNodeLists` names these
two cases as its exception (`ShortListDefect`).
Callers are held to what the functions need: a node to be added is in no
list, `dtq_del_and_init_node`, `dtq_move_and_add_tail` and `dl_del` get a node that
is in a list or was initialised after its removal. The read-write-locked
wrappers do one call under the lock and are not modelled separately.

### Binlog, BinlogFormat
Each thread formats a record into a buffer of its own: `print_begin` stores the
prefix, `PrintArg` one argument each with its room check
(`binlog_maybe_realloc`: from the stack to the heap, then `realloc`),
`print_end` stores the length and the end mark and appends the record with one
`write`, whose result the code does not look at: `PrintEnd(t, n)` writes any
number of cells from `Cuts`. The process may crash with records unwritten. The
parser takes the size of the file, reads it through a buffer of fixed size while
the log may grow, and finds each format under the record's key in the JSON file.
A file is a sequence of cells; a tag, a character, the length and an int are one
cell, the eight byte types two.
`BinlogFormat` holds both scanners of a format string, `do_valog` of the writer
and `print_format` of the parser, and what C itself takes for the format.
`Record.args` are the arguments the caller passes, `Record.logged` those that
`do_valog` takes for them; they differ after `%%` and `.*`, which only the
parser's scanner knows. `FormatsAgree` states exactly for which formats each
scanner's arguments are C's: neither knows the `long double` of `%Lg`, which both take
for a `double` ("Fake it and hope for the best"), and the writer is also wrong after `.*`
and after `%%`, unless a conversion follows at once. Formats with a `long double` are
kept out of `Binlog` by `BinlogAssumption`. A number that the caller did not pass is logged as `ANY`;
formats with which `do_valog` would follow such a number as a string are excluded
by `BinlogAssumption`, since what is then read is undefined.

The parser prints to a `FILE` that nothing flushes or closes. `p.out` is what it has
printed, `p.saved` how much of that has reached the output file: any amount on the way,
all of it when the process exits, and no more than before when an assertion
aborts it. `memcpy` in `binlog_parse_read` moves the rest of the buffer to its front; if
more is left than lies before it (`Overlaps`) the regions overlap, which is
undefined: the parser ends as `"ub"` or goes on with the rest moved correctly.

### Utils
A behaviour picks one sequential part and calls it any number of times. The
arrays keep state from call to call, and so does getopt: `Options` models
`nextchar`, which `parse_options` does not reset. A short option without argument that
ends a command (`-h`, or one that is not known) leaves it pointing into the words of
a finished request, and so do all later commands that have no option of their own: a
`getopt_long` that returns -1 keeps it. The next call starts on any member of
`Leftovers`, also the empty one. `ParsesWhatWasTyped` says when the pointer
dangles and what a command gets in that case: what lies there in place of its
first word, if anything does, and else what was typed.
`NumConvert` has the widths of `int` and `long` as parameters.

## 3. Runs

| Run | Bounds | Shows |
|---|---|---|
| cli_protocol | 10 command lines, words of up to 2 characters and up to 2 arguments pass the client's checks, buffers of 9 cells, output buffer of 3 cells growing to 12, shrunk above 8, prints up to 3 | commands run with exactly the words typed; the client shows exactly what was printed, over growth, shrinking and pieces; every client ends |
| cli_server | 2 clients, both mortal, 2 calls of `cli_create`, one command to register, all garbage states and failures, buffer 2 growing to 4 | exact replies, no use after free, every modelled crash has its cause; `cli_destroy` returns, clients finish |
| cli_registry | 2 threads with 2 calls each, table of 3 | a registered command is found and the right function called without the lock, entries and their count stay in step at a full table |
| cas_queue | 2 producers with 2 nodes each, 2 iterations | refinement, exact walk, termination with stale links |
| spin_queue | 2 producers with 2 nodes each, 2 consumers | refinement, exact walk |
| rb_tree | 10 nodes, two with equal keys, all sequences | links, loop invariants (red-black when no loop runs), climbing loops, traversals, augmented maxima, refinement |
| lists | 2 lists, 4 nodes, one kind at a time, symmetric nodes and lists | each call but one does what it is named for, and that one only as stated; tail and back links in step |
| fault_inject | 2 symmetric threads, 1 fault, 5 evaluations, 4 controller calls, `INT_MAX` = 4, 3 windows | exact window for evaluations that do not overlap, never more counts than evaluations, never early |
| binlog | 2 threads, 3 records of 4 to 11 cells, stack buffer of 3 cells, parser buffer of 10, one write cut to 0, 1 or 5 cells | buffers hold the record, parsing in order and complete, every modelled failure of the parser has its cause |
| utils | all strings of up to 3 symbols for a 5-bit int and 8-bit long; all pairs of format pieces; all pairs of 16 pieces of a command line; 10 bits, 7 pointers in rows of 3 | agreement with the reference definitions, and where the two scanners and getopt depart from them |
| cli_create_listens, cli_eintr | as cli_server (no failures) and cli_protocol (with signals) | two disagreements, section 5 |

Why the bounds are enough to be interesting. The output buffer keeps the
proportions of 4096, 10240 and 1024: two growths happen before a shrink. Nine
cells of client buffer hold a command with one argument and not with two, and replies of
up to 12 cells pass it; so each limit is met from both sides. Two
clients and two creations give every hand-over of the shared buffer and of the
socket file. A table of three slots becomes full with two threads past the
unlocked check; the code keeps one slot in reserve, so three such threads could
lose a registration (listed as a hazard). Two nodes per producer give a push
onto `HEAD`, onto a live node and onto a detached one. Ten nodes are the least
with which `____rb_erase_color` climbs: with eight its `continue` is never
reached. Five evaluations pass `INT_MAX` = 4, so the counter wraps. Four nodes give
every append of lists of up to two nodes and removals at both ends and inside.
The log's stack buffer just holds the prefix, so the first argument moves it to
the heap and the end mark needs a `realloc`; records have 4, 8, 9 or 11 cells, so
the parser's buffer of 10 may hold two, end inside a record or before its length, or be
too small for one. Three decimal digits pass both integer limits.

`CHECK_DEADLOCK FALSE` is set where the system may really stop: both processes
after the server has died, the server process after its end, the table when all bounded
calls are made, the fault points when the bounds are used up, the lists after the crash
of `dl_del_head_and_init_node`.

Fairness. `CliServer`: weak fairness of both threads (the scheduler runs them),
and a connected client completes its request or dies; nobody has to connect,
time out, call `cli_destroy` or exit, and a handler need not print. The part about
clients is an assumption the code does not enforce: a client that connects and then neither
sends nor dies holds the only thread in `read`, and with it `cli_destroy` and all other
clients, for ever. `DestroyReturns` and `ClientsFinish` say nothing of that case. A
handler returns (`HandlerReturns` is part of the thread's fairness): handlers
belong to the application. `CliProtocol` (`FairProtoSpec`): both processes keep
running and a command returns; nobody has to start or kill a client or send a
signal. `CasQueue`: every thread keeps being scheduled. The termination of the tree's
loops needs no fairness: `LoopsClimb` is a variant that decreases with every
iteration.

`ClientsFinish` has an exception that the code needs: when the poll thread of a
running server is lost (not created, ended by an interrupted `poll`, or started on
a garbage state that reads as `CLI_DOWN`), clients wait until their own timeout.

`FailuresExplained` and `ParsedInOrder` have the exceptions the parser's code
needs. It has no resynchronisation: a torn record, a record larger than its
buffer, or a format with `%%` or `.*` leads it astray, and nothing is claimed
from there on. On other logs an assertion fails only if the log was empty or grew
meanwhile; every record of the size it took has been printed by then, but how many of
them are in the output file depends on stdio. Memory is misused only if the buffer
ends between the begin mark and the length of a record, or if a record begins in the
first half of a full buffer and does not fit into it, so that it is copied over itself.
`print_format` gets no format only for a key that the JSON file lacks.

## 4. Proofs

Each component's theorems are in a module of their own. Where a theorem states a
property of a run, `PROJECT.json` ("theorems") names it: the run checks it on the
small instance, the theorem for every value of the constants. Every inductive
invariant below was checked by TLC before it was proved. The assumptions are the
`ASSUME`s of the component modules, which TLC evaluates for the instances.

| Component | Proved | Assumptions beyond the kinds of the constants |
|---|---|---|
| CmdPrint | `TypeOK`, `TerminatorInside`, `OutputIsPrinted` | `MaxPrint <= BufInit` (1024 and 4096), no text cell is `NUL` or `JUNK` |
| CliServer | `NoUseAfterFree`, `CrashesExplained`, `ReplyIsExact` | those of CmdPrint |
| CliRegistry | `CallsTheRightOne`, `EntriesStay`; with at most two registering threads `CountsEntries`, `RegisteredIsFound` | none |
| FaultInject | `NeverOvercounts`, `NeverEarly`, `PassesExactWindow` | windows within `0 .. IntMax` |
| Chains | what `Chain` computes on a path (`ChainIs`) | none |
| SpinQueue | `TypeOK`, `ImplementsBatchQueue`, `WalkedIsTaken` | `Producers` is finite, `Count > 0` |
| CasQueue | `ImplementsBatchQueue`, `WalksWhatWasTaken` | `Producers` is finite, `Count > 0` |
| Binlog | `BufferHoldsRecord`, `ParsedInOrder`, `DoneIsComplete`, `FailuresExplained` | the prefix fits the stack buffer; no `long double`; `logs` and `reads` are what the scanners find in a format, and where `do_valog` takes a string the caller passed one |

**CmdPrint.** The buffer has its type (`TypeCorrect`), is never overrun
(`NoOverflow`) and hands out exactly what was printed (`OutputCorrect`), for every
initial size, shrink threshold, print limit and growth bound. `malloc` and
`realloc` succeed: the code does not check them. None of the three is inductive.
`TerminatorInside` is preserved only because the buffer is never smaller than
`BufInit`: from a smaller one a single doubling could fall short.
`OutputIsPrinted` speaks of the first `NUL` and has to know every cell before it.
The strengthening `IInv` adds `Holds`: `pos` is the length of the printed text,
`BufInit <= buf_size`, cell `i` is character `i + 1` and cell `pos` is `NUL`.
`GrownHolds` (growing keeps the text and makes room), `StoreHolds` (storing
extends both in step) and `FreshHolds` carry the argument. TLC checks the three
in the run cli_protocol, whose module extends `CmdPrint`.

**CliServer.** `IInv` has four parts besides two of the properties themselves.
`PhaseInv` says what exists in which phase of `cli_create` and `cli_destroy`: the
handler from its allocation to `free`, the buffer from `cdp_init` on, the thread
only between its creation and the join; `NoUseAfterFree` follows from it.
`ConnInv` says that those in the backlog are distinct, connected, not yet served
and not the one being served, and that a client that is gone is one of those that
may give up; `TextInv` that the buffer holds what the command of the present
connection has printed and is empty otherwise. The exactness of a reply then
comes from the buffer's own invariant and `OutputHolds`, instantiated with the
clients as texts (`Out`): the server's proof never looks at cells.
`CrashesExplained` needs that the socket file exists from `bind` on and that `entry`
is half stored only while the main thread is in `cli_register`.

**CliRegistry.** For any number of threads the slots in use come first, whoever
fills one holds the lock and fills the first free one, only that entry can have
one field without the other, and what the unlocked lookup has passed stays as it
was (`IInv`). `RightOne` and `Stay` need no more. That nothing is lost needs the
number of threads: `RoomInv` says that the threads past the unlocked check and
the slots in use fit into the table, and the check, which keeps one slot in
reserve, ensures that for two threads (`AtMostTwo`) and not for three. So
`Counts` and `Found` are stated for two; with three threads at a table with one
free slot a registration can be dropped silently, which is listed as a hazard.

**FaultInject.** `CountOf` bounds the counter and every count that a thread
holds in a register, between the load and the store and on to the test of the
window, by the evaluations made since the last reset; without the registers it
is not inductive. `NeverEarly` follows: it speaks of every step that passes the
window, unless a reset is under way or overlapped the evaluation (`raced`). Between
the two reads of the window `after_times` of such a fault has not changed, which is
part of `CountOf`. For faults whose evaluations did not overlap, `AloneOf`
makes the bound an equality and `PassOf` counts the passes, one judged
evaluation at a time, as the cardinality of the window so far.

**The queues.** The refinement mapping reads the queue off from the links by a
recursive function, so the proofs carry the sequence itself: `Inv(q, ...)` says
that `q` is the path from `head.next` to `last`, and `ChainIs` that the mapping
then yields `q`. Its proof needs no induction scheme: the least argument at which
the recursive function differs from the path does not exist (`MinNat`, from the
well-foundedness of the naturals). In `SpinQueue` the lock makes the three
stores of a push and the detaching of a batch exclusive; what remains is that
the consumers walk outside it. `rest` holds the nodes each of them has yet to
walk: their links cannot change, since nothing is linked behind a node other than
`last`, and a walk never needs the `next` of its last node. In `CasQueue` several
producers may have linked their nodes behind nodes long detached. `PushInv` says
why only one of them can come through: a producer between its two
compare-and-swaps has its node in `next[old]` if `old` is still `last` or the
head, and in the latter case the queue stays empty and the consumer does not
store to `head.next` before the push is complete. `PopInv` says that the node the
consumer has read as `last` stays in the queue until it is detached, which is why
both ways of detaching (`PopCas`, `PopAdvance`) take a non-empty front.
Next pointers of nodes that are not queued are left arbitrary, so the invariant
holds over any number of iterations with the links that earlier ones left behind.

**Binlog.** `Invariant` holds for any number of threads, formats, arguments,
string lengths, buffer sizes and short writes. It has three parts.
`WriterInv` says that a printing thread's buffer holds the record's cells up to
`offset`, that `total` is the length of the arguments so far, and that the buffer
is at least as large as the one on the stack; `Roomy` and `Stored` show that
`binlog_maybe_realloc` makes enough room and keeps what is there, `FinishedHolds`
that the length `print_end` stores is right. A record's arguments are laid end to
end by `FlattenSeq`, of which the proofs use only one step (`FlattenStep`: one
more argument appends its cells). `FileInv(start)` says that record `i` begins
after `start[i]` cells of the file and that a whole record lies there entirely;
`Appended` extends `start` with each write, torn or not. `Fine(p, start)` says
that the parser's buffer is a window of the file that is full unless it ends
where a record does (`ViewOf`), and that its place is the beginning of the next
record as long as those shown are whole (`AlignOf`). None of the
properties is inductive without these two: whether the assertion in
`binlog_parse_read` holds depends on where earlier reads stopped.
`GetArgsShown` says what the recursive function `GetArgs` reads from a record, by
the least argument that differs (`MinNat`, as for the queues): if it ends well,
exactly the arguments the caller passed, even where the buffer holds only a part
of the record or the two scanners disagree; and on a complete record that they
agree on, it does end well. `DoneIsComplete` follows since `start` is strictly
increasing (`StartMono`) and all that was printed is saved at a normal end.
`OverlapFine` shows for the overlapping `memcpy` that the parser was in one of the
situations `FailuresExplained` names.

Only model-checked: liveness (`DestroyReturns`, `ClientsFinish`, `ClientEnds`,
`BenchmarkEnds`), which is out of the prover's reach; the tree and the lists
(`LinksAgree`, `LoopInvariants`, `Traversals`, `AugmentedMax`, `LoopsClimb`,
`BackLinks` and their refinements), whose invariants speak of recursive functions
over links that change in several places per step; `CliProtocol` and `Utils`,
whose properties compare scanners of strings, recursive functions of their input
whose results for every input would need an induction over it. For the same
reason the scanners of `BinlogFormat` enter the proofs about Binlog only through
`BinlogAssumption`, which TLC evaluates.

## 5. Findings

* `CreateListens`: a comment in `bind_and_listen` announces an `unlink` that is
  not there; a second `cli_create` in a process returns 0 without listening.
* `WritesTheBuffer`: after a `write` that a signal interrupted, `safe_write`, commented
  "Handle EINTR and short writes", goes on one byte earlier and one byte longer.

Behaviour that the properties state as their exceptions, worth knowing when the
code is changed: `exit` after `cli_destroy` crashes in the exit hook
and a client's timeout can end the server through SIGPIPE (`CrashesExplained`);
an evaluating thread may use a fault that was unregistered meanwhile
(`UseFreed`); after `-h` or an unknown short option the next command's parsing
starts on stale memory (`ParsesWhatWasTyped`); the two scanners of the log
disagree on `%%` and `.*` and both log a `long double` as a `double`
(`FormatsAgree`); a parser that aborts loses output it has long printed
(`FailuresExplained`); `dl_del_head_and_init_node` crashes on an empty list and
keeps an only node (`ImplementsNodeLists`); a command may be called through NULL while it is
registered (`CrashesExplained`); the client prints a stale byte after
an empty reply (`ShowsTheReply`).

## 6. Not modelled, and further work

Not modelled, with the reasons:

* `rdma_verbs.c` (hardware), `mock.c` (patches machine code), `json_helper.c`
  (copies fields), the allocation wrappers (no state), `double_to_str`
  (floating point), `bitmap_print` (output only), `third_party` (vendored).
* the `rwstq` and `rwdtq` wrappers of `list.h`: one modelled call each, under a
  read-write lock; `spin.h`, which nothing calls.
* in Lists, calls the functions are not meant for: `dtq_del_and_init_node` of a
  node that a plain `dtq_del` has removed, `dl_prev` of a first node.
* in FaultInject, searches of the fault tree during a rotation (a fault
  is found or not in one step) and names of 63 or more characters.
* in Binlog, time stamps, the level filter, function names longer than the
  stack buffer, formats with a `long double` and formats with which `do_valog` follows a string that was not
  passed (all excluded by `BinlogAssumption`).
* in CliServer, `malloc`, `socket`, `listen` and `accept` are taken to succeed; weak
  memory is not modelled.

What could be proved next: the back and tail links of Lists (`BackLinks`); the
local link invariant of RbTree (`LinksAgree`) for insertion; lemmas on the
arithmetic of Arrays.
