# ioemnetd in TLA+

This directory is the verification project of `ioemnetd`, an Android daemon that
loads iptables rules into netd and watches DNS answers. It models the daemon in
TLA+, from its threads down to the two algorithms behind a reported address (the
database search and the printing of the event), checks it with TLC on small
instances, and proves with TLAPS that what the runs show of safety holds for every
instance.

## The system

The daemon is one process (`binder_client.cpp:254`, `main`) with four threads:

* **main** connects to netd (`NetdBinderInit`, retried every 10 s), parses the
  command line, initialises the shared resources (`dns_client_init`), installs
  `Stop_And_Exit` for SIGINT and SIGTERM, starts the other three and sleeps;
* **firewall_thread** reads the rule file and sends each rule to netd over binder
  (`read_file_line`), then ends;
* **Udp_Server** (`udp_server_loop`, `dns_client.c:133`) receives datagrams on
  127.0.0.1:19330 (one DNS answer each) and puts them in the packet queue;
* **Main_Loop** (`main_loop`, `dns_client.c:332`) takes packets from the queue,
  extracts the addresses with PCRE2, looks each one up in the IP database, and
  writes an event to the security log when one matches the region filter.

On netd's side `oemListener.cpp` answers the rule calls and keeps the listeners
of netd's unsolicited events.

### Inventory

| Component | State | Operations | Interacts by | Hard behaviour | Correct when |
|---|---|---|---|---|---|
| Packet queue (`queue.c`, `queue.h`) | `g_queue` (head, tail, size, len), the nodes' links, `lock` | `QueueInit`, `BufferInQueue`, `BufferOutQueue`, `IsEmptyQueue`, `GetQueueSize`, `bufferDestroy` | shared memory, spin lock | interleaved list surgery, check-then-act over two lock acquisitions, ownership of nodes | first-in first-out, bounded, no leak, no dangling access, nobody starves |
| UDP receiver | socket, buffer | receive, size test, enqueue | queue | drop when full, refused lengths, end on error | never stuck, never unbounded |
| Packet processing (`main_loop`) | one node, locals | dequeue, parse, resolve, filter, log, free | queue, regex, searcher, log | per-packet memory, array limits, failed lookups | each address reported iff it matches the filter, nothing leaks |
| Signal handler (`Stop_And_Exit`) | progress of the teardown | free searcher, vector index, regex, queue, log; exit | interrupts any thread, frees what the others use | runs between any two steps, nested, no lock | the process ends, nothing is used after its free |
| Rule loader (`read_file_line`) | line, table type, retry count | send a rule, check the reply, retry, log | binder to netd, log | netd's death, failed rules, restart of the daemon | each rule is loaded, or logged as failed |
| Rule interface in netd (`set_iptables_rule`) | kernel tables (external) | build the command, execute, answer | binder | failure answers | the caller can tell failure from success |
| Event listeners in netd (`OemNetdListener`) | map of listeners to death recipients | register, unregister, `binderDied` | binder threads, a mutex | registering twice, death before or during registration | every entry is alive or will be removed |
| Startup (`main`, `NetdBinderInit`, `dns_client_init`) | proxies, paths, region | connect, parse, initialise, start | all | partial failure, stale proxy on retry | threads start only on what is initialised |
| IP database searcher (`xdb_searcher.c`) | file handle, vector index | load, search, close | file | bounds of the binary search, parsing of addresses | the answer is the segment that holds the address |
| IP matcher (`ip_resolver.c`) | compiled regex, match data | init, find all, free | PCRE2 | result array of 32 | every match once |
| JSON library (`cJSON.c`) | trees | create, add, print, delete | called by `main_loop` | every allocation may fail; the buffer grows while it is written | lists stay linked, no write leaves the buffer, the text is the tree's |
| Security log (`selog.h`, `libselog.so`) | external | create, configure, write, deinit | two threads write | the header calls it non reentrant | - |

The hazards, line by line, are in `PROJECT.json`.

### Plan

In order of importance; all but the last are done.

1. `PacketFifo`, `BufQueue`, `BufQueueInv`, `BufQueueProofs`: the queue and the two
   loops around it, its abstract specification, refinement, proofs.
2. `Shutdown`: the signal handler against the running queue.
3. `Firewall`, `FirewallProofs`: the rule loader against netd's death, refused rules
   and the daemon's own restarts.
4. `CJson`, `DnsEvent` and their proofs: one packet after another through `main_loop`,
   with the event's tree on the heap and a reference definition of the record that
   should be logged. `JsonPrint` and its proofs: the text of the tree.
5. `XdbSearch`, `XdbProofs`: the lookup against a reference definition, with the
   binary search proved.
6. `OemListener`, `OemListenerProofs`: registration, death notices, the map and its
   recipients.
7. The proofs of what the runs check: `ShutdownProofs`, and the second parts of the other
   proof modules. Every safety property of a passing run is now a theorem.
8. To be composed: a signal after a failed initialisation, with `Shutdown`. The parts
   are there (`LoadFails`, `LocateCrashes` and `Close` in `XdbSearch`, `GetService` in
   `Firewall`); there is no module `Startup`.

## The modules

### PacketFifo

What the queue promises: a bounded first-in first-out channel. A producer holds
one offered packet, which it drops or puts, once; a consumer takes the oldest.

### BufQueue

The queue in memory, and the two loops. Each access to shared memory is a step,
inside the critical sections too: the lock excludes because the lock word says
so, not because the model makes a critical section atomic.

| In the model | In the code |
|---|---|
| `lock`, `AtomicLock`, `AtomicUnlock` | `atomic_lock_api`, `atomic_unlock_api` (`queue.c:16-45`) |
| `head`, `tail`, `size`, `len` | `*g_queue` |
| `prev`, `next`, `data`, `alloc` | the nodes, and which addresses malloc has handed out |
| `pc[t]`, `buf`, `seen`, `node` | a thread's position and its locals |
| `Receive` ... `LogSize` | `udp_server_loop` and `GetQueueSize` |
| `Reject`, `Allocate`, `Push` | `BufferInQueue` and `LIST_RPUSH`, one assignment at a time |
| `empty_*` labels, `Pop` | `IsEmptyQueue`, `BufferOutQueue`, `LIST_LPOP` |
| `Process`, `Free` | the rest of `main_loop`, and `free(node)` |

`order` is a history variable: the nodes in the list, oldest first. A link of a
fresh node has the content `WILD`, which no step may follow. `Reject` covers the
refusal of a packet by its length and a failed malloc. The model takes any number
of producers and consumers, as the queue's functions do; the program has one of
each.

### BufQueueInv, BufQueueProofs

The properties, the inductive invariant and the refinement mapping; and the
proofs about them.

### Shutdown, ShutdownProofs

`Stop_And_Exit` on top of `BufQueue`. A signal pushes a handler on the stack of
any thread, between any two of its steps (`Deliver`); that thread goes no further,
the others do. The handler releases, in the code's order, the searcher's file
(`handle`), the vector index, the regex and its match data, the queue, and the
log; test, free and assignment of NULL are three steps. The vector index has other
three: `TestLength` reads `v_index->length`, through the pointer, `ZeroLength` sets it to
0, and then the index is freed, its pointer kept. `LIST_DESTROY` is one step per
statement. A step on freed memory or through a null pointer has no defined outcome:
`fate` becomes `"undefined"` and the behaviour ends. `MainThread` stands for the threads
that are not in the queue. A handler masks its own signal only, so SIGTERM may interrupt
SIGINT's handler, or run beside it on another thread. Two history variables tell these
apart: `disturbed` (another thread has run, or taken a signal, since a handler began) and
`struck` (the steps before which a handler was interrupted on its own thread).

What can go wrong with two handlers is the vector index. The second one tests the length
in the memory that the first has freed, unless the first has not come that far.
`NestedIsSafe` draws the line: interrupted at a step in `Harmless`, the first teardown is
finished by the second without harm; interrupted later, the process cannot exit without an
access to freed memory. (With a third signal there is a case between the two: what was set
to length 0 and not yet freed is found to be empty.) Two handlers on two threads race for
every step, and nothing is promised of them.

### Firewall, FirewallProofs

One run of the loader after another, and netd.

| In the model | In the code |
|---|---|
| `GetService`, `GetOemNetd` | `NetdBinderInit`, repeated by `main` until it succeeds |
| `mNetd`, `oemNetd`, `netd` | which instance of netd a proxy leads to; the instance that runs, 0 for none |
| `Open`, `OpenFails`, `EndOfFile` | `fopen` and the end of `read_file_line` |
| `ReadHeader`, `ReadRule`, `ReadShort` | what `strstr` makes of a line, and the text left of it (`Sent`) |
| `Call`, `Check` | `set_iptables_rules`, and the `do ... while` loop around it |
| `Execute`, `Answer` | `set_iptables_rule` in netd, iptables-restore, and the reply |
| `NetdDies`, `NetdStarts`, `Crash`, `Restart` | deaths, and init's restarts (`ioemnetd.rc`: not oneshot) |

A line is a record: the table names in its text, what it asks for, whether it
deletes, its length and the length of its line end. Lines are shorter than the
buffer of 1024 characters, and a rule is only appended or deleted. The kernel's
tables outlive netd. `FailureReply` is a constant because the two sides are built
and installed apart (README.md, steps 3 to 5) and the wording is all they agree on: the
unit test expects other replies than the code gives (`tests/test_set_rules.cpp:79`,
`oemListener.cpp:103`). `"ERROR"` stands for a netd the loader was written for.
Whether iptables-restore accepts a command is its own choice (`Fails`), up to
`MaxFailures` times, and for `Refused` rules it never does. init waits 5 s before
it restarts a service, longer than netd works on the last request of the dead
process, hence `Restart`'s guard. `attempts`, `clean`, `strayed` and `complete` are history
variables. That `fp` is never closed, and the sleeps, are left out.

The code takes off the line end and then one character more
(`binder_client.cpp:149-153`). With CR LF that is the CR; a rule whose line ends in LF
alone loses its last character and reaches the kernel without it. An empty line, whose
length is then -1, ends the daemon (`ReadShort`). The model has both; `CleanRunLoadsFile`
speaks of files with CR LF and `LoaderFinishes` of files without empty lines.

A failure is to be retried "up to three times" (`binder_client.cpp:158`), and the limits are
written as 3, but `retryCount` is incremented twice per failure (`:174`, `:190`): the
second attempt is the last (theorem `AttemptsCorrect`). The failure is logged all the same,
because the test for 3 stands between the two increments; that is in `LoadedOrLogged`.
`RetriedAndLogged` is what the comments promise: three attempts, and then the log.

### XdbSearch, XdbProofs

The lookup of an address, from `ip2region_init` to `ip2region_deinit`.

| In the model | In the code |
|---|---|
| `Load`, `LoadFails` | `ip2region_init`; its failure, which `main` ignores |
| `Call`, `Answer` | `search_ip_string` (`dns_client.c`) around `xdb_search_by_string` |
| `Digit`, `PartEnds`, `PartTooLarge`, `BadCharacter` | `xdb_check_ip`, a character per step |
| `Locate`, `Narrow`, `Hit`, `Miss`, `ReadFails`, `ReadPastEnd` | `xdb_search`, a probe per step |
| `Copy`, `CopyFails`, `TooLong` | the region's text, the reading of it, the room for it |
| `Close` | `xdb_close`, `xdb_close_vector_index` |

A database is an array of blocks and, for each cell (the addresses with the same two
leading parts), the number of its first block and that after its last. What is
assumed of a database (`DatabaseAssumption`) is what its generator makes: the blocks
of a cell are in order and the one after them belongs to another cell. A cell without
blocks has <<0, 0>>, the file's header, which the search then reads as if it were a
block; `HasBlocks` marks this case. A database that was not opened ends in
`LocateCrashes` (a seek on the NULL handle) or, on a signal, in a read through the NULL
`v_index`. The largest part of an address is a constant, 255 in the code. The disk may
fail at any read.

### CJson, DnsEvent, CJsonProofs, DnsEventProofs

`CJson` is the heap of cJSON's items and, as operators from a heap to the set of its
outcomes, the calls that `main_loop` makes: every allocation in them may fail.
`DnsEvent` is the body of `main_loop`:

| In the model | In the code |
|---|---|
| `Dequeue`, `ReadPastBlock` | the packet, and the reading of its copy as a string |
| `PraseMessage`, `GetPidName` | its four fields, the process's name |
| `FindMatch`, `MatchOverrun`, `MatchEnd` | `regex_find_all` |
| `LookUp`, `LookUpNull`, `FilterEnd` | the loop over the addresses and the region filter |
| `CreateEvent`, `AddField`, `CreateArray`, `AddAddress`, `AddArray` | the event |
| `PrintEvent`, `LogWrite` | `cJSON_Print`, `log_write` |
| `FreeName`, `FreeMatches`, `FreeNode` | what is freed |

The copy of a datagram in the queue is cut before the NUL that the UDP thread has set
(`queue.c:103-110`), and `main_loop` prints, parses and matches it as a string. Unless the
datagram itself holds a NUL (`ended`) this reads past the malloc'ed block, which has no
defined outcome (`ReadPastBlock`); or, as the build does it, goes on over the bytes behind
the block up to a NUL. A packet therefore has a set of texts it may be read as
(`readings`), and a text is the addresses in it. `RecordIsRight` compares the record with
what was read; an address in it may be from behind the datagram, which is against the
intent at `dns_client.c:166` and is caught by no property. The regex goes over
the whole message, so an address may also come from the domain's name. Facts about
the code that the model shows, and its properties take as they are: a failed lookup
counts as wanted; with a value of `-r` other than 0 and 1 only failed lookups are
reported; the event is never deleted (`OnlyTheEventStays` says that it, whole, is what
stays, and nothing else) and the strings for an array that could not be created are
lost. Four outcomes have no definition, and the model stops there: the reading past the
block, more addresses than `match_results` has slots, the lookup of an address whose copy
failed, a field too long for its buffer. No property says that they do not occur: they do.
`owned` (what `main_loop` has allocated itself) and `failed` are
history variables.

### JsonPrint, JsonPrintProofs

`cJSON_Print`: the walk over the tree and the buffer behind it. The recursion is the
sequence `stack`, one frame per open object or array. Each writer asks `ensure` for a
number of bytes, writes, and either advances `offset` itself or leaves it to
`update_offset`, which looks for the NUL. Text is a sequence of tokens with places and
sizes, and a write hides whatever was behind its place. The reallocation may fail
wherever it is made: `ensure` then frees the block and sets `p->buffer` to NULL, and
`print` frees what `p->buffer` leads to. The block (`buffer`) and the pointer (`pointer`:
not NULL) are two variables, and a block that is freed a second time shows (`"twice"`).
`Rendering` is the reference: the tree's tokens in order. The items
of a tree are numbered so that each comes before its children and before its next sibling
(`IsTree`); the code has no numbers, and every tree can be numbered so. That a number's or an escaped character's text is right is not modelled, only its length.

### OemListener, OemListenerProofs

Calls of `registerOemUnsolicitedEventListener` on netd's binder threads, and the death
notices that remove an entry.

| In the model | In the code |
|---|---|
| `Arrive`, `Return` | binder brings a call in and takes its reply |
| `Lock`, `LinkToDeath`, `Insert`, `Unlock` | `registerOemUnsolicitedEventListenerInternal` |
| `OnRegistered` | the call back to the listener, outside the mutex; it may call again |
| `Die`, `SendObituary`, `ReportDeath` | a client's death, and what binder makes of it (external) |
| `DiedLock`, `Erase`, `DiedUnlock` | `binderDied`, `unregisterOemUnsolicitedEventListenerInternal` |

A remote listener is a new proxy in every call, a local one is the same object; what
binder does with deaths is modelled from how the code uses it: a client's death is
reported once, to each recipient in turn, and a link made afterwards is refused. The
code ignores that refusal, so a listener whose binder was already known to be dead stays
in the map for good; two properties name this exception. The header declares
`mOemUnsolListenerMap` and the code uses `mOemUnsolicitedMap`; the model has the latter.

### The MC modules

`MCBufQueue`, `MCShutdown`, `MCFirewall`, `MCXdb`, `MCDnsEvent`, `MCJsonPrint` and
`MCOemListener` are instances for TLC.

In each module a definition `X_Y` just before a definition `X` is `X` with the
mistake `Y`. No specification uses them: each property has been seen to fail with
one of them in the place of its `X` (the list is in `PROJECT.json`).

### How the modules fit

`Shutdown` extends `BufQueue`, and so composes the two loops with the handler that
frees what they use. The stages of a packet are modelled apart, each with the interface
of the next abstracted to its outcomes: `BufQueue`'s `Process` stands for what
`DnsEvent` does in detail; `DnsEvent`'s `LookUp` has the outcomes that `XdbSearch` is
shown to give (`LookupIsRight`: Chinese, foreign or failed), its `PrintEvent` those of
`JsonPrint` (`PrintsTheTree`: the whole text, or NULL). No shared state is lost by
this: searcher, matcher and event are the `main_loop` thread's alone, except for the
signal handler, and that is in `Shutdown`.

## The runs

| Run | Instance | Shows |
|---|---|---|
| `queue_safety` (`MCBufQueue.cfg`) | 1 producer, 1 consumer, 3 addresses, `MAX_PCK` = 2, fair; packets of the shortest and the longest length and one too short | the list is well formed whenever the lock is free (`ListIsTheQueue`, `LenIsQueuedBytes`), every node has one owner, no dangling access, a pop after "not empty" finds a packet, the whole implements `PacketFifo`, every queued packet is processed, and the UDP thread always comes back to `recvfrom` |
| `queue_threads` (`MCBufQueueThreads.cfg`) | 2 producers, 2 consumers, 5 addresses, `MAX_PCK` = 0 | mutual exclusion under contention, the bound `MAX_PCK` + number of producers, bounded memory, the inductive invariant |
| `shutdown_safety` (`MCShutdown.cfg`) | 1 signal, 3 addresses, `MAX_PCK` = 1, 1 late datagram | a teardown that no other thread gets in the way of is safe wherever the signal strikes, in the middle of a push or a pop too |
| `shutdown_twice` (`MCShutdownTwice.cfg`) | 2 signals, the producer and the main thread, fair | a handler on top of another is safe up to the free of the vector index and cannot end well later (`NestedIsSafe`); a delivered signal ends the process: the handler never waits for the lock |
| `stop_threads` (`MCShutdownThreads.cfg`) | 1 signal | **violated**: after "stopping threads" (`dns_client.c:464`) nobody uses what the handler frees |
| `fw_load` (`MCFirewall.cfg`) | 13 lines, 5 rules in 3 tables, and the same with an empty line; 2 refused calls, 1 death of netd, 3 crashes; replies with ERROR; fair | loading the file again never doubles a rule and leaves out at most one rule per crash; a run without a failed call leaves the tables exactly as the file has them; each rule is loaded or logged; the loader comes to the end of the file |
| `fw_log` (`MCFirewallLog.cfg`) | the repository's reply, 1 rule refused | **violated**: a failure is retried up to three times (`binder_client.cpp:158`) and logged (`:178`); the reply lacks the word that is looked for, and the rule is sent once and not logged |
| `fw_header` (`MCFirewallHeader.cfg`) | a rule with `--to-destination` | **violated**: a rule goes to the table it stands under (`binder_client.cpp:145`); "destination" contains "nat" |
| `xdb` (`MCXdb.cfg`) | parts of 0 to 3: 256 addresses in 16 cells, two databases with cells that are full, gapped, partial or empty, 9 texts that are odd or no address; failing reads; fair | exactly the addresses are parsed, for the number they mean (`ParseIsRight`); no probe leaves the cell (`ProbesStayInside`); a result is that of the block that holds the address (`SearchIsRight`, `LookupIsRight`); every lookup ends |
| `packet` (`MCDnsEvent.cfg`) | datagrams with a NUL and without, texts of 0 to 3 addresses with room for 2, `-r` 0, 1 and 2, up to 9 items; every allocation, lookup and write may fail | the logged record is the one that what was read asks for (`RecordIsRight`), lists stay linked, only the event stays allocated |
| `json_print` (`MCJsonPrint.cfg`) | events of 0 to 3 addresses, nested and empty containers, a missing value or root, two strings of every length up to 3 plain, 2 escaped and 1 control character, plain and formatted; a first buffer of 4 bytes, at most 90 | no write past the buffer, the text is the tree's without gaps, no failure leaks the buffer or frees it twice |
| `listener` (`MCOemListener.cfg`) | client A registers twice (once within `onRegistered`), B once, netd's own listener twice; clients die at any moment; fair | entries of the living stay, each is watched, the dead are forgotten, no call waits forever |

**Bounds.** `MAX_PCK` is 1000 in the code and 0 to 2 in the runs: the queue's code
compares with it once, and the instances reach "full", "one over" and every
list length from 0 to 3, so that a push on an empty, a one-element and a longer
list and a pop to a longer, a one-element and an empty list all occur. In
`queue_threads` there is one address more than the memory bound allows, so that a
leak shows; in `queue_safety` malloc also fails. `MaxLate` bounds the datagrams
received after a handler has begun: the producer sleeps 10 ms after each and the
walk takes microseconds. In `shutdown_twice` the consumer is left out: how it
interferes with one handler is in `shutdown_safety`, and the nesting of two
handlers does not depend on it. Addresses are interchangeable (no code orders
pointers), hence the symmetry; the runs with liveness use none.

That `MAX_PCK` is "the maximum" (`dns_client.c:30`) is not exact: the test is `>` and runs
before the push, so a queue holds one packet more, and one more for each further
producer. `QueueBound` states the bound that holds.

In `fw_load` three crashes let three partial loads follow a complete
one, and the deaths and refusals fall between any two steps. Each rule of the
file is deleted before it is added, as it has to be if the file is to be loaded
more than once, and two rules stand in two tables each. The repository's own reply differs from ERROR only
in that nothing is retried or logged: a refused call leaves the tables alone
either way, so what `CleanRunLoadsFile`, `NoDuplicates` and `GapBound` say of the tables
after fewer calls is part of what the run covers.

In `xdb` a cell has 16 addresses and 0, 1, 4 or 16 blocks, so the search takes up to five
probes and meets hits, gaps, both ends of a cell and the end of the file. In `packet`
one text has an address more than fits, and 9 items hold a whole
event with two addresses. In `json_print` 4 bytes make
every tree but the smallest grow the buffer, and at 90 bytes the largest event does not fit,
which is the limit of `INT_MAX`; between them both branches of the doubling occur.
In `listener` two proxies of one binder, another client and a local listener are what
the code tells apart; more of either kind adds no new pair.

**Fairness.** `FairSpec`: each thread goes on with what it can do by itself (weak
fairness), and a thread that spins gets the lock if it is free again and again
(strong fairness). A compare-and-swap lock does not promise the latter; here
whoever has released it sleeps 10 ms (`MAIN_FUNC_CYCLE`) or blocks in `recvfrom`
within a few instructions. Nothing is assumed about packets arriving.
`ShutdownFairSpec` is fair to the handlers only: the kernel goes on running the
thread that it has interrupted. `FirewallFairSpec`: the loader's thread runs, netd
works off what it is asked, init restarts both. `LoaderFinishes` needs the bound on
deaths and crashes, since a process that dies again and again loads nothing; it does
not need the one on refusals, as a rule is given up after its second failure. `XdbFairSpec` is fair to
what the program does by itself; disk errors and signals need not happen.
`ListenerFairSpec`: binder's threads run, the kernel reports a death, a client's
`onRegistered` returns. Weak fairness is enough for the mutex there, because each
call and each notice takes it once and they are finitely many.

**Deadlock** is checked in the queue runs (the consumer always has a step). The
shutdown runs end on purpose, when the process does, and the firewall's when the
file is loaded and nothing dies any more; `xdb` ends when the database is closed,
`packet` where the behaviour has no definition, `json_print` with the text, `listener`
when every call has returned and every client is dead.

## The proofs

Every invariant and every action property that a passing run checks is a theorem, for
all values of the constants that satisfy the named assumptions (and, for four properties of
the rule loader and for `PopFindsPacket`, a stated hypothesis). What the proofs have in
common: hardly any property is inductive, so each module defines the invariant that
is, as a conjunction of named parts; one lemma per part, or per action, shows that a step
keeps it.

`BufQueueProofs` proves, for any number of producers, consumers, addresses and
packets and any `MAX_PCK`, from `ThreadsAssumption` (the two kinds of threads are
disjoint and finite) and `DataAssumption` (lengths up to 1024, the special values
differ from the others):

* `Invariance`: `IInv` is an invariant. `ListIsTheQueue` speaks of the moments when the
  lock is free, and what makes it true is what the list looks like at each label in
  between. `IInv` adds `PushStage` and `PopStage` (the list half way through a push or a
  pop), `HandInv` (who holds which node, with which packet) and `CountInv` (the
  producers that have passed the size test have room left for each of them). The
  step is one lemma per conjunct and per group of actions; actions that do not
  touch a conjunct are dealt with together.
* From it: `TypeCorrect`, `MutexCorrect`, `OwnerCorrect`, `ListCorrect`,
  `BoundCorrect`, `AccessCorrect`, `MemoryCorrect`; and `PopCorrect`, for one
  consumer, whose own strengthening is `StillNotEmpty`.
* `LenCorrect`: `list->len` is the number of bytes queued. `LenInv` says by which packet
  it is ahead or behind inside a push and a pop. The sum is a fold over a sequence; that
  it grows by the packet at either end follows from looking at the least length for which
  it would not.
* `Refinement`: the queue implements `PacketFifo` with capacity `MAX_PCK` plus the
  number of producers: `++size` is `Put`, `--size` is `Take`, the rest stutters or
  is `Offer`, `Drop`, `Finish`.

`ShutdownProofs` builds on it, for any number of signals and threads. `ShutdownInv` holds
however handlers and threads interleave: it has the types that survive a teardown.
`AloneIsSafe` is about one handler that nobody gets in the way of. Until
the signal `IInv` holds, and it gives a walk from `head` over `list->size` different
malloc'ed nodes, wherever in a push or a pop the signal strikes (`WalkFromHead`); this
needs `++size` after the node is linked and `--size` before it is unlinked, and, in
`PopStage`, where the popped node leads at `pop_head`. `LIST_DESTROY` takes one node off
the walk in each turn. `NestedIsSafe` is about a handler on top of another, and of as many
more as there are signals: `AloneStage` says what the innermost one finds as long as every
interrupted one was at a harmless step, `DoomedStage` that after a later one the vector
index is freed, so that none of them gets past it (and the file, if that is closed and its
pointer kept, is closed again). `AloneInv` joins the two.

`FirewallProofs` proves `FirewallTypeOK` and `AtMostTwice` for any files, replies,
refusals, deaths and crashes: a rule is sent twice at most (the comment would have a third
time) and logged only after its second failure. It needs `RetryInv`: inside the loop
`retryCount` is 0 or 2, and twice the number of calls made for the line.
`NoDuplicates`, `CleanRunLoadsFile`, `GapBound` and `LoadedOrLogged` hold of the files that are made to be
loaded again, and not of others; the theorems say so as a hypothesis, `Reloadable`: a
header names one table and a rule none, rules end in CR LF, each rule is deleted just
before it is added, and none is added twice to one table; the last line may be empty.
The two files of `fw_load` are such files. `LoggedCorrect` says for every failure reply what
becomes of a rule. With a reply that has the word the loader looks for, each rule is loaded
or logged. With another, as the one that `set_iptables_rule` gives, nothing is ever logged or
sent again (`NeverHeard`, from `UnheardInv`), and each rule is loaded only as long as no
call has failed; `fw_log` shows the rest. `ReloadInv`
adds that a proxy which has lost its netd leads to none ever again (`Instances`), that a
rule about to be added is absent from its table (`Absences`), what a reply says of the
rule (`Outcomes`), that what a clean run has added is there, in order, behind what earlier
runs left (`Settled`), and that the rules missing are at most one per crash, apart from the
one that is being replaced at the moment (`Gaps`).

`XdbProofs` proves `SearchIsRight` and `ProbesStayInside` for addresses of any size, any
database that satisfies `DatabaseAssumption` and any text that ends with NUL. The loop
invariant is `BlockIsBetween` (the block that holds the address is between the bounds);
`XdbInv` adds that what has been parsed fits its places, so that the address has a cell,
that the upper bound is at most the block after the cell's last, and that a hit is a
block of the cell. The upper bound is that block, and harmless: it is probed only when
everything before it has been excluded, which cannot be while the cell holds the
address. `ParseIsRight` needs `ParsedParts`: how many parts have been read, which of the
text's characters end them, and that the numbers so far are the values of the parts by
the reference definition. `LookupIsRight` adds that `ip` is the address of the text while
it is searched (`AddressKnown`).

`JsonPrintProofs` proves `WritesInside` and `BufferIsFreed` for any tree, any first buffer
and any limit. `PrintInv` adds that the block lives as long as printing goes on, and that
`p->buffer` leads to it exactly as long as it lives (`BufferInv`: this is why it is not
freed twice), and that the frames on the stack are at members of what they print
(`WalkInv`). `PutInside` is the lemma about one write: if a writer asks for at least what
it writes, it stays inside; each writer is then an arithmetic fact, such as
`StringSizes`, that what is counted for a string is what is written. `PrintsTheTree` is
`PrintedCorrect`: `TextInv` says that the tokens follow each other without a gap up to
`offset`, or up to the NUL that `update_offset` is about to find; `RenderInv` that what is
written and what the walk has yet to write together are the `Rendering` of the tree. What
is yet to be written is put together along the stack. `Rendering` is a recursive function
over the items; that it is defined, and unfolds, is shown by filling its table from the
last item down.

`CJsonProofs` has the lemmas about the calls of cJSON: whatever their outcome, lists stay
linked and items in no list stay outside; what exactly each makes of the heap; that
`cJSON_Delete` reaches every item that hangs on an older one; what reading a list gives.
With it `DnsEventProofs` proves, for any packets, regions, and sizes of heap and array:

* `EventTypeOK` and `ListsAreLinked`. `EventInv` adds that the event and,
  until it is hung in, its array are in no list (`RootInv`), and that what is reported
  are indices of addresses (`FoundInv`).
* `OnlyTheEventStays`: by `TreeInv`, every item is the event, its array, or behind an
  older item, and by `OwnedInv`, which says what is still to be freed at each step.
* `RecordIsRight`: by `SelectInv` (what is found is what the filter selects of the
  matches seen so far), `FailedInv` (no step has failed before its turn), `ShownInv` (the
  tree on the heap shows the fields and addresses made so far, in their order) and
  `LoggedInv`.

`OemListenerProofs` proves `EntriesAreWatched` and `RegisteredIsKept` for any calls,
clients and nesting, from `ListenerAssumption` (a remote listener is one call's; a call
is nested in at most one other, of the same client). `ListenerInv` adds that binder tells
only of the dead (`DeathInv`), that a recipient is linked before it is inserted
(`WatchInv`: it cannot have erased what is not in the map yet, since the call holds the
mutex), that an entry is there when the mutex is let go (`KeptInv`) and that a nested
call begins within its outer one (`NestedInv`).

The type invariants of `Firewall`, `XdbSearch`, `DnsEvent`, `JsonPrint` and `OemListener`
are parts of these invariants, and theorems; their runs do not repeat them.

**Induction.** The library's induction theorems take an operator as a parameter, which the
provers cannot instantiate. Where a proof needs induction over numbers (folds, recursive
reference definitions, the counting down of a list) it takes the least counterexample
instead, which exists by `WFMin` of `WellFoundedInduction`.

**Only model-checked** are the liveness properties (`QueuedIsProcessed`,
`ProducerReturns`, `ShutdownEnds`, `LoaderFinishes`, `LookupEnds`, `CallsReturn`,
`DeadAreForgotten`): fairness and `ENABLED` are out of the provers' reach. The three
disagreements (the runs marked **violated**) are counterexamples, which only a run can show.

## Not modelled

* The C library's and the kernel's own locks: a handler that calls `printf` or `free` may
  wait for them. Compiler reordering around the spin lock:
  `__sync_bool_compare_and_swap` is a full barrier.
* Formatted output, and the text of datagrams, rules and numbers beyond what the
  properties tell apart.
* Start up as a whole: the command line, a failed `log_init`, a failed `socket` or `bind`
  (the receiver then ends at once), `regex_init` (which ends the process when it fails).
* What nobody calls: the parsing, changing, comparing, duplicating and minifying of
  JSON trees, most of the list macros of `queue.h`, `ShowQueue`, the other two ways to open
  a database.
* The security log (a binary with a header), PCRE2, binder, iptables-restore and the
  kernel's tables: external, modelled as far as the daemon sees them.
* The unit test and its stub, the init scripts and build files.
