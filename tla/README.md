# TickTockDB in TLA+

A model of TickTockDB, a time series database in C++ (`src/src`, `src/include`):
TLA+ modules for its components, TLC runs that check them on small instances,
and TLAPS proofs of the central properties for instances of any size.
`PROJECT.json` maps every definition to the source lines it stands for, and lists
the components, runs, mutants, findings, hazards and theorems.

## 1. The system

### Parts and how they interact

A data point is a (series, timestamp, value). Clients send points over TCP, HTTP
or UDP; a listener thread turns what arrives into tasks for a pool of responder
threads (`TaskScheduler`, one lock-free `Queue11` per worker). A responder parses
the lines, finds or creates the series of each point (`Mapping`, `Measurement`,
and the meta file that names every series) and adds the point to it.

Time is cut into shards (`Tsdb`, one per day). A series (`TimeSeries`) collects
its points in at most two pages in memory: `m_buff` for points in order and
`m_ooo_buff` for the others. A full page, or one whose shard is being left, is
compressed and appended to the data file of its shard, gets a header in the
header file, and is linked behind the last page of the same series. The index
file holds, per series, the first page of that chain, the first page behind the
middle of the shard, and flags. Queries read the chain of a series on disk, then
its pages in memory, and merge the two.

A timer runs background tasks: the append log (a copy of the pages in memory,
for recovery after a crash), rotation (closing idle files, check-points),
archiving of idle series, and the monthly roll-up of hourly aggregates.

### Inventory

| part | state | operations that change it | what makes it hard |
|---|---|---|---|
| write path (`ts.cpp`, `page.cpp`, `tsdb.cpp`) | two pages in memory per series; chains, index entries, flags on disk | `add_data_point`, `add_ooo_data_point`, `close`, `archive`, roll-up mark | two buffers share one chain and are flushed in any order; moves between shards |
| files of a shard (`mmap.cpp`, `Metric`) | index, header and data files, open for read or write or not | `append_page`, `get_last_header`, `get_page`, remap, rotate | crash between writes; stale mapping; full files; index growth |
| queries (`query.cpp`, `Tsdb::query_for_data`) | containers collected so far | read disk, read memory, merge | different locks for disk and memory; early stop; second index entry |
| append log (`append.cpp`) | `append.log`, `append.tmp` | `flush_all`, `restore`, `shutdown` | crash at any step, repeated crashes |
| registry (`Mapping`, `Measurement`, `meta.cpp`) | maps, id counter, meta file | look-up, creation, adding fields, restore | double-checked creation, ids drawn and lines written under different locks |
| task queue (`queue.h`) | ring buffer, head, tail | `try_enqueue`, `try_dequeue` | two threads, no lock |
| task scheduler (`task.cpp`) | queues, workers, shutdown request | `submit_task`, `work`, `shutdown`, `wait` | full queues, affinity of connections, shutdown while submitting |
| list of shards (`Tsdb::inst`, `insts`, `rotate`) | list, reference counts, modes | create, search, count references, unload | counts taken and tested under different locks |
| roll-up (`rollup.cpp`, roll-up files) | hour being collected, monthly and yearly files | add point, flush hour, `rollup`, restore | entries have a meaning by position; restart; late points |
| connections (`tcp.cpp`) | connection maps, `pending_tasks`, state flags, command pipe | accept, receive, resubmit, close, write and read commands | reuse of descriptors, listener against responders, edge-triggered events |
| HTTP (`http.cpp`) | the request so far, network buffers | receive, continue, answer, hang up | requests cut anywhere, errors while sending |
| ingest (`dp.cpp`, `udp.cpp`, put handlers) | points given to the store | four syntaxes | refused points in the middle of a request |
| tags (`tag.cpp`, `kv.cpp`) | ids of names, tag counts | intern, order, match | double-checked creation, a shortcut that depends on a count |
| plan and answer of a query (`query.cpp`, `down.cpp`, `aggregate.cpp`, `rate.cpp`) | shards still to read, groups, current interval | plan, down-sample, group, merge, rate, respond | modes that change meanwhile, ends of ranges, full buffers, exceptions |
| compressors (`compress.cpp`, `bitset.cpp`) | page so far, previous point | compress, uncompress, save, restore | offsets inside bytes, a full page, going on after a restore |
| memory manager (`memmgr.cpp`) | free lists, counters, samples | alloc, free, collect garbage | samples without a lock |
| check-points (`cp.cpp`), timer, shutdown (`main.cpp`) | current, snapshot, persisted; due tasks | add, take_snapshot, persist, rotate files, close | must not run ahead of the data; a rotation under way at shutdown |
| forwarding (`part.cpp`) | buffers, backlog files, connection | forward, send, save, backfill | the other server goes away at any step |
| calendar (`cal.cpp`) | months remembered | begin and end of a month | months asked for in any order |
| compaction, configuration, statistics, tools | see `components` in `PROJECT.json` | | |

The correctness one wants: no accepted point is lost; a chain holds exactly the
pages of its series; a query returns the points of its range; a logged point
survives a crash; a series has one id, for ever; what is encoded is decoded; an
answer is what the points of its range add up to, or an error; tasks are executed
once and in order, every whole request is answered, and a shutdown ends.

## 2. How the modules fit together

What a module needs from another one it takes through `EXTENDS` or, where only
the promise matters, as an abstraction that the other module is shown to meet.

* Store: `PageChain` (write path, with proofs); `Query`, `ConcurrentQuery` and
  `AppendLog` extend it; `Files` refines the position of a page; `QueryMerge`
  adds values to timestamps. `Compressors` fill the pages, `BitSet` implements
  the `BitLog` they write to, `Codes` has the codes themselves.
* Series: `Registry` (creation and restart), `Tags` (names, keys, search).
* Shards and roll-up: `Shards`, `Rollup` above `RollupFile`, `Calendar`.
* Answers: `QueryPlan`, `QueryMerge`, `Downsample`, `Aggregate` (both with
  `Stats`), `QueryService`.
* Service: `TaskScheduler` above queues as `Fifo` describes them, which `Queue11`
  implements (with proofs); `TcpConnection`, `Pipe`, `Http`, `Ingest`, `Json`.
* Life of the server: `MemoryManager`, `CheckPoints`, `Forwarder`.

Still to be proved: `ChainHoldsPages` of `Files` and that `Files` implements the
disk of `PageChain`; `OneIdPerSeries` of `Registry`; `InOrderPerConn` of
`TaskScheduler`; `LoggedPointsSurvive` under one crash;
`RefsAreHolders` of `Shards`; `OneOwnerEach` of `MemoryManager`.

## 3. Modules and the code

**PageChain** — `TimeSeries`, `PageInMemory` and the chains of the shards. A
handler runs under the lock of its series and changes a shard under the lock of
that shard, so it is one step. The eight `Add...` actions are the paths through
`add_data_point()` and `add_ooo_data_point()`: first page, next shard, same page,
page full, and the same four for out-of-order points. `CloseSeries` is `close()`
and `archive()`, `RollUp` the mark on a shard. A page holds a set of timestamps;
whether it is full after a point is a free choice, since that depends on how well
the values compress. A position (file, header) is its rank in the shard;
`Files` models the positions themselves. `owner` and `accepted` exist for the
properties only.

**Files** — the index file with one entry per series and its growth, pairs of
header and data files with room for `PageCount` pages, `append_page()` as six
writes between which the process may die, the page index remembered while a data
file is open for write, and the length mapped while it is open for read.

**Query** — `query_raw()` as a function of the state: start at the first or
second index entry, stop early without the out-of-order flag, merge or
concatenate. **ConcurrentQuery** makes it two steps per shard with writers in
between.

**AppendLog** — `flush_all()` series by series, removal and renaming of the log,
crashes anywhere, `restore()`, normal shutdown, over the actions of `PageChain`.

**Registry** — look-up without a lock, second look-up under the write lock,
creation, ids from a global counter, lines of the meta file, both input formats,
two spellings of the same tags, and the restart that rebuilds everything.

**Fifo** is the abstract bounded queue. **Queue11** is the ring buffer, one action
per load, copy or store. **TaskScheduler** uses queues as `Fifo` describes them,
for one submitting thread, several workers and the thread that shuts down.

**TcpConnection** — `listener0` accepts, one listener of level 1 runs
`epoll_wait()` and handles the events it returned and the commands in its pipe,
responders run `recv_tcp_data()`. Clients and the kernel (lowest free descriptor,
edge-triggered events) are external. `listener1` is split where a responder can
come between: counting a task and submitting it, testing `pending_tasks` and
setting `TCS_CLOSED`; `recv_tcp_data()` is split into reading, asking for another
task, decrementing `pending_tasks` and looking for `TCS_CLOSED`. `hurt`, and the
fields `of` and `stale`, exist for the properties only.

**Pipe** — the command pipe of one listener: several threads in `write_pipe()`,
which gives a command up when the pipe is full, the edge-triggered event, and
`PipeReader` with its two buffers. `written` has the commands that went into the pipe.
Pipe and epoll are external.

**Http** — one connection and its responder: pieces of requests, `parse_header()`,
`recv_http_data()` and `recv_http_data_cont()`, errors, negative lengths, compressed
bodies, failing `send()`, and the network buffers. **Ingest** — the parsers of `DataPoint`, the put
handlers and the UDP listener, over texts of symbols: what they give to the store,
and what they answer. **Json** — `JsonParser` and the writing of values, over
symbols, with quotes and without, and with the delimiter between key and value that
the caller asks for.

**Tags** — `Tag_v2`'s table of names with two threads between their two look-ups,
ordered lists and keys, `TagMatcher`, and `Mapping::query_for_ts()` with its
shortcut by key.

**Shards** — `Tsdb::inst()` in its three steps (search, create, refer), pages that
take references over, queries, `rotate()` and `rollup()`. **QueryPlan** — `perform()` for
one series: the level of roll-up for an interval, the daily entries read in advance,
the batches of shards that get hourly or raw data instead, and `remove_dps()`, while
points in and out of order arrive and a month is rolled up. `m_dps` keeps, per shard,
the sources its points were taken from; `steady` says for which shards the daily entry
and the mode agreed all the time. **QueryMerge** — the
merge of pages of one shard, with the number of the write as value.
**Downsample**, **Aggregate** — what a query makes of points, as state machines fed
point by point or series by series, against definitions by interval and by time.
**QueryService** — both syntaxes of a query, several queries in a request, errors,
and the response buffer, over lengths of texts.

**Rollup** — managers of series, monthly files as sequences of entries, buffers of
the files, the daily roll-up, `rollup.data`, restarts, and the marks of late
points. **RollupFile** — the same file as bytes: entries of different length, chunks
of the reader, torn tails. **Calendar** — the table of months.

**BitSet** implements **BitLog** for every offset of source and target.
**Codes** and **Compressors** — the four page formats and their codes, on narrow
words; `save()` and `restore()` may come between any two points.

**MemoryManager** — one free list with users and the garbage collector, which samples
its counters without the lock. **CheckPoints** — check-points of leaders, pages
that reach the files of a shard between them, the timer and its worker in `rotate()`
shard by shard, the shutdown, crashes while a file is written. `unflushed` says for
each shard which check-points its oldest page that was not flushed came after.
**Forwarder** — buffers, the worker of a `PartitionServer`, outages, backlog files,
connections that the kernel still takes bytes for when the other end is gone (`dropped`),
driven through `forward()` and `submit_buffer()`; in this version the servers are
created (`PartitionManager::init()`) but no `PartitionManager` object calls those two.

The modules `MC...` give the constants their values. Four of them (`MCStore`,
`MCCodecs`, `MCAnswers`, `MCService`) put several components side by
side without an interaction: the variable `part` says which one a behaviour is of,
the others stay as they start, and each property speaks of its part. Definitions
marked *Variant* or *A bug* are plausible mistakes; they are not part of any
specification and serve to show that a property notices them (`mutants` in `PROJECT.json`).

## 4. Runs

| run | instance | what it shows |
|---|---|---|
| `two_tsdbs` | one series, two shards of two timestamps, two pages per shard | no point lost, both pages in memory know the end of the chain, flags set |
| `queries` | one shard of three timestamps, two pages, all ranges, one query with writers in between | a query of a quiet series returns exactly the accepted points; what was on disk at the start is returned in any case |
| `store` | `AppendLog` with one series and one crash; `Files` with two series, files of two pages, four pages, one crash; `Registry` with two threads, two metrics, two spellings, both formats, three requests, one restart | every point of the last complete log is there after the restart; pages can be read and chains hold exactly the pages of their series; one id per series, restarts change nothing if lines are in order |
| `tcp_connection` | one descriptor, two clients, two responders, two lines each, room for one line in a buffer, resets | a connection with tasks is not recycled; no two responders read it; only a client whose descriptor was reused too early loses lines; the lines of the others are read |
| `codecs` | `BitSet` of three bytes of two bits; all page formats, four points of nine; roll-up files of four entries of three; JSON of two levels; four syntaxes with refused points | `BitSet` implements `BitLog`; pages, entries, documents and requests read back as they were written; values of version 3 drift by less than a step per point |
| `answers` | all down-samplers with ranges and intervals that begin inside and outside each other, four points; three series in all groupings and aggregators; four writes to two shards; five tag lists and eleven filters, two threads; one series over two months of two days, one restart; two writers and two days; five queries in both syntaxes; seven months; a plan over two shards with four intervals and two changes; one channel, two check-points, two shards, one file kept, one restart | each part of an answer is what a definition over all points says; an answer of 200 is complete; references to shards are exact; names keep their ids; months have no gaps; a shard whose daily entry agrees with its mode is answered from one source; what came before a check-point is flushed when the check-point is told or loaded |
| `service` | `Queue11`: two items, four slots; three connections, two workers, room for one task each; three HTTP requests of six kinds in any pieces; three objects, two users; two forwarding threads, three points, one outage; two writers of four commands, a pipe with room for less than two | the ring implements `Fifo`; tasks of a connection are neither lost nor doubled nor reordered; a shutdown ends; a whole request is answered; objects have one owner; every point is given to a connection once the other server stays; commands in the pipe are read whole without waiting for another one |
| `query_backfill` | as `two_tsdbs` | *violated*, see section 7 |
| `append_two_crashes` | `AppendLog`, two crashes | *violated* |
| `registry_fields` | two threads, two metrics, line format | *violated* |
| `files_last_entry` | a series at the end of the index file | *violated* |
| `stale_daily` | `QueryPlan`, one shard, an interval of a day, one change | *violated* |

Bounds are constants in the modules: `MaxPages`, `MaxQueries`, `MaxCrashes`,
`MaxTasks`, `MaxPuts`, `MaxStarts`, `MaxAppends`, `MaxClients`, `MaxSent`, `MaxDps`,
`MaxEntries`, `MaxFed`, `MaxWrites`, `MaxPoints`, `MaxRequests`, `MaxChanges`,
`MaxAllocs`, `MaxFwd`, `MaxOutages`, `MaxCp`, `MaxClock`, `MaxRestarts`, `MaxLines`.
They cut behaviours off; they never make a step behave differently. They are large
enough for the cases that matter. Two timestamps per shard give one on each side of the middle, so the
second index entry is set; with three a query also starts there. Two pages give a
chain with a link. Two shards suffice for moves, since a handler touches at
most the shard it leaves and the one it enters. Files of two pages with four pages
in all fill up and are followed by another pair. A ring of four slots wraps around. Room for one task
makes queues full with three tasks. One descriptor suffices for connections, as
two of them share nothing but the queues of the responders; a second client gets
the descriptor of the first. Two lines and a buffer for one give reads that leave
something behind, reads that fill the buffer exactly, and empty ones. Bytes of two
bits and codes scaled down alike keep every offset inside a byte, and each length
of a code, within a page of 24 bits. A chunk of a roll-up file ends inside an entry.
Two months give a change of the month, with hours left out in each. A plan
takes one shard from the daily roll-up and the other from another source, in both
orders, and both modes may change meanwhile; there is no interval, one between hour and
day, and one on either side of a day and a half, where rounding decides. One file kept
and two seconds give a rotation that removes the file of the one before. Times of
queries lie at, before and after the beginnings of intervals. A pipe for less than
two commands is full while one is read, and lines reach across the end of a read.
`store` takes threads and metrics as symmetric, as nothing tells them apart.

All modules but `Queue11` end when their bounds are used up or when the one thing
they follow is done, so deadlock is not checked; where a stop could be a hang, a
liveness property says that it is a proper one (`TaskScheduler`, `TcpConnection`,
`Http`, `Forwarder`, `Pipe`). That a query over changing shards, a rotation and a
garbage collection end is not claimed. That `Queue11` has no
deadlock follows from its form: each thread can always take a step.

Crash points of `Files` are 0, 2, 3, 4 and 5 of the writes of `append_page()`. A
crash after the first write (a new header file exists, its data file does not)
leaves files whose numbers differ after the restart. The module can show this
(add 1 to `CrashPoints`); it is listed as a hazard.

### Fairness

`TaskScheduler` assumes weak fairness of the submitting thread inside
`submit_task()`, of each worker, and of a shutdown once it has begun. All of them
spin or run without waiting for a lock, so the scheduler of the operating system
justifies it. Nobody is assumed to submit a task or to request a shutdown, and a
task is assumed to return. `TcpConnection` assumes weak fairness of `listener1` and
of each responder, which only wait for events and tasks; clients owe nothing. The
others follow the same rule, a thread that is not waiting for a lock or an event
goes on: the responder of a connection (`Http`), the worker and the threads inside
`submit_data_points()` (`Forwarder`), the listener and a thread inside `write_pipe()`
(`Pipe`). Nobody owes a request, a point or a command;
the other server need not come back (`BacklogIsBackfilled` assumes it in its
hypothesis), and `epoll_wait()` need not time out. In the composed runs the
conditions of different parts share a conjunct, which is sound since only one part
runs in a behaviour.

## 5. Proofs

All theorems hold for every value of the constants that satisfies the named
assumptions: shards are numbered from 1 (`TsdbAssumption`), their range is not
empty (`SpanAssumption`), bounds are numbers (`BoundAssumption`); the ring has at
least two slots (`CapacityAssumption`).

**PageChainProofs**: `TypeCorrect`, `ChainsCorrect`, `TailCorrect`, `FlagsCorrect`,
`NothingLost` and the action property `NothingOverwritten`. `NextIsSuccessor` and
`DiskOnlyGrows` are stated by these theorems only, the others also by the run
`two_tsdbs`. The properties are not
inductive on their own: a flush keeps a chain exact only if the page knows the
end of the chain, and it knows it only if the other page of the series told it
about its flush. `Inv` therefore combines, per shard, `ChainOK` (index entries and
next fields list the pages of each series in flush order), per page in memory
`PageOK` (right shard, points of that shard, `prev` is the end of the chain), the
flags, and `Stored` (an accepted point is on a page the series owns). One lemma
says what appending a page does to all chains (`AppendKeepsChain`), one what a
flush followed by `update_indices()` yields (`FlushOK`), and one lemma per action
uses them. `NoPointLost` speaks of pages a walk reaches, which is a recursive
function; `WalkEndIsLast` and `ReachableIsOwned` argue by the last page for which
the claim fails, as next fields only point forward.

**Queue11Proofs**: `TypeCorrect`, `RaceFree`, `Refinement`. The invariant adds what
each thread learnt from its test and the other cannot undo: there is room while an
item is copied in, and an item while one is copied out. The refinement maps the
slots from head to tail to the abstract queue; only `StoreTail` and `StoreHead`
change it, the other steps stutter.

Only model-checked: liveness (out of the prover's reach under fairness), what the
recursive parsers and folds compute (`Json`, `Ingest`, `Compressors`, `Downsample`,
`Aggregate`, `Rollup`, `RollupFile`), and the invariants of all other modules.

## 6. Abstractions

* In `PageChain` and the modules above it values are left out and a page is a set
  of timestamps, and compression is a free choice of when a page is full.
  `QueryMerge` has the values, `Compressors` the pages.
* A thread is as fine as the code's locks: what runs under one lock is one step.
* A crash is the death of the process: what was written to a mapping or passed
  to the kernel survives, what sits in a stdio buffer may not. Loss of power is
  not modelled; the code has no defence against it.
* Allocation, system calls and `mmap` succeed, except where a module says
  otherwise: allocations in `QueryPlan`, `send()` in `Http`, connections in
  `Forwarder`, writes to a full pipe in `Pipe`.
* Texts are sequences of symbols (`Json`, `Ingest`) or lengths (`QueryService`,
  `Http`); numbers in them keep their identity.
* Floating point is exact: fractions in `Stats`, multiples of a unit in `Codes`,
  where rounding to the precision is what the code does. Squares stand for
  deviations.
* A client of `TcpConnection` sends whole lines. A line longer than a buffer is
  outside the model: it would be resubmitted for ever.

## 7. Findings

* `query_backfill`: moving the buffer forward into a shard that already has pages
  does not look at what they hold (`ts.cpp:296`). After older points were written
  in between, in-order pages are no longer sorted and a query stops too early.
* `append_two_crashes`: after a crash between removal and renaming of the log,
  the restart deletes the only log (`append.cpp:202`); a second crash before the
  next flush loses points that had been logged.
* `registry_fields`: a restart gives the fields of measurements new ids in the
  order of the lines and ignores the ids in them (`tsdb.cpp:810`). Two
  measurements created at the same time can exchange their data.
* `stale_daily`: `query_rollup_daily()` adds the daily entries of the whole range
  before it looks at the shards (`query.cpp:1175`), and takes them out again only
  on its way to raw data. A late point clears `ROLLED_UP` (`tsdb.cpp:2151`); the shard
  then counts twice, with its old daily entry and its hourly ones.
* `files_last_entry`: the entry at the very end of the index file is written but
  reads as missing (`mmap.cpp:428`), so the pages of that series are not found.

Seen while modelling. Where one of these touches a property, the property is stated
for what the code does hold and its comment names what it leaves out:

* Store: a query can miss a point that is flushed between its two steps; the page
  restored from an old log overwrites a link made since (`ts.cpp:181`); a point
  whose shard was written in order a second time may be returned with an older
  value (`QueryMerge`, `returned` and `again`).
* Connections: `Worker::work()` leaves tasks behind on a request that is documented
  to finish them (`stop.h:32`); `close_conn()` closes a descriptor while tasks or
  commands that name it are under way, and the client that gets it next can lose
  lines or its connection (`tcp.cpp:1399`; `stale`); `resubmit()` uses a connection
  that may be gone (`tcp.cpp:1271`; `crashed`). `recv_http_data()` keeps no track of
  its buffer when an answer cannot be sent, and a negative length is answered twice
  when the header came in one piece, and never otherwise (`http.cpp:384`; `NeverComplete`).
  `write_pipe()` drops a command when the pipe is full (`tcp.cpp:1495`).
* Roll-up: a file object that was never opened drops its buffer (`mmap.cpp:1436`;
  `lost`), `rollup.data` is not emptied after a restart, so that the second restart
  counts an hour again, a late point is counted into the current hour, and a month
  without points gets no entries. An empty hour leaves the minimum and maximum of
  the one before in the daily entry; only counts are exact there.
* Shards: `inst()` counts a reference for a late point that no page gives back
  (`ts.cpp:289`; `leaked`). An exception in the daily plan forgets the shards it
  holds in a local vector.
* Plans: a shard that is rolled up between the reading of the daily files and the test
  of its mode is left out; with intervals of several days `remove_dps()` removes also
  what other shards added; hourly data added behind daily data are not sorted. An
  exception leaves part of an answer.
* Check-points: a rotation flushes files, not pages in memory, so a crash can lose
  points from before a check-point that was told; it persists also for shards that
  were created after it listed them, and after a shutdown interrupted it.
* Queries: a choice of tag values none of which is known matches every value; a
  response within a few bytes of the end of its buffer is cut and still 200;
  `dropResets` is read from the wrong option in a URL (`query.cpp:257`).
* Ingest: a map without quotes inside another one is read with the delimiter `:`
  whatever the outer one uses (`json.cpp:213`). In JSON a tag value that is not quoted, at the end of the tags and with
  other keys behind them, takes the brace with it (`dp.cpp:210`).
* Compressors: version 3 rounds every difference but goes on from the exact value,
  so that errors add up to the bound of `DriftIsBounded`.
* Forwarding: points given to a connection whose other end is gone are lost, as the
  buffer is cleared when `send()` returns (`part.cpp:519`; `dropped`), and the worker
  can append to a backlog file that is closed (`crashed`).

## 8. Not modelled

Some modelled state has no property of its own, since the runs concentrate on what
is hardest to get right: tags and rates of groups, gaps filled by a policy, the
pools of query results and network buffers, the references of a
query's plan, the wording of answers to puts, and what a shutdown leaves in the
check-point files.

See `components` for each part that is left out and its reason. In short:

* configuration, statistics, logging, locks, hashes and admin commands are
  sequential handling of texts and numbers or wrappers of system calls;
* compaction is not scheduled in this version, and its admin command waits for a
  lock its own thread holds;
* HTTP answers too large for one `send()`, rebalancing of listeners and the
  command `d`, which nobody sends;
* a field added through the reserved tag `_field`, and a meta file that lost
  buffered lines in a crash;
* the roll-up after a crash, where part of an hour comes back from the append log,
  and the daily files, which are created by month and looked up by year;
* the choice of a partition for a point: no `PartitionManager` is created in this
  version;
* the pool of JSON values, and the open interval that `avg` keeps apart from `m_dps`
  in a plan;
* escapes and quotes in InfluxDB lines, special requests (`version`, `stats`,
  `help`), and units of timestamps;
* the tools, and the libraries under `src/include/tsl` and `src/include/zlib`.
