# quitsies in TLA+

quitsies is a key/value server: a subset of the memcached protocol over TCP and a
small REST API over HTTP, in front of one RocksDB database. This directory holds
TLA+ modules for the parts of it that carry its own logic, TLC runs on small
instances, and TLAPS proofs for all instances. `PROJECT.json` lists the runs, the
line each definition is translated from, the hazards and the theorems.

## The system and its parts

| part | state | operations | runs on |
|---|---|---|---|
| request execution (`request::prepare_response`, `/key/{key}` in `rocks.cpp`) | the database, `_db_mutex`, the request being executed | set, add, get(s), delete, ping; GET, PUT, POST | threads of the TCP `io_service`, HTTP threads |
| request parser (`request::process`, `reset`) | `_status`, `_command`, `_keys`, `_flags`, `_exp_time`, `_remaining`, `_no_reply`, `_buffer`, `_response` | one per byte, reset | the handler of a read |
| TCP server (`server`, `connection`, `connection_manager`) | acceptor, `_connections` and its mutex, per connection a socket, a buffer, two timers and the outstanding operations | accept, read, write, time out, stop, stop all | threads of the `io_service` |
| statistics (`statsd_aggregator`, `statsd`) | four maps with a mutex each, epoch callbacks, `_background_running` | counter, gauge, timer, set, on_epoch, background loop, destructor | all threads, one background thread |
| service and database lifecycle (`service.cpp`, `rocks::open`, `~rocks`) | `_db`, the servers, the callback given to the statistics | parse, open, restore, serve, shut down | main |
| backups and reports (`/backup_*`, `/stats`, `/endpoints`) | backups in `<path>_backup` | create, clean, info, report | HTTP threads |
| options (`OptionHandler`, `options.cpp`) | registered options, `parsed_input` | register, parse, read | main |
| asynchronous logging (`mpmc_bounded_q`, `async_log_helper`, `async_logger`) | the ring, the requests to flush and terminate | log, flush, the worker loop, destructor | all threads, the worker |
| registry and loggers (`registry`, `logger`) | loggers by name, common settings, level and handlers of each | create, register, drop, setters, log | all threads |
| file sinks (`rotating_file_sink`, `daily_file_sink`, `file_helper`) | the open file, its size, the files on disk, the next rotation | log, rotate, reopen, flush | whoever logs, under the sink's mutex |
| pattern formatter, fmt | compiled pattern; parse position, writer | compile, format | whoever logs |

How they meet. The acceptor makes a `connection`, which owns a `request`. A read
handler calls `process`; when a request is complete `process` calls
`prepare_response`, which calls the database; the connection then writes the
answer, resets the request and reads again. Every call of the database counts in
the statistics, whose background thread calls back into the database. A signal
closes the acceptor and all connections; `main` waits for both servers and
destroys everything. The vendored spdlog writes the log: a logger, made through the registry,
formats a line (fmt, then the pattern) and gives it to its sinks, at once or
through the ring and the worker.

What is hard. Commands that make two database calls run beside others with a
mutex that only `add` takes. Requests arrive in reads cut anywhere and the parser
keeps state in between. The handlers of one connection run on any thread with no
strand and no lock. Timers, failures of reads, and the signal all stop a
connection, from different threads. The process ends only when every operation
has. Metrics are recorded while their map is taken away. The background thread
uses a database that main is deleting. A restore or a rotation of log files can be cut
anywhere by a failure or a kill. The ring has no lock, and flush and the destructor wait for a
queue others fill. `PROJECT.json` lists these under `hazards`, each at its line.

What makes each part correct:

* execution: a command takes effect at one moment, its answer is true, `add` does
  not overwrite, the mutex always comes back, every request is answered;
* parser: what was written is what is executed, however it is cut; nothing of a
  request reaches the next; the buffer stays below the limit;
* server: one handler at a time uses a request; a request is answered when
  finished and not reset before; no connection is lost or kept; a write with a timer
  ends, and a signal ends all work, whatever clients do;
* statistics: every count is sent once, no value is overtaken by an older one;
* lifecycle: no request uses the database before it is open or after it is
  closed; a restore serves the newest backup or nothing; the process ends once the
  TCP server has returned;
* options: the passes over the words find what the command line means;
* asynchronous logging: cells have one owner, the queue is first in, first out,
  and neither a flush nor the destructor leaves a message behind;
* registry, loggers and sinks: settings reach every logger, a message reaches
  every sink or the error handler, and rotation loses only the oldest file.

## Modules

| module | models |
|---|---|
| `AtomicStore` | abstract: every command is one step on a dictionary |
| `StoreCommands` | the code: one step per database call and per lock or unlock |
| `StoreHistory` | `StoreCommands` with the values each key has had during each request |
| `MCStore`; `StoreProofs` | instances, the command mixes of the runs; proofs |
| `Request` | the parser with the read loop of its connection and the byte stream |
| `RequestHistory` | `Request` with what was asked for and what was carried out |
| `MCRequestBytes`, `MCRequest`; `RequestProofs` | instances: any bytes, well-formed messages; proofs |
| `TcpServer`; `MCTcpServer`; `ServerProofs` | the server on several threads; instances; proofs |
| `MetricsReport` | abstract: a count is added at once and reported once |
| `StatsdAggregator`; `MCStats`; `ServerProofs` | the aggregator, its thread and the client; instance; proofs |
| `Options` | the option handler as functions over words, and what a command line means |
| `Service` (extends `Options`); `MCService`; `ServiceProofs` | main, the database object, servers, endpoints, restarts; instance; proofs |
| `BoundedQueue` | abstract: a bounded first-in first-out queue |
| `MpmcQueue` | the lock-free ring, one step per atomic access |
| `AsyncLog` (extends `MpmcQueue`); `MCAsyncLog`; `AsyncProofs` | asynchronous logger and worker; instance; proofs about the ring and about delivery |
| `LogRegistry` | registry and loggers, the asynchronous ones up to their helper |
| `RotatingFile`, `DailyFile` | the file sinks over a file system that fails |
| `PatternFormatter` (extends `FmtInt`) | patterns and their flags |
| `FmtInt`, `FmtFormat` | fmt: writing numbers and strings; format strings |
| `MCLogging`; `LoggingProofs` | instance of the last six, one of which moves in each behaviour; proofs about the first three |
| `FormatProofs` | proofs about the last three |
| `InductionProofs` | induction over numbers and facts about flattened sequences, for the proofs |

Definitions named `X_Something` directly before a definition `X` are variants of
it with a plausible mistake. No specification uses them; they show that each
property would notice such a mistake.

### Request execution

A thread's `pc` is the next call of its handler; `command`, `todo`, `data` are the
request, `code` and `items` the answer (`_response`: its status line and its
`VALUE` blocks). `Prepare` is everything up to the first database call. `SetPut`,
`AddLock`, `AddGet`, `AddPut`, `AddUnlock`, `GetKey` (the body of the loop),
`DeleteGet`, `DeleteDel`, `HttpGet`, `HttpPut` are one call each with what the
code does with its status. `Throw` is the catch block, which does not unlock; an
exception is taken to come before the call it interrupts has changed the
database. `Finish` hands the answer over and resets the request.

RocksDB is external: a call is atomic and its status is ok, not found or, with
`CanFail`, an error; a write that fails changes nothing. TTLs, which act at
compaction, and the statistics counters are left out, and so is the text of
answers. `get` and `gets` share their code and are one command; so do PUT and POST.

`Allowed[t]` is what the clients served by thread `t` send. `RaceFree` describes
the deployments in which nothing slips between two database calls: adds do not
run beside sets and puts of other threads, and deletes come from one thread. The
code implements `AtomicStore` there; `store_add_beside_set` is a counterexample
outside. With every mix of commands, `PositiveAnswersTrue` still
says what clients can rely on.

### Request parser

A byte is a member of `Bytes`. The words of the protocol are one "byte" each, so a
read never ends inside them, while keys can be several bytes. `WhiteSpace` has
three of the six blanks, which the code treats alike. Each action is one iteration
of the loop in `process`; `Reject` is its catch block and `prepare_response` the
call of that name, both of which leave the loop and drop the rest of the read.
`Numbers` is the domain of `std::stoi`; `_remaining` is a `size_t` and wraps
modulo `SizeModulus`. `Init` leaves `_command` open because the constructor does.

`Paced` clients wait until the server has taken all they wrote and reads again.
`KeepTogether` is a promise about the network: the last so many bytes of what is
under way arrive in one read. The parser needs both promises (see the known divergences). `Send` and `HSend` stop at `MaxWire`, `MaxKeys`, `MaxSent`.

### TCP server

A thread runs a handler step by step (`pc`, `conn`) between `Begin` and `End`; a
step is one call on something other threads see. `reads`, `writes`, `accept` and
the waits of the timers are the operations outstanding in Boost.Asio. An operation
started on a closed socket fails; one that is under way when the socket is closed
is aborted, or has already ended and keeps its outcome. `TimerFires` is the moment
after which `cancel` is too late. `Process` chooses any outcome of the parser.
`read_timeout` and `write_timeout` are what a connection really gets from
`do_accept`, which passes its three settings in a rotated order: the write timer of a
connection is armed by `set_max_request_bytes`. `TimedWriteEnds` is therefore about
every write that a wait goes with, not about a setter. Time is abstract: a deadline passes at any moment once (`Expire`), as
the code sets each deadline once.

### Statistics

A critical section is one step: `counter`, `timer`, `gauge` and `set` change one
map, `SwapMap` takes one away, and `SendStat` is one datagram. `hand` is the map the
thread took away; `bg` is where the thread is. A gauge, timer or set records the number
of the call, so that a newer value can be told from an older. `SendThrows` is an
exception of `send_to` or of the buffer of a datagram, which ends the process
because the thread has no handler. `RequestStop` is the destructor; what was
recorded since the last swap is not sent any more, and no property says so.
`MaxRecords` bounds the calls.

### Service and options

`pc` is where main is; a step of main is a call that other threads or the files can
tell from the next. `handler` goes over the whole input once per registered option,
as `add_option` does; `ParsedAsMeant` compares the outcome with `Meaning`, a
definition without passes that shares none of the handler's tests: the occurrences of
an option in the line, the arguments after each of them, and the last of these. It is
stated for lines of `Plain` words. The others, `Doubtful`, are those on which handler
and help disagree (see Known divergences): negative numbers, `-?`, and one dash with
several characters after it. `db` is `_db`, which is
wild until open assigns it. A request is two steps, between which it holds the
pointer. The contents of the database are the number of writes; `files` is partial
while and after a restore was cut. `Die` is an uncaught exception, `Kill` any
sudden end, and `Restart` starts again on the files that are there. `Faults`, `MaxRuns`,
`MaxWrites`, `MaxBackups` are bounds. RocksDB and served are external.

### Asynchronous logging

`MpmcQueue` has one step per load, compare-exchange, store or access to `data_`;
`claimed` is the history of the items in the order of their positions. Atomics are
taken to be sequentially consistent. `AsyncLog` adds the calls (`call`), the two
loads of `approx_size`, the worker with its sinks, and the exceptions it survives.
With `discard_log_msg` a message may be given up, which `discarded` records: the
terminate message too, and then nothing is promised any more. `Budget` bounds the
calls of a thread and `Faults` the exceptions. What the sinks should have is stated by
positions of the queue: `InOrder` gives each delivered message a position, larger than
those of the messages before it, and `AllDue` asks for every wanted position up to
some n: all of them when the worker has ended, those before its own message when a
`flush` returns.

### Registry, sinks, formatting

`LogRegistry` keeps loggers as objects, since users hold them after a drop. Its
functions are one step under the mutex; `set_error_handler`, which takes none, is a
walk of one step per logger. `log` is one step per sink; an object made in asynchronous
mode has one target, `Helper`, which stands for the `async_log_helper` of the logger
(`async_logger_impl.h:86`), and `AsyncLog` takes over from there. `RotatingFile` is one step
per remove, rename, open and write; a message is its number, its size and the offset
in its file where it ends, so that the size of a file is the end of its last message;
a file also carries the number of messages written before it was made (`from`), which
the code does not keep and `FilesAreSuffix` compares with the other files. `buffered`
counts the messages only in the buffer of the `FILE`, and a kill loses them. `DailyFile`
reads a clock that moves between its reads. `PatternFormatter` compiles and expands
patterns; `LinesAsMeant` compares with `LineMeant`, in which `FieldMeant` gives each flag
from the comment at its formatter, with digits, padding, 12 hour clock and offset of
its own (`InDigits`, `On12Hours`), and not from the code. `Disputed` leaves `%I` and
`%r` out in the hour after midnight, where code and comment differ.
`FmtFormat` parses format strings part by part and `FmtInt` writes backwards into
the buffer as the code does; `FormatsAsMeant` compares with a direct definition
and asks that the pointer stays in the string (`StaysInString`).
Characters are model strings of length one; strings up to four of them are
enumerated, and longer ones are put together from parts.

## Runs

| run | instance | shows |
|---|---|---|
| `store_race_free` | 2 TCP threads, 1 HTTP thread, 2 keys, 2 values, lists of up to 2 keys; adds on both TCP threads, deletes on one | refinement of `AtomicStore`, `NoLockLeak`, `NotFoundMeansAbsent`; `CommandsAnswered` under fairness |
| `store_faults` | as above, 1 key, every command, errors and exceptions | `PositiveAnswersTrue`, `LockProtectsAdd` |
| `store_add_beside_set` | an adder and a setter | `AddKeepsValue` fails |
| `request_any_bytes` | any sequence of six words in reads of up to three, limit 4 | `NothingLeaks`, `RequestSafe`, `BufferBounded` |
| `request_paced` | 3 requests out of the well-formed ones, reads cut anywhere but in the last three bytes | `ParsedAsSent`, `EveryRequestHandled` |
| `tcp_connections` | 2 threads, 2 connections, read timer, signal | `SerialRequest`, `AnswersFinished`, `NoOrphan`, `ClosedNotTracked` |
| `tcp_one_thread` | 1 thread, settings for both timers, fairness | `StopClosesAll`, `ShutdownCompletes`, `TimedWriteEnds` |
| `tcp_deadline` | 1 thread | `ReadTimeoutPerRequest` fails |
| `stats_report` | 2 names, 3 records, an epoch callback, failing sends | `CountsConserved`, `NewerWaits`, refinement of `MetricsReport`, `CountsArrive` |
| `async_worker` | a client, the owner and the worker, ring of 2, 2 sinks, 1 exception, both policies | `NoDataRace`, `NothingLostAtExit`, `FlushDelivers`, refinement of `BoundedQueue`, `CallsReturn` |
| `service_life` | command lines of up to 3 words, 3 starts, 2 failures, 2 writes, 2 backups | `ParsedAsMeant`, `RequestsUseLiveDb`, `EpochWindow`, `RestoreServesNewest`, `EndsOnceTcpReturns` |
| `logging_library` | 2 callers, 2 names, 2 sinks; 2 old files and 4 messages, 2 failures, 2 processes; a clock over 4 days; patterns and format strings | `FilesAreSuffix`, `RotationSafe`, `DailyFileFresh`, `LoggersAgree`, `DeliveredOrHandled`, `LinesAsMeant`, `FormatsAsMeant` |

Bounds. Two threads are enough for a request to slip between two calls of another
and three for a third to wait for the mutex meanwhile; two values tell an
overwritten value from a kept one; two keys make a get that reads one key before
and one after a change. Three requests let state of one reach the next two. A
limit of 4 and reads of 1 to 3 let the buffer reach the limit in several reads. Two
connections let `stop_all` be half done when a handler of either one runs. Three
records let a value be in the map, one in the hand and one sent. A ring of two with
five messages (two logs that flush, and terminate) is full, empty and goes round
more than once. Three starts let one process leave a backup, the second be cut in a
restore and the third start on what is left. Four messages and two old files fill every
file and remove the oldest; messages of size 4 are larger than a file may be. Two calls of
the registry beside two messages let a setting, a drop or a walk meet a creation or a
log; more calls are left to the theorem. The theorems remove the bounds for the properties they state.

Deadlock is checked in `store_race_free`. It is not in `store_faults`, where an
exception may leave the mutex locked for ever, nor where clients stop writing
(parser) or all work ends (server, statistics, logging, the process), where the liveness
properties say what must happen instead.

Fairness. Execution: the operating system runs every thread that can run
(`WF` of `Work(t)`); nothing makes `std::mutex` fair, so `CommandsAnswered` leaves
out requests that wait for it. Parser: what is written arrives and ready handlers
run (`WF` of the server's steps). Server: weak fairness of a thread's steps, of
the kernel and of time; strong fairness for taking a ready handler, because the
`io_service` queue is first in, first out, while threads compete for it.
Statistics: the background thread runs (`WF` of `Background`); that a send throws is
never assumed and never excluded. Asynchronous logging: every thread runs; strong
fairness of a claim, since threads that lose a compare-exchange or find the queue full spin,
yield and then sleep (`sleep_or_yield`), so that one that keeps being able to claim does at last.
Service: main, the endpoints, the thread of the statistics and the end of the HTTP
server run (`WF` each). Nothing is assumed of the TCP server's `run`: with several
threads an orphan connection or a leaked mutex keeps it from returning, so
`EndsOnceTcpReturns` begins where it has returned, and `ShutdownCompletes` shows that it
does with one thread. Clients are never fair: they may stop sending, receiving or leaving.

## Proofs

All proofs hold for every value of the constants under the named assumptions.

* `StoreProofs`. `SInv` is the types and `Shape`: for each `pc` what the request and
  its answer look like, and that the mutex belongs to whoever is between lock and
  unlock. `Shape` is needed because the properties speak of `pc` and the mutex but
  what is read and written is `Head(todo[t])`. From it: `TypeCorrect`,
  `AddsExclusive`, `EveryPathUnlocks` (no exceptions), `TestsStayValid` and
  `AddNeverOverwrites` (`RaceFree`), `CommandsAreAtomic` (`RaceFree`, no database
  errors): each step of the code is a step of `AtomicStore` or a stutter.
  For the answers, `HInv` adds that the present value of every key is in the
  window of every open request and that what an add or delete has tested is in it
  too. From it `AnswersTrue`, and `MissingKeysWereAbsent` without database errors.
* `RequestProofs`. `StatusFits` says what each status implies about the command and
  its keys; `RoomLeft` adds the bytes not yet looked at to the buffer, which the
  check of the size bounds. From them `ParserSafe` and `BufferStaysBounded`.
  `RequestsAreUnderstood` follows a message through the parser instead of looking at
  one state of it: `InLine` and `InData` say that after p bytes the status, keys,
  counters, `_no_reply` and buffer are what the first p bytes of the message call for,
  `Rest` that what is in the chunk and on the wire is the remainder, `Final` that a
  finished request is the one the message means. There is a lemma for a byte inside a
  word, for the blank after the command, after another word and after the line, and for
  the data block; the induction over the bytes of a message is that over the steps of
  the system. It assumes `Careful` (in `RequestHistory`): any set of messages, each a
  line of words with one blank between two of them and a blank more at the end, plus a
  data block of the announced size where there is one; clients that wait for the
  answer; messages shorter than the limit; and reads that do not cut the last three
  bytes of a message apart, without which the property does not hold (see Known
  divergences). TLC evaluates the assumption on the messages of `request_paced`
  (`MessagesAreCareful` in `MCRequest`).
* `ServerProofs`, the TCP server. `TInv` has a part per thread (how far its request is,
  that its socket was accepted), a part per connection (an operation needs a connection
  and a request in the right state) and the owners of the accept handler and the mutex.
  `SerialRequest` is inductive only with them: that nobody else touches a request
  follows from the operation whose completion started the handler. From it
  `TypeCorrect`, `RequestsSerial`, `OnlyFinishedAnswered`, `NoConnectionLost`,
  `NoConnectionKept`. `OneThreadClosesAll` assumes `OneThread`, the default of
  `server::run` (`--tcp_threads 1`; the service's own default is 10): then no handler
  runs beside that of the signal, and no connection is left about to be inserted. With
  more threads the property does not hold (see Known divergences).
* `ServerProofs`, the statistics. `SInv` adds to the two properties that nothing recorded, held or
  sent is newer than the last call. From it `CountsAreConserved`, `ValuesInOrder`,
  and `ImplementsReport`: a step of the thread is a report of one count or a stutter.
* `AsyncProofs`, the ring. `QInv` describes the ring by positions: the cell of a queued
  position has its sequence number equal to the position (being written) or one more
  (written); the cell of a free one equal, or still that of the round before.
  `OwnerOK` says what a thread that claimed a position, or is about to, may rely on,
  and `Distinct` that no two own the same position. Arithmetic on positions modulo
  the capacity is in the lemmas at the front. `DInv` adds what the cells hold. From
  them `CellsHaveOneOwner` and, with the queue read off `claimed`, `RingIsFifo`;
  `LoggerTypeCorrect` adds that the worker holds a log message while sinks are given it.
* `ServiceProofs`. `LInv` says for each `pc` what exists: no server before the
  database is open, none after `JoinTcp`, no handler in a server that is not up, the
  newest backup in place once a restore went through. From it
  `DatabaseOutlivesRequests`, `CallbackWindow` and `RestoreIsComplete`, for every command
  line, number of failures and restarts.
  `LineIsUnderstood` (lines of `Plain` words) needs induction over the words and over the
  options. `PassSo` says
  what one pass has after k words: it threw, exactly when one of them is wrong, or it
  holds the last argument given to its option by then and all that was there before.
  `HandlerSo` says the same of the passes of k options, and `CInv` of the handler while
  main registers them. A later pass leaves what an earlier one found alone because no
  two options share a long name (`OptionsAssumption`, true of `options.cpp`).
* `AsyncProofs`, the logger, on top of the ring. The clients' half, `ClientInv`: who is inside
  which part of the ring (`Places`); a log message has one position, because a client
  numbers its own (`Numbered`); terminate takes the last position, because the
  destructor finds nobody in a call (`Last`); a client that waits in `flush` has a
  position before `enqueue_pos` (`Waits`). The worker's half, `WorkerInv`: between the
  exchange and the last sink it holds the message of the last position taken (`Holds`);
  each sink has what is due of the positions the worker has passed for it, in order
  and nothing else (`Arrived`); after terminate nothing is left in the queue
  (`Drained`); the sinks before the one at hand are flushed (`AllFlushed`). The halves
  meet in two frames: a client only appends positions, which changes nothing for sinks
  (`ClientKeepsWorker`), the worker only advances `dequeue_pos` (`WorkerKeepsClients`).
  From them `NothingIsLost` and `FlushWaits`.
* `LoggingProofs`. Registry: `GInv` says that a logger has one name, that a plain logger
  has level and formatter of the registry, and that while one walk of
  `set_error_handler` met nobody the visited loggers have the new handler and the others
  the old one; from it `RegistryAgrees`. Delivery: `DeliveryInv` says that a message has
  one caller, that no sink has it twice, and that the sinks its caller has passed have it
  and those ahead do not, so that at the end it is everywhere it is owed, which for an
  asynchronous logger is its helper; from it `EveryMessageArrives`, for loggers whose list names a sink once (`DistinctSinks`: with
  a sink named twice the code delivers twice). Daily file: `DailyInv` says that
  `_rotation_tp` is a rotation moment at most two days after the moment the file is
  named for (one until the second look at the clock, one until the rotation that look
  gave), and that a sink without a file is past it; arithmetic on days is in the
  lemmas before it; from it `DailyFileIsFresh`, given that one call of `_sink_it` takes
  less than a day (`Tick`). Rotating files: `RotatingInv` says that
  the target of the loop in `_rotate` is gone before a file is moved there, that
  `_current_size` is at least the size of the open file and larger than `_max_size`
  when a rotation failed half way, and that each file begins where the next older one
  ends; from it `RotationKeepsSuffix` and `RotationIsSafe`, for every number of files,
  failures, kills and restarts.

* `InductionProofs`. The theorems of the library that take a predicate cannot be used by
  the installed provers, so induction is stated for sets: a set of numbers that holds 0 and
  with n also n + 1 holds all of them (`Induct`), and a set of numbers that is not empty has
  a least one (`LeastNumber`). What `FlattenSeq` gives for a sequence and one more element,
  and for two sequences, follows.
* `FormatProofs`. `IntegersAsMeant`: for every width of integers up to 64 bits, every
  value, signed or not, base, fill, width, alignment, sign and prefix, what `write_int`
  writes is `IntAsMeant`. Negating the most negative value in the unsigned type is exact
  (`AbsValueIs`). The decimal case needs that `count_digits` is exact at each power of
  ten, by comparing the powers of two and ten up to 2^64 and 10^20 (`TwoAndTen`), and
  that pairs of digits taken from the end are the digits; the other bases that the
  counting loop and the writing loop end together; all of them that a number has one
  count of digits in a base (`IsCount`), and that the digits fill exactly the room
  `prepare_int_buffer` left. `Power` is a recursive function, since the provers do not
  know `^`. It leaves out type `n` and precisions, which `format` refuses for integers.
  `PatternIsFormatted`: `FieldIsMeant` shows for each flag that what its formatter writes
  is `FieldMeant`: padded numbers by the lemmas on integers (`PadMeant`), years from 1900
  on as four digits or more (`YearMeant`), the 12 hour clock outside the first hour
  (`HourMeant`), the offset in minutes towards zero (`OffsetMeant`). `PInv` says that
  while a pattern is compiled, the formatters and the characters collected so far write
  what the pattern up to the place means, and that the place is never the character
  after a `%`; while a message is formatted, that what is written is what the formatters
  up to the place write. It assumes a `tm` in its ranges, an offset of whole minutes
  below a hundred hours (`MsgAssumption`, `OffsetAssumption`), less than a second of
  nanoseconds (`NanosAssumption`) and integers that hold it, the year and the two ids
  (`DigitsAssumption`, `WidthAssumption`). `FormatStaysInString`:
  `SInv` says that the pointer is at a character or at the Nul, not before the text that
  is still to be copied, and at a colon when a specification is about to be read,
  because that step passes over a character it does not look at. The end of a run of
  digits or of name characters exists by `LeastNumber`, at the Nul at the latest.
  `Tokens` names the strings the code writes, since the provers know no string literal
  to be in `STRING`.

Three refinements are proved as well as checked: `StoreCommands` implements
`AtomicStore`, `StatsdAggregator` implements `MetricsReport`, and the ring
implements `BoundedQueue`.

Only model-checked. Everything under fairness (`CommandsAnswered`,
`EveryRequestHandled`, `ShutdownCompletes`, `TimedWriteEnds`, `CountsArrive`,
`CallsReturn`, `EndsOnceTcpReturns`), which the prover does not treat. Of `FormatsAsMeant`,
the comparison of a whole call with its meaning, which is part of the calls of the
instance; that the parser stays in the string, and what is written for integers, are
proved.

## Known divergences

The violation runs are disagreements between the code and its comments;
`PROJECT.json` quotes them under `findings`. Others met while modelling, for which no
run is kept:

* `store::del` says it is true "if the key was found and removed", but RocksDB's
  Delete is ok for a missing key; a delete whose read fails answers `NOT_FOUND`;
* the request limit does not count keys already parsed; a storage line that ends in a
  word other than `noreply`, such as the `[noreply]` of `request.test.cpp`, puts that
  word in front of the data;
* the end of a request is recognized one byte early and the rest of the read is
  dropped (`request.cpp:209`): a request whose last bytes come in two reads, or two
  requests in one read, are not parsed as sent;
* with two threads, a connection accepted while the signal is handled can be
  inserted after `stop_all` (`connection_manager.cpp:36`) and stays open; `run` then does
  not return and main waits in `mem_thread.join()` until the client leaves;
* `do_accept` passes read timeout, write timeout and request limit (`server.cpp:153-155`)
  where the constructor of a connection takes request limit, read timeout and write
  timeout (`connection.cpp:39`): `set_read_timeout` limits the size of requests,
  `set_write_timeout` sets the read timeout and `set_max_request_bytes` the write
  timeout, against `server.hpp:102-123`; `set_write_timeout` alone arms no write timer;
* a signal after the construction of the TCP server and before that of the HTTP server
  stops only the first;
* the epoch callback may use `_db` while main deletes it, and after; `_db` is
  deleted without having been assigned when main returns before open;
* `--db_max_open_files -1` is refused, because `-1` looks like an option, although
  `rocks.cpp:40` says "-1 is unlimited"; so is every argument that begins with a dash. A
  word with one dash and several characters is taken by its first one as a short name,
  and by what follows it as a long name, and `-?` matches options without a short name;
* a process killed in a restore and started again without one serves what is left;
* `flush` of an asynchronous logger returns when the queue is empty: the last
  message may still be with the worker, and nothing need be flushed yet
  (`async_log_helper.h:254`). `FlushDelivers` is therefore about what lies before the
  flush message in the queue;
* with `discard_log_msg` the terminate message can be dropped, and the destructor then
  waits for ever; so does it when flushing a sink throws every time;
* `set_error_handler` takes no lock; `create` makes, and truncates, its file before
  it refuses a name in use;
* a daily sink reads the clock once more for the next rotation: when the rotation time
  passes between the name of the file and `_next_rotation_tp` (`file_sinks.h:207-208`),
  the rotation then due is skipped and a whole period is written to the file of the
  period before, against `file_sinks.h:177` ("rotates at midnight"); `DailyFileFresh` accepts the
  period before and so does not tell this from a rotation that was only late;
* `to12h` gives 0 at midnight, though `pattern_formatter_impl.h:223` says 1-12;
* the check for a wrap at `format.h:4096` misses some wraps; `prepare_int_buffer`
  uses a pointer from before the buffer grew (`format.h:3136`), which only printf reaches.

## Not modelled

* The memory of an answer while `async_write` sends it in several steps
  (`connection.cpp:130`): what the socket reads from a destroyed string is undefined,
  and no property of the answer would hold. `server::stop`, which nothing calls.
* Two backup requests at once: what two engines do to one directory is RocksDB's.
* The composition of `Request` with `TcpServer`, in place of the free choice of `Process`:
  their product exceeds what TLC explores, and `Process` allows every outcome `Request` has.
* Of the sinks: the simple file sink (a rotating one that never rotates), the failure of
  a constructor, stdout, syslog and Android sinks. Of fmt: printf, floating point, custom
  and wide arguments, growth of the buffer, streams, POSIX wrappers and times, of which the
  service uses nothing. The move constructor of `async_msg`, on a path that is never taken.
* RocksDB, Boost.Asio, served and the standard library are external and modelled from
  their use. Windows variants, `catch.hpp`, tests and build files are left out. Weak
  memory orders are not modelled.
