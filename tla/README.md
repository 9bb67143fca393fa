# A TLA+ verification of OSC_Server

`OSC_Server` is a sensor gateway in C: clients (sensor nodes) connect over TCP
and upload temperatures, the gateway checks running averages against limits and
stores every measurement in a CSV file, and a forked process keeps an event
log.  The final program is `src/TCP_SensorMonitoringSystem/project` (`P/` below);
`src/plab_1-4_solutions` holds the four labs it grew from: `startcodeplab1` (`L1/`
below), `startcodeplab2` (`L2/`), `startcode_plab3/startcode_plab3` (`L3/`) and
`startcodeplab4/startcodeplab4` (`L4/`).

This directory holds TLA+ modules for the parts of that program that carry its
logic, TLC configurations that check them on small instances, and TLAPS proofs,
for every number of threads, clients, records and messages, of what makes the
parts correct in which threads, processes or machines meet: the shared buffer,
the connection manager, a client's session, the gateway process, the log
process, the draining buffer, the test server, and the socket library.

    tlc -workers 2 -config MCSBuffer.cfg MCSBuffer
    tlapm SBufferProofs.tla

## 1. The system

| component | code | state | operations |
|---|---|---|---|
| shared buffer | `P/sbuffer.c` | `head`, `tail`, nodes, `mutex`; one `node` pointer per reader | `sbuffer_init`, `sbuffer_insert`, `sbuffer_read`, `sbuffer_free` (and `sbuffer_remove`, never called) |
| connection manager | `P/connmgr.c` | `conn_counter`, `conn_terminations`, `conn_mutex`, `conn_cond`, `stop_excess_handler`, the sockets | `connmgr_listen`, `client_handler`, `excess_client_handler` |
| sensor node, session | `P/sensor_node.c`, `client_handler`, `tcp_send`/`tcp_receive` | the bytes under way, the record being received, `start_time` | send field, receive field, time-out, insert, log, close |
| data manager | `P/datamgr.c` | the list of sensors with their windows | read the map, handle a record, report, free |
| storage manager | `P/sensor_db.c`, 165-247 | `data_file` | `open_db`, `close_db` (`insert_sensor` is never called) |
| gateway | `P/main.c`, `P/config.h` | three threads | create, join, free; `ERROR_HANDLER` exits the process |
| log process | `P/sensor_db.c`, 30-163 | pipe, `sequence_number`, child process | `create_log_process`, `write_to_log_process`, `end_log_process` |
| list library | `P/lib/dplist.c` | nodes and elements in the heap | create, free, insert, remove, queries |
| socket library | `P/lib/tcpsock.c` | structures, descriptors, address strings | passive and active open, wait, close (send and receive: see session) |
| draining buffer | `L4/main.c`, `L4/sbuffer.c` | the list, `eos_count`, output file | writer, readers, `output_test` |
| test server | `L3/test_server.c` | as the connection manager | main, detached handlers |
| sensor file reader | `L1/datamgr.c`, `L1/main.c`, `L1/lib/dplist.c` | the list of sensors in the heap, the files | open, parse the map, handle a record, print, free |
| data file and log process | `L2/milestone2/` | `f`, what of it is buffered, `logger_pid`, the bytes in the pipe, the child | `open_db`, `insert_sensor`, `close_db`; `create_log_process`, `write_to_log_process`, `end_log_process` |

How they interact.  `main` creates the log process and three threads.  The
*connection manager* accepts clients, each served by a thread of its own that
receives measurements from one *sensor node* and **inserts** them in the
*shared buffer*; the *storage manager* and the *data manager* each **read** the
whole buffer from their own position.  When `MAX_CONN` clients have come and
gone, the connection manager inserts a record with id 0, the end of the
stream, upon which both readers return; `main` joins the three threads, frees
the buffer and ends the log process.  All of them log through one pipe.

What is hard about it, and what makes each component correct:

* **Shared buffer.** Readers walk the list without the mutex while several
  handlers insert, and nothing is freed before the end.  Correct means: every
  reader gets each record once, in order and completely; no thread touches a
  freed node; at the end every node is freed once.
* **Connection manager.** Two counters and a condition variable shared by the
  listener and all handlers, an excess handler on the same server socket, and
  error paths that go round the lock.  Correct means: at most `MAX_CONN` are
  served, no termination is lost, the end of the stream is the last record,
  every socket has one owner, and the listener ends when its clients are gone.
* **Session.** A connection may break between any two fields and may be late, `recv`
  may return a part of a field, and the buffer may have no memory for a record.
  Correct means: what is stored is what was sent, as long as fields arrive whole;
  what is missing came late or found no memory; and the log tells all that was
  given to the buffer.
* **Data manager.** A window that starts with preset values, sensors that occur
  twice or not at all in the map.
* **Gateway.** Any thread can end the process through `ERROR_HANDLER`; the
  buffer is freed once nobody uses it, even if a reader was never created; at a
  normal end everything is stored, unless a write failed, which the program does
  not look at.
* **Log process.** Messages of several threads, cut by reads; the descriptors of
  two processes decide when the pipe ends, and who waits for whom.
* **List and socket library.** Sequential; cases at both ends of the list, the
  ownership of elements, and a different clean-up at each failing call.
* **Draining buffer.** One end-of-stream marker handed from reader to reader, an
  unprotected counter, records that are written outside of the lock; a dozen calls
  whose results are ignored.
* **Test server.** Detached threads that the end of `main` could cut off.
* **Sensor file reader.** Elements are changed in place through pointers into a
  list that owns them without a copy; an element whose node gets no memory is lost.
* **Data file and log process.** Every call can fail; a child that cannot open its
  log goes on as a second parent; the child ends at a read that is exactly the
  marker, while reads cut the stream anywhere.

`PROJECT.json` lists the hazards with their lines and the properties for them.

## 2. The modules

| module | models | state and actions |
|---|---|---|
| `BroadcastLog` | what the shared buffer promises | an append-only `log`, one `received` per reader |
| `SBuffer` | `sbuffer.c` | the heap cells with `next` and `data`, program counters of writers, readers and `main`; each store another thread can see is one action |
| `ConnService` | what the connection manager promises | `stage` of each connection, the records inserted |
| `ConnMgr` | `connmgr.c` | program counters `lpc`, `epc`, `hpc` of listener, excess handler, handlers; the mutex; both counters, `++` split into load and store; each connection and the server socket |
| `Session` | one node and its handler | a stream of half fields, of which a `recv` takes one or two, the clock, the record under construction, the records given to `sbuffer_insert` and those it had no memory for, the log |
| `DataMgr` | `datamgr.c` | `data_list` front first, windows, events |
| `Gateway` | `main.c`, `open_db`, `close_db`, the end of `data_manager_init` | program counters of the four threads (or that one was not created), the CSV lines and how many of them are in the file, the outcome of the process, whether the end-of-stream record could be allocated; the buffer and the connection manager are the actions of `BroadcastLog` and `ConnService`; a node's id may be 0 |
| `Logger` | `sensor_db.c`, 30-163 | pipe, ends open in each process, sequence numbers, messages as two parts |
| `DPSequence`, `DPList` | `dplist.c` | a sequence of values; the cells with `prev`, `next`, `element`, and who owns an element |
| `TcpSock` | `tcpsock.c` | variables, structures, address strings, descriptors |
| `DrainBuffer` | lab 4 | queue, waiting readers, `eos_count` with `++` split, output lines |
| `TestServer` | lab 3 server | as `ConnMgr`, handlers detached, output instead of a buffer |
| `SensorFiles` | lab 1 program | the heap of `DPList` (an instance of it gives the shape of the list), the element in hand, windows and reports as in `DataMgr` |
| `LoggerLab2` | lab 2, milestone 2 | program counter of the parent, the child, the messages sent, the bytes written and logged by the lengths of the messages, records in the file and in its buffer |
| `SBufferProofs`, `ConnMgrProofs`, `TestServerProofs`, `DataMgrProofs`, `SensorFilesProofs` | the proofs about these components; `DataMgrProofs` also those about `DPList` | |
| `SessionProofs`, `GatewayProofs`, `DrainBufferProofs` | the proofs about these and, in their second halves, about `TcpSock`, `Logger` and `LoggerLab2` | |
| `MC...` | | instances for TLC |

Composition: `SBuffer` implements `BroadcastLog`, `ConnMgr` and `TestServer`
implement `ConnService`, `DPList` implements `DPSequence`, and `SensorFiles`, a
program on a heap, implements `DataMgr`, which has sequences; `Gateway` runs
`BroadcastLog` and `ConnService` together with the threads that use them, so it says
what the process does with a buffer and a connection manager that keep their
promises.

Conventions.  An action is named for the operation or the statement it
models, its comment says which; `map` in `PROJECT.json` gives the lines.  A
program counter names what the thread does next.  Operations that run while a
lock is held and touch nothing that is read without it are one action; what
others can see without the lock is one action per store.  Failing calls are
nondeterministic, and a constant (`AcceptMayFail`, `CallsMayFail`, ...) that can forbid
them is set in the runs that hold.  `failed` (in `ConnMgr`, `TestServer`), `dropped`
(in `Session` and `DrainBuffer`), `lost` (in `SensorFiles`, and as the state of a
connection in `ConnMgr` and `TestServer`), `markerLost` and `writeFailed` (in
`Gateway`) and `flushFailed` (in `LoggerLab2`) remember that a call failed, `cut` (in
`Session`) when a `recv` first returned a part of a field; `chain`, `received`,
`handled`, `written` are history.  Definitions marked *Mutant* are plausible wrong
versions of the action below them; no specification uses them, they are put
in its place to see that a property notices.

`Logger`, `TcpSock`, `DPList` and `LoggerLab2` name their `Init`, `Next` and `Spec` for
the component (`LogInit`, `SockNext`, `ListSpec`, ...), since one proof module speaks
of them next to another component; `returned` in `TcpSock` is the result of the
last call, `lpc` and `chunk` in `Logger` are the logger's control point and its
`buffer`.

Points where the C text leaves a choice:

* `conn_mutex` is a default (normal) mutex of glibc: it does not know its owner,
  so an unlock by another thread releases it; `pthread_mutex_destroy` fails
  with EBUSY when it is held.  `ConnMgr` models both, because `continue` after a
  failing `accept` (`P/connmgr.c:194-198`) does unlock a mutex not held.
* `conn_terminations++`, `eos_count++` and `sequence_number++` are a load and a
  store.
* The order of stores in `sbuffer_insert` is the program order: the Makefile
  passes no optimisation level and x86-64 keeps stores in order.
* Condition variables may wake up without a signal.
* `pthread_join` of the `excess_thread` that a failed `pthread_create` left unset
  (`P/connmgr.c:226`, `:240`) returns, or ends the process; so does the join of any
  other thread that was not created (`P/main.c:63`, `L4/main.c:188`).
* When `fflush` fails, what was in the buffer of the stream stays there for the next
  call, or is discarded (`P/sensor_db.c:198`, `:235`).
* A reader without a buffer (`L4/main.c:176`) takes its unset record for a measurement
  or for the end of the stream.
* A `read` of a pipe returns what is there, up to the size of the buffer; when it
  runs relative to the writes is open, so it may cut or join messages.

## 3. The runs

| run | question | bounds | states |
|---|---|---|---|
| `sbuffer` | do readers without the lock get everything, and is memory safe? | 3 insertions, 2 writers, 2 readers, 2 records and the marker | 120,907 |
| `connmgr` | admission, exact counters, end of stream last, owners of sockets, no waiting for ever, the abstract service; `tcp_wait_for_connection` (before and after its `accept`), `sbuffer_insert` and `pthread_create` fail, that of the excess handler included | `MAX_CONN` 2, 3 clients of up to 1 measurement | 186,872 |
| `session` | is what is stored what was sent, what is missing and what does the log tell of it, does the handler end? | 2 measurements, every cut of the stream, any failed insertion, `TIMEOUT` 1, clock to 3 | 321,572 |
| `datamgr` | windows and exact reports, with each `malloc` that may fail | 2 sensors, maps of up to 2 lines, 5 measurements of 3 temperatures, window 3 | 125,633 |
| `gateway` | is everything stored, is the buffer freed last, does the process end? | 2 clients, ids 0 and 15, 3 records, a lost marker, failing `pthread_create`, `fprintf`, `fflush`, `fclose` | 86,066 |
| `logger` | is the log complete and in one piece, do both processes end? | 3 threads of 1 message (and main's last), pipe of 2 messages, reads of 1.5 | 28,935 |
| `dplist` | links, ownership, queries, each call against the sequence | 3 nodes, 3 elements, 2 values, 5 indices | 9,105 |
| `tcpsock` | structures, strings and descriptors whatever fails | 3 variables, 4 descriptors, 10 kinds of failure | 434 |
| `drain` | each record once, one marker, how late a record can be, no lost wakeup | 3 readers, 3 records; `sbuffer_init`, `fopen`, `pthread_create`, `malloc`, `fprintf`, `fflush` fail | 60,918 |
| `test_server` | is no thread cut off, is the shutdown line last, same service? | `MAX_CONN` 2, 3 clients of up to 1 measurement, failing `accept` and `pthread_create` | 40,205 |
| `logger_lab2` | do the log, the data file and what the parent reported agree, do both processes end? | the 4 records of its main, 7 kinds of failure, reads of up to 255 bytes | 9,065 |
| `sensor_files` | does the list own its elements through in-place changes, is it the data manager of the gateway? | 2 sensors, maps of up to 3 lines, 4 records of 3 temperatures, window 2, any failing `malloc` | 303,477 |

All of them hold; section 5 lists the configurations whose property the program
breaks.

Why the bounds are enough.  `SBuffer`: three nodes are an empty list's first
insertion, an insertion behind one node, and a list longer than a reader's
step; two writers contend, two readers are at different positions; the proofs
remove the bounds.  `ConnMgr` and `TestServer`: two clients are the fewest that
contend for the counters, the third is the excess one or the one that takes
the place of a lost one; the proofs remove the bounds.  `Session`:
the second measurement is the first that can be late or left half sent after a
stored one; a field of two halves is the smallest that a `recv` can cut, and a clock
to 3 lets the second measurement be late, in time, or neither.  `DataMgr`: windows of three filled once and a half over; the
temperatures 0, 15, 30 give averages below, above, between, and exactly at the
limits 10 and 20.  `DPList`: a first, an inner and a last node, indices below,
at, inside and behind.  `DrainBuffer`: `NUM_READERS` 3 instead of the program's 2
lets the marker be put back twice.  `Logger`: reads of one and a half messages
cut messages and join them; the pipe gets full.  `LoggerLab2` has the real
lengths of the messages, the 255 bytes of a read and the four records of the
program.  `Gateway`: with 3 records the readers can be ahead, behind and apart,
and a record with id 0 can be first, between two others, or last.
`SensorFiles`: a map line that repeats a sensor, a third element, and a window
that is overwritten once.  `TcpSock`: a listening socket and two
connections.

What the properties say is in the comment above each.  The type invariant is a
conjunct of the first invariant of a module (in `SBuffer` and `ConnMgr` it is a
theorem of its own).

### Fairness

Safety properties assume none.  Liveness properties assume:

* `SBuffer`: each reader runs for ever (it polls; nothing blocks it).  Writers
  may stop at any point, which the lock-free readers survive.
* `ConnMgr`, `TestServer`: each thread that can run does, and one that contends
  for a mutex that is free again and again gets it (strong fairness of the
  lock actions).  `client_handler` has no working time-out while it waits in
  `tcp_receive`, so we must also assume that no client is silent for ever; it is
  the weak fairness of `Receive`.  Nobody is obliged to connect and no call is
  obliged to fail or to succeed.  Termination is promised only as long as no
  accept or pthread_create has failed (`failed`), see section 5.
* `Session`: the handler runs and time passes; the node may do as it likes.  A node
  has ended when its connection has: a host that vanishes without a FIN or a RST
  looks like one that is silent, and the handler waits for it (`MCSessionSilent`).
* `Gateway`: the threads run; clients come, measure and go as they like, and
  the connection manager ends when it can.  `EndsAfterClients` holds with every
  `ERROR_HANDLER` exit enabled; it excepts the run in which the end-of-stream
  record could not be allocated and no record of a client reads as one: then
  the two readers poll for ever (`P/sbuffer.c:99`).
* `Logger`, `LoggerLab2`, `DrainBuffer`: each thread and process that can run does.
  `Completes` excepts, by name, the runs that end in an `exit`, have no buffer or no
  writer, lose the marker, or have no reader.

`CHECK_DEADLOCK FALSE` is given where the program ends (all but `tcpsock`).

## 4. The proofs

TLAPS checks, from the named assumptions of the modules alone (finite sets of
connections, `MaxConn` positive, `NULL` not a node, ...), the theorems below.  The
method is the same in each module: `IInv` is the conjunction of the properties
with what makes them inductive, one lemma per conjunct with one step per
action; `Safety` is `SafeSpec => []IInv` (`SafeSpec` is `Init /\ [][Next]_vars`),
and the others follow from it.  (A specification without fairness is its own
`SafeSpec`; where a proof module holds two components the names say which.)

`SBufferProofs`, for any nodes, records, writers and readers:

| theorem | |
|---|---|
| `TypeCorrect` | the type invariant |
| `ReadersInOrder` | each reader has received the records of a prefix of the chain and stands at its last node (`ReaderPosition`) |
| `NothingLeaks` | allocated nodes are the linked and the private ones; the free loop releases each once (`HeapAccounted`) |
| `MemorySafe` | no pointer a thread follows leads to a freed node (`NoDanglingUse`) |
| `Refinement` | `SafeSpec => BL!SafeSpec`: each step of the list is a step of the log or a stutter |

`ReaderPosition` is not inductive: that a reader's `next` is the next record
needs the list in memory to be the history `chain` (`ChainInMemory`), which needs
`tail` to be the last node outside of the critical section and a known store
away inside it (`TailInSection`, which also holds mutual exclusion), and that a
node being built is allocated, complete and nobody else's (`PrivateNodes`);
memory safety needs in addition what is allocated and that `main` frees only
when writers and readers are done (`HeapAccounted`).

`ConnMgrProofs`, for any connections, any `MaxConn`, any number of measurements,
with failing `tcp_wait_for_connection`, `sbuffer_insert` and `pthread_create`:

| theorem | |
|---|---|
| `TypeCorrect` | the type invariant |
| `NoLostCount` | until a call fails both counters are exact (`CountersExact`) |
| `Admission` | never more than `MAX_CONN` admitted; the branch the code calls never reached is not (`AdmissionBound`) |
| `OneOwner` | each connection has one owner, but one that `tcp_wait_for_connection` had accepted before it failed, which has none (`EachSocketOwned`) |
| `EndOfStreamLast` | the server socket closes and the end of the stream goes in, unless there is no memory for it, after the last measurement of the last handler (`EosIsLast`) |
| `NoSocketLost` | when the listener returns, no connection is open but those lost in `tcp_wait_for_connection` (`P/lib/tcpsock.c:173`); none, if it cannot fail (`NothingLeftOpen`) |
| `Refinement` | `SafeSpec => CS!SafeSpec` |

The interesting part is what a failure leaves.  A failing `accept` makes the
listener unlock a mutex it does not hold, so mutual exclusion (`MutexOwned`) and
exact counters hold only until then.  The end of the stream must nevertheless
come last; for that `CountersSafe` is enough: `conn_terminations` may lose an
increment but never exceeds the handlers that have passed theirs, and
`conn_counter` never falls below the clients started.  So `conn_terminations =
MAX_CONN`, which the listener waits for, implies that `MAX_CONN` handlers have
been started and are past their insertions (lemma `WaitEndsLast`).  A lost
increment makes the listener wait too long, never too short.

`TestServerProofs`, for any connections, `MaxConn` and measurements, whatever
`accept` and `pthread_create` do: `ThreadsFinish` (`NoThreadCutOff`), `ShutdownLast`
(`ShutdownIsLast`) and `Refinement` (`SafeSpec => CS!SafeSpec`, the service the
gateway's connection manager gives).  `ThreadsFinish` says in full that no detached
thread is cut off by the end of `main` or finds its mutex destroyed as long as no
call has failed; after a failure, which leaves the mutex unlocked by a thread that
did not hold it, that each thread has at least closed its socket and counted
itself.  The argument is that of `ConnMgr`, with
`OneThread` for the detached threads and `Output`, which relates the printed lines
to the measurements each handler has received.

`SessionProofs`, for any number of measurements, any `TIMEOUT` and any clock, however
`recv` cuts the stream and whether or not `sbuffer_insert` has memory: `Stored`
(`StoredAsSent`), `LossKnown` (`NothingSilentlyLost`) and `LogComplete` (`LogTellsAll`).
The handler never looks at the number of bytes, so the first `recv` that returns a
part of a field shifts all that follows; `cut` remembers the record it was for, and
what the theorems say of the records is said of those before it (of all, if there
is no cut).  `InOrder` is the heart of it: until then the halves of fields
under way follow each other, from the one the handler expects to the one the
node sends next, or nothing is under way and the two agree; so a field that is
received is the right one, and when the stream ends in order nothing is
missing but what there was no memory for.  `EndKnown` remembers why the handler left
its loop, `Story` what the log must then contain: a line for each record given to
the buffer, `log_data_insert` being called whether or not it was stored.

`GatewayProofs`, for any clients and ids, any `MAX_CONN`, with or without a sensor
in the list, whatever calls fail: `Stored` (`StoredComplete`) and `BufferFreedLast`
(`FreedLast`).  Whatever `fprintf` and `fflush` do, the lines of the file are
measurements in order and none twice; that they are all is proved until one of
the two has failed (`writeFailed`), since the code then goes on to a normal end
without the line.  `Handed`
ties each reader to the buffer and its control point to what it was last
handed, `Phases` the threads to how far `main` has come; that nobody is served any
more when the buffer is freed is a fact about `ConnService` that `Phases` carries
over.

The log process (second half of `GatewayProofs`), for any threads and messages
and any size of pipe and read: `StreamKept` (`StreamIntact`), `Complete`
(`CompleteAtExit`) and `Killed` (`KilledOnlyWithoutLog`) from the invariant `LogInv`.
`PipeEnds` says who has which end of the pipe open in each phase, from which end
of file and SIGPIPE follow; `LastWord` that `main` writes its last message when the
other threads have ended.

`DrainBufferProofs`, for any readers and records, while any call may fail:
`NoneLost` (`EveryRecordOnce`), `MarkerHandedOn` (`OneMarker`) and `Overtaken`
(`LateRecordsInHand`).  `OneLeaves` is what makes the unprotected `eos_count` exact:
the reader that took the marker is the only one between its load and its
store, since the others find no marker.  Without a buffer (`~initialised`) nothing is
ever inserted and the readers leave on their own (`Nothing`), and `OneMarker`, a
statement about the buffer, says nothing.

Lab 2 (second half of `DrainBufferProofs`), for one to four records and any set of
calls that fail: `Agreement` (`LogAgrees`) from `Lab2Inv`.  The child compares each
read with the text of the marker and would end there, before the log has it; the
number and the time in front of that text do not prevent this by themselves,
since a read of 255 bytes may stop right behind them.  `ReadsEnd` says where
reads can stop: what is not read yet is a run of last messages of which 255 bytes
at a time have been taken off.  Lemma `NeverSeventeen` then is arithmetic: with up
to four insertions no such rest has the 17 bytes of the text.  The bound is that
of the program's `main`, and the argument does not carry over to any number.

The sockets (second half of `SessionProofs`), for any variables, structures,
strings and descriptors: `Accounted` (`ResourcesAccounted`, which is inductive) and
`Leaks` (the action property `LeaksExplained`).

`DataMgrProofs`, first about the list, for any nodes, elements, values and indices:

| theorem | |
|---|---|
| `ListInvariant` | `ListInv`: types, the nodes form one chain, each element has one owner, an empty list has no head |
| `ListWellLinked` | `WellLinked` and `ElementsOwned` |
| `ListQueriesAgree` | size, reference, element and index queries agree (`QueriesAgree`) |
| `ListKeepsPromise` | each call does to the sequence of values what `DPSequence` says (`CallsKeepPromise`) |

A chain (`Chain(N, p)`) is stated without a walk: `p` numbers the nodes on the heap
from 0, `head` is the first, and `next` and `prev` lead from each to its neighbours.  An
insertion or a removal gives the numbering of the new list explicitly (`Put`, `Cut`), at the
place the code clamps the index to.  The operators of the model that walk the list are
recursive functions; that they reach the k-th node of the chain needs an
induction, which is done as an argument about the set of naturals for which it
fails: the library's fact that `<` is well-founded on `Nat` gives a least one (its
induction rule takes an operator and cannot be used).

Then about the data manager, for any map, sensors, temperatures, limits and
window length: `DataMgrInvariant`, `WindowsAlwaysRecent` (`WindowsRecent`) and
`EventsAlwaysExact` (`EventsExact`).  `WindowsRecent` alone is not inductive.  `DataInv` adds
that later lines of the map are nearer to the front (`RoomsDecrease`, and `MapAhead`
while the map is read), so that the element a search finds stays the same; that
this element has the latest measurements, and when the last was, while one that
no search stops at is as it was made (`WindowsMove`); and that each message is about
a record taken from the buffer (`EventsNumbered`).  `Of`, the measurements of a sensor
among the first `n` records handled, is a recursive function; its lemmas say what
one record more does to it and to the window.

`SensorFilesProofs`, for the lab 1 program over its heap, any nodes, lines and
records: `FilesInvariant`, `ListAlwaysOwnsAll` (`ListOwnsAll`), `FilesRefineDataMgr` (`ImplementsDataMgr`: each
step is one of the data manager's, or leaves its state as it was) and `FilesWindowsAndEvents`,
which carries `WindowsRecent` and `EventsExact` through that refinement.  The lemmas about
the list are used as they are: the program's list is `DPList` with the elements
of `datamgr.c` as values, so `FilesInv` is the list's invariant, the types, and which
elements are outside of the list (`InHand`): the one the parser holds, and those it
has lost because `dpl_insert_at_index` had no memory for their node (`L1/lib/dplist.c:75`)
and nobody looks.  The data manager of the gateway loses the line of such an element
in the same way (`NoNode`), so the refinement covers it.

Every inductive invariant was checked by TLC before it was proved.

Only model-checked: liveness (the prover has no ENABLED), which is `NobodyWaitsForEver`,
`EndsWithNode`, `EndsAfterClients`, `Completes` and `Ends`, and the liveness half of the
refinements of `BroadcastLog` and `ConnService`, whose other half is proved.  Each
invariant and each action property that a run checks is stated by a theorem.

## 5. What the checks found

The following configurations each check one property that a text of the
repository claims, or that one would expect, and that TLC refutes with a run of
the program:

    tlc -workers 2 -config MCSessionShort.cfg MCSession

| configuration | module | property | what happens |
|---|---|---|---|
| `MCConnMgrCreateFails` | `MCConnMgr` | `ShutdownAfterAllClients` | the client is counted at `P/connmgr.c:204`; when `pthread_create` fails the count stays and `conn_terminations` never gets there: "Wait until all client threads terminate" (`P/connmgr.c:228`) waits for ever although all have |
| `MCConnMgrAcceptFails` | `MCConnMgr` | `ShutdownAfterAllClients` | after a failing accept (`P/connmgr.c:194`) the mutex protects nothing, an increment of `conn_terminations` is lost, and the listener waits for ever |
| `MCConnMgrSocket` | `MCConnMgr` | `SocketStaysValid` | `tcp_close(&server)` (`P/connmgr.c:234`) frees the structure while the excess handler is past the cookie test; "overwrite memory before free to make socket invalid (even if memory is accidently reused)!" (`P/lib/tcpsock.c:148`) does not help it |
| `MCLoggerNumbers` | `MCLogger` | `NumberedInOrder` | `sequence_number++` and the write (`P/sensor_db.c:46`) are unprotected: numbers may be used twice and lines be out of order, as `P/gateway.log:31` (31 before 30) shows of a real run, where the log of the milestone, `L2/milestone2/example.gateway.log`, counts 0, 1, 2, ... |
| `MCSessionSilent` | `MCSession` | `SilentTimesOut` | `start_time`, "used to detect timeout" (`P/connmgr.c:44`), is looked at only after a whole measurement; a silent node is never timed out |
| `MCSessionShort` | `MCSession` | `WholeRecords` | "Tries to receive the total" (`P/lib/tcpsock.h:87`), but the number of bytes received "might be less than the inital '*buf_size'" (`P/lib/tcpsock.h:89`); the handler does not look at it |
| `MCGatewayIdZero` | `MCGateway` | `AllStored` | a node with id 0 ends the stream for both readers (`P/sensor_db.c:188`); what follows is not "stored in a .csv file" (`README.md:3`) |
| `MCGatewayEmptyMap` | `MCGateway` | `AllStored` | with an empty map the data manager ends the process (`P/datamgr.c:49`) while the storage manager still writes |
| `MCDrainBufferOrder` | `MCDrainBuffer` | `OutputTestPasses` | two readers write in the other order and `output_test` (`L4/main.c:137`) fails; "occasionally the order of the readings is changed" (`L4/main.c:204`) |
| `MCDrainBufferBlocks` | `MCDrainBuffer` | `RemoveDoesNotBlock` | "the function doesn't block" (`L4/sbuffer.h:33`), but it waits on the condition variable |
| `MCTcpSockLeak` | `MCTcpSock` | `DescriptorsFreed` | after a reset `shutdown` fails and `tcp_close` (`P/lib/tcpsock.c:139`) skips `close`; "allocated resources are freed" (`P/lib/tcpsock.h:53`) |

The runs that hold are to be read with these in mind: `session` promises the right
records up to the first `recv` that returns a part of a field, `gateway` assumes a
map that names a sensor (what follows a record with id 0 is not promised to be
stored) and promises a complete file only when no write failed, and liveness of
`connmgr` and `test_server` that no call of the listener failed.

## 6. What is not modelled

* Lab 2's exercises 1 and 2 (`L2/ex1`, `L2/ex2`): straight-line programs; milestone 2
  contains both and is modelled.
* `P/buffermain.c`: a copy of the lab 4 program outside of the build;
  `file_creator.c`: random test files; Makefiles and test scripts.
* `sbuffer_remove` and `insert_sensor` of `P/`, which nothing calls, and
  `keep_running`, which nothing changes; the functions of lab 1's list that its
  program never calls (`DPList` has those of the final version).
* The getters of `tcpsock.c`, which change nothing, `socket_mutex` (one thread uses
  it), the wording of log messages, addresses and ports, the rounding of
  floating point numbers.
* In `Gateway` a failing `malloc` for an ordinary measurement: its insertion does not
  happen, which for this module is a run in which the client did not measure.
  `Session`, `ConnMgr` and `DrainBuffer` have it, and `Gateway` that of the
  end-of-stream record (`markerLost`).
* Failures of `fprintf`, `fflush` and `fclose` in the children that write the logs
  (`P/sensor_db.c:127-140`, `L2/milestone2/logger.c:75-85`): `StreamIntact`, `CompleteAtExit`
  and `LogAgrees` take it that the log file accepts what it is given.
* A host that vanishes without closing its connection (see `Session` above); failures
  of `pthread_mutex_lock` and of the other calls on locks and conditions.
* Undefined behaviour other than the choices named in section 2: what a `NULL` of
  `dpl_create` leads to is an immediate end of the process.
* The number of nodes the buffer keeps until the end: the models bound it.

## 7. Plan

Done: every component with logic of its own has a module and a run, and the
safety properties of all of them are proved.

What could still be added: a composition of several `Session`s with `ConnMgr` (the
two are joined by `Receive`, `Insert` and `Close` only), with the proof that the
composition implements `ConnMgr` on one side and each `Session` on the other.
