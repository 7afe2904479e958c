# A TLA+ model of altumopp

altumopp is a C and C++ code base around FastCGI: a vendored and buildable
copy of libfcgi (`src/src/fastcgi`), a boost.asio server that is to grow into
a FastCGI application server (`src/src/server`, `src/src/Altumo`), and a GeoIP
lookup server with its client (`src/src/geoip_server.cc`,
`src/src/geoip_client.cc`). This directory holds TLA+ modules for these parts,
TLC configurations that check them, and proofs that TLAPS checks.

Paths below are relative to `src/src/`; `fcgiapp.c`, `os_unix.c`,
`os_win32.c`, `fcgi_stdio.c` and `fcgio.cpp` are those of `fastcgi/libfcgi/`.

## 1. The system

### 1.1 Components

**FastCGI output streams** (`fcgiapp.c`: `FCGX_PutStr`, `FCGX_FFlush`,
`FCGX_FClose`, `EmptyBuffProc`, `WriteCloseRecords`, `write_it_all`).
*State:* per stream a buffer with `wrNext` and `stop`, `isClosed`,
`wasFCloseCalled`, `FCGI_errno`, `rawWrite`, `isAnythingWritten`; per request
`nWriters` and `appStatus`. *Operations:* put, flush, close, clear the error, set
the exit status. *Interaction:* two streams of one request share `nWriters` and
one connection; the last to be closed writes `FCGI_END_REQUEST`. *Hard:* a
write that fails after part of a padded buffer went out, buffers that are
exactly full, the order of closing. *Correct when:* the web server's decoder never sees
a byte the records before it did not announce, nothing stored is lost, each
end of stream comes behind its content, the status comes last and once, and
nothing follows it.

**FastCGI input stream** (`fcgiapp.c`: `FillBuffProc`, `ProcessHeader`,
`ProcessBeginRecord`, `ProcessManagementRecord`, `ReadParams`, `FCGX_GetStr`,
`FCGX_UnGetChar`, `SetReaderType`). *State:* a buffer with five pointers, what
is left of the current record's content and padding, `skip`, the bytes of a
header read so far, the role and id of the request. *Operations:* get, unget,
start the data of a filter; within accept, the begin record and the
environment. *Interaction:* records of other requests and management records arrive in
between and some are answered on the same connection; `ProcessHeader` reads a
record's content through the stream that called it. *Hard:* `OS_Read` cuts
the bytes anywhere; recursion of `FillBuffProc`; connections that break.
*Correct when:* each stream delivers its own content, all of it before it reports
its end, and each record that calls for an answer is answered once.

**FCGX_Request** (`fcgiapp.c`: `FCGX_Accept_r`, `FCGX_Finish_r`, `FCGX_Free`,
`FCGX_ShutdownPending`). *State:* `ipcFd`, `requestId`, `keepConnection`,
`appStatus`, `nWriters` and the three streams, reused for one request after
the other. *Interaction:* accepts through `OS_Accept`; a kept connection carries
the next request. *Hard:* what carries over from one request to the next,
errors while closing, a connection that breaks at any point. *Correct when:* no
descriptor is lost, each request is ended once and before its connection is
closed, and a kept connection stays open.

**OS_Accept** (`os_unix.c`: `OS_Accept`, `AcquireLock`, `ReleaseLock`,
`ClientAddrOK`, `is_af_unix_keeper`, `OS_SigUsr1Handler`). *State:* the local
`socket` and `sa`, `shutdownPending`, the fcntl lock shared by processes.
*Hard:* several processes on one socket, signals at any point, connections
that are refused or silent, processes that die. *Correct when:* what it returns is an
open descriptor of an admitted web server and nobody else's, the lock is
never kept by a process that stopped, and it comes back when told to stop.

**Asynchronous I/O loop** (`os_unix.c`: `OS_AsyncRead`, `OS_AsyncReadStdin`,
`OS_AsyncWrite`, `OS_DoIo`, `OS_Close`, `OS_CloseRead`, `GrowAsyncTable`).
*State:* a table of operations by descriptor and direction, `fd_set`s of
registered and of completed events, two counts, `maxFd`. *Interaction:*
`OS_DoIo` calls back into the application, which registers and closes.
*Hard:* a callback closes a descriptor and another gets its number while the
list of completed events is being worked off. *Correct when:* tables, sets and
counts agree, a callback is called only for its own descriptor, and each operation
on a ready descriptor is carried out.

**Altumo server** (`server/main.cc`, `Altumo/Application.h`,
`Altumo/FastCgi/Server.h`, `Altumo/FastCgi/Session.h`). *State:* the heap of
Sessions, one pending operation for each, one buffer per Session, `log.txt`.
*Hard:* `delete this` in handlers, a buffer used in both directions, running
out of descriptors. *Correct when:* no handler runs on a deleted Session, no Session
is forgotten, the server always listens, the echo is what was sent.

**GeoIP server and client** (`geoip_server.cc`, `geoip_client.cc`,
`client/main.cc`). *State:* two ordered maps that share Location objects,
loaded from two CSV files; a thread per connection. *Hard:* duplicates and
numbers out of range in the files, the ends of the map, no framing between
client and server. *Correct when:* a lookup answers what the files say, no entry
refers to a deleted object, each client gets the answer to its own question.

**fcgi_stdio** (`fcgi_stdio.c`): `FILE`-like wrappers. *State:* two pointers per
`FCGI_FILE`. *Hard:* the pointed-to objects are freed elsewhere. *Correct
when:* no wrapper follows a pointer to an object that is gone.

**fcgi_streambuf** (`fcgio.cpp`): a `std::streambuf` over an `FCGX_Stream`.
*State:* a get area and a put area in one buffer. *Hard:* partial failure of
the stream beneath, reuse for the next request. *Correct when:* characters arrive
once, in order, and none is left behind by `sync` and the destructor.

**Windows OS layer** (`os_win32.c`, in place of `os_unix.c`). *State:* `fdTable`,
which lets handles pass for small descriptors; the globals `listenType`,
`hListen`, `acceptMutex` and `shutdownPending`; two completion ports and the
thread that reads standard input. *Operations:* `OS_LibInit`,
`OS_CreateLocalIpcFd`, `OS_Accept`, `OS_IpcClose`, the asynchronous reads and
writes, `OS_DoIo`, `OS_Close`. *Hard:* several processes and one mutex, an event
that stops them at any point, a named pipe that is one object for all its
clients, completions that arrive for a descriptor that was closed and used again.
*Correct when:* descriptors and handles agree, the mutex is never kept by who
is not going to release it, a connection is accepted at last, and each operation
comes back once.

**FCGX_VFPrintF** (`fcgiapp.c`). *State:* where it is in the format, two
buffers, the argument list. *Hard:* two paths that share the argument list, and
buffers sized before the text is known. *Correct when:* every argument is
read once and in its turn, the text fits its buffer, and the count returned is
the text's.

**Line input** (`FCGX_GetLine`, `FCGI_gets`) and **Params** (`NewParams`,
`PutParam`, `FCGX_GetParam`). *Hard:* the last byte of an array, the last slot
of a vector, names that begin with other names. *Correct when:* a call returns the
line that is next, cut to its array; a name finds its own value.

**Not modelled:** set-up calls that run once, the examples and the stubs of the future
server; section 7 has the reasons.

### 1.2 How they interact

    web server --connection--> OS_Accept -> FCGX_Request -> input stream  -> application
                                                         -> output streams <-
    application code uses FCGX_Stream directly, through fcgi_stdio (FILE), or
    through fcgi_streambuf (iostream)

    client -> Altumo server (io_service, one thread) -> log.txt and echo
    GeoIP client -> GeoIP server (thread per connection) -> tables

    os_unix.c: OS_Accept, events | os_win32.c: OS_Accept, completions   (one of the two)

The libfcgi parts call each other; the other two programs are separate.
The asynchronous operations are offered by the same layers but libfcgi itself
does not use them.

## 2. Modules

| module | models | unit of a step |
| --- | --- | --- |
| `FcgiResponse` | what the output half promises: abstract specification | one write of the library |
| `FcgiWriter` | both output streams of a request | one turn of a loop with one `OS_Write` |
| `FcgiWire` | `FcgiWriter` and the web server's decoder; refinement to `FcgiResponse` | as `FcgiWriter` |
| `FcgiWriterProofs` | theorems about `FcgiWriter` and `FcgiWire` | |
| `FcgiReader` | accept's reading and the input stream | one branch of the loop of `FillBuffProc` |
| `FcgiReaderProofs` | theorems about `FcgiReader` | |
| `FcgiRequest` | the life of a `FCGX_Request` | a whole record, a whole call |
| `FcgiRequestProofs` | theorems about `FcgiRequest` | |
| `OsAccept` | `OS_Accept` in several processes | one system call |
| `OsAsyncIo` | the event loop | a call, one dispatched event |
| `OsUnixProofs` | theorems about `OsAccept` and `OsAsyncIo` | |
| `AltumoServer` | `main.cc`, Server and Session | a completion with its handler |
| `AltumoServerProofs` | theorems about `AltumoServer` | |
| `GeoIpLookup` | `std::map` as the GeoIP server uses it | (operators) |
| `GeoIpTable` | loading, lookup and deletion | a line of a file |
| `GeoIpService` | clients, acceptor and session threads | one socket call |
| `GeoIpServer` | both of them: files are loaded, then served | as its parts |
| `GeoIpServerProofs` | theorems about `GeoIpServer` and its parts | |
| `FcgiStdio` | where each `FCGI_FILE` points | a wrapper call |
| `FcgiStreambuf` | get and put areas | a streambuf call |
| `FcgiPrintf` | `FCGX_VFPrintF` | one path of a directive |
| `FcgiLines` | `FCGX_GetLine`, `FCGI_gets` | a character |
| `FcgiParams` | `NewParams`, `PutParam`, `FCGX_GetParam` | a parameter |
| `FcgiInterfaces` | an application that uses one of these five | as its parts |
| `FcgiInterfacesProofs` | theorems about `FcgiInterfaces` and its parts | |
| `OsWin32Table` | `fdTable` of `os_win32.c` | (operators) |
| `OsWin32Accept` | `OS_Accept` and `OS_IpcClose` on Windows, in several processes | one system call |
| `OsWin32Async` | asynchronous operations and `OS_DoIo` on Windows | a call, one completion |
| `OsWin32Proofs` | theorems about `OsWin32Accept` and `OsWin32Async` | |

The `MC` modules give constants that a `.cfg` cannot express. Definitions whose
name ends in an underscore and a word (`FFlush_ClosedToo`) are the definition
of that name with a plausible bug; they are in no specification, and show for each
property that it is not true by construction: with the definition replaced,
TLC finds the property violated.

### How state and actions correspond to the code

*FcgiWriter.* A byte is a cell that says what it is (header, n-th content byte of
a stream, padding, end record, reserved space), which is all a decoder can
tell apart. `buff[s]` is `data->buff .. wrNext`, so `stop - wrNext` is
`Room(s)`; `FCGX_FClose` makes it 0. A call with several `OS_Write`s runs as
steps (`call`), since each may fail after any prefix; the calls of one request
do not overlap. `Encapsulated` is the header and padding part of
`EmptyBuffProc`; `WriteOk` and `WriteFails` are the two outcomes of
`write_it_all`; `FClose`, `PutCopy`, `PutEmpty`, `PutFails` and `FCloseEnds`
are `FCGX_FClose` cut at the writes.

*FcgiReader.* The connection's bytes are numbered; the pointers of the code are
positions. `pc` names the place in the loop of `FillBuffProc`
(`fill`, `pad`, `next`) or of the caller; `frames` is the stack of
`FCGX_GetStr` calls, two deep when `ProcessHeader` reads a record's content
(`data->eorStop`). `Ends[i]` is where record i ends, a plain recursive function.
`headerLen` is a local of `FillBuffProc` and starts at 0 in each call, whatever the
call before had read of a header. `OS_Read` gives some bytes (`ReadSome`), the end of the
connection or an error (`ReadError`). `ReadFails` is the connection that ends early, at any
byte (`ended`), or a read that is interrupted, after which more may come. A header is looked
for at any byte after that; bytes that are no header are taken not to have its version. Which bytes the web server has sent depends on the replies
it waits for (`after` in a record).

*FcgiRequest.* The streams are abstracted to what the request needs of them: how
many records have been sent, taken into the buffer and used, and whether each
stream failed or ended. `FCGX_Free` drops the buffer (`used' = got`). Once a connection is
cut, each call of the library on it may fail: a put, a close, a read.

*OsAccept.* A descriptor is named by its connection and `socket[p]` may name a
closed one, as the variable in the code may. `Check` is
`if (shutdownPending) break` with what follows the loop. A signal either
interrupts a system call or arrives outside one. `useLocking`, `failOnIntr`,
`family` and `refused` are settings chosen in `Init`, so that one run covers
every combination.

*OsAsyncIo.* A slot is a descriptor with a direction and is also an index of
`asyncIoTable`. `Dispatch` is one turn of the loop over the list, up to the call of
the callback. The application obeys `ASSERT(asyncIoTable[...].inUse == 0)`.
`GrowAsyncTable` doubles until the index fits; `Doublings` has the factors, powers of
two, without recursion.

*AltumoServer.* `ops` is what the io_service holds; an action is one completion
with its handler, which runs alone because one thread calls `run`.
`new` takes any address that is free, so a deleted Session's address is used
again. Sockets and logs count against `limit`.

*GeoIpTable.* A Location is named by the line it was made from; the two maps
share them. `Insert` keeps an existing entry, as `std::map::insert` does;
`Strtoul` saturates.

*GeoIpService.* A text is a short sequence of pieces, so that a prefix of it
may be another address. `mayFragment` (chosen in `Init`) says whether
`read_some` may return part of what was written.

*GeoIpServer.* `phase` is where the process is: it reads one file, then the
other, then listens (`Listen`), or is destroyed before it does. A client asks
the service for any address; what is served are the tables that were loaded.

*FcgiStdio.* `open`, and `request` with the streams of it, are the objects that exist;
`Target` is the choice every wrapper makes.

*FcgiStreambuf.* Pointers are offsets. The FCGX_Stream beneath gives characters up to
an end, or takes them until it fails.

*FcgiPrintf.* A directive is a record of its parts; the text of an argument is the
number of its characters, `exp` its binary exponent. `Frexp` is what `frexp` finds after the
cast to `double`: an exponent no double has becomes that of an infinity, any of
`InfinityExps`. `Fast`, `Slow` and
`Convert` are the two turns of the inner loop: the fast one scans and converts,
the slow one scans, reads stars and the arguments of `s` and `f`, finds a buffer, and
converts. `arguments` records each use of `va_arg`.

*FcgiLines, FcgiParams.* `str` and `vec` are the arrays as sequences; their
sizes are numbers beside them, and the properties compare the two.

*FcgiInterfaces.* The five modules share no state, and no application of the model
uses two of them: `interface` says which is used. What each module asks of its
constants is a definition there (`PrintfAssumption`), which `FcgiInterfaces` assumes;
`GeoIpServer` does the same for its parts.

*OsWin32Table.* `Win32NewDescriptor` and `Win32FreeDescriptor` run in a critical
section and are operators on the table. `instance` keeps its initial value,
because no line of the file assigns it.

*OsWin32Accept.* A process goes through `pc`: "start" (`OS_LibInit`), "create"
(`OS_CreateLocalIpcFd`), "app" (its own code), and the parts of `OS_Accept` up
to "release". `acceptMutex` is the mutex of the environment ("shared"), one
that nobody else has ("own") or none; `owner` is who has the shared one.
`pipe` and `client` are the named pipe of a process, which outlives its clients.
`ShutdownRequestThread` is a thread of its own and ends a process that listens on a
pipe wherever it is.

*OsWin32Async.* An `OVERLAPPED_REQUEST` is in exactly one of the places where the code or
Windows may put it: `pending` (Windows has it), the port of `StdinThread`,
the thread, the completion port, or the callback that runs. `Complete` is
Windows; `op` keeps the instance the descriptor had. `AllSent` is what the other
ends have written so far, by which the model bounds it.

## 3. What is checked

"States" are distinct states. Every run has two workers and ends within
about three and a half minutes.

| run | configuration | states | what it shows |
| --- | --- | --- | --- |
| `writer` | `FcgiWriter.cfg` | 152 000 | see 3.1 |
| `reader` | `FcgiReader.cfg` | 361 000 | see 3.2 |
| `reader_unknown` | `FcgiReaderUnknown.cfg` | (violation) | finding 1 |
| `request` | `FcgiRequest.cfg` | 348 000 | see 3.3 |
| `os_accept` | `OsAccept.cfg` | 475 000 | see 3.4 |
| `os_accept_stop` | `OsAcceptStop.cfg` | (violation) | finding 2 |
| `async` | `OsAsyncIo.cfg` | 184 000 | see 3.5 |
| `altumo` | `AltumoServer.cfg` | 50 000 | see 3.6 |
| `geoip` | `GeoIpServer.cfg` | 988 000 | see 3.7 |
| `interfaces` | `FcgiInterfaces.cfg` | 218 000 | see 3.8 |
| `win32_accept` | `OsWin32Accept.cfg` | 227 000 | see 3.9 |
| `win32_async` | `OsWin32Async.cfg` | 500 000 | see 3.10 |

Where a property of a run is a conjunction of others, as `DescriptorInv` of `OsAccept`
is of its type invariant, `NoneForgotten` and `ReturnsValid`,
the conjuncts are named and commented in the module.

All but `writer` say `CHECK_DEADLOCK FALSE`: their systems may come to rest (every
client gone, every connection served, the process stopped). In `writer` the
application can always make some call.

### 3.1 writer

`WellFormed`, `NothingLost`, `ClosersCounted`, `SilentAfterEnd` and the
refinement `Responds`: up to the first failed write the decoder never meets an
unexpected byte, what was stored is either decoded or in a buffer, and the response
is the one `FcgiResponse` allows (a stream's end behind all its bytes, the
status behind everything and the one set last). `TypeOK` also says
that padding never overflows a buffer. `CallReturns`: every call returns.
*Bounds:* alignment and header of 2 bytes, a buffer of 6 (a header and two
aligned units; the smallest real one, 32 bytes, is a header of 8 and three), puts of
2 and 3 bytes up to 5 per stream: content then needs padding or not, fills
the buffer exactly or straddles it, and an end record (4 bytes) does or does not
fit behind it. A failing write has sent 3 bytes, in the middle of what it was given.

### 3.2 reader

`DeliveryInv` (`DeliversOwnContent` and `EofMeansAll`), `RepliesInOrder`,
`UngetGuaranteed`, `LibraryReturns`, for about forty scripts: a responder with a pair cut
across two records and a filter, with every extra record (management records
with and without content, a second begin-request, a record of another
request) at every place, both together, cut connections, unknown role, records
out of order, a web server that waits for an answer before it goes on. Each of these
connections may also end at any byte, and each read may fail. *Bounds:* a header of 2 bytes and a buffer of 4, so that headers,
content and padding are cut in every way and the buffer is refilled within
each; reads of 1 and 3 bytes.

### 3.3 request

`DescriptorInv`, `EndedOnce`, `ClosedInTime` (`AnsweredFirst`: no connection is
closed before its answer; `KeptOpen`: one that is kept stays open), `Answered`. A request that
has been begun is answered, unless its connection breaks, the library is told to stop, or it
sits for ever in `FCGX_Accept_r` on another connection that was kept, whose web server sends
no further request (`WaitsElsewhere`): a library that serves one connection at a time does
not look at the one that has something to say. *Bounds:*
one connection kept for a second request, one that is not kept; a request is
four records. Three requests are enough for anything that carries over from a
request to the next on the same and on another connection.

### 3.4 os_accept

`DescriptorInv`, `LockInv`, `AcceptedAtLast`, over both families
of socket, with and without `USE_LOCKING` and
`FCGI_FAIL_ACCEPT_ON_INTR`, and every set of refused addresses. *Bounds:* two processes (the lock and the
accept queue are the only things they share) and two connections (the one looked
at and the next one); one signal or death for each process.

### 3.5 async

`RegistrationInv`, `NeverBlocks`, `Dispatched`. *Bounds:* three descriptors when
descriptors are closed only between calls of `OS_DoIo`, two when callbacks close
too; a table that begins at two entries, so that it grows by more than one
doubling at once.

### 3.6 altumo

`SessionInv`, `EchoInOrder`, `Serves` (a client gets a Session, and its echo),
`Reclaimed`.
*Bounds:* two clients and three addresses for Sessions (one per client and the
one at accept), a buffer of 2 bytes and a client that sends 3, room for two
descriptors (one connection with its log, and the next Session's log fails to open)
or four.

### 3.7 geoip

`TablesInv` for every pair of a locations file of three lines and a blocks file
of none, two or three lines from a set with duplicates, gaps, unknown ids, numbers
that do not fit an unsigned long and lines the pattern rejects: whatever was loaded,
the tables own what they refer to, and a lookup gives the location of the block an address lies
in, except in the block that starts last (section 6). Three lines
allow any line to meet a duplicate, and a third between or around two. A small
number stands for `ULONG_MAX`. Over the tables of one of these pairs
(`ServedFiles`: blocks out of order, with addresses that get a location and addresses that get
none) the service runs: `AnswerInv` and `SessionsRun`. *Bounds:* two clients
with one lookup each (the client makes one connection per lookup), four addresses
of which two are prefixes of others and two get no location.

### 3.8 interfaces

`StdioInv`: two requests, so that the streams of one outlive it in a pointer;
two opened files. `StreambufInv`: a buffer of 3 and streams of 5 or up to 8
characters (the buffer is refilled or emptied twice, once partly), two streams.
`PrintfInv`: every format of up to three of twenty-four directives, which take each path,
fail in each way, need the stack buffer, more, and more again than the second
buffer has, or overflow it in the two ways of section 6, after which a behaviour ends; any write of the stream may fail. `LinesInv`: contents of up to five
characters, arrays of 0 to 4 bytes and of unlimited size, calls of either
function in any order. `ParamsInv`: vectors that begin with 1 and 3 places and are
doubled up to three times, names that begin one another, values that contain `=`.

### 3.9 win32_accept

`DescriptorInv`, `MutexInv`, `AcceptedAtLast`, `StopsAtLast`, for a listener
that is a pipe or a socket, inherited or created, with and without the mutex and
the event in the environment, no list of admitted addresses or one with "10.0.0.12"
before "10.0.0.1", which are those of the two connections: the first is admitted and the
second refused, see section 6. *Bounds:*
two processes (the mutex and a shared socket are all they share) and two
connections; a table of three descriptors, of which the application of one process
may take one for itself (`FcgiConnect`), so that it is full when a connection or a pipe
needs one; one crash, beside every failure the code checks for.

### 3.10 win32_async

`OpsInv`, `InOrder`, `EachAnswered` (for descriptors that stay open, section 6). *Bounds:* two operations at a time and two
data in all; either a pipe and a socket, where one may get the other's
descriptor while an operation is under way, or a pipe beside a standard input that is a
file, or a standard input that is a pipe alone.

## 4. Fairness

| specification | fairness | why the code justifies it |
| --- | --- | --- |
| `FcgiWriter` | weak, on the steps of a call in progress | a call runs on the caller's thread and each `OS_Write` returns; nothing is asked of the application |
| `FcgiReader` | weak, on the library's steps | the same; it may wait in `OS_Read` only for bytes that have not been sent. A read need never fail |
| `FcgiRequest` | weak, on the library, the application's reading and finishing, and the rest of a request the web server has begun (`SendRest`) | the loop every FastCGI program runs; a web server sends what it began. It need not begin another request on a connection that is kept |
| `OsAccept` | weak on each process, strong on `AcquireLock` | the system wakes a waiter of `fcntl(F_SETLKW)` at last |
| `OsAsyncIo` | weak on `OS_DoIo`, dispatch and returns | the application calls `OS_DoIo` in a loop; callbacks return |
| `AltumoServer` | weak on accepting and on each Session's completions; clients finish | `io_service::run` dispatches every completed operation; without a client that ends, a full descriptor table stays full |
| `GeoIpServer` | weak on the acceptor, each session and each client | one thread each |
| `OsWin32Accept` | weak on each process and each `ShutdownRequestThread` | threads run; a mutex that is free is given to a waiter, which weak fairness allows to be the same one again: nothing that is checked needs more, since whoever has the mutex accepts |
| `OsWin32Async` | weak on `OS_DoIo`, the return of callbacks, `StdinThread` and Windows | the application calls `OS_DoIo` in a loop; Windows completes what can be completed |

The other specifications have no liveness property and no fairness.

## 5. What is proved

Each theorem is for every value of the constants that satisfies the named assumptions of
its module, which TLC evaluates in the run of that module. An `…IInv` is
an inductive invariant; it was a run's invariant before it was proved, and its
definition precedes the proofs that use it. The theorem says that the property the run
checks holds of `Spec`. One lemma for each action shows what that action does to the
invariant, and the theorem's step about `[Next]_vars` cites them.

| module | theorem | states | inductive invariant |
| --- | --- | --- | --- |
| `FcgiWriterProofs` | `TypeCorrect`, `ClosersCorrect` | `TypeOK`, `ClosersCounted` | `IInv` |
| | `SilenceCorrect` | `SilentAfterEnd` | `IInv` |
| | `WellFormedCorrect`, `NothingLostCorrect` | `WellFormed`, `NothingLost` | `WireIInv` |
| | `RespondsCorrect` | `Responds` (refinement of `FcgiResponse`) | `WireIInv` |
| `FcgiReaderProofs` | `TypeCorrect`, `UngetCorrect` | `TypeOK`, `UngetGuaranteed` | `PointerIInv` |
| | `DeliveryCorrect`, `RepliesCorrect` | `DeliveryInv`, `RepliesInOrder` | `ReaderIInv` |
| `FcgiRequestProofs` | `DescriptorCorrect`, `EndedCorrect` | `DescriptorInv`, `EndedOnce` | `RequestIInv` |
| | `ClosesCorrect` | `ClosedInTime` | `RequestIInv` |
| `OsUnixProofs` | `LockCorrect`, `DescriptorCorrect` | `LockInv`, `DescriptorInv` | `AcceptIInv` |
| | `RegistrationCorrect` | `RegistrationInv` | `AsyncIInv` |
| | `NeverBlocksCorrect` | `NeverBlocks` | `AsyncIInv` |
| `AltumoServerProofs` | `SessionCorrect`, `EchoCorrect` | `SessionInv`, `EchoInOrder` | `SessionIInv` |
| `GeoIpServerProofs` | `TablesCorrect` | `TablesInv` | `TableIInv` |
| | `AnswersCorrect` | `AnswerInv` | `ServerIInv` |
| `FcgiInterfacesProofs` | `StdioCorrect` | `StdioInv` | `StdioIInv` |
| | `StreambufCorrect` | `StreambufInv` | `StreambufIInv` |
| | `PrintfCorrect` | `PrintfInv` | `PrintfIInv` |
| | `LinesCorrect` | `LinesInv` | `LinesIInv` |
| | `ParamsCorrect` | `ParamsInv` | `ParamsIInv` |
| `OsWin32Proofs` | `MutexCorrect`, `DescriptorCorrect` | `MutexInv`, `DescriptorInv` | `AcceptIInv` |
| | `OpsCorrect`, `OrderCorrect` | `OpsInv`, `InOrder` | `OpsIInv` |

*FcgiWriter* (`LayoutAssumption`: what the arithmetic of `NewStream` guarantees, by
`AlignInt8` and the limits 32 and `FCGI_MAX_LENGTH + 1`; `StatusAssumption`,
`BoundAssumption`). `TypeOK` says beside the types that a buffer never exceeds its
length, padding included, and that a header's lengths fit their fields: lengths of buffers
and headers are multiples of the alignment, so rounding the content up stays within
the buffer. It is inductive only with the layout assumption and with `call.at` in its range;
`ClosersCounted` needs the type of `nWriters` and the clause that `end` is
reached only with `nWriters = 1`, since otherwise the count could go below
zero. `SilentAfterEnd` follows: with `nWriters = 0` and no call in progress both
streams have been closed, so that flush and close are refused, and a put only
copies.

*FcgiWire* (the assumptions of *FcgiWriter*). That the bytes sent so far are well formed
is not inductive: a close turns a buffer that has its header's space, its content and its padding into
records and adds an end record behind them, over several writes. `WireIInv` therefore speaks of
what is *still to be sent*: `Buffered` says that an open stream's buffer holds, behind
the space of the header, exactly the bytes the web server lacks of it, and `CloseGoesOn` that
decoding what a close in progress has still to send (its buffer and `call.rest`) ends between two
records with the whole stream, its end, and the status after the last closer. A write in
the middle of a close then keeps it, because decoding a sequence is decoding its
parts one after the other (`FeedConcat`), and a decoder that is well after more
bytes was well before (`FeedAllLater`: counts only grow, an end stays).
`FeedAll` is defined by recursion over the bytes, so `RunUnique` and `RunExists` first establish
that there is one run of a sequence. `RecordRead`, `EofRead`, `EndRequestRead` say what
one record does to a decoder that is between records; `EncapsulatedRead`
that this is what `EmptyBuffProc` makes of a buffer. For `RespondsCorrect` every
action's lemma also shows that the decoder's change is a step of `FcgiResponse` or a stutter (`Answers`);
a write that carries a stream's last bytes, its end and the end of the request is one step of it.
After a failed write `seen` stands still.

*FcgiReader* (`SizeAssumption`: lengths are positive; `ScriptAssumption`: a script is a
sequence of records). Nothing is asked of the records, so that `TypeCorrect` and
`UngetCorrect` are about a web server that sends anything. The five pointers are in an order that depends on where
`FillBuffProc` is (`Pointers`): `rd <= stop` while bytes are taken, `stop <= rd` while headers
and padding are passed over. Two strengthenings matter: a header that has been read in
part excludes what is left of a record and a nested call (`headerLen > 0`), and whenever a
byte may be taken or pushed back, `stopUnget` is not above `rd` (`Pushable`), which is the
premise of `FCGX_UnGetChar` and must survive a refill, a nested call of `FCGX_GetStr`
from `ProcessHeader` and `SetReaderType`. `Stages` ties the phase of the request to the stack of
callers, `StreamOpen` to the stream that is being read.

`DeliveryCorrect` and `RepliesCorrect` are about any connections whose web server keeps to
`RequestScript`; it is their hypothesis `RequestScripts`, and the run `reader` evaluates it for
its forty scripts (`MCScriptsAssumption`). Each clause keeps out an
input on which the code does something else, described in section 6:

* what `SetReaderType` would drop is not there: the begin-request and the empty record that
  ends a stream have no padding (Input (b)), and no record of a stream follows its end;
* a record that is skipped has content (Input (a)), and a management record other than
  get-values has none (finding 1);
* the records of the request follow its begin-request, which it has one of, and input precedes
  data: after an error in the environment the library goes on with the next stream
  (Input (d)), so that data met there would be lost to the stream it belongs to.

Ids, types, lengths, other requests' records, their number and order, where the connection ends, what
the application asks for and how `OS_Read` cuts the bytes are free. `ReaderIInv` adds to
`PointerIInv` where the reader is among the records: `Place(k)` says that record
k is the one whose header was read last, with what is left of it (`At`), whose content
that is (`Content`, and `Inner` for what `ProcessHeader` reads itself), that the stream
has delivered its bytes up to here (`UpToHere`), and that every record up to k that
calls for an answer has one (`AllAnswered`). The alternative is `Dropped`:
after an error `SetReaderType` has forgotten what was left of a record,
and nothing of the stream may be delivered any more. A read that fails elsewhere makes the reader lose its place among
the records, and a later call goes on in the middle of one: `Cut` says that no byte may be
delivered then, and `CutIInv` is the rest of the invariant for such a reader (`FillReadReader`: a failed
read leads to it; `CutStep`: it stays, until the next stream is opened, which `CutOpens` takes back to `ReaderIInv`). `WindowOwn` is about the bytes that are ready to
be taken or put back; `InTurn` and `DataAhead` say that the streams to come are still
ahead; `RepliesDue` that only what calls for an answer is answered, in order. TLC checked
`ReaderIInv` on the run `reader` first.

*FcgiRequest* (`SettingAssumption`). `EndedOnce` is inductive only with `Current`: between
the begin and the last close the request served is one more than those ended. That an
answer is not sent twice needs `Exchange` (the web server waits for its answer) and
`Connected`. `ClosedInTime`, an action property, needs `Drained` for its half about
connections that are kept: an application that reads all its input leaves the
connection between two requests, with nothing read of the next one.

*OsAccept* (`SettingAssumption`). `Holds` says which descriptor may be open in each place
of `OS_Accept`. `socket` may name a closed one; on an inet socket that one has been
refused, which is why it is never returned although the loop's exit does
not look at it. `Taken` says that the open connections are those some process has.

*OsAsyncIo* (`AsyncAssumption`: the table's size is positive and even, so that
a descriptor has both of its entries in the table or neither). `RegistrationInv` is not inductive: a close must not take more
completed events than were counted (`Counted`, an inequality since a callback may take some),
`PostedReady` is what `NeverBlocks` says, and without closing callbacks
the list is worked off to its end (`WorkedOff`), so that select finds no event left
from the call before.

*AltumoServer* (`SizeAssumption`). `Accepted`: a Session's connection is no longer among the
waiting ones, so that the next accept does not return it a second time. `BytesLeft`:
`async_write` completes with its last byte, so that it always has one left.

*GeoIpServer* (`ServerAssumption`: that of `GeoIpTable`, which says what a line of a file is, and that of
`GeoIpService`). `TableIInv` says what the first n lines put in the tables: `LocationsUpTo`,
whose ids have the first line that gives them, and `BlocksUpTo`, whose first addresses have
the first block that counts. One line keeps them because `std::map::insert` leaves an
entry that is there; and the lookup, which takes the greatest first address at or below the one
asked for, then finds the block it lies in (`LookupFollows`). `ServerIInv` adds, for each connection,
what its thread has read before the first answer (`Unanswered`: a beginning of the client's text, or
all of it if texts arrive whole), that a first answer is made from such a beginning
(`FirstAnswers`), and that a connection waits for the acceptor once (`Waiting`): two threads on one
connection would each take a part.

*FcgiInterfaces* (`InterfacesAssumption`: the assumptions of its parts). A step is a step of one
part, so each has an invariant of its own, and what is done through the others leaves it
alone.

*FcgiStdio* (`StdioAssumption`, and `NamesAssumption`: files, streams and NULL differ). That what a
wrapper goes to is live is not inductive: `Pointers` says where a pointer may go at all, an
`FCGI_FILE` on the heap only to its own FILE, and `Distinct` that no two that may be used share one,
so that closing one leaves the other's open. Before the first accept the standard files go
nowhere (`NotAccepted`).

*FcgiStreambuf* (`StreambufAssumption`). `GetArea`: the get area is the last part of what
was fetched, and `removed`, which only the property knows, is where `gptr` is; this fails
one call after EOF, when `uflow` has moved `gptr` past `egptr`, and is claimed only while the
last result was not EOF. `PutArea`: what the stream took is a first part of
what was written, and what follows is in the put area until it fails; an empty area says
even then that nothing is missing, which a sync after a failure relies on.

*FcgiPrintf* (`PrintfAssumption`: an integer has at most 22 digits, as 64 bits have in octal; a number
below 2^exp has no more digits before its point than exp/3 and one; exp is at most 1024 unless the
number is a `long double`; and `PRINTF_BUFFLEN`, 100 in
the code, is at least 56, the least the slow path asks for an integer). `PrintfIInv` says what is known
between the steps of a directive: how far its arguments are read (`InTurn`, by
`Turn`), that those before are complete (`Complete`), which conversions come by either path and
how much room they found (`Converting`), and what the directives done come to (`Sum`). A
directive that takes both paths reads each argument once because the fast path gives up before it
reads one, and the switch does not read again what the slow path has read for s and f. `SprintfFits` is the arithmetic of the bounds,
for any exponent `frexp` may find and any width; only the texts `Misjudged` names may not fit.

*FcgiLines* (`LinesAssumption`). While the loop runs it has met no newline and has room
for another character (`Looping`); when it ends, `position` is where the property says
(`Returns`), by the least newline or by the size, whichever came first (`StopsAt`).

*FcgiParams* (`ParamsAssumption`). `ParamsIInv`: the vector is what was sent, and the NULL, with its place
counted in the length. A name that begins another is not taken for it because a
text begins with a name and `=` only if it was put under that name
(`BeginsWithItsName`), which needs that names have no `=`.

*OsWin32Accept* (`HandleAssumption`: handles differ and are not 0; `TableAssumption`).
`Slot` counts the descriptors in use by cardinality; `Place` and `Pipe` say what a process has at
each place, `Holding` that no connection is held twice. `SharedMutex`: with
the mutex in the environment nobody waits for another one. The table's lemmas say what
`Win32NewDescriptor` returns.

*OsWin32Async* (`OpsAssumption`). `EachOnce` is about the places a request may be in;
`Queued` says that what waits in the completion port for a source is
what was read and not yet delivered, in order and without a gap, across an
`OS_Close` and a new file on the descriptor. `Thread` and `Table` say which requests and handles
`StdinThread` and Windows may have.

**Induction.** The library's induction theorems take a predicate, which the provers cannot
instantiate. `LeastNat` (a set of numbers that is not empty has a least element; from the
library's theorem on strict subsets, whose minimal element it is) takes a set and
serves instead. In `FcgiReaderProofs` the recursive definition of `Ends` has the function it means
(`SumsExist`, `EndsEquation`), and records lie one behind the other (`EndsOrdered`); in
`FcgiWriterProofs` the same is done for the run of the decoder (`RunExists`, `FeedConcat`), and in
`GeoIpServerProofs` it gives the first line of an id and the block a lookup finds. In
`FcgiInterfacesProofs` it gives the sum of a format's texts (`SumExists`), the newline that ends a
line and the first of a name's values.

**What TLC alone checks.** Liveness (`CallReturns`, `LibraryReturns`, `Answered`,
`AcceptedAtLast`, `StopsAtLast`, `Dispatched`, `Serves`, `Reclaimed`, `SessionsRun`,
`EachAnswered`): fairness and ENABLED are out of the prover's reach. Every other
property of the passing runs is stated by a theorem.

## 6. Findings

1. **Content of unknown management records** (`reader_unknown`,
   `fcgiapp.c:1493`). The specification of the protocol (kept beside the code,
   `Altumo/FastCgi/fastcgi_specification.html:640`) has such a record answered.
   `ProcessManagementRecord` answers but leaves its content to be delivered
   to the application as part of the stream being read.
2. **A refused connection and SIGUSR1** (`os_accept_stop`, `os_unix.c:1201`).
   After a refusal `socket` still names the closed descriptor; if a signal has
   set `shutdownPending` meanwhile, `break` leaves the accept loop with it and
   the outer loop refuses and closes it for ever, with the lock held if there
   is one. `OS_Accept` returns neither -1 nor a descriptor.

### Behaviour the passing runs leave out, or describe

While modelling, other places were met where the code does something a
reader would not expect. They are listed here with the input or habit a run leaves out
because of them.

Output. A closed stream with room in its buffer still takes bytes, and
`FCGX_PutStr` returns success for bytes that are never sent (`fcgiapp.c:310`;
the comment at 936 says that writes have no effect after an error). The model
does the same; `NothingLost` therefore speaks of requests without an error.

Input. (a) A refused second begin-request sets `skip`; if the next record of
that request has no content, `skip` stays set and the content of the active
request's next record is passed over (1723): the scripts give a second
request's records content. (b) `SetReaderType` drops padding that has not been read (1852), so that the next
header is sought in the padding of a padded begin-request, and in that of the
padded empty record which ends a stream: these records have no padding. (c) `FillBuffProc` reads before it notices the end of a
get-values record, so a web server that waits for that answer before it sends
more waits for ever (1635): no script waits for it (`after`); some wait for the answers that are
given at once. (d) A connection cut between two
name-value pairs is accepted as a request with part of its environment
(1144); the error code is set, and `EofMeansAll` speaks of requests without one. (e) A read
that fails inside a header loses what was read of it (`headerLen` is a local), and a later call
takes what comes next for a header. The model goes on there, but with bytes that have not a
header's version: content that happens to look like a header would be taken for one.

Request. Input that was not read makes the library close a kept connection
when it looks for the next request (1606), and bytes of the next request that
are in the freed buffer are lost (1713): `KeptOpen` and `Answered` are for an
application that reads its input to the end (`drains`), and the web server sends a
request after the answer to the one before. The library reads a kept connection until its next
request comes, however long that takes, and meanwhile accepts no other (2188): `Answered` has
that way out. The exit status is not
reset between requests (2307): modelled as it is, and no property is about it. `FCGX_ShutdownPending` does not stop the
requests of a kept connection (2188): `Answered` allows it to.

Events. A callback that closes a descriptor whose event has completed leaves the count
above the set, and from then on `OS_DoIo` never selects again (`os_unix.c:731`):
`Dispatched`, and the counts in `RegistrationInv`, are for applications that
close between calls. `OS_Close` indexes the table with a descriptor that may be
beyond it (728); the model has no entry there, and no property is about it.

GeoIP. A lookup ignores where a block ends (`geoip_server.cc:256`). An address behind the end of one
block and before the start of the next has the location of the first of them, and an address in the
block that starts last has none, because `upper_bound` finds nothing above it. Both contradict the
comments "Gets a location by IP. Returns NULL if not found." (229, 250); `LookupFollowsFile`, which
states what these say, leaves the two kinds of addresses out. Locations with a duplicate or unrepresentable id are never deleted; a
file that is missing is read for ever (116, 181; `ReadMissing`), so there is no
liveness property of loading. A text that arrives in parts is answered for its
first part (314): `LocationOfAsked` has the premise that it does not.

fcgi_stdio. `FCGI_SetExitStatus` goes through `FCGI_stdin` and is lost when
that was closed or reopened (`fcgi_stdio.c:235`); a failed `FCGI_Accept` leaves pointers
to freed streams (142), which the documented use does not touch. The application of
the model is one that follows the comments; `mayClose` says whether it closes
standard files.

fcgi_streambuf. A read after EOF returns a byte of the buffer or beyond
(`fcgio.cpp:96`) and a peek without a buffer removes the character (117; `fcgio.h`
says that it does not work): the model's application does neither.

Formats. The slow path misjudges two texts, which then overflow the buffer on the stack
(`Misjudged`; `Fits` is about all others). (a) The argument of `%Lf` is cast to `double` for
`frexp` (`fcgiapp.c:615`, "XXX Need to check for the presence of frexpl()"): above the largest
double the exponent is that of an infinity, and need not bound the thousands of digits the text
may have. (b) A star may give a negative width, which is a flag and a width to `sprintf`, but asks
for no room in `max(buffReqd + 10, minWidth)` (636): one of -100 or less fills more
than the 100 bytes. What the call does after either is undefined and not modelled (`Put`). Besides,
`buffReqd` counts the field width without the `'\0'`: a directive whose
width is `PRINTF_BUFFLEN` or more and wider than its text has room for its text only, and breaks
`ASSERT(buffCount < buffLen)`. `Fits` asks for the `'\0'` of narrower fields.

Lines. `FCGX_GetLine` with `n` of 1 or less reads nothing and so never returns
NULL, though a loop over lines ends by that only (200): `AnswersLine` says so.

Windows, accept. (a) When the client of a pipe has gone, `FlushFileBuffers` fails and
`OS_IpcClose` returns -1 with descriptor and pipe as they were; `FCGX_Free` does not
look, and the next `OS_Accept` takes the pipe, still at its dead client, for
connected (`os_win32.c:1812`, 1600): `ReturnsValid` speaks of processes whose
`OS_IpcClose` has not failed (`lost`), `NoneForgotten` counts the rest. (b) A pipe made
by `OS_CreateLocalIpcFd` has the type `FD_PIPE_ASYNC`, for which `OS_Accept` has no
branch ("unknown listenType", 1767): such a process ends at its first accept.
(c) `isAddrOK` looks at the first place where the address's text occurs in the list
only, so "10.0.0.1" behind "10.0.0.12" is refused (1509): modelled as it is.
(d) Without a mutex two processes may see one connection in `select`, and the one that
does not get it waits in `accept`, where it does not look at `shutdownPending`:
`StopsAtLast` is for pipes and for the mutex.

Windows, events. `instance` "won't match after a close", says its declaration
(`os_win32.c:115`), and `OS_DoIo` is to "call callback if descriptor still valid" (1496). But
nothing assigns `instance`: each completion calls its callback, also after
the descriptor was closed or given to another file. `EachAnswered` is about descriptors that stay
open. `InOrder` is about the others as well: what their callbacks, which have their own `clientData`,
are given is what was sent. `StdinThread` ends at the end of a pipe without answering (259), and is not
started without a CONTENT_LENGTH, while `OS_AsyncReadStdin` still posts to
it: `EachAnswered` is for a standard input that is a file, with a thread.
`OS_FcgiConnect` keeps a TCP socket if `connect` failed and closes it if it
succeeded (852): `NewSocket` gives "unconnected" sockets, and connected ones as
`OS_Accept` does.

## 7. What is not modelled, and why

* *Of the Windows layer*: `OS_Read` and `OS_Write` (one blocking call each),
  `OS_SpawnChild`, `OS_IsFcgi`, file offsets (nothing in the repository opens a
  file through the layer), error numbers. The outcomes of Windows' calls are those the
  code tells apart.
* *Set-up on unix* (`OS_LibInit`, `OS_CreateLocalIpcFd`, `FCGX_OpenSocket`,
  `FCGX_IsCGI`, `OS_FcgiConnect`, `OS_SpawnChild`): sequences of system calls
  run once, with no state to check after them.
* *`sprintf` and the texts of formats*: `FcgiPrintf` has their lengths.
* *`main2.cc`*: not built; it uses `FCGX_Request` and `fcgi_streambuf` in an order
  the models allow. Its comment says that standard input is not read without a
  length, while `gstdin` reads it when CONTENT_LENGTH cannot be parsed. *Stubs and PHP
  extension*: no behaviour.
* In modelled parts: log output to the terminal, the JSON text of a location, the
  CSV patterns (a line matches or not), command line options, the lingering
  close of a socket (one step), memory exhaustion except in `FCGI_fopen`.

## 8. Plan

The order followed: output streams and their refinement, input stream, accept, the
event loop, the server of this repository, the request's life, GeoIP and its
composition, stdio and streambuf, formats, lines and parameters, the Windows
layer; then the theorems, about every safety property the runs check. Further
modelling would put `FcgiReader` and `FcgiWriter` beneath `FcgiRequest` for a single short
request, in place of its own abstraction of their records.
