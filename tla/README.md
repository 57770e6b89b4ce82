# A verification project for the noise-image server and its client

These TLA+ modules model the client-server application of this repository: a
Windows server that registers users in SQLite and sends generated images, and a
console client. TLC checks the models on small instances, and TLAPS proves the
most important safety properties for every value of the constants. Line numbers
below are of the files under `src/`; `PROJECT.json` maps each definition to the
lines it stands for.

## 1. The system

Short names: *TS* `server/src/source/threaded_server.cpp`, *SV*
`server/src/source/server.cpp`, *DB* `server/src/source/database.cpp`, *MN*
`server/src/myNoiseGeneratorServer.cpp`, *CL* `client/src/source/client.cpp`.

| Component | State | Operations | Correct means | Module |
|---|---|---|---|---|
| Thread-per-client server (TS 16-126, 304-323) | `running`, listening socket, `client_threads`, `finished_threads`, `threads_mutex`, one `std::thread` per client | `run`, `handle_client_thread`, `cleanup_finished_threads` | no worker is lost or joined before it may be, no handle is shared, finished workers are reaped, waiting clients accepted, `std::terminate` never called | `ThreadedServer`, `ConnectionPool` |
| Server process (MN) | the global `server`, the console handler's thread | `main`, `ConsoleHandler`, the destructors | Ctrl+C ends the process; the database is not deleted under running workers | `ServerProcess` |
| Sessions (TS 94-302) | `local_state.state` and `.buffer`, the data line at work | the loop over `recv`, `handle_message_threaded` and the handlers it calls | every line is taken for what it is and answered once, in order; confirmed means stored | `LineFraming`, `DataLine`, `DataLineStream`, `Session` |
| Database (DB) | the file, table `USERS`, `sqlite_sequence`, the shared connection | `create_db`, `open_db`, `create_table`, `delete_table`, `insert_user`, `delete_user`, `find_user`, `delete_db` | ids are not reused, the latest row of an email is found | `Database`, `DatabaseUse` |
| Setup and restarts (SV 32-66) | what of `users.db` exists | `setup` | the server is up only with its table (it fails this); confirmed registrations survive | `Accounts`, `AccountService` |
| Single-threaded event loop (SV 68-373) | `client_sockets`, `client_states`, the two `fd_set`s | `run`, `handle_client_read`, `handle_client_write`, the handlers | its tables agree, images are unbroken, everyone polled is served | `EventLoop` |
| Client (CL) | the command, the wait it is in, what was read | `run`, `handle_registration`, `handle_login`, `get_image`, `send_message` | client and worker agree on what comes next, or how far they differ is bounded; waits end | `Client` |
| Perlin noise (`perlin_noise_generator.hpp`) | a constant table | `noise2D`, `fractalBrownianMotion` | neighbouring cells agree at their border | `Perlin` |
| Hash table (`hash_table.cpp`) | buckets of linked nodes, a count | `insert`, `search`, `deleteKey` | it is a multimap and follows no null pointer; the server never uses it | `HashTable`, `MultiMap` |
| PNG (`PNGimage.cpp`) | pixels, the place in the file, the rows | `load`, `save`, `unfilterScanlines` | what is saved is loaded again; an eight-bit RGBA file is loaded as what it stands for or refused | `ImageFiles`, `Scanlines` |
| BMP (`BMPimage.cpp`) | pixels, file contents | `load`, `save` | no pixel in the wrong place | `Bmp`, `ImageFiles` |
| JPEG, loader, colour, image handler (`image_ops/`) | - | a dispatch on the extension; JPEG's `load` and `save` always throw | a refused file is not edited | part of `ImageFiles` |
| SQLite | - | vendored | - | not modelled; what the server relies on is stated in `Database` |

How they interact. `main` makes a `ThreadedServer`, calls `setup` and `run`.
`run` accepts connections and starts a worker thread for each; workers and `run`
share two containers under one mutex; all workers share one `Database` object.
`ConsoleHandler` runs on a thread Windows makes and deletes the server while the
others use it. The client sends lines over TCP and polls for texts and images;
nothing in the stream separates or numbers replies. `ThreadedServer` overrides
`run`, so the event loop of class `Server` is compiled and never entered.

Hard behaviours: interleavings of `run`, the workers and the console handler;
handles that Winsock reissues; joins under a mutex; a process that ends between a
statement and its confirmation; functions that swallow errors (`setup`,
`insert_user`, `find_user`); replies that arrive after the client stopped
waiting, or in parts, each of which it takes for a whole one; partial sends on non-blocking sockets. `PROJECT.json` lists the hazards
at their lines, each with the properties aimed at it.

## 2. Modules and their correspondence to the code

```
ThreadedServer <- ServerProcess                 <- ServerProcessProofs
               (both implement ConnectionPool)
Places <- LineFraming
LineFraming, DataLine <- DataLineStream         <- LineFramingProofs
DataLine, Database, Histories <- Session
Session <- Accounts      (implements AccountService)  <- AccountsProofs
Database <- DatabaseUse                         <- AccountsProofs
Session <- Client                               <- ClientProofs
DataLine, Histories <- EventLoop                <- EventLoopProofs
Places <- HashTable      (implements MultiMap)  <- HashTableProofs
Scanlines, Bmp <- ImageFiles                    <- ImageProofs
Perlin                                          <- ImageProofs
Places, Histories <- PlacesProofs   <- LineFramingProofs, ClientProofs,
                                       EventLoopProofs, HashTableProofs
```

`A <- B` reads: B extends A. `MC*` modules add the sets and symmetries of the instances and nothing else.
`MCSequential` puts
`DataLineStream`, `DatabaseUse` and `HashTable` side by side in one instance: nothing is
shared, and a behaviour uses one of them. Operators whose comment begins with *Mutation of* are wrong variants of an
action, used to see that a property notices them.

**ThreadedServer.** `mainpc` follows `run()` from one point at which another
thread can interfere to the next; `phase[t]` does so for a worker. `handle[s]`
says which thread owns the connection behind a handle value; `closesocket` makes
it `None`, and `accept` returns any free value, also one whose entry in
`client_threads` still holds an unjoined thread (`HandleReuse`). `InsertThread`
is the assignment of TS 42: assigning to a joinable `std::thread` sets
`terminated`. `CleanupJoin` waits, holding the mutex, until the thread has
exited, as the code does. `setup` does not report failures, so `Init` allows a
listening socket that is unbound or invalid. A worker's messages are one step
here; `Session` refines them.

**ConnectionPool** is what both of these promise of connections: one leaves the queue only
for a worker of its own, nobody else gets the same one until that worker is done with
it, and the server is over only when every worker was waited for. The refinement
(`Pool` at the end of `ThreadedServer`) maps the handle that `accept` returned to `taken`
until a thread is started with it, a live thread's copy of the handle to `serves`, a
worker past `closesocket` to `done`, and `terminated` to an abort. Locks, the two
containers, the select loop and handles as such are stuttering.

**ServerProcess** adds `ConsoleHandler`, `delete server` by either thread, the
destructors in their order (`~ThreadedServer`, members, `~Server`) and
`ExitProcess`. Threads that use the destroyed object find its members as they
were left, which is one of the outcomes undefined behaviour can have. The final
joins of `run` (TS 50-57) are only reachable here, since nothing but the
destructor makes `running` false; they are actions of `ThreadedServer`.

**LineFraming** is the receive buffer (TS 94-112, SV 152-172, the same code
twice): `Receive(n)` appends what one call of `recv` returned and `TakeMessage` is
one turn of the loop over the newlines. The handler's answer `true`, after `exit`,
is a choice here.

**DataLine** sees a data line as its comma-separated fields. `Splits` says when
the calls of `getline` succeed: the last field fails exactly when it is empty and
ends the line. **DataLineStream** composes it with `LineFraming`: it runs `getline`
on the characters of every message that was cut from the bytes of a connection
and compares with the fields between its commas (`LineOf`).

**Places** counts positions: the rank of one among others, and the position of a rank.
**Histories** states, without the model's variables, what a dialogue is due: what is
expected after each line (`Expectations`), the replies joined one behind the other
(`Joined`), and that what was given is a beginning of them or all (`Fits`,
`FitsWholly`). `ReplyMatchesHistory` and `RepliesMatch` use it, so that worker and event
loop are held against the same rule.

**Session** is what workers do with lines. A handler's work on its own session is
one step; the call of the database and the reply after it are steps of their own,
because other workers run, and the process may end, between them. `confirmed`
records the emails whose client was told "Registration successful".

**Database** is used through its calls only. A statement runs as a whole or fails
and changes nothing; every failure ends in a message on the console.
`Literal` is the quoting of DB 61-62: a text with an apostrophe makes the
statement invalid. `get_user_data`, which nothing calls, is left out: it hands a
`char*` to a callback that writes an `int` through it. **DatabaseUse** calls the
class in any order, `open_db` on a connection that is open included: the old one stays
open (`leaked`), so that the file can no longer be removed. **Accounts** puts `setup` before the sessions and a crash and
another start behind them; `FirstFiles` says what `users.db` may be before the first
start, an `empty` one without its table among them. **AccountService** is what that promises to clients: accounts
stored and looked up at one moment each. A request is `sure` when the database cannot
fail on it; one that is not may be confirmed with nothing stored, or answered with "not
found", as in the code, but loses no account and finds none that was never stored. The refinement
(`Atomic` in `Accounts`) maps the rows to `stored` and a worker between its data line and
its reply to a `call`, which is `sure` when the disk works, `setup` is not cut off, and the
texts that go into the statement have no apostrophe; `setup`, commands, and lines that
reach no statement are stuttering steps.

**EventLoop** follows `Server::run`: `select`, one `accept`, then the clients in
order of arrival with `--i` after an erase. `FD_SET`'s limit is `FdSetSize`. An
image is a number of bytes, sent in parts of any size the system takes; a text is
taken whole or, when the client has stopped to read, lost (also when a part of it was
taken: its result is not looked at, and the part is left out). Reading several lines
at once, `exit` with lines behind it, and lines dropped in the two sending states
are as in the code. `handle_login_data` differs from its threaded twin: an empty
line is "invalid data format", where TS 224-228 answers "no data received".

**Client** runs against a worker of `Session` over one connection. `sent` and
`replies` are the two directions of the stream, `handled` and `read` how far the
receivers have come, so that any delay is possible. One `recv` may deliver several
replies and of the last one a part only (`torn`), whose rest the next `recv` meets;
the waits for a text end with the first bytes, whatever they are, and a wait that ends
before a reply was whole, or at its limit, counts as `early`. A part of a prompt may
hold the words `run` looks for or not (`MayPrompt`). After a size that is none
(`garbled`) `get_image` goes on: it fails to allocate, reads any number of bytes as
pixels, waits for more for ever, or comes to its last wait. Each wait is a phase. What
`recv` returns (data, nothing yet, an error, 0) decides the step, and the 0 is
looked at only in `run` and `get_image` before the text, as in the code.

**HashTable** keeps each chain as a sequence of nodes; `Blank` is the node without
a key every chain begins with, and the empty sequence the null pointer that
deleting the last node leaves. `hashFunction` works on signed `char`s with the
remainder of C++. Following a null pointer or leaving the array sets `undefined`,
after which nothing more is said. **MultiMap** is the abstract table with repeated
keys that it implements until then.

**Scanlines** is `unfilterScanlines` (PNGimage.cpp): one byte per step, in
place, with neighbours as they are by then. `Filtered` is the encoder of the PNG
standard, which the repository does not contain; `Nearest` states its Paeth
predictor without the code's comparisons.

**Bmp** is the file layout of `BMPImage`: rows from the last to the first, padded
to four bytes, and a constructor that takes `uint8_t` (`DimLimit`, 256).

**ImageFiles** joins the two: an image from the server is saved by
`Client::get_image` in a format and under a name that need not fit, a crash or a
full disk may cut the file off anywhere (nobody looks at the stream), and
`ImageLoader::load`, the chunk walk of `PNGImage::load` and the editing of
`myNoiseGeneratorImageHandler.cpp` follow. In the walk, four bytes that are not a
length field are taken for any number; `ReadData` leaves the CRC unread as the
code does. `load` looks at no bit depth, colour type or interlacing, and neither does
the model: `ImageConstants` supposes that the files in `Stored` are eight-bit RGBA. zlib is external: `uncompress` wants the whole stream and ignores what
follows it.

**Perlin** is `PerlinNoise2D` as operators: the doubled permutation, the
gradients, `fade`, `lerp` and `noise2D` of a cell and a place in it.

## 3. Runs

| Run | What it asks | Result |
|---|---|---|
| `pool` | two handles, three thread ids, handles reissued at once: no worker lost (`ThreadsAccounted`), joins under the mutex never wait for it (`CleanupSound`), serving workers own their handle, `terminated` only by reuse, finished workers joined, waiting clients accepted, and the whole implements `ConnectionPool` (`ServesConnections`) | passes |
| `handle_reuse` | does the process survive? | violated, see 6 |
| `ctrl_c` | Ctrl+C at any moment: the process ends (`CtrlCEndsProcess`), and when the database is deleted at most the one worker being started is alive (`DatabaseOutlivesWorkers`); it stays a `ConnectionPool` (`ServesConnections`), handles reissued at once | passes |
| `final_join` | are the final joins safe? | violated, see 6 |
| `sequential` | three parts, one at a time. Bytes in any pieces: the handler gets exactly the lines that were sent (`FramingExact`), and `getline` on them agrees with `DataLine` (`RegistrationAgrees`, `LoginAgrees`). Any calls of the database, each of which may fail: `IdsNeverReused`, `LatestRegistrationFound`. Any calls of the hash table: `CountMatches`; careful callers meet no null pointer (`CarefulUseDefined`); otherwise a multimap (`IsMultiMap`) | passes |
| `apostrophe` | is what was confirmed stored? | violated, see 6 |
| `restarts` | two sessions, one crash: `ConfirmedStored`, `LoginSeesConfirmed`, and the whole implements `AccountService` (`AccountsAtomic`) | passes |
| `half_setup` | is the table there when the server is up, also after a `setup` that was cut off? | violated, see 6 |
| `client` | client and worker, replies late, cut and joined: every line is answered once, in order, as what the lines before it make it (`ReplyMatchesHistory`); both agree until a wait ends early (`InStep`), no size is read from text or pixels before (`GarbledOnlyWhenBehind`), the client falls back by one reply at most with each such wait (`BehindByEarlyWaits`), waits with a limit end (`WaitsEnd`), and the types (`ClientTypeOK`) | passes |
| `event_loop` | two clients: `SocketsAgree`, `ImageUnbroken`, `RepliesMatch`, `EveryoneServed`, and the types (`TypeOK`) | passes |
| `images` | save, cut off, load, edit, save: `SavedIsLoaded`, `BmpInPlace`, `RgbaPngFaithful`, and the rows are turned back (`UnfilterInverts`) | passes |
| `split_idat` | is a file whose data is in several chunks loaded? | violated, see 6 |

Bounds and why they are enough:

* `pool`: two handles are the least that let one client arrive while another
  leaves, and a third thread id lets a worker be unjoined while both handles are in
  use. The theorems of section 5 remove the bound for the safety properties.
* `ctrl_c`, `final_join`: two workers, the handler, main. Two suffice for one
  worker to be at its end while another serves.
* `sequential`: nine characters hold five one-character fields and four commas, one
  character of each class the code distinguishes; streams of five with newlines
  and carriage returns anywhere hold five lines, or a line in pieces of
  `RecvLimit = 2` with the next behind it. Two plain emails and one with an
  apostrophe, ids up to 4: an email can have two rows and a third be deleted and
  inserted again. Five keys on two chains, up to four elements (`initial = 1`,
  `MaxElements = 5`): chains grow, are emptied and are null. One key has negative
  `char`s, which gives a negative index. The theorems of section 5 remove all of
  these bounds.
* `apostrophe`: one session and one line of data suffice to show it.
* `restarts`: `MaxStarts = 2` is one crash with a recovery; two sessions with two
  lines each let one register while the other looks up. Its disk works, no text has an
  apostrophe, and `setup` is not cut off, since `ConfirmedStored` holds only then. `AccountsAtomic` was also run, and
  passes, with an apostrophe in one of two users' lines, and with `DiskFails` and
  `CrashInSetup` both `TRUE`; the theorem of section 5 holds of all of these.
* `half_setup`: one session, two starts and a disk that works suffice to show it.
* `client`: four lines and one poll. Register, data, image and a further command
  fit, so that the rest of a text, or a late one, meets any of the waits. The limits 100
  and 50 are one constant, since only reaching them matters; with `MaxAttempts = 1` a
  wait can poll and succeed, or poll and give up. The client types every command the
  server knows; one it does not know it meets when a form reaches it while it waits for
  a command. The forms are complete or lack a required field.
* `event_loop`: two clients and two lines under way, an image of two header bytes
  and one pixel byte, so that header and image are both sent in parts. Dropped
  lines do not count, so that a client can go on sending during an image. With
  `FdSetSize = 3` both clients fit; with 2 the second waits for the first to
  leave, which was also run and passes. A client that stalls does so for good.
* `images`, `split_idat`: images of up to five by five against a `DimLimit` of 4 instead of 256,
  so that sizes wrap and every length of padding occurs; `Word = 32` instead of
  2^32 as the number of values of a length field, with files shorter than that;
  `ZLength = 3` bytes of compressed data, so that a stream can be split twice; two
  by two pixels with every choice of filters, which have a left, an upper and an
  upper left neighbour; files cut off after any cell. Larger pictures add nothing
  to the filters: `UnfilterIsInverse` holds for any size.

`CHECK_DEADLOCK FALSE` stands where the system may stop: the process has ended,
all sessions are closed, all input is read or the bound on lines is reached. `pool`,
`handle_reuse` and `event_loop` are checked for deadlock.

## 4. Fairness

* `ThreadedServer!FairSpec`: the scheduler runs the main thread and every worker
  (weak fairness), and a worker waiting for `threads_mutex`, which is free again
  and again, gets it some day (strong fairness, only on `LockFinished`: a
  `std::mutex` is not fair, but an acquirer cannot be passed over for ever by `run`,
  which sleeps in `select` between its locks). Clients owe nothing, and a
  worker may block in `send` for ever, so `HandleMessages` has no fairness.
* `FairProcessSpec`: only the handler's thread and deletions; the handler waits
  for no other thread.
* `ClientSpec`: the client's own loops. User, network and server may take any
  time; `WaitsEnd` needs none of them because the attempts are counted. Nothing is
  assumed of the reading of pixels (`ReceivesGarbled`), whose bytes may never come. Its
  exception is a connection that the server closed in order, where the code does
  loop for ever (section 6).
* `EventLoop!Spec`: the one thread runs. `EveryoneServed` is stated for clients
  that fit into the sets and that read what they are sent.

## 5. Proofs

The proof modules are checked with TLAPS; nothing is left unproved or assumed
but the named assumptions on the constants.

*ServerProcessProofs*, first part (`ThreadedServer!Spec`, any finite sets of handles
and threads, with and without reuse). None of the safety properties is inductive.
`IInv` strengthens them with: who holds `threads_mutex` where (`MutexInv`); the
thread in the temporary of TS 42 is live, unstored, and has the handle `run` works on
(`TemporaryInv`); an announced thread is past its last use of the mutex
(`FinishedInv`); the handle just accepted is main's until a worker runs
(`HandleInv`); without reuse the entry a new thread goes to is free (`FreshInv`).
`CleanupSound` needs the mutex part because a worker may announce itself only while
no cleanup is under way; `ServingOwnsHandle` needs the handle part because
`accept` must not return a handle in use. From `InvariantHolds` follow
`NoWorkerLost`, `CleanupNeverBlocks`, `ConnectionsNotShared`, and, counting
threads against handles under `EnoughThreads`, `OnlyReuseIsFatal` and
`SurvivesWithoutReuse`: the reuse of handles is the only thing that can end the
process this way. These are theorems about `Spec`, the server without Ctrl+C: after
`WSACleanup` handles are no longer owned, and `IInv` does not hold in
`ServerProcess`.

Its second part (`ProcessSpec`) proves `DatabaseIsLast`: whoever deletes the
server and whenever Ctrl+C is pressed, at most the one worker `run` was starting
is alive when the database is deleted. `ProcessInv` keeps of `IInv` what Ctrl+C
leaves (`ThreadsInv`: types, mutex, where the threads are stored) and adds that a
deleter has stopped the accepting first (`ClosedInv`) and that, once
`client_threads` is destroyed, one live thread is left at most, the one being
stored, or none while one is still being started (`TornInv`). The last part is
what makes the bound *one*: destroying a map with an unjoined thread terminates
the process, so that survivors can only be outside it.

The third part is the refinement of `ConnectionPool`, step by step: `ServerIsPool` for the
server alone, from `IInv`, and `ProcessIsPool` for the whole process. The second needs an
invariant of its own, since a deleter closes the listening socket and calls `WSACleanup`
while workers are at work: `OwnInv` says that *as long as the listener listens* a
connection in use belongs, under its handle, to its user. That is when `accept` can give
a handle to somebody else; afterwards it gives out none. The pool keeps its
connections apart (`Exclusive`), so that with the refinement `WorkersKeepApart` holds of
the process at any moment, also after Ctrl+C, where `ServingOwnsHandle` no longer
does because the handles are gone.

*AccountsProofs* (`AccountsSpec`, any sessions, lines and starts). `AccountsAreAtomic`, the
refinement of `AccountService`, assumes nothing but the ranges of the constants: the disk may fail at any statement, texts
may have apostrophes, and the process may end anywhere. What a failure can do wrong ends
with the request at which it happens: it never takes an account away and never
touches another session's request, before or after a restart. Requests that are `sure`
get the truth. The other theorems say what that is worth to a client:
`ConfirmedStaysStored` and `ConfirmedLogsIn` under `Healthy` (statements do not fail, no
text has an apostrophe, and the process does not end while `setup` makes the file, nor
did before the first start). `AccountsInv` has a part that
holds always (the types, and that ids are bounded, so that a lookup that finds rows finds
a last one), where `setup` has brought the file if the server is `Steady` (`SetupInv`), and
that a worker about to confirm has stored its row if it is `Healthy` (`ConfirmingInv`). Each
assumption is needed: the run `apostrophe` drops one; with `DiskFails = TRUE` a failed
INSERT is confirmed just the same; with `CrashInSetup = TRUE` a crash between `create_db` and
`create_table` leaves a file without the table, which the next start takes for
complete (the run `half_setup`), and what is confirmed then is not stored. For the `Database` alone (`DatabaseUse`, any calls,
statements that fail included) the module proves `IdsStayUnique` - no id is above
`last_id`, which is the invariant AUTOINCREMENT keeps, so a new row's id was never
in use (`IdsInv`) - and `LatestIsFound`, an action property: a row just inserted is the
one `find_user` finds, whatever older rows with its email there are.

*PlacesProofs* has the lemmas the next four modules share. `Places` counts: the rank of
a place among others, and the place of a rank (the *n*-th newline, the *n*-th
node of a key). `Histories` compares what was sent with what is due by recursive
functions. The library's induction takes a predicate as an operator, which the
provers cannot instantiate; here a *set* takes its place (`StepByStep`: what contains
0 and passes from each number to the next contains all up to *n*, by the least
counterexample), and `StepsExist` shows in the same way that a function
defined step by step exists. On them rest `ExpectationsIs` and `JoinedIs`, which say
that the recursive functions of `Histories` are what their definitions say, and
`ExpectationsGrow`, `JoinedGrow` and `FitsTogether`, what one line more changes.

*LineFramingProofs* proves `LinesAreExact`: for any bytes, any pieces and any
`RecvLimit` the handler gets the lines that were sent. `FramingInv` says that what was
taken, the buffer and what is to come are the stream (`BytesInOrder`), and that
the *n*-th message ends at the *n*-th newline (`CutAtNewlines`). `RegistrationIsRead`
and `LoginIsRead` go on from there to the handlers: `ReadSoFar` is what is left of the
stream, and what was read, after *j* calls of `getline` (`FieldRead` is one call,
`RestRead` the last), and a line splits exactly when none of the calls fails.

*ClientProofs* (`ClientSpec`, any commands, forms, lines and polls, replies cut and
joined in any way). `InStep` is not inductive, for it speaks only of the moments when
the client is at its prompt. `ClientInv` (`Dialogue`) adds, for each wait of a client
none of whose waits ended early, how many of its lines the worker has handled, which
texts are unread, and what the worker expects next, and that a reply received in part
(`torn`) or a size that is none needs a wait that ended early; from it follow
`ClientTypeCorrect`, `StaysInStep` and `NoGarbageUnlessBehind`. Once a wait has ended
early nothing keeps the two together, and what `ClientInv` says of the dialogue is void.
`NoFurtherBehind` is about the time after: `LagInv` says that a connected client lacks
no more replies than the phase it is in may still bring it (`Slack`: two while it waits
for an image, one in the other waits, none at the prompt) and one for each wait that
ended early. It rests on the count of replies: only `get image` has two
(`RepliesCount`), and only it leads to a phase with a slack of two.
`AnsweredAsAsked` is about the whole history:
`RepliesInv` says that the lines that are done are answered (`Owed`), that the
worker's state is what they make it, and that the line in work was accepted as data.
A line more adds its replies to what is due, whatever the database answers.

*EventLoopProofs* (`Spec`, any clients, lines, image size and `FdSetSize`). `LoopInv`
proves `TypeCorrect` and `TablesAgree`: with the types (`LoopTyped`, the index
within the list among them) it says that `client_sockets` is exactly the open
sockets *without repetition* (`ListInv`) - without the second half, erasing a client
would leave a second entry for it - and that `bytes_sent` is 0 unless an image is
under way (`Resting`). `ImagesArriveWhole` adds `OutInv`: what a client was sent so
far has each image byte next to its neighbours, and ends in byte *k* exactly when
`bytes_sent` is *k* (`Whole`). `LoopAnswersAsAsked` adds `AnswersInv`: a client to
whom no image is being sent is answered in full and its state is what its lines
ask for (`Settled`); otherwise its last line asked for the image, and beyond what the
lines before it were due, `bytes_sent` bytes of it were sent (`UnderWay`). The
counter is what ties the two together: `RepliesMatch` alone would let a part of the
image be sent twice in the next step.

*HashTableProofs* (any capacity, keys and number of elements) proves
`CarefulUseIsDefined`: without removals no chain is null, and only a chain that was
never filled has a node without a key (`CarefulInv`). `CountIsRight` holds for all
callers: each call changes the set of filled nodes by the one element by which it
changes the counter (`CountInv`). `KeysQueueUp` is the refinement of `MultiMap`, call by
call, as long as the use is defined: `search` finds and `deleteKey` removes the first
node of a key in its chain, which is the oldest value in the queue of that key, and
no other queue changes, although nodes of several keys share a chain.

*ImageProofs*, rows: `UnfilterIsInverse` for pictures of any size and any
filters: what the loops have passed is original and the rest still filtered
(`ScanInv`), the predictor of the code is the one of the standard on all bytes
(`PaethIsNearest`), and adding what was taken away gives a byte back modulo 256.

*ImageProofs*, files (`ImageFiles!Spec`, images of any size, any cuts, any other PNG
files in `Stored`). Two round trips come first: `BMPImage::load` of what `save` wrote, cut
off anywhere, has the pixels that were written, in place, and white elsewhere; and the
chunks `PNGImage::save` writes are collected to the stream they were made of. `ImageInv`
carries them through the steps: `FileInv` says what the file is a part of, and
`PhaseInv` what each phase has: while the chunks are walked the pixels' size is the
picture's once the header was read (`Walked`), and a complete file under the right
name has the walk at the start of a chunk and no byte of data lost (`OnTrack`). From
`ImagesHold` follow `SavedImagesReturn` (as BMP for images below `DimLimit`, which
`save` writes whole), `BmpStaysInPlace`, `RgbaPngIsFaithful` and, with
`SizeInv`, `LoadedRowsAreExact`. They hold under `ImageConstants`: received
pictures are opaque, as the server makes them (TS 276), and a file of `Stored` is
eight-bit RGBA, begins with its header and has it once. Of other PNG files nothing is
proved; `load` reads them wrongly (section 7). `SplitFilesAreRefused` shows
that the defect of the run `split_idat` spares no such file; it adds `SplitInv`: of a
file with split data the loader has collected nothing, or some byte that is not the
stream's at its place (`Astray`, when it met a later chunk first), which no further chunk mends, or
exactly the first chunk, and is then past the place where it would find the next
(`FirstOnly`), because it has taken the CRC for a length. None of these uncompresses. For
this `ImageConstants` says of such a file (`SplitFile`) what makes it one: each data chunk
has consecutive bytes of the stream, but not all of them, and is followed by the chunk with
the next byte unless it has the last, and no two begin with the same byte.

*ImageProofs*, noise: the corner two neighbouring cells share has one gradient, also
where the table of 256 begins anew (`CornersAgree`), and the noise has no
seam in either direction (`NoSeamAcross`, `NoSeamUp`). Places in a cell are integers
there: each statement is an equation between polynomials with integer coefficients,
which holds everywhere if it holds on the integers. The code rounds these exact
values to doubles; the theorems do not bound that error.

Only model-checked is liveness, which is out of the prover's reach: `FinishedReaped`,
`BacklogServed`, `CtrlCEndsProcess`, `WaitsEnd`, `EveryoneServed`.

## 6. What the checks found

With a run and an entry under "findings":

* TS 42: a worker closes its handle before `run` joins it. When `accept` returns
  the same value, a joinable `std::thread` is assigned to, and the process ends.
* TS 54: `run` joins workers while it holds the mutex they need to finish.
* DB 62: an apostrophe makes the INSERT invalid; the client is told it succeeded.
* SV 60: a process that ends between `create_db` and `create_table` leaves a file
  without the table. Every later start takes it for the database (SV 58), every
  statement fails unseen, and registrations are confirmed with nothing stored.
* PNGimage.cpp 117: the CRC behind compressed data is not skipped, so the next
  turn takes it for a length, and a file with several data chunks is refused, though
  line 120 joins them. Files with one survive this, because the data is complete by
  then.

Seen while modelling, with no run of their own:

* MN 13 and MN 57 may both delete the server: the handler does not reset the
  pointer, and `main` goes on once `running` is false.
* An empty note makes registration fail as "invalid data format", though only the
  four other fields are required (TS 203), because `getline` fails at the end of
  the line. The client sends exactly that line when the note is left empty.
* CL 83: after the client has given up, a late reply is taken for the answer to
  the next command; before `get image` it is read as width and height (CL 205).
* CL 84, 145, 181, 271: one `recv` is taken for a whole text. When TCP cuts it, the
  client goes on with its first part: a prompt cut before "Send email" brings the menu
  back while the worker waits for the data, and what is left of "Image sent", which
  follows 16 KB of pixels, is read by the next `get image` as width and height. The
  client never finds back on purpose. `GarbledOnlyWhenBehind` and `BehindByEarlyWaits`
  say when this can happen and how far it goes.
* CL 144, 181, 271: `recv` returning 0 is neither data nor an error, so these
  waits spin for ever once the server closes in order.
* SV 79: clients past the 63rd are accepted by the event loop and never read.
* PNGimage.cpp 96-115: `load` ignores bit depth, colour type and interlacing and reads
  every file as eight-bit RGBA.
* PNGimage.cpp 218 and BMPimage.cpp: `save` ignores write errors. A PNG file that
  was cut off is refused later or loaded correctly; a BMP file is loaded with white
  pixels.
* BMPimage.cpp 3: the constructor takes `uint8_t`, so an image of 256 or more
  pixels a side is saved as its corner without a message.
* myNoiseGeneratorImageHandler.cpp 24: a file that is refused gives a null image,
  which the handler writes into.
* hash_table.cpp: after the last node of a chain was deleted the next insertion
  writes through a null pointer; searching a chain that was never filled compares
  with a null key; a key with bytes above 127 may have a negative index.
* SV 203: "Image sent" may be lost; the client then waits its five seconds.

## 7. What is not modelled, and the plan

Built in this order, the most important behaviour first: `ThreadedServer`,
`ServerProcess`, `DataLine`, `Database`, `Session`, `Accounts`, `Client`,
`EventLoop`, `LineFraming`, `AccountService`, `HashTable`, `Scanlines`, `Bmp`,
`ImageFiles`, `Perlin`, `ConnectionPool`.

Every invariant, action property and refinement that a passing run checks is also
proved; nothing of the plan is left.

Not modelled:

* SQLite (`sqlite3.c`, `sqlite3.h`, `sqlite3ext.h`, `shell.c`): vendored, and by far the
  largest part of the lines in the repository; what the server relies on is stated
  in `Database`. zlib's streams, for the same reason.
* `get_user_data` (DB): nothing calls it.
* The destructor of `HashTable` and what the class never frees.
* PNG files in another depth or colour type than eight-bit RGBA, or interlaced, which
  `load` takes for such without looking and loads wrongly.
* A BMP file cut inside its headers: the 54 bytes are one cell of the file.
* The part of a text that the event loop's `send` may have written before its buffer
  was full: the text counts as lost.
* The rounding of doubles in `Perlin`, the randomness of `shuffle`, and
  `fractalBrownianMotion`, a sum over octaves of a function the theorems are about.
* The console's wording, the colours of the image, and the build files.
