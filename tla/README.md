# A verification of the network programs of NetworkAllInOne

NetworkAllInOne is a course in socket programming: blocking TCP and UDP pairs (Lecture 1), three
event-driven echo servers over `select`, `poll` and `epoll` with a client each (Lecture 2), the same
loops as a class (Lecture 3), and a file storage server with a protocol of its own that can be driven
by any of four loops (Lecture 4). This directory holds TLA+ modules of these programs, TLC
configurations that check them on small instances, and TLAPS proofs for any number of clients and
descriptors.

Paths below are relative to the repository's `C++/` directory; *L1* is `Lecture 1, Sync TCP & UDP`,
*L2* is `Lecture 2, Async IO with selct, poll, epoll`, *L3* is `Lecture 3, OOP Refactor`, *L4* is
`Lecture 4, Simple File Storage`.

## 1. Inventory

### Components, their state and their operations

| component | state it keeps | operations | module |
|---|---|---|---|
| **Storage protocol** (L4 `FileStorageServer.h`, `.cpp` 87–209) | none; the files | frame a request (`readRequest`), dispatch it, GET, PUT, DELETE | `StorageProtocol`, `FileStore` |
| **Request handler** (L4 `FileStorageServer.cpp` 87–232) | `clientSockets_`, `storagePath_`, the files below it | `readRequest`, `handleRequest`, `getFile`, `putFile`, `deleteFile`, `sendAll`, `closeClient`; construction; the ways the process ends | `StorageHandler` |
| **runSync** (234–251) | – | `accept`, serve, close | `StorageSync` |
| **runSelect** (253–301) | the `fd_set` and the scan index | `select`, `accept`, scan, serve, erase at the index | `StorageSelect` |
| **runPoll** (303–347) | `pollFds_` and the scan index | `poll`, `accept` and append, serve, erase in two lists | `StoragePoll` |
| **runEpoll** (349–409) | the interest list, the batch of events | `epoll_wait`, `accept` and ADD, serve, DEL and close | `StorageEpoll` |
| **poll echo server** (L2 `poll/`) | `fds`, the index | the same with `read` and one `send`; an uninitialised `revents` | `EchoServer`, `EchoPoll` |
| **epoll echo server** (L2 `epoll/`) | the epoll instance only | `accept`, ADD, `read`, `write`, `close` | `EchoServer`, `EchoEpoll` |
| **select echo server** (L2 `select/`) | 30 client slots, the `fd_set` | find a free slot, `read`, `send(strlen)`, free the slot | `EchoServer`, `EchoSelect` |
| **TCPServer class** (L3 `TCPServer.h`, `.cpp`) | `clientSockets_`, and what its three loops keep | `server_accept`, `sever_select`, `server_poll`, `server_epoll` | `TCPServer` |
| **TCP server and client** (L1 `TCP/`) | one socket each | accept, receive, send, close, return; connect, send, receive, return | `SyncTcp`, `TCPClients` |
| **UDP server and client** (L1 `UDP/`) | the sender's address | one datagram in, one out | `SyncUdp` |
| **clients of Lecture 2** | how far the program got | connect (non-blocking in two of them), send, receive, give up | `TCPClients` |
| **operating system** (not in the repository) | accept queue, streams, resets, descriptor table | `accept`, `recv`/`read`, `send`/`write`, `close`, exit | `Sockets` |
| **TCPClient.h** (L3) | – | a declaration without an implementation | – |

### How they interact

A loop waits for descriptors, accepts connections into the descriptor table and its own list,
and calls the handler for one socket; the handler blocks in `recv` and `send` until the request
is answered and the socket closed. Everything runs in one thread, so the interleavings are
those of that thread with the clients, the network and the kernel: what `select`, `poll` or
`epoll_wait` reported is worked off while connections arrive, send, end and are reset, and
while the thread itself closes descriptors whose numbers the next `accept` hands out again.
Handlers of different clients meet in the storage directory, and in the process: an exception
or a SIGPIPE ends all of them.

The client programs read once and close, some of them before the answer has come. Their
kernel answers what comes afterwards with a reset, and that is an input of the server.

### What is hard

* **Stale reports.** The list a scan walks is not the list the report was made from.
* **Descriptor reuse** within one batch, one scan, one turn; in Lecture 3 also the reuse of the
  number 0 as the mark of a free slot.
* **Two lists** of the same sockets (`pollFds_`, `clientSockets_`), erased by different rules.
* **Segmentation.** A request arrives in pieces; only a PUT whose length was in the first
  piece is read further. An echo arrives in pieces, and clients read one.
* **Partial failure.** Streams that end early, short sends, resets, full disks, uncaught `stoi`.
* **Timeouts** of a client, which race with a late answer.
* **Limits.** A full descriptor table, a full slot table, a full send buffer, the width of `int`.
* **Crash and restart** between truncating a file and writing it.
* **Unreliable delivery** of datagrams, with nobody who retries.
* **Liveness.** One blocking call holds every client up; one exit leaves the others behind.

`PROJECT.json` lists these hazards at their lines, with the properties that cover them.

### What makes each component correct

* *Loops:* a first `recv` never blocks (`NoBlindRecv`, `NoBlindRead`); the lists are exactly the
  open sockets (`TrackedExactly`, `InterestExact`, `SameOrder`, `FdsExact`, `SlotsDistinct`, `LoopWatches`);
  every queued connection is let go of (`EveryClientReleased`), every echo comes (`EchoEventually`, `EveryoneServed`).
* *Handler:* who stays gets a whole response (`AnsweredInFull`, `EveryAnswerHeard`), and only clients
  that vanish can end the process (`ServerSurvives`).
* *Storage:* it is a store on which requests act one at a time (`ImplementsFileStore`).
* *Echo servers:* all that was sent has come back when a connection is closed (`EchoedInFull`; for the
  select server `EchoedUpToNul`), be it by the loop or by the end of the process, unless it was reset.
* *Clients:* every program ends (`ClientsEnd`), and the epoll server ends only in a read or send for a client that left
  with echo unread, or in an `accept` on a full table (`Programs!ServerSurvives`).
* *Lecture 1:* the response to a message that was read as a whole reaches whoever waits for it, although the server
  returns right after (`WholeMessageAnswered`); one answer for one datagram
  (`OneAnswer`, `SomebodyAnswered`).

## 2. Modules

```
Connections ── Sockets ──┬── StorageHandler ──┬── StorageSync ── MCSync, MCClaims
      │            │     │     (FileStore)    ├── StorageSelect ── MCSelect
      ├─ StorageProtocol ┘                    ├── StoragePoll ── MCPoll
      │      └── FileStore                    └── StorageEpoll ── MCEpoll
      │            │
      │            ├── EchoServer ──┬── EchoPoll ── MCEchoPoll
      │            │                ├── EchoEpoll ────────────┐
      │            │                ├── EchoSelect ── MCEchoSelect
      │            │                └── TCPServer (EchoPoll, EchoEpoll)
      │            └── TCPClients ── SyncTcp ────────────────┼── Programs ── MCPrograms
      └                                          SyncUdp ────┘
```

**`Sockets`** (external) is the kernel as the programs use it. A stream is two numbers: units sent and
units received. `phase` is a connection's life, `backlog` the accept queue, `fdConn` the
descriptor table; `accept` takes the lowest free descriptor. A *reset* is reported once, as
ECONNRESET; after that `recv` returns 0 and a send raises SIGPIPE. A `close` with unread data is a
reset, which also destroys the answer. Which clients of the storage
server may end their stream early or vanish are the sets `MayCut` and `MayReset`. `told` and `heard` count the units of the answer given
to the kernel and read by the client; a blocking `send` sleeps while their difference is `SendRoom`.

**`StorageProtocol`** has the parsing as functions of the *prefix* of the request that was read: units
1–7 of a header are its fields and separators, every unit after that one piece of content. What a
file holds is who wrote it, how much, and whether it was content or a piece of the request's own
header (the case `npos + 1 = 0` in `putFile`). A name that was cut short reads as another name.
`AsInt` is the conversion of `request.size() - contentStart` to an `int` of which `IntMax` is the largest.

**`StorageHandler`** is one client socket between two turns of a loop. `pc` is where the thread
is: `recv` and `more` are the two `recv` calls of `readRequest`, `handle` is `handleRequest` with
`getFile` and `deleteFile`, and `putFile` up to its `ofstream`; `write` its write and flush; `send` is the loop of
`sendAll`; `close` is `closeClient`. `Throw` is the uncaught `stoi`, `BrokenPipe` is SIGPIPE,
`Kill` comes from outside and may hit a write in its middle; `Restart` runs the constructor again.

**`StorageSync`, `StorageSelect`, `StoragePoll`, `StorageEpoll`** extend it with a loop each: one
action per wait, per accept, per entry skipped, per entry served and per close. `EpollWait` returns any
`MaxEvents` of the ready descriptors in any order.

**`EchoServer`** is what the three echo servers share (one `read`, one blocking `send`), and
**`EchoPoll`, `EchoEpoll`, `EchoSelect`** are their loops. `EchoPoll` takes the uninitialised `revents`
from `StackRevents`; `EchoSelect` ends the echo where `strlen` does; `AddMayFail` lets `epoll_ctl` fail in
`EchoEpoll`, which closes the client again.

**`TCPServer`** is the class of Lecture 3. Its user calls `server_accept` any number of times and then one loop, or
returns from `main`. `server_poll` returns to its caller when `poll` or `accept` fails (`PollReturns`, mode `returned`), with every
socket still open and nobody to look at it, until `main` ends; no `main` starts a second loop. `server_poll` and `server_epoll` are the actions of `EchoPoll` and `EchoEpoll`, which it extends (their names
begin with `Poll` and `Epoll`, those of `sever_select` with `Sever`); `sever_select` is written out. Descriptor 0 is the first descriptor of the model, behind which the terminal is a connection that is
open from the start: a slot set to 0 makes the loop read it, and close it at its end.

**`TCPClients`** are the client programs; `Kind` says which of them a client runs, `at` how far it
got. They differ only in whether they give up. What the kernel of a client does for it (segments, the end of the stream,
the reset that answers what nobody will read) are actions of their own. **`SyncTcp`** is the server of Lecture 1 with these
clients, A `Hear` returns any part of what has been given to the client, as a `recv` may.
**`SyncUdp`** is the UDP pair over a network that loses, copies and reorders; a client may be started before the server has
bound its socket, and then its datagram is dropped.

**`Programs`** composes them: one server is started on port 8080, the epoll server of Lecture 2, the TCP server of
Lecture 1 or the UDP server, and the repository's clients run against it. While the epoll server runs, every
step is one `EchoEpoll` allows (`ImplementsEchoEpoll`), so what is proved of `EchoEpoll` with clients that do anything
holds of the session.

**`FileStore`** is the abstract specification: what the protocol block of `FileStorageServer.h` promises,
without sockets, loops or segments. `StorageHandler` instantiates it as `Store`; the mapping takes
`files` and `reply` as they are, a request as *whole* when all of it is on the stream, and a PUT as in
progress while `pc = "write"`. A PUT is two steps there because the code truncates the file first;
nobody else's request falls between them, and a crash damages no other file.

**`MC…`** modules give instances for TLC; **`…_proofs`** hold the proofs. `PROJECT.json` maps every
definition to the lines it stands for. Operators whose comment says *Mutant* are plausible bugs:
each property of a passing run is violated when the mutant that `PROJECT.json` names takes the
original's place.

## 3. Runs

| run | asks | instance | distinct states |
|---|---|---|---|
| `SyncSegments` | `SyncTypeOK`, `AnsweredInFull` with requests cut anywhere, one file in a directory nobody made, clients leaving and vanishing, a kill | 2 clients, 1 descriptor, 2 names, 4 requests | 3.4 M |
| `SelectLoop` | all of `runSelect`: `TypeOK`, `TrackedExactly`, `NoBlindRecv`, `ImplementsFileStore`, `EveryClientReleased` | 3 clients, 2 descriptors (so `accept` fails), every client puts one unit, one of them may vanish, a kill | 0.68 M |
| `PollLoop` | `TypeOK`, `NoBlindRecv`, `SameOrder` | 3 clients, 2 descriptors, PUT, resets, a kill | 2.0 M |
| `PollAnswers` | `ServerSurvives`, `EveryAnswerHeard` with vanishing clients and uploads as long as `int` counts | 2 clients, 2 descriptors, GET, PUT (also empty), DELETE; headers in one piece | 0.24 M |
| `EpollLoop` | all of `runEpoll` with every failure at once, also a disk that fills up: `TypeOK`, `NoBlindRecv`, `InterestExact`, `ImplementsFileStore`, `EveryClientReleased` | 2 clients, 2 descriptors, GET, PUT, DELETE of one name, a kill | 0.65 M |
| `EchoPollLoop` | `EchoedInFull`, `FdsExact`, `NoBlindRead`, *if* the uninitialised `revents` are zero | 3 clients, 2 descriptors, 2 units each | 1.9 M |
| `EchoSelectLoop` | `SelectTypeOK`, `NoBlindRead`, `SlotsDistinct`, `EchoedUpToNul` with more clients than slots and NULs in the data | 3 clients, 3 descriptors, 2 slots | 1.8 M |
| `ClassLoops` | the class: `TypeOK`, `BlocksOnlyAfterLeavers`, `LoopWatches`, `EveryoneServed`, whichever loop is started after however many accepts | 2 clients and the terminal, 3 descriptors | 0.25 M |
| `Programs` | the sessions: `SessionTypeOK`, `NoBlindRead`, `InterestExact`, `WholeMessageAnswered`, `OneAnswer`, `ImplementsEchoEpoll`, `ServerSurvives`, `ClientsEnd`, `EchoEventually`, `SomebodyAnswered` | a poll client and an epoll client, 3 units each; 2 UDP clients, 2 copies | 67 k |
| `ClaimLength`, `ClaimOkDisk`, `EchoPollGarbage` | what a comment or README says and the code does not do | see section 6 | |

**Why the bounds are enough.** Two connections over one descriptor are the smallest instance in which a
descriptor is reused, `accept` fails with a full table, and one client waits for another; three over
two are the smallest in which a scan holds an entry before and one after the one it erases while a
third connection takes the number just freed. A content of two units is one that a kill, a full disk, a cut stream
or a short send can split; `RecvMax = 8` takes a header and one unit, so the second unit needs the
second `recv` loop; `SendRoom = 1` makes every file response a short send. `IntMax = 2` is the length of the longest
upload: the comparison of line 119 runs up to the edge of its `int`, where a comparison one bit narrower
reads on for ever. `HeaderCuts = 1..6` lets a segment end after every field. `Shorter` makes the longer
name read as the other one. `MaxKills = 1` gives a server before and after a restart. In `EpollLoop` `FileBuffer = 0` makes
every failing write visible; that a failure hidden by the buffer is *not* seen is the finding `ClaimOkDisk`. `MaxEvents` is at
least the number of descriptors that can be ready at once in every run (the code leaves room for ten); the proofs hold for any.

In `ClassLoops` two clients can leave two slots at 0, which is all it takes for one typed line to be read twice; `BlocksOnlyAfterLeavers`
therefore excludes two such slots, and a closed standard input, by name. In `Programs` one client gives up and one does not, which is
the only difference between kinds that the model knows; `Message = SendRoom` because with less room than a message the one read of a
client could never return its whole echo, and `ServerSurvives`, which excuses a server whose client left without it, would say nothing. `MaxCopies = 2`
lets a datagram arrive after it was answered. The safety runs use the symmetry of the connections; the runs with a liveness
property do not.

**Fairness.** *Storage:* `WF(ServerStep)`: the process is scheduled. It is weak fairness of the loop as a
whole, not of its parts, so an `accept` that keeps failing or a `recv` that waits counts as the server's
step or as no step at all. `WF` of `Say` and `Hear` of all storage clients together: whoever connected goes on to send
its whole request and reads what it is sent. Without this the statement would be false of any server that
blocks in `recv`, and the code sets no timeout; no client is assumed to end its stream or to
disappear. *Echo servers and the class:* `WF(ServerStep)` and clients fair only in `Hear`: everybody is served
although some say nothing. In `TCPServer` nobody has to start a loop. *Sessions:* servers and client programs run; nobody has to
start a client, lose patience or type, and the network need not deliver a datagram that it may lose (`SomebodyAnswered` says
so). Where one `WF` stands for all clients together, it is enough, since each takes finitely many steps.

`Idle` lets a server with no client left wait forever; deadlock is checked in every run.

**What properties excuse.** Some hazards are what the code does, so a property can only say that nothing *else* goes wrong:

* `ImplementsFileStore` lets `EndPut` shorten a file whose request was cut, and `Crash` lose the file that was being written; it says that
  no other file and no answer suffers. The runs of it have one name, so that part rests on the theorem. A header in two pieces is
  outside of it (`ClaimLength`).
* `EveryClientReleased` is about clients that send their request to the end: one that never does holds the single thread for ever.
* `BlocksOnlyAfterLeavers` excuses a closed standard input and two slots at 0, `EveryoneServed` a slot at 0 and a `server_poll` that returned.
* `EchoedInFull` and `EchoedUpToNul` excuse connections that were reset, by whoever left data unread. That the echo servers end on a
  reset client or a full table is plain from their code and is no property of its own.
* `Programs!ServerSurvives` excuses a client that left with a part of its echo unread, and a full table. `WholeMessageAnswered` excuses a message that was
  not read as a whole, and the poll client that gives up. `SomebodyAnswered` excuses a network that lost something and a server that was
  never started.

In `EpollLoop` two clients over two descriptors close and reuse a descriptor inside a batch; a further event of the same batch
behind the reuse takes a third client, which this run cannot afford. `NeverBlindRecv` proves that case, for any number of clients and events.

## 4. Proofs

All proofs hold for any sets of connections, names and requests, any table size, buffer size and
number of kills, from the named assumptions on the constants (`ConnectionsAssumption`,
`SocketsAssumption`, `ProtocolAssumption`, `HandlerAssumption`, `EpollAssumption`, `EchoAssumption`, `ClientsAssumption`,
`SessionAssumption`, `UdpAssumption` …): sizes are positive natural numbers, `NoConn` is no connection, requests are well typed.

| theorem | epoll | poll | select | sync |
|---|---|---|---|---|
| `TypeCorrect` (`TypeOK`, `SyncTypeOK`) | ✓ | ✓ | ✓ | ✓ |
| `SocketsTracked` (`TrackedExactly`) | ✓ | ✓ | ✓ | ✓ |
| `NeverBlindRecv` (`NoBlindRecv`) | ✓ | ✓ | ✓ | – |
| `AnswersInFull` (`AnsweredInFull`) | ✓ | ✓ | ✓ | ✓ |
| `InterestIsExact` (`InterestExact`) | ✓ | | | |
| `ListsAgree` (`SameOrder`) | | ✓ | | |
| `SurvivesClients` (`ServerSurvives`, if `WholeHeaders`) | ✓ | ✓ | ✓ | ✓ |
| `ImplementsStore` (`ImplementsFileStore`, if `WholeHeaders` and `PromptDisk`) | ✓ | ✓ | ✓ | ✓ |

The storage server; the theorems on `runSync` are the last part of `StorageHandler_proofs` and begin with `Sync`. (`runSync`
calls a `recv` that is meant to block.)

| theorem of `EchoLoops_proofs` about | epoll | poll | select |
|---|---|---|---|
| the type invariant | `EpollTypeCorrect` | `PollTypeCorrect` | `SelectTypeCorrect` |
| `NoBlindRead` | `EpollNeverBlind` | `PollNeverBlind`, if `StackRevents = {FALSE}` | `SelectNeverBlind` |
| what the loop watches | `InterestIsExact` | `FdsAreExact` | `SlotsAreDistinct` |
| `EchoedInFull`, `EchoedUpToNul` | `EpollEchoesWhole` | `PollEchoesWhole` | `EchoesUpToNul` |

The echo servers. `EchoedInFull` and `EchoedUpToNul` speak of every closed connection that was not reset, those the end of the process
closes too: an orderly end of the stream never comes in the middle of an echo.

| module | theorems |
|---|---|
| `StorageHandler_proofs` | `CutIsHarmless`: for no request of the protocol does the cut to `int` change what `readRequest` decides |
| `TCPServer_proofs` | `ClassTypeCorrect`, `LoopsWatchTheirOwn` (`LoopWatches`), `ReadsWaitOnlyAfterLeavers` (`BlocksOnlyAfterLeavers`, if `StackRevents = {FALSE}`), `ClassEchoesWhole` (no loop of the class loses what a client sent) |
| `Programs_proofs` | `SessionTypeCorrect`, `SessionImplementsEchoEpoll`, `SessionServed` (`NoBlindRead`, `InterestExact`, `EchoedInFull`), `SessionSurvives` (`ServerSurvives`, if `~AddMayFail`), `WholeIsAnswered` (`WholeMessageAnswered`), `UdpAnswersOnce` (`OneAnswer`) |

`StackRevents = {FALSE}` is what the run `EchoPollLoop` assumes too: without it the statement is false, and that is the finding of
`EchoPollGarbage`. The other theorems on the poll loop hold whatever the uninitialised field reads as.

The argument has three layers, each a module.

1. **`Sockets_proofs`**: `NetInv` says that the accept queue holds each waiting connection once, that
   descriptors and open connections are in one-to-one correspondence, and that nothing was sent to a
   connection not yet accepted. One lemma per call. The `ReadyStays…` lemmas are the reason event loops work at all: a ready
   descriptor stays ready until the server itself reads from it or closes it.
2. **`StorageHandler_proofs`**: `HandlerInv` adds that the handler's descriptor is open (`Busy`), that only
   the connection being answered has been sent anything (`Fresh`), that `sendAll` is entered only with something left to
   send (`Sending`; without it `told` could pass the response and the difference turn negative), and `Tracked`. One lemma
   per operation. `EraseProperties`, for `vector::erase`, is in `Sockets_proofs`, since the poll echo server erases too. Two more invariants rest on it, for any loop:
   * `AnswerInv`: nobody outside the handler has been read from (`Unread`), and `closeClient` is reached only with a response
     sent in full, a stream that ended early, or a client that is gone (`CloseEarned`). `AnsweredInFull` follows.
   * `StoreInv`, if headers arrive in one piece (`WholeHeaders`): a header was read whole when the request is handled (so
     `stoi` has something to parse), a PUT was read to its length unless its client ended the stream, and no response is
     computed twice (`Unanswered`). `FailureExcused`, and so `SurvivesClients`, follows.

   The lemmas ending in `Maps` take the operations of the handler one by one to a step or a stutter of `FileStore`
   (`ImplementsStore`); what clients, the kernel and the loops do in between is invisible to it (`QuietMaps`). The theorem
   needs `PromptDisk`: on a disk that may fill up, `ofstream` keeps nothing back (`DiskMayFill => FileBuffer = 0`). Without it the statement is false, and
   that is what the finding of `ClaimOkDisk` shows.
3. **`StorageEpoll_proofs`, `StoragePoll_proofs`, `StorageSelect_proofs`**: `NoBlindRecv` alone is not
   inductive, since nothing in it speaks of reports still to be worked off. `IInv` adds that: for epoll, every client
   descriptor left in the batch is ready, appears once and is not the one being served (`Batch`); for
   select and poll, every reported entry from the index on is ready, the served one is at the index
   (`Reported`, `AtPosition`), and for select a descriptor accepted in this turn is not in the old
   `fd_set`, because its number was free when the set was filled. For poll, `SameOrder` is what shows
   that the position `closeClient` finds in `clientSockets_` is the one the scan erases in `pollFds_`. For sync, `HandlerInv` is
   inductive as it is, so its theorems are in `StorageHandler_proofs`.

**`EchoLoops_proofs`** has the same shape. `ServeInv` (the descriptor being served is open, and a connection is closed only after
its stream was read to the end) stands in the place of `HandlerInv`, and `Accounted` counts: what was handed back and what the `send` in progress still owes
are together what was read, except after a NUL in the select server (`StrLenBounds` is the lemma about `strlen`). Each loop
adds what is still to be worked off: `Batch` for epoll; `Listed`, `AtPosition` and `Reported` for poll; `AtSlot`, `Fresh` and `StillReady` for
select, where an accept before the scan may fill a slot the scan has still to look at, with a descriptor that is not in
the `fd_set` because its number was free when the set was filled. `Reported` is claimed only if the garbage in `revents` is zero, the rest without that.

The epoll and poll invariants have a parameter, a set `E` of open descriptors the loop was never told of. For Lecture 2 it is empty. For the class it is
`Beyond`, standard input and what `server_accept` took, so the lemmas of the two loops carry over to `server_poll` and `server_epoll` as they are: that is
**`TCPServer_proofs`**. What is new there is `sever_select`. `SetTrue` says what `select` reported of the slots ahead holds until the scan
is there, as long as `Alone`: standard input is open and at most one slot stands for it. It needs `KeptOnce` (slots other than the
0 are distinct), `KeptOpen` (so `select` does not fail while standard input is open) and `StdinOnce` (a closed standard input is not the
connection of a later `accept`, although its number may be). `ClassInv` is one conjunct per member function that may be running.
`Accounted` has the set of connections it speaks of as a parameter: for the class that is `Clients`, since what is typed at standard input is
read by `sever_select` and goes nowhere; `ClassEchoesWhole` follows from it.

**`Programs_proofs`** first shows `TcpInv`: the servers exclude each other, and every
action of a client program is one of `Ask`, `Say`, `Leave`, `Vanish`, `Hear` of `EchoEpoll`; the invariant `EpollInv` is then carried over
with the lemmas of `EchoLoops_proofs`.
`LeftEarly` says who can reset a connection of the epoll server: a client that ended with echo unread, because
what was sent back had been read and what was read had been sent. `WholeInv` follows a message through the Lecture 1 server: what the response still lacks is what the server
owes (`Paid`), so a connection closed after its whole message was read holds the whole response, which no reset follows since nothing was left unread
(`ClosedAnswered`); and a client that ended unheard was not read as a whole (`DoneUnheard`). `UdpInv` counts the one answer.

The inductive invariants of the loops (`IInv`, `EpollInv`, `PollInv`, `SelectInv`, `ClassInv`), `Accounted` and `EchoedToClients` were
also model-checked, on the instances of the runs.

**Only model-checked:** liveness (`EveryClientReleased`, `EveryAnswerHeard`, `EchoEventually`, `EveryoneServed`, `ClientsEnd`, `SomebodyAnswered`). All
invariants and all action properties of the runs are proved. Out of the prover's reach are liveness under fairness and
`ENABLED`, and induction over data: the models avoid recursion (streams are counted), so nothing
here needs it. No module declares a RECURSIVE operator.

## 5. Not modelled

* Lengths that are negative, beyond an `int` or non-numeric other than the missing one: no client of the protocol declares them, and
  within the protocol the cut of line 119 is harmless (`CutIsHarmless`).
* Bytes after a complete request (pipelining) and paths that leave the storage directory.
* Failing `epoll_ctl` in `runEpoll`, `bind`, `listen`; a failing `poll` other than in `server_poll` (in Lecture 2 it ends the process, as a failing
  `accept` does); a failing `select` other than that of `sever_select` on a closed descriptor; EINTR, which the storage loops retry. The epoll echo server exits on it; that step is left out.
* Writes outside the buffer (`TCPServer_select.cpp` 136; in Lecture 3 the byte before or behind `buffer_` is zero already) and
  descriptors above `FD_SETSIZE`: they have no modelled outcome.
* `TCPClient.h` of Lecture 3, which has no implementation.
* Build files, wording and logging.

## 6. Where code and documents disagree

| run | the document says | the code does |
|---|---|---|
| `ClaimLength` | L4 `README.md` 119: reads `PUT <filepath> <length> ` "until it has parsed the length field" | calls `recv` once for the header. A header in two segments makes `stoi` throw, which ends the process, or stores bytes of the header as the content and answers OK (`FileStorageServer.cpp` 107, 112) |
| `ClaimOkDisk` | `FileStorageServer.h` 33–34: exactly `content_length` bytes; OK on success, ERROR on failure | asks `output.good()` before the buffer is flushed (187); a disk that fills up in the destructor is answered OK |
| `EchoPollGarbage` | L2 `README.md` 3, 113: many clients "instead of blocking on one at a time"; `revents` is "written by poll(), read by you" | pushes an entry with an uninitialised `revents` and reads it in the same scan (`TCPServer_poll.cpp` 90–94): a client that says nothing can hold the server |

Other disagreements the models show but no run is kept for:

* A GET or DELETE may arrive in two segments, against the comment at `FileStorageServer.cpp` 76; the
  server then acts on a shorter name, and a DELETE cut right after its verb removes the storage directory when it is empty.
* A PUT whose client ends its stream early replaces the file with what came and is answered OK (121). `FileStore` says so
  explicitly: `EndPut` may store less when the request is not whole.
* The example of `FileStorageServer.h` 37 puts `notes/todo.txt`; nothing creates the directory, so the answer is ERROR.
* The select echo server forgets a client accepted when its table is full (`Forgotten`), and echoes nothing after a NUL (`StrLen`).
* L3 `README.md` 67: `clientSockets_` "tracks all accepted client fds for the multiplexed modes". Only `server_accept` fills it:
  `sever_select` looks its new socket up with `std::find` and stores it nowhere (`TCPServer.cpp` 84), and `server_poll` and `server_epoll` do not look at it
  (`LoopWatches` states what each loop does watch).
* A poll or epoll client that is refused sees its socket writable, does not ask for the error, and reports a connection
  (`Refused`); and a read that returns a part of the echo ends the client with the rest on its way (`ReadAnswer`).

## 7. Plan

Done: the sockets, the handler, its four loops, the abstract store, the three echo servers, the class, all client programs, the
Lecture 1 servers, the sessions of clients and servers, and the proofs of section 4.

Left, in this order:

1. The poll and select echo servers in `Programs`, with the same clients.
2. Liveness of the poll loops at three clients, if their state space can be cut down.
