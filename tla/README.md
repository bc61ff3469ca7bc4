# Pi-Share in TLA+

Pi-Share is a small file sharing system: clients upload, download, list and
delete files on a main server, which spreads uploads over registered
sub-servers by redirecting clients. This directory holds TLA+ models of the
program, the TLC configurations that check them on small instances, and proofs
that TLAPS checks for all values of the constants.

## 1. Inventory

### 1.1 Components

| Component | Code | State it keeps | Operations |
|---|---|---|---|
| Server process | `server.c` `main()` | `run_server`, listening socket, epoll set, `client_dictionary` | start-up and scrape of `Pi-Share/`, accept, dispatch of a ready connection, reply and removal, SIGINT |
| Request parsing | `read_n_from_client()`, `parse_verb()`, `read_file_name()` | `state`, `action`, `header[1024]`, `buffer_position` of `client_info` | recognise the verb after 4, 5, 7 or 11 bytes; read the header line byte by byte |
| Handlers | `get()`, `put()`, `delete()`, `list()` | the vector `files`, the directory; `local_file`, `local_file_pos`, `file_size`, `size_read` of `client_info` | serve or redirect a file, take an upload over many calls, delete, list |
| Routing | `put()`, `get()`, `add_server()` | `file_to_server`, `mini_servers`, `current_server_index` | round robin over this server and the sub-servers, redirection, registration |
| Client | `client.c` | its socket, the address it was redirected to | `get`, `put`, `delete`, `list`, `add_server`; the redirect loops of `get` and `put` |
| Sub-server | `client.c add_server()` then `execlp("./server")` | as a server | registers its files, then becomes a server on port 8080 |
| Texts | `format.c/.h`, `common.c/.h` | none | messages, `verb`, header lengths |
| Container libraries | `includes/*.h`, `libs/*.a` | vectors, dictionaries | third-party, headers only |

### 1.2 Interaction

Client and server speak over one TCP connection per request. The client sends
`VERB name\n`; the server answers `OK` or `ERROR`, sizes and contents. A PUT
takes two exchanges: the server answers the header with an address, and
`0.0.0.0` means "send it here": the size (8 bytes) and the data follow on the
same connection. Any other address makes the client connect there and start
over. A GET does the same after its `OK`. A sub-server only talks to the main
server once, as a client that sends `ADD_SERVER ip port` and its file names.

In the server everything is shared between connections: the vector `files`,
the directory, the routing tables and the process's descriptors. The process is
single threaded, so a handler call is never interrupted by another one; what
interleaves is calls for different connections, the bytes that arrive between
two calls, and the end and restart of the process.

### 1.3 What is hard

- **Interleaving.** A PUT is spread over many calls. Two PUTs of one name, a
  PUT and a GET, a PUT and a DELETE meet in the directory and in `files`.
- **Pieces.** Every field may arrive in pieces: a verb, a header line, the
  eight bytes of a size, the data, the names of a registration.
- **Unchecked results.** Neither program looks at what `open()` returns in `get()` or
  `put()`; a file that cannot be opened is listed, announced or downloaded all the same.
- **Ends.** A peer may close or reset the connection at any byte; the process
  may be stopped or crash and find its directory again later, without its tables.
- **Limits.** Descriptors are never closed, a header has 1024 bytes, the buffer of a list
  is doubled only once for a name, a send buffer is finite, counters are 64 bits wide.
- **Staleness.** A route is entered before the upload it stands for; a redirected
  upload leaves an older local copy; the turn is kept while the vector grows.
- **Liveness.** Sockets are level triggered for input *and* output, so the loop
  reports every connection on every turn; a connection must not stay for ever.

`PROJECT.json` lists each hazard with its line and the properties that cover it.

### 1.4 What makes each component correct

- *Server process:* a handler only runs on what parsing set up; a connection whose
  peer has finished is let go; the process keeps listening.
- *Request parsing:* the outcome depends on the bytes sent, never on how they
  are cut up.
- *Handlers:* `files` mirrors the directory, but for names that could not be opened; an
  accepted upload is stored byte for byte; a GET returns some upload; an error is
  reported when and only when the amount of data is wrong.
- *Routing:* redirects name registered sub-servers, and the file is there;
  the turn never leaves the vector.
- *Client:* it ends, with the file it asked for or with an error message.

## 2. Modules

Three levels, each with what the one below leaves out:

| Module | What |
|---|---|
| `Server` | one server with all handlers: the calls of several connections interleave; the process ends and starts again |
| `ServerClaims` | what comments and README say that `server.c` does not do |
| `Request` | the bytes of one request: `read_n_from_client()`, `parse_verb()`, `read_file_name()` |
| `RequestLine` | abstract specification of `Request`: a parser that sees whole verbs and whole lines |
| `Listing` | the text of a list of names in a buffer that is doubled: `list()` of the server, `add_server()` of the client |
| `Answer` | both ends of one connection after the request: the handlers' writing into a finite socket buffer and the client's reading. Extends `Request` and `Listing` |
| `Session` | one connection from its first byte to its last: `Answer`, and the registration of both programs. Composes the three above |
| `Cluster` | clients, the main server and sub-servers; a request or an answer is one message |
| `Turns` | abstract specification of round robin, implemented by `Cluster` |
| `ClusterClaims` | what the README says of the whole that the code does not do |
| `MCServer`, `MCSession`, `MCCluster` | instances for TLC, with their `.cfg` files |
| `ServerProofs`, `UploadProofs` | theorems about `Server` and their proofs |
| `RequestProofs`, `ListingProofs`, `SessionProofs`, `RegistrationProofs` | those about one connection |
| `ClusterProofs`, `RoutingProofs` | those about the whole |

Where the levels meet: `Server` takes a header as two pieces, which
`JudgesWholeLines` of `Request` justifies; `Server` and `Cluster` let an answer
reach its reader whole or not at all, and `Session` says when it does;
`Cluster` lets a registration store any part of the names it carries, and
`Session` says which.

Left to do: an upload byte by byte from `client.c put()` through a socket into
`Server`.

## 3. `Server`: state and actions

| Variable | Code |
|---|---|
| `process` | the process: running, stopped (SIGINT or crash), exited (`exit(1)` in `set_nonblocking()`) |
| `info` | `client_dictionary`, a `client_info` per connection: `state`, `action`, `header`, `local_file`, `local_file_pos`, `buffer_position`, `file_size`, `size_read`. `NONE` is a connection not accepted yet, `REMOVED` one taken out of the dictionary, `LOST` one that the end of the process cut off. The final states `DONE`, `INVALID_*`, `INCORRECT_DATA_AMOUNT` last no longer than the call of `main()` that deals with them: `Finish` |
| `req` | what the peer is sending: verb, name, declared size, data bytes it has |
| `sock` | the kernel's socket: header pieces and body bytes arrived, body bytes read by the server, how the peer ended (`open`, `fin`, `rst`), messages written to the peer |
| `files`, `dir`, `data` | the vector of names; the directory as name to inode; inode to bytes. An unlinked inode keeps its bytes while a writer has it open |
| `file_to_server`, `mini_servers`, `current_server_index` | the globals of the same names |
| `fds` | descriptors opened since start-up: nothing closes one |
| `shared` | history: uploads that had an inode open at the same time as another one |
| `unopened` | history: names that `put()` listed, could not open, and that were neither opened nor deleted since; a restart clears it, because the scrape only lists files |

A body byte is a pair of the connection it came from and its number, so the
content of a file says which upload each byte belongs to and where it was there.
Contents from before the first start carry the name of the file.

| Action | Code |
|---|---|
| `Accept`, `AcceptFails` | accept branch of the loop; out of descriptors, `accept()` gives -1 and `set_nonblocking(-1)` exits |
| `SendHead`, `SendBody`, `PeerEnds` | a client and the network: pieces arrive, the body only after the answer `HERE` (`0.0.0.0\n0\n`), the stream ends at any point |
| `ParseVerb`, `ReadFileName` | the two parsing states; a call that finds nothing changes nothing |
| `GetLocal`, `GetRedirect`, `GetMissing` | the ways out of `get()`; an `open()` that failed sends the size of an uninitialised `struct stat` (`ANY_SIZE`) and no data; a size that cannot be written ends in the data error |
| `PutRedirect`, `PutOpen` | the first call of `put()`: a sub-server's turn, or this server's, with an `open()` that succeeds or fails |
| `ReadSize`, `ReadData` | the later calls; a call that completes the size goes on to the data in the same step |
| `DeleteFile`, `DeleteMissing`, `ListFiles`, `AddServer` | the remaining handlers |
| `Stop`, `Restart` | SIGINT or a crash between two calls; start-up with the scrape in any order of `readdir()` |

Each handler action includes what `main()` does after it: the error lines of the
final state, `shutdown()`, and the removal from the dictionary.

`open()` must fail without a descriptor and for names that are no file names (empty, more
than 255 bytes, with a slash that leads nowhere), and may fail for reasons of the system.
A name has no letters here, so the failing branch of `PutOpen` and `GetLocal` is always
possible: what is shown holds whichever names fail.

Abstractions: a header is two pieces, the verb and the rest of its line; the
answer of `get()` reaches the socket whole; `add_server()` reads any set of
names; the order of `LIST` is left out (it is a set); `write()` to the disk does
not fail. A size is a natural number.

### 3.1 `Request`, `Listing`, `Answer`, `Session`: state and actions

One connection. Bytes of a request are counted, not spelled: the first *n* bytes
of a stream are a verb if and only if *n* is the length of the verb it starts with.

| Variable | Code |
|---|---|
| `req`, `arrived`, `ended`, `taken` | the stream of the client: what it is, what reached the socket, how it ended, what `read()` returned of it |
| `state`, `action`, `buffer_position` | fields of `client_info` |
| `names`, `copied`, `total_bytes`, `buffer_size` | the loop over a vector of names, here their lengths |
| `overrun` | history: a name was copied past the end of the buffer |
| `file` | length of the file the request names, -1 if there is none |
| `down`, `got` | what the server wrote, in units: the short fields of an answer, and bytes of content; what the client read of it |
| `job` | the loops of `get()`, `list()` and `write_n_to_client()` |
| `shut` | the server is done with the connection |
| `pc`, `block`, `local`, `opened`, `size`, `said` | the client: where it is, the block it reads, what it passed to `write()` or printed, whether its local file could be opened (`LocalFile` is what is in it then), the size it was told, its complaints (`format.c`) |
| `reg` | `size`, `bytes_read` and `buffer` of the server's `add_server()`, and the names it stored |
| `filled`, `cut`, `prompt` | history: a write found less room than it wanted; the server died first; all of a registration was there when its handler began |

| Action | Code |
|---|---|
| `ParseVerb`, `ReadFileName` | one call of the function, with any number of bytes there |
| `AnswerGet`, `AnswerMissing`, `AnswerDelete`, `AnswerList`, `ListName`, `Refuse` | the handlers up to the content, and the error lines of `main()`. If `open()` of `get()` fails the size announced is any of `Garbage`, and no content follows |
| `WriteSome`, `WriteFails`, `WriteEnds` | one `write()` of `write_n_to_client()`, which starts at the beginning of its buffer each time |
| `ReadStatus`, `ReadAddress`, `ReadSize`, `ReadByte`, `SaveBlock`, `FinishGet`, `PrintList` | `parse_header()`, `read_line_from_server()`, `get_size()`, `read_all_from_server()` and the loops of `get()` and `list()` |
| `Collect`, `SendNames` | `add_server()` of the client |
| `ReadSizeOnce`, `ReadName`, `AddServer` | `add_server()` of the server: the one `read()` of the size, a turn of the loop, the end |
| `Deliveries`, `Kill`, `ServerDies` | the network, and processes that end |

In a registration each byte is a cell with its letter, because which name is
stored depends on what the buffer held before. A size that has not arrived is any
number that agrees with the digits that have: the variable is uninitialised.
The GET of `Session` is one that is answered by the server it asks;
redirections are the subject of `Cluster`.

### 3.2 `Cluster`: state and actions

| Variable | Code |
|---|---|
| `machine` | what runs on a machine: a server, a client that registers, nothing |
| `dir` | `Pi-Share/` of each machine: an upload, what was there before, parts of something (`TORN`), or nothing |
| `file_to_server`, `mini_servers`, `current_server_index` | the globals of the main server; a sub-server's stay empty |
| `client`, `conn` | the clients and, as the server sees it, the connection each one has; `at` is the server of the last redirection, which `ip_addr` of `get()` and `put()` still holds when an answer does not come |
| `joiner` | `add_server()` of a client on its way |
| `latest`, `disturbed`, `given`, `last`, `expect`, `since`, `stops` | history |

| Action | Code |
|---|---|
| `RunCommand` | `main()`, `parse_args()`, `check_args()`, the first header |
| `GetAnswer`, `PutAnswer`, `SendBody`, `PutEnds`, `OtherAnswer` | a turn of the loop of `get()` or `put()`, `delete()` and `list()`. Without an `OK` the loop of `get()` writes to a socket it has shut down (`sigpipe`); at the end of a stream `put()` asks the server of its last redirection again |
| `RedirectPut`, `OpenPut`, `ClosePut` | `put()`: another machine's turn; the file is opened and emptied; the body is there and accepted, or the upload is refused and what is in the file is a part. A complete body may be refused too: bytes are lost when the size before it comes in pieces (run `right_size_accepted`) |
| `HandleGet`, `HandleDelete`, `HandleList`, `HandleAddServer` | the other handlers |
| `Join`, `StartServer` | `add_server()` of the client, with the address it found or one that nobody has; `execlp("./server")`, whatever came of the registration |
| `Stop`, `Restart`, `KillJoiner`, `Kill` | processes end, also in the middle of a handler (`CutAnswers`); servers are started by hand |

`latest[n]` is the last client whose upload of `n` ended while nothing else
changed `n`, `"DELETED"` after a deletion by the main server, and `None` when it
is not clear what `n` should be: while an upload is under way, after uploads that
overlapped, after a registration that took the name over, and after an end of the
main server that lost the route to it. The properties speak of names that are clear.

## 4. Properties and runs

Runs that pass, in `MCServer`:

**`server_uploads`** (two connections, one file, `SizeBytes` = 2, `ReadMax` = 2,
four descriptors, enough for two complete uploads): each connection carries one of an
exact upload, uploads with fewer and with more bytes than declared, an empty one, GET,
DELETE; every `open()` may fail.

- `CatalogueMatchesDirectory`: `files` mirrors the directory through every
  history of uploads, deletions and restarts: no name twice, no file unlisted,
  and no listed name without a file but those whose last PUT could not open it.
- `UploadProgress`: the offset on the disk trails the bytes read after the size
  by what an incomplete size field cost, and by less than the size field.
- `BytesInPlace`: every byte on the disk is at the offset it had in its upload,
  or before it by less than the size field, however uploads interleave.
- `UploadExact`: when an upload that no other one overlapped is accepted, the
  file consists of the bytes received for it and of nothing else; what is missing is
  at most the first bytes, fewer than the size field has, that a size in pieces cost. The
  bytes are no fewer than declared, and beyond that at most what one `read()` takes.
  An upload whose file could not be opened is accepted as well: then nothing is stored,
  and no file is touched.

**`server_ending`** (two connections, `SizeBytes` = 1, three descriptors, fairness):

- `ReleasedWhenDone`: a connection whose peer has finished is let go, if an
  upload got as far as its size. The condition is needed: see
  `too_little_reported`.

**`server_routing`** (three connections, two sub-servers, one file, three descriptors,
connections and sub-servers symmetric): registrations, uploads and downloads in every
order, with restarts.

- `TypeOK`: types, and the turn stays within the vector that `put()` indexes while
  sub-servers join it.
- `DispatchSound`: a handler runs only for the verb the peer sent, on the header
  it takes for granted; the comment "Not possible to reach the DONE or ERROR
  state here" in `main()` holds.
- `RedirectsGoToRegistered`: a route always names a sub-server that registered.

**`session`** (`MCSession`; directories with none to three names, one of which is too long
for its buffer, files of 0, 3 and 4 bytes that may not open, a socket buffer of 3, reads of 2, a header buffer of 11 bytes; a
`size_t` of two digits to base 3; fairness):

- `TypeOK`; with it, `bytes_read` stays a `size_t` although -1 is added to it.
- `HeaderExact`: a handler finds the stream exactly behind the header, and the
  name at its full length, however the bytes came.
- `JudgesWholeLines`: the parser implements `RequestLine`, whatever the cut.
- `OverrunNeedsLongName`: the copying leaves the buffer of a list only at a name longer
  than the first buffer, and after a doubling only at one twice as long (see `list_fits`);
  the number of names and their total do no harm.
- `DownloadIntact`: a download that the client ends without a complaint has the size of
  the file, and is the file itself unless the socket filled up; if one of the two
  programs could not open its file, it is empty.
- `ListIntact`: a list printed without a complaint has every name, unless the socket
  filled up or a name overran the buffer.
- `ComplaintsHaveACause`: the client complains of too much only if the socket filled up,
  of too little only if it did, the server's process ended, or the server announced the
  size of a file that it could not open.
- `NamesRegistered`: of a registration that had arrived when its handler began,
  all names are stored, except that the last one may be spoiled by a longer one
  before it (and that anything may follow an overrun of the client's buffer).
- `SessionEnds`: the client comes to an end and the server is done with it, whoever
  fails; so the loop on the unsigned count ends as well.

**`cluster`** (`MCCluster`; three clients, one file, one machine that registers
with an older copy, one failure; fairness):

- `TypeOK`: also, no redirection without a target.
- `UploadIsRouted`: an upload that is clear lies where a GET looks: in the main
  server's directory, or at the sub-server its route names, whole.
- `GetFindsUpload`: a GET of it that no server's end interrupts is never told that there is no
  such file, and gets it or the older copy of the main server.
- `DeletionHolds`: what the main server deleted stays out of its directory until the next
  PUT, although an upload may still be writing the file. It says nothing of sub-servers:
  `delete()` leaves `file_to_server` alone, so a GET after an acknowledged DELETE may
  still be redirected to a sub-server's copy.
- `TakesTurns`: the refinement of `Turns`: nobody is given a second upload before
  everybody had one, and who registers joins the round under way.
- `ClientsEnd`: every command ends, whoever fails, although `put()` may go round
  its loop again.

Runs that refute what the repository says (`ServerClaims`, `ClusterClaims`, and `ListingFits` of `Listing`), each a finding in
`PROJECT.json` with the line quoted:

| Run | Claim | What happens |
|---|---|---|
| `right_size_accepted` | the size error is for too little or too much data (`format.h:12`) | a size field in two pieces makes the server swallow data bytes as part of the size; the complete upload is refused |
| `too_little_reported` | as above | a stream that ends within the size is never answered and never let go |
| `one_writer` | the upload is stored as that file (`README.md:66`) | two PUTs of one name leave a file with bytes of both |
| `get_during_put` | GET downloads the file (`README.md:86`) | a GET between two calls of `put()` gets `OK` and part of the file |
| `stale_copy` | GET downloads what PUT stored (`README.md:66`, `:86`) | a PUT that was redirected leaves the main server's older copy, and every GET returns that one |
| `list_fits` | LIST prints the files of the server (`README.md:76`) | a short name and a long one (think of 100 and 200 bytes and the buffer of 128: Linux allows 255) are copied past the end of the buffer, which is doubled once for a name; the behaviour is undefined after that |
| `server_survives` | the server listens (`README.md:25`) | descriptors run out and the process exits |

Not run, but visible in the model: `put()` never sends the `OK` after which the client
prints success (`format.h:67`; `ReadData` of `Server` and `ClosePut` of `Cluster` answer an
accepted upload with the end of the stream); data beyond the declared size is
accepted without an error if it comes with the last `read()`, where `format.h:12` has an
error for too much (`UploadExact` says "no fewer than declared, and at most a
`read()` more"); an upload whose file cannot be opened is accepted; a download whose file
cannot be opened may end without a complaint; and DELETE refuses a name that LIST shows
because a sub-server holds it.

### 4.1 Bounds and why they are enough

- *Connections* (2 or 3): the handlers of two connections meet in one file in
  every order; a third one, in `server_routing`, is needed to register twice and
  then upload, or to register, upload and download. Each connection carries one
  request, as in the program.
- *One file:* handlers never relate two names; a file has four relations to the
  tables (listed or not, in the directory or not), and all are reached.
- *Two size bytes:* the least width that can arrive in pieces. Eight differ only
  in how many bytes can be lost, which the properties bound by `SizeBytes`.
- *Reads of two bytes* with uploads of up to two: whole, short and empty reads all
  happen; surplus bytes within the last read happen with the upload of two bytes that declares one.
- *Descriptors:* three in `server_ending`, too few for the second `open()`, and in
  `server_routing`, too few for the third `accept()` after a download or an upload, at which
  the process exits, to be started again; four in `server_uploads`, so that two uploads
  can be complete there. `open()` may fail in all of them, with descriptors left or without.
- *Numbers of a size that was never set* (`Garbage`, 0 and 1): with 0 the client takes the
  download for complete, with anything else it misses data.
- *Names* of `session`: with a first buffer of 3 bytes, one of 5 after one of 1 is what 200
  after 100 is for a buffer of 128; the others fit after one doubling or at once.
- *Session:* a socket of 3 units is full after the short fields of an answer, so
  content meets a full, a nearly full and an empty buffer; a header of 11 is the
  least that holds a verb, and names of 1, 10 and 11 bytes are short, just fit and do
  not; two digits to base 3 are the least `size_t` that arrives in pieces, wraps, and holds
  the texts of the directories (`TextAssumption`: the client has the text in memory, so its
  length is a `size_t`); a shorter name follows a longer one and goes before it.
- *Cluster:* two uploads may overlap and a third client reads or deletes; with one
  failure the main server, the sub-server, a registration or a client ends once,
  and the machine may register a second time, so that two places and a
  dead address occur. Names never meet in `Cluster` but in a list.

`CHECK_DEADLOCK FALSE` in `session` and `cluster`: a connection that is over and
clients that have run their commands stop, as they should. In `MCServer`: a server that has served all connections of the instance
and is out of unused ones waits for ever, as it should; connections are used
once, which bounds the model.

### 4.2 Fairness

`FairSpec` has weak fairness of `Event(c)` for each connection. The loop hands
every event of an `epoll_wait()` to a handler before it waits again, and sockets
are registered for `EPOLLIN | EPOLLOUT`, level triggered, so an open connection
is ready on every turn: a call that can change something is made eventually.
Peers, `Stop` and `Restart` have no fairness: a client may be silent for ever
and a stopped process need not return.

`Session`: weak fairness of `Deliveries` (TCP), `ServerStep` (as above) and
`Client` (its reads block until something is there). `Cluster`: of `ClientStep(c)`
and of `Serve(c)`, which a server that is down does not enable. `Kill`,
`ServerDies`, `Stop`, `Restart`, `Join`, `StartServer` and `RunCommand` have none: no user
has to type, and a process that ended need not start again.

## 5. Proofs

`ServerProofs` and `UploadProofs` prove, for all sets of connections, names,
sub-servers and requests, every width of the size field, read length and descriptor limit that
meet `ValuesAssumption` and `BoundsAssumption` of `Server`:

| Theorem | Property |
|---|---|
| `TypeCorrect` | `TypeOK` |
| `DispatchIsSound` | `DispatchSound` |
| `BytesStayInPlace` | `BytesInPlace` |
| `RoutesAreRegistered` | `RedirectsGoToRegistered` |
| `CatalogueIsDirectory` | `CatalogueMatchesDirectory` |
| `UploadsProgress` | `UploadProgress` |
| `AcceptedUploadsExact` | `UploadExact` |

The assumptions say that the sentinels are outside the data (`None`, 0 and -1 are
no inodes), that connections, names and sub-servers are apart, that the set of
names is finite (a directory is), that the bounds are numbers, and that a
request to register carries an address (`add_server()` takes it for granted).

*Argument.* `TypeOK` is not inductive: that a header is a file name when `put()`
opens it, that a request is known while a connection is open, and that an offset
is a natural number rest on each other. The inductive invariant is
`Core == Tables /\ Connections /\ UploadProgress`: `Tables` types the shared
tables, `Connections` types a connection together with `DispatchSound`, and
`UploadProgress` relates the bytes read to the offset on the disk. One lemma per
action shows that it preserves `Core` (`CoreStep`). `BytesInPlace` is then
inductive relative to `Core`: a write puts bytes `taken - SizeBytes + 1 ...` at
`local_file_pos + 1 ...`, and `UploadProgress` bounds the difference; without it
the invariant is lost at the first write. `RedirectsGoToRegistered` and
`CatalogueMatchesDirectory` are inductive relative to `Core`; the latter needs
facts about the sequence helpers (`EnlistFacts`, `RemoveAtFacts`, `ScrapeFacts`)
that are proved first. Nothing in it rests on why an `open()` fails.

`UploadExact`, an action property, needs more (`UploadProofs`): `Exact` says that an
upload nobody overlapped is the only writer of its inode, and that the inode
holds the bytes from the first one the size field did not cost up to the last
one taken. `Exact` is inductive relative to `Core`: `PutOpen` either starts an
empty file for a sole writer or puts all writers of the inode into `shared`, and
`ReadData` appends exactly where the file ends (`WriteSent`). The theorem follows
because only a `ReadData` that reached the declared size ends an upload without
an error (`AcceptingCall`), and none takes more than `Wanted`, which bounds the surplus. An
upload whose `open()` failed has no inode, and no step of it changes `data`.

`RequestProofs` (for every set of requests, and every header buffer of at least 11
bytes) and `ListingProofs` (every set of directories, with names of every length from one
byte on, and every first buffer):

| Theorem | Property |
|---|---|
| `ReadsWholeLines` | `JudgesWholeLines`: `Request` implements `RequestLine` |
| `HeadersExact` | `HeaderExact` |
| `OnlyLongNamesOverrun` | `OverrunNeedsLongName` |

*`RequestProofs`:* the inductive invariant is the types, `HeaderExact` and `Unread`: a
verb that could be recognised was, and a line whose end was read was judged; the
bytes taken are those of the verb and of the buffer. It rests on `WantedFacts`: from
any position `parse_verb()` reads up to the next of its four lengths and never past
one. A step that reaches the end of a verb or of a line is then the step of
`RequestLine` that judges it, and every other one leaves the abstract variables
alone.

*`ListingProofs`:* `Roomy` says why doubling once is enough for all other names: before the
first doubling there is a byte to spare, and afterwards the buffer holds at least twice what it
did at first. That a list always fits is not a theorem: `list_fits` refutes it.

`SessionProofs` and `RegistrationProofs` (every set of requests, directories and
files, every socket buffer of at least three units, every block, every width and
base of a `size_t`):

| Theorem | Property |
|---|---|
| `SessionReadsWholeLines`, `SessionHeadersExact`, `SessionOnlyLongNamesOverrun` | `JudgesWholeLines`, `HeaderExact`, `OverrunNeedsLongName` in a connection as a whole |
| `SessionTypes` | `TypeOK` of `Session` |
| `DownloadsIntact` | `DownloadIntact` |
| `ListsIntact` | `ListIntact` |
| `NoFalseComplaints` | `ComplaintsHaveACause` |
| `RegistrationsComplete` | `NamesRegistered` |

*`SessionProofs`:* a step of a connection is a step of `Request` or leaves its variables
alone (`RequestStep`), so what is proved of `Request` holds of `Session`. The inductive
invariant is `SessionInv == RequestInv /\ ListInv /\ CountsNames /\ AnswerInv /\ Registers`.
The three properties about answers relate what the client has to what the server
had, many steps of both apart, and are not inductive by themselves. `AnswerInv` puts the stream between them:
`Streams` says what the server wrote (the short fields, then the content up to
`job.pos`, as long as the socket never filled up), `NoContent` what it wrote before
that, and `ReadsOn` with `InBlock` where in that stream the client is and that its
file and its block are a prefix of the content. Each action of the server is shown to keep the stream as the client
read it (`ServerChange`, or `QuietChange` if it writes nothing), each action of the client
to read on in it (`ClientChange`), so no pair of actions is looked at together.
`CountsNames` (each name counts for a byte at least) is what `list()` needs when it
takes its last newline back.

*`RegistrationProofs`:* the text is shown to be the lines one after the other:
`TextFacts` says where line *i* begins and what it is (`Upto`), although the model makes it with a
fold over the whole directory. `RegistrationInv` says of a registration that was there
when its handler began that the size that was read is the one that was sent
(`DigitsApart`: the digits of a number determine it), and that `ReadName` is at the
beginning of a line (`AtLine`) or at the end (`AllRead`). `AtLine` has the part that makes the
last name come out right: if no name is longer than the last one, what the buffer
holds behind its place are NULs, so the missing terminator does no harm. `CountFacts` shows that the loop
does not end at a line that is left: the count, less one for each newline, is below the
size; and that it does not wrap.

What is assumed besides the assumptions of `Request`, `Listing` and `Answer`:
`PowerAssumption` says what powers of the base are, which the provers do not know;
`TextAssumption` that the length of a text is a `size_t`; `DirsAssumption` that a name
has at least one byte, as file names have (with an empty one at the end
`NamesRegistered` would be false); how long it may be is left open. `Garbage`, the values
of a size that was never set, is any set of numbers. Where a fact is
about every line (`JoinedExists`, `JoinedTyped`, `LinesStay`, `DigitsApart`) induction is
done by a least counterexample (`LeastNatural`).

`ClusterProofs` and `RoutingProofs` (every finite set of clients, and all machines, names,
command lines, first contents and numbers of failures):

| Theorem | Property |
|---|---|
| `UploadsTakeTurns` | `TakesTurns`: `Cluster` implements `Turns` |
| `DeletionsHold` | `DeletionHolds` |
| `ClusterTyped` | `TypeOK` of `Cluster` |
| `UploadsRouted` | `UploadIsRouted` |
| `GetsFindUploads` | `GetFindsUpload` |

`ClusterAssumption` keeps the sentinels apart: `Nowhere` is no machine, and `None` is
neither a content, a name, a sub-server nor an answer.

*`ClusterProofs`:* the inductive invariant is
`TypeOK /\ Named /\ OpenHasFile /\ DeletionHolds /\ TurnCounts`. `OpenHasFile` (an
upload writes a file that has a name, unless it was deleted meanwhile) is what
`DeletionHolds` needs when an upload ends; `Named` (a command under way names a
file) is what the types need at every redirection; `TurnCounts` (the
index is the number of places that had their turn, in order) is what makes
`NextIndex` the choice of somebody who has not. Steps of clients, steps that answer,
and steps of processes each have one lemma that shows the invariant for all of them.

*`RoutingProofs`:* `UploadIsRouted` is lost at the first step if an upload that still runs may
write the file, or a late one may change the route. The inductive invariant `RoutingInv` is that of
`ClusterProofs` with three parts. `Orderly` says how the stages of a command and of its
connection go together. `Uploads` has, besides `UploadIsRouted`: a client whose upload is the
latest is done with it (`LatestOver`); the route of an upload that nothing disturbed names the server it is
at or is sent to (`RouteKept`); of two such uploads of one name one has not begun (`Alone`);
and while the last upload is clear nobody writes the file (`Settled`). `GetsFind` follows a GET of such a file
through its redirections: what it waits for, and what it has been answered, leads to the file.

*Not proved, because it is false:* the claims of the table of refutations.

*Only model-checked:* the liveness properties `ReleasedWhenDone`, `SessionEnds` and
`ClientsEnd`, which are out of the prover's reach under fairness. Every
invariant and action property that a passing run checks is proved.

## 6. Not modelled

- Printing: the wording of `format.c`. Which complaint is made when is in `Answer`.
- Name resolution and the failures of `socket()`, `bind()`, `fcntl()`, `malloc()` and
  `mkdir()`: they end the process before it has changed anything.
- The container libraries are binaries; vectors and dictionaries appear as
  sequences and functions. `set`, `graph` and `queue` are not used.
- `Cluster` has no limit of descriptors, no `open()` that fails and no bytes: those are in
  `Server` and `Session`.
- A machine that vanishes without a word (power, cable): `ServerDies` and `Stop` are ends of
  a process, after which the kernel closes its sockets. A client whose server's machine is
  gone waits in `read()` for as long as the kernel lets it.
- What the programs do after a list has overrun its buffer: that is undefined. `Session` goes
  on with the right lengths, and its properties about lists leave that case out.
- A `write()` to a full disk, a directory other than the main one as a file's name (`open()`
  fails for it or makes a file elsewhere), and a listed empty name (`PUT` of one is listed and
  fails to open; an empty line of `LIST` stands for it).
- An address that is cut in the middle of a line, two servers on one port of one
  machine, and a power failure that takes data off a disk.
- A registration without a blank between address and port: `add_server()` of the
  server takes it for granted.
