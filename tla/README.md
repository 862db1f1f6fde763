# Verification of imgFS

This directory holds TLA+ modules, TLC configurations and machine-checked
proofs for imgFS: an image store in one file, its command line tool `imgfscmd`,
and its HTTP server `imgfs_server`. The source modelled is `src/done`.
`src/provided` holds the assignment (handouts, tests, skeletons), used here as
the statement of what the code should do; `src/grading/project01` is an older
copy of the code.

`PROJECT.json` is the index: components, runs, mutants, the lines each
definition translates, divergences found, hazards, theorems.

## 1. The system

| Part | Source | State | Operations |
|---|---|---|---|
| Library | `imgfs_*.c`, `image_dedup.c`, `image_content.c`, `imgfs.h` | `struct imgfs_file`: a `FILE*`, the header (`nb_files`, `version`, `max_files`, resolutions) and the metadata table in memory; the same header and table in the file, then the images | `do_create`, `do_open`, `do_close`, `do_insert`, `do_delete`, `do_read`, `do_list`; inside them `do_name_and_content_dedup`, `lazily_resize`, `get_resolution` |
| Command line | `imgfscmd.c`, `imgfscmd_functions.c` | none between two commands | one library call per process, between `do_open` and `do_close`; parses the options of `create` |
| Service | `imgfs_server.c`, `imgfs_server_service.c` | one `struct imgfs_file` for the life of the process, a mutex | startup, shutdown from a signal handler, one handler per URI: list, read, delete, insert |
| Connections | `http_net.c` | the listening socket; per connection a thread, a descriptor, a buffer | accept loop, read loop, reply |
| Parsing | `http_prot.c` | none | `http_parse_message`, `http_get_var`, `http_match_uri`, `http_match_verb` |
| Sockets | `socket_layer.c` | none | wrappers of `socket`, `accept`, `recv`, `send` |
| TCP test programs | `tcp-test-*.c`, `http-test-server.c` | a connection | a four-message file transfer |
| Utilities | `util.c`, `error.c` | none | number conversions, messages |

How they interact. A command opens the file, makes one call, closes the file.
The server opens the file once; its main thread accepts connections and starts
a detached thread for each; a thread reads until `http_parse_message` says a
message is complete, calls `handle_http_message`, which takes the mutex around
the library call and replies after releasing it. SIGINT and SIGTERM run
`server_shutdown` in a signal handler, which closes the socket, destroys the
mutex, closes the file and exits.

What is hard about it.

- The table is kept twice, in memory and in the file, and written piece by
  piece: slot, header, image. Several error returns of `do_insert` come after
  the slot in memory has been changed.
- The two searches by name disagree (`do_read` takes the first slot,
  `do_delete` the last) and neither looks at `is_valid`. A deleted slot keeps
  its name, its SHA, its offsets and its sizes.
- Deduplication copies offsets and sizes between slots; deletion and slot reuse
  leave old ones behind.
- `nb_files` is counted by hand; every "is it full", "is it empty" and "have I
  listed them all" trusts it.
- Threads share one table under one mutex, except at shutdown. A descriptor is
  never closed. Reads are cut at arbitrary points by TCP.
- Image, slot and header are buffered writes: a process that stops in between
  leaves a file that later processes open.

What makes each part correct.

- Library: the count is exact; every stored image is the image that was
  inserted under its name, in every resolution; equal contents share one
  original; what is stored can be found, listed and deleted; a call touches no
  other image; what was acknowledged is in the file.
- Service: calls do not overlap; a request is answered; shutdown happens
  between calls.
- Connections: a message is delivered once, whole, whatever the cuts; a
  connection that ends gives back what it used.
- Parsing: a parameter is found where the URI has it, and nowhere else.

## 2. Modules

| Module | What it is |
|---|---|
| `ImgfsLib` | the library: state, one action per way each call can end, the invariants and action properties |
| `ImgfsCatalog` | the abstract specification: a catalogue of images under names |
| `ImgfsDisk` | the library with each of its writes a step, writes that fail and processes that stop |
| `ImgfsServer` | the server process: startup, main thread, connection threads, mutex, descriptors, shutdown |
| `HttpMessage` | what the server makes of a text: parsing, routing, arguments (no state) |
| `HttpConnection` | one connection: the read loop and its buffer, on top of `HttpMessage` |
| `CmdLine` | `imgfscmd`: from a command line to an exit code |
| `TcpTransfer` | the TCP test client and server |
| `ImgfsClaims`, `HttpClaims`, `TcpClaims` | statements of the handouts and comments that the code does not keep |
| `ImgfsProofs`, `ImgfsRefinement`, `ImgfsDiskProofs`, `ImgfsFaultProofs`, `ImgfsServerProofs`, `TcpTransferProofs`, `CmdLineProofs`, `HttpProofs` | theorems, for every value of the constants |
| `MCImgfsLib`, `MCImgfsDisk`, `MCImgfsServer`, `MCHttpConnection`, `MCCmdLine`, `MCTcpTransfer` | constants and symmetry for TLC |

How they fit together. `ImgfsServer` shows that library calls do not overlap,
which lets `ImgfsLib` take a call as one step. `ImgfsDisk` extends `ImgfsLib`
with the steps inside a call, and its property `Uninterrupted` says that calls
nothing interrupts are again `ImgfsLib`'s; `ImgfsLib` in turn implements
`ImgfsCatalog`. `HttpConnection` ends in the call a request asks for, and
`CmdLine` in the call a command line asks for: these calls are the actions of
`ImgfsLib`, but for the one with the resolution -1 (section 6).

### ImgfsLib

| Variable | Code |
|---|---|
| `metadata`, `header` | `imgfs_file.metadata`, `imgfs_file.header` in memory |
| `disk_metadata`, `disk_header` | the same two, as the file holds them |
| `data` | the images appended to the file; an offset is a position in it, 0 is "none" |
| `handle` | `struct imgfs_file`: closed, open, or open after a command's only call |
| `ret` | the last call and its answer |

A call is one atomic step: a command runs alone in its process, and the server
runs every call under its mutex. `Resident` tells the two apart: a process with
`Resident = FALSE` makes one call between `Open` and `Close`, one with
`Resident = TRUE` any number. Each action is one way a call can end:

| Call | Actions |
|---|---|
| `do_create`, `do_open`, `do_close` | `Create`, `Open`, `Close` |
| `do_insert` with the dedup scan and `get_resolution` | `InsertFull`, `InsertDuplicate`, `InsertUndecodable`, `InsertShared`, `InsertNew` |
| `do_delete` | `DeleteRefused` (in `do_delete_cmd`), `DeleteMissing`, `Delete` |
| `do_read` with `lazily_resize` | `ReadMissing`, `ReadInvalid`, `ReadNoMemory`, `ReadStored`, `ReadResize`, `ReadResizeFails` |
| `do_list` | `List` |

Abstractions: a content stands for its SHA-256, so two contents never collide.
A size is zero or not. The bytes at an offset are the image written there; a
read at an offset with a size that belongs to another image is allowed to give
any outcome the code can produce. libvips accepts the contents in `Decodable`,
and may refuse to make a thumbnail at any time. `clean_up` with unset pointers
may end the process. There may be no memory for an image: for the original
before it is resized, or for the answer, then after a thumbnail has been made
and saved (`ReadBack`). An id has at most its 127 characters, as the handout
defines it. Widths, heights, the name of the file and the padding
fields are left out.

Writes that fail and a process that stops inside a call are in `ImgfsDisk`.

### ImgfsCatalog

What a user of the command line is promised: at most `MaxFiles` images, each
under a name; an insert or a delete that answers ERR_NONE changes one place and
moves the version by one; everything else changes nothing; a refusal to insert
has its reason; a stored name reads as an image stored under that name; the
list is exactly the stored names. `ImgfsLib!Catalog` gives the refinement
mapping: a valid slot of the file is an image, any other slot is nothing.

The catalogue is deliberately weak where the code is: it does not promise that
a name is stored once, that a delete finds a stored name, or anything of a read
of a name that is not stored (section 4).

### ImgfsDisk

`do_insert` appends the image, then writes its slot, then the header;
`do_delete` slot and header; `lazily_resize` image and slot, after which
`do_read` reads. Each of these is a step, with the seek in front of it.

| Variable | Code |
|---|---|
| those of `ImgfsLib` | the same; `handle` may be `"creating"`, between `do_create` and the `do_close` after it |
| `buffer` | what the stream holds and the file does not have yet (external: stdio) |
| `failed` | a held write could not be passed on; the next `fseek` says so |
| `task` | the call in progress: its next write, its slot, the answer it will give |
| `formed` | the file has a header and a table |
| `faults` | how often a write failed or a process stopped |

| Code | Actions |
|---|---|
| first write of a call | `BeginShared`, `BeginNew`, `BeginDelete`, `BeginResize`; `BeginFails` when `fwrite` says it fails |
| later writes | `WriteSlot`, `WriteHeader`, `Reread`; `StepFails`, `ReadFails` |
| calls that write nothing | `Immediate` |
| open, close, create | `OpenFile`, `OpenFails`, `CloseFile`, `BeginCreate`, `CreateFails`, `EndCreate` |
| the stream, the system | `Flush`, `FlushFails`, `Stop` |

Every write of this code comes after a seek, and a seek passes on what the
stream holds, so it holds one write at most; that write reaches the file at the
next seek, at the close, or at any time before. A slot or a header reaches the
file whole or not at all (an assumption about stdio and the system); an image that does not may leave a part
of itself at the end. A process that stops loses its memory and what it held;
the next process opens what it finds.

`do_delete` looks at neither of its seeks. When the second one cannot pass the
slot on, the slot is lost and the position stays where it was, so that the 64
bytes of the header land on the beginning of that slot in the file. These bytes
lie inside the 128 of `img_id`, and begin with the name every header has,
`CAT_TXT`, and a NUL: the image stays valid, under another name, and the header
of the file stays as it was. `WriteHeader` has it (`HeaderOverSlot`); that write
is still held when the call has answered, and may fail in its turn. `StepFails`
is the seek or the write of a step that fails where the code looks at it, the
`fwrite` of that header included. `ReadFails` is the end of a read that has made
its thumbnail and finds no memory for it, with the slot still held.

With `Resident = FALSE` writes and that allocation may fail and processes stop;
the server is followed through processes that stop only.

### ImgfsServer

| Variable | Code |
|---|---|
| `phase` | the statement of `server_startup` main comes to next, or `"serving"` |
| `main` | the local `active_socket` of `http_receive`, between `accept` and `pthread_create` |
| `thread[c]` | where `handle_connection` is for connection *c*: `starting` (signals not blocked yet), `reading`, `locking`, `inside` a library call, `replying`, `ended`; or `backlog`, `accepted`, `lost` (no thread, or no buffer for it) |
| `fds` | connections whose descriptor is open |
| `mutex` | `mutex`: its holder, `"free"`, `"destroyed"` |
| `handler`, `stage` | the thread a signal interrupted, and the next statement of `signal_handler` |
| `listening`, `fs_open` | `passive_socket` is open; `do_open` has run and `do_close` has not |
| `table`, `seen`, `calls` | `fs_file` as a number every call raises by one: what a call found, what it leaves, how many were made |
| `client`, `request`, `sent` | the clients (external) |
| `process` | running, ended, or killed by SIGPIPE or an early signal |

A library call is two steps here, `Lock` (which looks at the table) and `Unlock`
(which changes it), so that an overlap of two calls would lose a change.
`CallsAreAtomic` says none does.

| Code | Actions |
|---|---|
| `server_startup`, `main` | `OpenFile`, `Listen`, `InitVips`, `SetSignalHandler`, `StartFails`, `EarlySignal` |
| `http_receive` | `Accept`, `AcceptFails`, `Spawn`, `SpawnFails` |
| `handle_connection` | `Mask`, `NoBuffer`, `Receive`, `End` |
| the handlers, `http_reply` | `Lock`, `Unlock`, `Reply`, `ReplyToNobody`, `NoReply` |
| `signal_handler`, `server_shutdown` | `Signal`, `HttpClose`, `MutexDestroy`, `FileClose`, `Exit` |

The socket listens before libvips is initialised and the signal handler set, so
clients connect and send during the startup. The result of `http_init` is not looked
at: `Listen` may leave no socket, and `AcceptFails` then ends the process. A
signal before its handler is set ends the process.

A signal goes to any thread that has not blocked it; that thread does nothing
else from then on, the others do. A mutex that is held is not destroyed
(`pthread_mutex_destroy` answers EBUSY), and one that is destroyed no longer
stops anybody; the code looks at neither result. A `send` to a client that has
gone may succeed, fail, or raise SIGPIPE. A reply that cannot be made for want
of memory, or of the page, leaves its client without an answer (`NoReply`): the
read loop does not look at what its callback returns. `close` is given the pointer and not
the descriptor, so `End` leaves the descriptor open.

Abstractions: a message is read and parsed in one step (`HttpConnection` has
the steps); a request is a library call, another request, or bytes that are no
HTTP message; a client waits for an answer before its next request, and one that
was left without an answer sends nothing more; one signal arrives at most; a client that
is there takes its answer. The four bytes `http_receive` allocates and the
thread attributes do not fail.

### HttpMessage and HttpConnection

A text is a sequence of tokens: a delimiter (CRLF, `": "` as its two
characters, space, `?`, `&`, a parameter's name with its `=`), a NUL, or a run
of characters no search of the code can end in. `Find` is `strstr`; `Text` ends
a buffer at its first NUL as every search does. `Parse` is
`http_parse_message` with `http_parse_headers`, whose loop goes on past the
empty line; `GetVar` is `http_get_var`; `Handle` is `handle_http_message` with
the arguments of the four handlers, and yields the library call or the error
reply.

| Variable of `HttpConnection` | Code |
|---|---|
| `buffer`, `bytes_received` | the locals of `handle_connection`; behind `bytes_received` lies what earlier messages left |
| `calls` | what `handle_http_message` was called for |
| `connection` | open, dropped by the server, left by the client |
| `asked`, `wire` | the requests sent, the tokens not yet read (external) |

`Read(n)` is one turn of the read loop: a read of any length, the NUL behind
it, `http_parse_message` on the whole buffer, and either the callback (the rest
of the buffer is given up, one byte of it is cleared), another turn, or the end
of the connection. `Understood` compares every call with what the parts of the
request ask for (`Asks`), which knows nothing of searches. Entry -1 of the header
array, which a message without headers reads, overlaps the fields in front of
the array in `struct http_message`: its key is the method, already set, so such a
message is not refused.

### CmdLine

| Variable | Code |
|---|---|
| `typed`, `argv` | the command line, and the arguments still to look at |
| `at` | the function, and the place in it, the process has come to |
| `newfile` | the header `do_create_cmd` fills in |
| `imgfs`, `open` | the imgFS file as the commands see it; the `FILE*` (`"left"`: by a `do_open` or `do_create` that answered an error) |
| `image`, `written` | the image in memory; the image file written out |
| `code` | the exit code |

| Code | Actions |
|---|---|
| `main` | `Start`, `MainEnds` |
| `do_create_cmd` | `CreateStarts`, `MaxFilesOption`, `ResolutionOption`, `OtherOption`, `CreateFile` |
| the other commands | `Misused`, `Open`, then `ListCall`, `DeleteCall`, `ReadCall`, `ReadImage`, `InsertCall`, or `CallFails` |
| `read_disk_image`, `create_name`, `write_disk_image` | `ReadImage`, `ReadImageFails`, `NoNameOrFile`, `Write`, `WriteFails` |

`Unsigned` is `atouint16` and `atouint32`: `strtoumax` (external, `Numeral`),
the check of the width, 0 for what is no number. `Acceptable` and `Wanted` say
what the usage text says, from the parts of the line and not from the loop. Of
a library call it is said only that it does what it is asked or answers an
error; `ImgfsLib` has the rest.

### TcpTransfer

| Code | Actions |
|---|---|
| `tcp-test-client.c` | `Run` up to `connect`, `SendSize`, `ReadAck`, `ReadLast`; `Killed` |
| `tcp-test-server.c` | `Accept`, `ReadSize`, `ReadFile`; `AcceptFails`, `ServeNobody` |

Client and server send messages of `MAX_ANSWER_LENGTH` bytes with their
padding, and read whatever has arrived. `to_server` and `to_client` are the
bytes of each direction; `client` and `server` the blocking read each has come
to; `printed` is what the server prints as a file. `Sends`, `Pieces` and
`Ended` are `tcp_send`, `tcp_read` and the `strcat` of the end marker, which
stops at a NUL. Bytes nobody can read any more are forgotten. The server never
answers ACK: it sends the file back in the place of the acknowledgement, and
the client takes an ACK for an error; the actions do what the code does. The
server's loop reads each message once, so a message cut in two shifts all that
follow; `Delivered` is about transfers nothing cut, `NeverStuck` and
`AllServed` about all.

`connect` comes back while the client waits in the backlog, and a client may be
killed, or silent, before it sends its length. No socket of a client is closed
by the server, whose process has so many left (`sockets`, at most `MaxSockets`): when they
are gone `accept` fails at once, nobody looks at its result, and the loop goes round
with a socket that `tcp_read` and `tcp_send` refuse (`ServeNobody`: the length is
0, so a file is asked for and not read). Clients that have connected then wait
for ever. An `accept` that fails for another reason leaves the client where it
was, and the next turn of the loop accepts it: that turn touches nothing else
and is left out. A `send` to a client that has gone may end the server by SIGPIPE.

## 3. Runs

| Run | Instance | Shows |
|---|---|---|
| `commands` | `Resident = FALSE`, 3 slots, 3 names with the empty one, 3 contents, 1 derived resolution, 3 appended images | `TypeOK`, `CountExact`, `SoundContent`, `SharedOriginal`, `LowerTwinValid`, `NothingUnsaved`, and that the library implements the catalogue |
| `server_table` | `Resident = TRUE`, 2 slots, 3 names with the empty one, 2 contents, 1 derived resolution, 3 appended images | `NothingUnsaved`, `CountBounded`, `OffsetsSound`, `Isolation`, `TwinsKept` |
| `command_disk` | `Resident = FALSE`, 3 slots, 2 names, one of them the header's, 3 contents, 3 appended images, 2 faults | after failed writes and stops: no image is served as another (`SoundContent`, `SharedOriginal`) or hidden by a deleted one, unless renamed (`FoundUnderItsName`), `nb_files` is off by one per fault at most (`CountDrift`), an acknowledged insert is in the file (`AckedStored`); `Uninterrupted` |
| `server_disk` | `Resident = TRUE`, 2 slots, 2 names, 2 contents, 2 appended images, 1 fault | `AckedStored`; between calls the file has every slot of the memory (`SlotsSaved`); `Uninterrupted` |
| `server_threads` | 2 connections, 3 descriptors, 2 requests each | `TypeOK`, `Exclusive`, `CallsAreAtomic`, `StartedFirst`; `Served`: every request is answered unless its client goes, its thread or reply was not made, or the process ends |
| `http_requests` | 2 requests out of 20 on one connection, 2 headers at most, a buffer of 28 tokens, every cut | `Understood`, `DroppedForCause`, `NeverStarved` |
| `command_line` | create lines with 0, 1 and 2 options out of 14, 19 other lines, 3 image files | `TypeOK`, `AsUsage`, `CreatedAsAsked`, `ChangesAsked`, `RoundTrip`, `Closed` |
| `tcp_transfer` | 2 clients, descriptors for none, one or both, 4 files, messages of 5 tokens, every cut | `TypeOK`, `NeverStuck`, `Delivered`; `AllServed`: a client waits for ever only when the descriptors have run out, or behind one that has connected and is silent |
| `delete_finds_stored`, `closed_between_calls`, `errors_refused`, `server_never_terminates` | as `commands`, `server_threads`, `http_requests`, `tcp_transfer` | section 4 |

Bounds of the library. `MaxFiles`: three slots are the least in which a name
lies in two slots with an equal content in a third, which is what the dedup
scan, the first-match read and the last-match delete disagree about; two are
enough for the server's uncounted slots. `MaxBlobs` bounds the appended images:
three allow an image and its thumbnail to be appended, deleted, and another
image to reuse the slot; with two, keeping the old sizes in a reused slot goes
unnoticed. One derived resolution stands for the two, which no code treats
differently. `VersionMod = 2` makes the version wrap at once. Names (of the runs
of `ImgfsLib`) and decodable contents are symmetric. Actions that append are disabled when the
bound is reached; the other calls are not. `MaxFaults = 2` lets a second fault
strike a file the first has damaged; with one, drifts of the count could not
add up. In `server_disk` one stop between any two writes, and a second process
after it, is all that `SlotsSaved` depends on. Of the two names of the disk runs one is
`CAT_TXT`, so that a slot renamed by its header may meet an image of that name;
names are therefore not symmetric in `command_disk`. They are in `server_disk`,
where no write fails and nothing tells the two apart. The disk runs leave out the empty name,
which behaves differently only in calls that write nothing. No deadlock is
possible in these runs, and deadlock is checked.

Bounds of the server. Two requests on a
connection let a thread come back to the mutex another waits for. `MaxFds` lies
above the number of connections, so that requests are not cut short when `accept`
runs out of descriptors: the invariants are proved for any number of connections
and descriptors (section 5), and `Served` exempts a process that has ended. `accept`
fails here for want of a socket that listens.

Bounds of the connection. Two requests are the least in which the second finds
what a longer first one left in the buffer. The requests have every call,
arguments in either order and missing, no header, one, two and too many,
`Content-Length` before and behind other headers, bodies that hold delimiters,
and a NUL where a JPEG file has one. The longest request fits the buffer of 28
tokens with one to spare, another fills it, a third is longer. Too many headers
are three and more.

Bounds of the command line. Values lie in, one above and far above their range,
at 0, negative (`strtoumax` makes those large), and at 2^16 + 1, which would
wrap into it. 2^32 is scaled to 100000, since TLC's integers end at 2^31; no
code depends on the value. One process follows another on one file, any number
of times.

Bounds of the transfer. Five tokens hold the longest message with its end; the
files are empty, small, at the 1024 the server refuses, and above the 2048 the
client sends at most; one begins with ACK. 1024 is a message whose first digits alone
are a small length. Two clients are the least in which one waits behind another.
The descriptors left for them are any number up to two: with both, nothing but a silent
client keeps another waiting; with fewer, they run out.

Deadlock is not checked in the server, HTTP and TCP runs: the process, the
connection and the clients come to an end there.

Fairness. None is assumed of `ImgfsLib`, `ImgfsDisk` and `CmdLine`, which have
no liveness property: a call returns or the process dies, and nothing in it
waits. `ImgfsServer` assumes weak fairness of main, of each thread and of the
running signal handler: the system's scheduler runs what can run. It assumes
nothing of clients, of signals, or of the order in which the mutex is handed
out. Weak fairness of `Lock` would not be enough for a thread against endless
requests of others; requests are bounded, so the run shows that no handler
keeps the mutex, and not that the mutex is fair. `TcpTransfer` assumes weak
fairness of the server and of the reads of each client, and nothing of who starts,
is killed, or sends its length: a client may connect and be silent for ever. In `HttpConnection` that a request comes to its call is stated as
an invariant, `NeverStarved`: as long as it has not, the next read has a byte to
get and room for it, and `wire` gets shorter with every read.

Every property of a passing run is shown to be sensitive to the code: a
definition marked "Fault" in the module changes one helper the way a likely
mistake would, and TLC then finds the property violated.

## 4. Where the code departs from its documents

Each run below has one property, which TLC refutes; the quotes are in
`PROJECT.json`.

- `delete_finds_stored` (`ImgfsClaims`): with an image stored in slot 1 and a
  deleted one of the same name in slot 2, a delete looks at slot 2 alone and
  answers ERR_IMAGE_NOT_FOUND.
- `closed_between_calls` (`ImgfsServer`): the shutdown closes the file while a
  thread is inside a library call.
- `errors_refused` (`HttpClaims`): of `http_get_var`'s errors the handlers take
  only 0 for one; a URI without any `?` gives a negative one, and the call goes
  on with the empty name.
- `server_never_terminates` (`TcpClaims`): the TCP test server ends by SIGPIPE
  when it sends to a client that was killed, where the handout says that it
  never terminates.

Other departures are in the models, and the properties hold in spite of them or
say where they do not:

- a delete whose slot cannot be written goes on, writes its header over the name
  of that slot and answers ERR_NONE (`HeaderOverSlot`), where
  `02.createdelete.md:98` has the header written "if successful";
- a name may be stored twice, when its second insert meets an equal content
  under another name first (`Deduped`);
- the original of a deleted image can still be read (`ReadStored`);
- the slot of a refused insert stays NON_EMPTY in the server's memory, and may
  take the place of a stored image in a list or give its old offset to a later
  insert (`LeaveInMemory`, `List`);
- `close` of a pointer: descriptors are never given back (`Closed` of
  `ImgfsServer`); the TCP test server closes no client's socket at all
  (`AcceptFails` of `TcpTransfer`);
- `do_create` empties an existing file before it knows that it can make a new
  one, and leaves its `FILE*` open when it cannot (`CreateFails`; `"left"` in
  `CmdLine`): no property asks more of either;
- `http_get_var` may find a parameter behind the URI (`GetVar`; `Understood` is
  about requests without such a name);
- SIGPIPE may end the server when a client leaves early (`ReplyToNobody`);
- bytes of a next request that arrive together with the end of a message are
  lost (`Read`); the clients here wait for the reply;
- the length of an image file is cut to 32 bits, and what `fclose` says is not
  looked at (`ReadImage`, `Write`);
- the TCP test server sends the file where its acknowledgement should go
  (`ReadFile`).

## 5. Proofs

Every theorem holds for every value of the constants that the named assumptions
of its module allow.

`ImgfsProofs` proves, for every table size, set of names, contents,
resolutions, width of the version and bound on the file:

| Theorem | States |
|---|---|
| `TypeCorrect` | `Spec => []TypeOK` |
| `AcknowledgedIsSaved` | `Spec => []NothingUnsaved` |
| `CallsKeepTwins`, `StoredIsFound` | `Spec => TwinsKept`; with commands, `Spec => []LowerTwinValid` |
| `CountStaysBounded`, `CountIsExact` | `Spec => []CountBounded`; with commands, `Spec => []CountExact` |
| `ContentIsSound`, `OriginalsAreShared` | with commands, `Spec => []SoundContent`, `Spec => []SharedOriginal` |
| `OthersUntouched`, `OffsetsStaySound` | `Spec => Isolation`, `Spec => []OffsetsSound` |

They rest on the named assumptions of `ImgfsLib` (constants have their types,
the original resolution is not a derived one, no content is `NoContent`) and
nothing else; "with commands" is the hypothesis `~Resident`.

Argument. `TypeOK` and `NothingUnsaved` are inductive together. For commands the
table in memory is the one of the file whenever a call starts (`Fresh`), since
the slot a refused insert leaves dies with the process: the properties of the
file are proved by looking at one call from equal tables. `LowerTwinValid` is
kept because an insert takes the lowest EMPTY slot and a delete empties the
highest of a name. `CountExact` follows from finite-set lemmas on `Valid`
gaining or losing one slot. `SoundContent` needs two strengthenings: the
original's size is never zero (else a slot with no place would be "read"), and
`SHA`s of valid slots are contents. `OffsetsSound` needs a statement on slots,
valid or not, in both tables, because the dedup scan copies between slots a
refused insert left behind.

`ImgfsRefinement` proves `CommandsImplementCatalog`: with `~Resident`,
`Spec => ImplementsCatalog`. It takes the invariants above as known, maps the
initial state, and then every action: an insert of either kind is the
catalogue's insert at the slot `LowestFree` gives, a delete empties the last slot
of the name, a refusal needs its reason, a read its image (`SoundContent` and
`LowerTwinValid`), a list its names (`CountExact`); the other actions leave the
catalogue as it is. The lemmas on a read and a list are the long ones, since
`do_read` and `do_list` look at slots the catalogue does not have.

`ImgfsDiskProofs` proves of `ImgfsDisk`, for any number of faults: `DiskTypes`
(`DiskSpec => []DiskTypeOK`), `AckedIsStored` (`DiskSpec => []AckedStored`) and,
with a server, `TableIsSaved` (`DiskSpec => []SlotsSaved`). One lemma per first
step says what it does in one form (`BeginInsertFacts`, ...): the slot of the
call in memory and what the stream holds. The invariant of the second theorem
follows an insert: its slot is in memory with its name (`InsertUnderway`), and
once written it is held, or in the file, or the next seek will fail and the
call will not answer ERR_NONE; between calls the stream holds no slot, so what
a stop loses is the header. That of the third says the same of every slot: those not of the
call in progress are equal in the file and in memory (`OthersSaved`), that one
is before, in or behind the stream (`OwnSaved`), and the header likewise
(`HeaderSaved`). It rests on `FaultsAssumption` and, since the name laid over a
slot must be a name, `NameAssumption`, besides those of `ImgfsLib`.

`ImgfsFaultProofs` proves of `ImgfsDisk`, for any number of faults, what needs
more than types:

| Theorem | States |
|---|---|
| `UninterruptedCalls` | `DiskSpec => Uninterrupted`, commands or server |
| `CountDriftIsBounded` | with commands, `DiskSpec => []CountDrift` |
| `ContentSurvives`, `OriginalsStayShared`, `StoredStaysFound` | with commands, `DiskSpec => []SoundContent`, `[]SharedOriginal`, `[]FoundUnderItsName` |

All rest on one invariant, `Staged`: what the stream may hold between calls
(`Around`: the header, or a slot when a delete has laid its header over one, or
a read found no memory behind its thumbnail), that a command finds in memory what is in the file (`Serving`), and,
at each step of a call, whether its slot is in memory, held, in the file or lost
with the next seek to say so (`Underway`). `UninterruptedCalls` needs no more: the
mapping shows a call done at its first step (`BegunView`), the later steps and
the flushes change nothing it shows, and the first step itself is the one of
`ImgfsLib` since between two calls the mapping shows the file (`IdleView`).
`CountDrift` alone is not inductive, since a call that fails must not cost two:
`Counts` says which of the two headers, in the file or in memory, is off by
`faults` and which by one more, according to whether the slot of the call is in
the file (`Pending`); a slot held after its call is as valid as the one in the
file, so that it moves no count. `Intact` says that the three promises hold of
the file and of the file as it will be when the call in progress, or the slot
held after it, has got there: an image is in the file before its slot is, and a lost image ends the
call, so the slot of a lost image never gets there. A slot renamed by its header
keeps its SHA, its offsets and its sizes, and its new name is the one
`FoundUnderItsName` leaves out once there has been a fault (`Spared`). `LowerTwinValid`
itself is false there: an EMPTY slot of that name may lie before it.

`ImgfsServerProofs` proves, for any set of connections, descriptors and
requests, `ServerTypes`, `MutualExclusion`, `CallsAtomic` and
`StartedBeforeServing`, from `ThreadsAssumption` (the names of threads and of
the states of the mutex differ) and `LimitsAssumption`. The inductive invariant
adds that a connection nobody has made has no thread, that what the thread
inside a call saw of the table is still the table (`SeenIsCurrent`), and that
the file of a running process is open once the startup is past `do_open`, until
a handler runs (`Opened`); after a shutdown has destroyed the mutex nothing is claimed of calls.

`TcpTransferProofs` proves, for any clients, files and length of a message,
`TransferTypes` and `NobodyWaitsForever` (`Spec => []NeverStuck`), from
`NobodyAssumption`, `FilesAssumption`, `LengthAssumption` (a message has a
byte) and `SocketsAssumption` (the descriptors are a number). `NeverStuck` is not inductive; the invariant says what a client that
waits can count on (`Coming`): while it waits for the first answer, the
server has yet to accept it or to read its length, or has answered, and an answer
that sends it on to its file has a second one behind it or a server that waits
for that file; while it waits for the last, the server has its file to read or
has answered. `WholeTransfersArrive` (`Spec => []Delivered`) is stated for
`MAX_ANSWER_LENGTH >= 4`, room for the digits of a length (the code has 2053); with
fewer it is false, since a length cut to its first digits is a smaller one. Its
invariant `Transfers` says, for a client none of whose messages was cut, where the one
message of the transfer is and that it is the announced length, one of the two
answers or the file. It needs that `atoi` gives back what `Decimal` has written
(`LengthRead`): the digits add up to the number, and the loop of `atoi` stops at
the end marker, by induction over the places behind it.

`CmdLineProofs` proves, for any command lines, files and widths, from
`WidthAssumption`, `NumeralAssumption`, `ImageFilesAssumption`,
`LinesAssumption` and `PartsAssumption`:

| Theorem | States |
|---|---|
| `SizesInRange` | `Spec => []TypeOK`: no file gets a size out of range |
| `EveryFileClosed` | `Spec => []Closed` |
| `RefusedAsUsage` | `Spec => []AsUsage` |
| `MadeAsAsked`, `OnlyAskedChanges` | `Spec => []CreatedAsAsked`, `Spec => ChangesAsked` |
| `WrittenAsInserted` | `Spec => []RoundTrip` |

`IInv` carries the range of the header through the loop over the options
(`InRange`) and says that the file is open during the calls and nowhere else
(`OpenInCalls`). `Asked` follows a line: before the loop its arguments are those
of all its parts (`Waiting`); at each turn of the loop they are those behind the
first k parts, the options among these are acceptable, and the header is what
they ask for (`InOptions`); behind the arguments' checks the line is acceptable
(`InCall`). It needs what is left of the arguments after k parts (`Left`), by
induction over k: the library's induction theorems are out of the provers'
reach, so `SetInduction` takes the set of the numbers that have the property, and
the least number outside it. `PartsAssumption` says how a line is cut into parts,
and every sequence of arguments can be so cut: an option comes with its values,
and one that lacks a value is followed by no number. Without it the parts of a
line, from which `Acceptable` judges it, would not be the parts the code sees.
`Carried` says that each image in the file, in memory or written out has the
length of an image file, cut to 32 bits.

`HttpProofs` proves, for any requests, number of requests and size of the buffer:

| Theorem | States |
|---|---|
| `ConnectionHolds` | `Spec => []ConnectionInv`, the invariant of the others |
| `NeverStarves` | `Spec => []NeverStarved` |
| `DropsForCause` | `Spec => []DroppedForCause` |
| `UnderstoodAsAsked` | with `\A r \in Requests : Plain(r)`, `Spec => []Understood` |

They rest on `MaxHeadersAssumption`, `MaxValueAssumption`, `BoundsAssumption`
and `RequestsAssumption`. The last says that a request is one a client makes
(`Framed`): no word of the start line has a space, a CRLF or a NUL in it, no part
of a header line a CRLF or a NUL, the first Content-Length is the length of the
body, and the body has a NUL before its first `": "`. The code needs that last
clause: `http_parse_headers` does not end at the empty line but at the first NUL,
so that a body which looks like headers is taken for headers (the images this
server is sent have a NUL near their start). `Plain` is what `Understood` needs
besides, since `http_match_uri` compares prefixes and `http_get_var` searches
the rest of the text: one token of path, arguments where the call needs some
and none behind `/`, values of a length the handlers take, and outside the names of
arguments no name the handlers look for, nor an `&`, up to the end of the text.
Both leave out requests this server misunderstands, and TLC evaluates both on
those of the runs (`RequestsAssumption`, `PlainRequests`).

Argument. `Joined` builds a request by recursion over its parts; the function it
recurs on exists and gives every header and every argument its place
(`HeaderPlaces`, `ArgPlaces`, by `SetInduction` over the parts). Of a text that
is the beginning of the request (`Beginning`) follow: the end of the header is
found when all of it has arrived and not before (`HeaderToCome`, `HeaderHere`:
no header line is empty), the start line is cut where it was joined
(`StartLineHere`), and `Headers`, whose recursion goes forward in the text, gives
the headers stated (`HeadersHere`, by induction from the last header to the first,
where `NoHeaderBehind` ends it). A buffer that has the first `m` tokens of a request
and a NUL behind them is such a text up to its first NUL, which never lies in the
header (`TextReceived`), so `ParseStart` and `ParseHead` say what `Parse` answers for every
`m`, and it does not matter what lies behind the NUL. The invariant is that
while a request is without its call the buffer and the wire are the request
(`Underway`), else both are empty: a message that is answered for leaves nothing
on the wire, one that is not has a token to come. For `Understood`, the first
`?` is the one behind the path (`QueryFound`), a name is first found where its
first argument is (`NameElsewhere`, `ArgFound`) or nowhere (`NoArg`), and a value ends
with the next mark or the URI (`GetVarIs`); `HandlesAsAsked` compares the cases
of `handle_http_message` with those of `Asks`.

TLC checked each property before it was proved. Only model-checked: `Served`
and `AllServed` (liveness is out of the prover's reach).

## 6. Not modelled

- Two processes on one file, and a second signal while the first is handled:
  the code does nothing about either, and after a file written by two, or a
  table freed twice, there is nothing to say.
- Writes that fail in the server, and a thumbnail written and saved with no
  memory left to answer with it, between its writes: as in `imgfscmd`, but the
  process goes on with a table the file does not have, and `SlotsSaved` is then
  false by the design of the code. (`ImgfsLib` has the second for the server
  too, in one step.)
- A read with resolution -1, which `handle_read_call` makes of any `res` that it
  does not know, or that is missing in a URI without `?`: `do_read` then indexes
  the offsets and sizes of the slot in front of their beginning, which is
  undefined in C. `HttpMessage` has the call; `ImgfsLib` has the resolutions of
  the table only.
- An id of more than 127 characters: `do_insert` copies it with `strcpy`, over
  the SHA and the sizes behind it. `do_delete_cmd` refuses such an id,
  `do_insert_cmd` does not, and `handle_insert_call` lets names of up to 132
  characters pass. The models start from ids that fit.
- libvips, OpenSSL, json-c, stdio and TCP beyond what the code relies on: a
  content is or is not an image, equal contents have equal sums, a stream holds
  one write, bytes arrive in order.
- Text: `print_header`, `print_metadata`, the JSON of a list, `help`, error
  messages, the headers of a reply. Widths, heights and sizes in bytes.
- `http-test-server.c`: the connections of `http_net.c` with a callback that is
  NULL, which does not survive its first message.
- The server of the TCP test whose socket cannot be made.
- `strnstr` in `util.c`, which nobody calls.
- The web page, the assignment (`src/provided`) and the older copy of the code
  (`src/grading`).
