---------------------------- MODULE ImgfsServer ----------------------------
(***************************************************************************)
(* imgfs_server as a process: the main thread that starts it and accepts   *)
(* connections, a detached thread for each, the mutex around the library   *)
(* calls, and the shutdown that a signal runs. A client sends one request  *)
(* at a time and may leave at any time. What a call does to the table is   *)
(* in ImgfsLib; here it is two steps, one that looks at the table and one  *)
(* that changes it, which nothing but the mutex keeps together.            *)
(***************************************************************************)
EXTENDS Naturals, FiniteSets

CONSTANTS
    Conns,        \* the connections clients make
    MaxFds,       \* descriptors left to the process for connections
    MaxRequests,  \* bound: requests per connection
    Main, None    \* the main thread; nobody

ASSUME ThreadsAssumption ==
    Conns \cap {Main, None, "free", "destroyed"} = {} /\ Main # None
ASSUME LimitsAssumption == MaxFds \in Nat /\ MaxRequests \in Nat

VARIABLES
    process,   \* "running", "exited", or "killed" by a signal
    phase,     \* the step of its startup main comes to next, or "serving"
    main,      \* the connection accepted and not yet given a thread, or None
    thread,    \* where the thread of a connection is
    client,    \* what the client of a connection does
    request,   \* the request a client waits for an answer to
    sent,      \* how many it has sent
    fds,       \* connections whose descriptor is open
    mutex,     \* who holds it, or "free", or "destroyed"
    handler,   \* the thread that runs server_shutdown
    stage,     \* the next thing it does
    listening, \* the passive socket is open
    table,     \* fs_file, which every call changes: a number
    fs_open,   \* do_close has not run
    seen,      \* the table as the call of a thread found it
    calls      \* calls completed, for CallsAreAtomic

clients == <<client, request, sent>>
signals == <<handler, stage>>
shutdown == <<signals, listening, fs_open>>
locked == <<mutex, table, seen, calls>>
vars == <<process, phase, main, thread, fds, clients, shutdown, locked>>

Threads == Conns \cup {Main}

Init ==
    /\ process = "running" /\ phase = "do_open" /\ main = None
    /\ thread = [c \in Conns |-> "none"]
    /\ client = [c \in Conns |-> "away"]
    /\ request = [c \in Conns |-> "none"]
    /\ sent = [c \in Conns |-> 0]
    /\ fds = {}
    /\ mutex = "free"
    /\ handler = None /\ stage = "none" /\ listening = FALSE /\ fs_open = FALSE
    /\ table = 0 /\ seen = [c \in Conns |-> 0] /\ calls = 0

-----------------------------------------------------------------------------
(* Clients.                                                                 *)

Connect(c) ==
    /\ process = "running" /\ listening
    /\ client[c] = "away"
    /\ client' = [client EXCEPT ![c] = "here"]
    /\ thread' = [thread EXCEPT ![c] = "backlog"]
    /\ UNCHANGED <<process, phase, main, fds, request, sent, shutdown, locked>>

\* A request calls the library, or only asks for a page or a URI that is not
\* served, or is no HTTP message.
Send(c) ==
    /\ process = "running"
    /\ client[c] = "here" /\ request[c] = "none" /\ sent[c] < MaxRequests
    /\ \E kind \in {"call", "page", "bad"} :
          request' = [request EXCEPT ![c] = kind]
    /\ sent' = [sent EXCEPT ![c] = @ + 1]
    /\ UNCHANGED <<process, phase, main, thread, fds, client, shutdown, locked>>

Leave(c) ==
    /\ process = "running"
    /\ client[c] = "here"
    /\ client' = [client EXCEPT ![c] = "gone"]
    /\ UNCHANGED <<process, phase, main, thread, fds, request, sent, shutdown, locked>>

-----------------------------------------------------------------------------
(* The main thread: server_startup.                                         *)

Starts(from, to) ==
    /\ process = "running" /\ phase = from
    /\ phase' = to
    /\ UNCHANGED <<main, thread, fds, clients, signals, locked>>

\* The file is open and the mutex initialised.
OpenFile ==
    /\ Starts("do_open", "http_init")
    /\ fs_open' = TRUE
    /\ UNCHANGED <<process, listening>>

\* A socket that is not made, bound or put to listen is an error http_init
\* returns, and nobody looks at: the startup goes on without it.
Listen ==
    /\ Starts("http_init", "VIPS_INIT")
    /\ listening' \in BOOLEAN
    /\ UNCHANGED <<process, fs_open>>

InitVips ==
    /\ Starts("VIPS_INIT", "set_signal_handler")
    /\ UNCHANGED <<process, listening, fs_open>>

SetSignalHandler ==
    /\ Starts("set_signal_handler", "serving")
    /\ UNCHANGED <<process, listening, fs_open>>

\* Fault: main goes on after an error.
GoesOn == UNCHANGED process

\* server_startup returns the error, and main ends.
GivesUp == process' = "exited"

StartFails ==
    /\ \/ Starts("do_open", "http_init")
       \/ Starts("VIPS_INIT", "set_signal_handler")
    /\ GivesUp
    /\ UNCHANGED <<listening, fs_open>>

Startup == OpenFile \/ Listen \/ InitVips \/ SetSignalHandler \/ StartFails

\* A signal before its handler is set ends the process.
EarlySignal ==
    /\ process = "running" /\ phase # "serving"
    /\ process' = "killed"
    /\ UNCHANGED <<phase, main, thread, fds, clients, shutdown, locked>>

-----------------------------------------------------------------------------
(* The main thread: http_receive, over and over.                            *)

\* A thread takes steps of its own unless it runs the signal handler.
Free(t) == process = "running" /\ handler # t

Receiving == Free(Main) /\ phase = "serving" /\ main = None

Accept(c) ==
    /\ Receiving /\ listening
    /\ thread[c] = "backlog"
    /\ Cardinality(fds) < MaxFds
    /\ main' = c
    /\ fds' = fds \cup {c}
    /\ thread' = [thread EXCEPT ![c] = "accepted"]
    /\ UNCHANGED <<process, phase, clients, shutdown, locked>>

\* No descriptor is left, or no socket listens (none was made, or a handler on
\* another thread has closed it): accept fails, http_receive returns ERR_IO,
\* main leaves its loop and the process ends with whatever its threads do.
AcceptFails ==
    /\ Receiving
    /\ Cardinality(fds) >= MaxFds \/ ~listening
    /\ process' = "exited"
    /\ UNCHANGED <<phase, main, thread, fds, clients, shutdown, locked>>

\* Fault: the next connection waits in the variable of the last one.
HandedOverLate == UNCHANGED main

\* http_receive returns and main calls it again.
HandedOver == main' = None

Spawn ==
    /\ Free(Main) /\ main # None
    /\ thread' = [thread EXCEPT ![main] = "starting"]
    /\ HandedOver
    /\ UNCHANGED <<process, phase, fds, clients, shutdown, locked>>

\* The result of pthread_create is not looked at.
SpawnFails ==
    /\ Free(Main) /\ main # None
    /\ thread' = [thread EXCEPT ![main] = "lost"]
    /\ HandedOver
    /\ UNCHANGED <<process, phase, fds, clients, shutdown, locked>>

-----------------------------------------------------------------------------
(* The thread of a connection: handle_connection and the handlers.          *)

Goes(c, from, to) ==
    /\ Free(c)
    /\ thread[c] = from
    /\ thread' = [thread EXCEPT ![c] = to]
    /\ UNCHANGED <<phase, main, clients, shutdown>>

\* pthread_sigmask: from here on signals go to other threads.
Mask(c) == Goes(c, "starting", "reading") /\ UNCHANGED <<process, fds, locked>>

\* There is no memory for the buffer of the connection.
NoBuffer(c) == Goes(c, "starting", "lost") /\ UNCHANGED <<process, fds, locked>>

\* The message is complete and calls a handler, which may refuse the call for
\* its arguments, or for want of memory, before it takes the mutex.
Receive(c) ==
    /\ \/ request[c] = "call" /\ Goes(c, "reading", "locking")
       \/ request[c] \in {"call", "page"} /\ Goes(c, "reading", "replying")
    /\ UNCHANGED <<process, fds, locked>>

\* The client has gone or the message does not parse. close is given the
\* pointer, not the descriptor: it fails, and the descriptor stays open.
Closed(c) == UNCHANGED fds

End(c) ==
    /\ client[c] = "gone" \/ request[c] = "bad"
    /\ Goes(c, "reading", "ended")
    /\ Closed(c)
    /\ UNCHANGED <<process, locked>>

\* Fault: a handler does not take the mutex.
AvailableAlways == TRUE

\* pthread_mutex_lock waits for the mutex; of one that is destroyed it may
\* return at once, and its result is not looked at.
Available == mutex \in {"free", "destroyed"}

Lock(c) ==
    /\ Goes(c, "locking", "inside")
    /\ Available
    /\ mutex' = IF mutex = "destroyed" THEN mutex ELSE c
    /\ seen' = [seen EXCEPT ![c] = table]
    /\ UNCHANGED <<process, fds, table, calls>>

\* Fault: the return of an error leaves the mutex locked.
Kept == UNCHANGED mutex

Released == mutex' = IF mutex = "destroyed" THEN mutex ELSE "free"

\* The call has changed the table it found; the answer goes out without the
\* mutex.
Unlock(c) ==
    /\ Goes(c, "inside", "replying")
    /\ table' = seen[c] + 1
    /\ calls' = calls + 1
    /\ seen' = [seen EXCEPT ![c] = 0]
    /\ Released
    /\ UNCHANGED <<process, fds>>

\* tcp_send and back to the read loop.
Reply(c) ==
    /\ Free(c)
    /\ thread[c] = "replying" /\ client[c] = "here"
    /\ thread' = [thread EXCEPT ![c] = "reading"]
    /\ request' = [request EXCEPT ![c] = "none"]
    /\ UNCHANGED <<process, phase, main, fds, client, sent, shutdown, locked>>

\* send without MSG_NOSIGNAL to a client that has gone: it may succeed, it may
\* return an error, which http_reply ignores, and it may raise SIGPIPE, which
\* nobody handles.
ReplyToNobody(c) ==
    /\ Free(c)
    /\ thread[c] = "replying" /\ client[c] = "gone"
    /\ thread' = [thread EXCEPT ![c] = "reading"]
    /\ request' = [request EXCEPT ![c] = "none"]
    /\ process' \in {"running", "killed"}
    /\ UNCHANGED <<phase, main, fds, client, sent, shutdown, locked>>

\* http_serve_file cannot read its file, or there is no memory for a reply:
\* their errors come back to the read loop, which does not look at them, and
\* the client is left without an answer.
NoReply(c) ==
    /\ Free(c)
    /\ thread[c] = "replying"
    /\ thread' = [thread EXCEPT ![c] = "reading"]
    /\ request' = [request EXCEPT ![c] = "dropped"]
    /\ UNCHANGED <<process, phase, main, fds, client, sent, shutdown, locked>>

-----------------------------------------------------------------------------
(* A signal, and server_shutdown in its handler.                            *)

\* The kernel picks a thread that has not blocked the signal: main, or a thread
\* that has not come to pthread_sigmask yet.
Signal(t) ==
    /\ process = "running" /\ phase = "serving" /\ handler = None
    /\ t \in {Main} \cup {c \in Conns : thread[c] = "starting"}
    /\ handler' = t /\ stage' = "http_close"
    /\ UNCHANGED <<process, phase, main, thread, fds, clients, listening, fs_open, locked>>

Stage(from, to) ==
    /\ process = "running" /\ stage = from
    /\ stage' = to
    /\ UNCHANGED <<phase, main, thread, fds, clients, handler, table, seen, calls>>

HttpClose ==
    /\ Stage("http_close", "mutex_destroy")
    /\ listening' = FALSE
    /\ UNCHANGED <<process, mutex, fs_open>>

\* A mutex that is locked is not destroyed (EBUSY); the result is not looked at.
MutexDestroy ==
    /\ Stage("mutex_destroy", "close")
    /\ mutex' = IF mutex = "free" THEN "destroyed" ELSE mutex
    /\ UNCHANGED <<process, listening, fs_open>>

\* do_close, without the mutex.
FileClose ==
    /\ Stage("close", "exit")
    /\ fs_open' = FALSE
    /\ UNCHANGED <<process, listening, mutex>>

Exit ==
    /\ Stage("exit", "none")
    /\ process' = "exited"
    /\ UNCHANGED <<listening, mutex, fs_open>>

-----------------------------------------------------------------------------

MainStep ==
    Startup \/ (\E c \in Conns : Accept(c)) \/ AcceptFails \/ Spawn \/ SpawnFails

ThreadStep(c) ==
    Mask(c) \/ NoBuffer(c) \/ Receive(c) \/ End(c) \/ Lock(c) \/ Unlock(c)
      \/ Reply(c) \/ ReplyToNobody(c) \/ NoReply(c)

Shutdown == HttpClose \/ MutexDestroy \/ FileClose \/ Exit

Next ==
    \/ \E c \in Conns : Connect(c) \/ Send(c) \/ Leave(c)
    \/ MainStep
    \/ \E c \in Conns : ThreadStep(c)
    \/ EarlySignal \/ \E t \in Threads : Signal(t)
    \/ Shutdown

Spec == Init /\ [][Next]_vars

\* Threads that can run do run. Nothing is assumed of clients and signals, nor
\* of the order in which a mutex is given to those who wait for it.
Fairness ==
    /\ WF_vars(MainStep)
    /\ \A c \in Conns : WF_vars(ThreadStep(c))
    /\ WF_vars(Shutdown)

FairSpec == Spec /\ Fairness

-----------------------------------------------------------------------------
(* Properties.                                                              *)

Phases == {"do_open", "http_init", "VIPS_INIT", "set_signal_handler", "serving"}

Places == {"none", "backlog", "accepted", "lost", "starting", "reading",
           "locking", "inside", "replying", "ended"}

\* Every variable has its type, and the thread main is about to start is the
\* one it has accepted.
TypeOK ==
    /\ process \in {"running", "exited", "killed"}
    /\ phase \in Phases
    /\ main \in Conns \cup {None} /\ (main # None => thread[main] = "accepted")
    /\ thread \in [Conns -> Places]
    /\ client \in [Conns -> {"away", "here", "gone"}]
    /\ request \in [Conns -> {"none", "call", "page", "bad", "dropped"}]
    /\ sent \in [Conns -> 0 .. MaxRequests]
    /\ fds \in SUBSET Conns
    /\ mutex \in Conns \cup {"free", "destroyed"}
    /\ handler \in Threads \cup {None}
    /\ stage \in {"none", "http_close", "mutex_destroy", "close", "exit"}
    /\ listening \in BOOLEAN /\ fs_open \in BOOLEAN
    /\ table \in Nat /\ seen \in [Conns -> Nat] /\ calls \in Nat

\* The mutex is held by the thread that is inside a call and by no other: not
\* while a reply goes out to a slow client, not by a thread that has ended.
\* Until a shutdown destroys it, no two calls overlap.
Exclusive == mutex # "destroyed" => \A c \in Conns : thread[c] = "inside" <=> mutex = c

\* Every call works on the table the call before it left: no change is lost to
\* a call that looked at the table before it was made. This is what lets
\* ImgfsLib take a call as one step.
CallsAreAtomic == mutex # "destroyed" => table = calls

\* No connection is served by a process whose startup has failed: what a thread
\* finds is a file that was opened, until a shutdown has closed it, and a
\* server that has set its signal handler.
StartedFirst ==
    \A c \in Conns :
        thread[c] \notin {"none", "backlog"} =>
            phase = "serving" /\ (fs_open \/ handler # None)

\* Every request that is an HTTP message is answered, even one that came while
\* the server was starting, unless its client goes, its thread or its reply
\* could not be made, or the process ends: no handler keeps the mutex, waits
\* for a thread that waits for it, or drops a request.
Served ==
    \A c \in Conns :
        request[c] \in {"call", "page"}
            ~> \/ request[c] \in {"none", "dropped"}
               \/ client[c] = "gone"
               \/ thread[c] = "lost"
               \/ process # "running"

-----------------------------------------------------------------------------
(* What the handouts and comments say, and the code does not keep.          *)

\* "All access to the ImgFS shall be locked": the file is not closed under a
\* call that is going on. server_shutdown closes it without the mutex.
ClosedBetweenCalls == ~fs_open => \A c \in Conns : thread[c] # "inside"

=============================================================================
