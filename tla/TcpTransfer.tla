---------------------------- MODULE TcpTransfer -----------------------------
(***************************************************************************)
(* tcp-test-client and tcp-test-server: a client sends the length of a     *)
(* file, reads whether it is small enough, sends the file, and reads an    *)
(* answer; the server does this with one client after the other. Every     *)
(* message is sent with its padding, MAX_ANSWER_LENGTH bytes long. TCP     *)
(* keeps the bytes in order and loses where a message begins: a read gets  *)
(* as many of them as have arrived, one at least, and none at the end of a *)
(* connection. The server closes no socket, and so runs out of them.       *)
(***************************************************************************)
EXTENDS Integers, Sequences, FiniteSets

CONSTANTS
    Clients,           \* the clients that may run, once each
    Nobody,            \* no client
    Files,             \* the files they send: [size, content]
    MAX_ANSWER_LENGTH, \* in tokens: a digit, a part of a word, a part of a file
    MaxSockets         \* the most descriptors its process has for clients

ASSUME NobodyAssumption == Nobody \notin Clients
ASSUME FilesAssumption ==
    \A f \in Files : f.size \in Nat /\ f.content \in Seq(STRING)
ASSUME LengthAssumption == MAX_ANSWER_LENGTH \in Nat \ {0}
ASSUME SocketsAssumption == MaxSockets \in Nat

MaxSize == 2048   \* the client sends no larger file
BigSize == 1024   \* the server takes no larger one

VARIABLES
    file,      \* what each client sends
    client,    \* where it is
    code,      \* its exit code
    to_server, \* bytes the server may still read, of each client
    to_client, \* bytes a client may still read
    backlog,   \* clients the server has not accepted yet
    server,    \* where the server is
    serving,   \* whom it serves; nobody, between two, or when accept has failed
    sockets,   \* descriptors left to its process for clients
    printed,   \* what it printed as the file of a client
    cut        \* clients one of whose messages was not read in one piece

wires == <<to_server, to_client>>
vars == <<file, client, code, wires, backlog, server, serving, sockets, printed,
          cut>>

NoFile == [size |-> 0, content |-> <<>>]

Init ==
    /\ file = [c \in Clients |-> NoFile]
    /\ client = [c \in Clients |-> "away"]
    /\ code = [c \in Clients |-> "none"]
    /\ to_server = [c \in Clients |-> <<>>]
    /\ to_client = [c \in Clients |-> <<>>]
    /\ backlog = {}
    /\ server = "accept" /\ serving = Nobody
    /\ sockets \in 0 .. MaxSockets
    /\ printed = [c \in Clients |-> <<>>]
    /\ cut = {}

-----------------------------------------------------------------------------
(* Messages. A buffer is cleared before it is filled: a NUL follows.        *)

Message(text) ==
    [n \in 1 .. MAX_ANSWER_LENGTH |-> IF n <= Len(text) THEN text[n] ELSE "NUL"]

end == <<"<EOF>">>
bigFileAck == <<"b", "ig">>
smallFileAck == <<"s", "ma", "ll">>

Digit == <<"0", "1", "2", "3", "4", "5", "6", "7", "8", "9">>
IsDigit(token) == \E v \in 0 .. 9 : Digit[v + 1] = token
Worth(token) == CHOOSE v \in 0 .. 9 : Digit[v + 1] = token

\* sprintf("%ld"), of a number below 10000.
Decimal(n) ==
    LET d(power) == Digit[((n \div power) % 10) + 1]
    IN IF n < 10 THEN <<d(1)>>
       ELSE IF n < 100 THEN <<d(10), d(1)>>
       ELSE IF n < 1000 THEN <<d(100), d(10), d(1)>>
       ELSE <<d(1000), d(100), d(10), d(1)>>

\* atoi: the number its first digits make, however many have arrived.
atoi(text) ==
    LET to[n \in 0 .. Len(text)] ==
            IF n = 0 THEN 0
            ELSE IF \A k \in 1 .. n : IsDigit(text[k])
                 THEN 10 * to[n - 1] + Worth(text[n])
                 ELSE to[n - 1]
    IN to[Len(text)]

\* strcat ends a text at its first NUL, and what follows is lost.
Ended(content) ==
    LET kept == {n \in DOMAIN content : \A k \in 1 .. n : content[k] # "NUL"}
    IN SubSeq(content, 1, Cardinality(kept)) \o end

StartsWith(text, word) == Len(text) >= Len(word) /\ SubSeq(text, 1, Len(word)) = word

Gone(c) == client[c] \in {"ended", "killed"}

\* Fault: a read of nothing is tried again.
Arrived(wire, closed) == Len(wire) > 0

Readable(wire, closed) == Len(wire) > 0 \/ closed

\* What one tcp_read gets.
Pieces(wire) ==
    IF wire = <<>> THEN {<<>>}
    ELSE {SubSeq(wire, 1, n) : n \in {k \in 1 .. MAX_ANSWER_LENGTH : k <= Len(wire)}}

Rest(wire, piece) == SubSeq(wire, Len(piece) + 1, Len(wire))

Cut(c, piece) ==
    cut' = IF Len(piece) < MAX_ANSWER_LENGTH THEN cut \cup {c} ELSE cut

-----------------------------------------------------------------------------
(* The client.                                                              *)

\* What has arrived is lost with the process.
Closes(c) == to_client' = [to_client EXCEPT ![c] = <<>>]

Ends(c, result) ==
    /\ client' = [client EXCEPT ![c] = "ended"]
    /\ code' = [code EXCEPT ![c] = result]
    /\ Closes(c)

\* Up to connect, which comes back before the server has accepted anybody.
Run(c, f) ==
    /\ client[c] = "away"
    /\ file' = [file EXCEPT ![c] = f]
    /\ \/ f.size > MaxSize /\ Ends(c, "INVALID_ARGUMENT") /\ UNCHANGED backlog
       \/ Ends(c, "IO") /\ UNCHANGED backlog
       \/ /\ f.size <= MaxSize /\ server # "killed"
          /\ client' = [client EXCEPT ![c] = "connected"]
          /\ backlog' = backlog \cup {c}
          /\ UNCHANGED <<code, to_client>>
    /\ UNCHANGED <<to_server, server, serving, sockets, printed, cut>>

SendSize(c) ==
    /\ client[c] = "connected"
    /\ client' = [client EXCEPT ![c] = "ack"]
    /\ to_server' = [to_server EXCEPT ![c] = Message(Decimal(file[c].size) \o end)]
    /\ UNCHANGED <<file, code, to_client, backlog, server, serving, sockets, printed,
                   cut>>

\* A file of no bytes cannot be read: fread answers 0.
ReadAck(c) ==
    /\ client[c] = "ack"
    /\ Readable(to_client[c], server = "killed")
    /\ \E piece \in Pieces(to_client[c]) :
          /\ Cut(c, piece)
          /\ \/ /\ ~StartsWith(piece, <<"s", "ma">>)
                /\ Ends(c, "0")
                /\ UNCHANGED to_server
             \/ /\ StartsWith(piece, <<"s", "ma">>)
                /\ Ends(c, "IO")
                /\ UNCHANGED to_server
             \/ /\ StartsWith(piece, <<"s", "ma">>) /\ file[c].size > 0
                /\ client' = [client EXCEPT ![c] = "last"]
                /\ to_client' = [to_client EXCEPT ![c] = Rest(@, piece)]
                /\ to_server' = [to_server EXCEPT
                                   ![c] = @ \o Message(Ended(file[c].content))]
                /\ UNCHANGED code
    /\ UNCHANGED <<file, backlog, server, serving, sockets, printed>>

\* The answer that says ACK is the one taken for an error.
ReadLast(c) ==
    /\ client[c] = "last"
    /\ Readable(to_client[c], server = "killed")
    /\ \E piece \in Pieces(to_client[c]) :
          /\ Cut(c, piece)
          /\ Ends(c, IF StartsWith(piece, <<"ACK">>) THEN "-1" ELSE "0")
    /\ UNCHANGED <<file, to_server, backlog, server, serving, sockets, printed>>

Killed(c) ==
    /\ client[c] \in {"connected", "ack", "last"}
    /\ client' = [client EXCEPT ![c] = "killed"]
    /\ Closes(c)
    /\ UNCHANGED <<file, code, to_server, backlog, server, serving, sockets, printed,
                   cut>>

-----------------------------------------------------------------------------
(* The server. No socket is closed.                                         *)

Accept(c) ==
    /\ server = "accept" /\ c \in backlog
    /\ sockets > 0
    /\ sockets' = sockets - 1
    /\ backlog' = backlog \ {c}
    /\ server' = "size" /\ serving' = c
    /\ UNCHANGED <<file, client, code, wires, printed, cut>>

\* Without a descriptor accept fails at once, whoever waits. Nobody looks at the
\* ERR_IO, which is then the socket.
AcceptFails ==
    /\ server = "accept" /\ sockets = 0
    /\ server' = "size"
    /\ UNCHANGED <<file, client, code, wires, backlog, serving, sockets, printed, cut>>

\* tcp_read and tcp_send refuse that socket: the length is that of an empty
\* text, 0, and so is the file.
ServeNobody ==
    /\ serving = Nobody
    /\ \/ server = "size" /\ server' = "file"
       \/ server = "file" /\ server' = "accept"
    /\ UNCHANGED <<file, client, code, wires, backlog, serving, sockets, printed, cut>>

Serves(c, place) == serving = c /\ server = place /\ Readable(to_server[c], Gone(c))

\* Fault: nothing is sent.
SendsNothing(c, text, place, next) ==
    /\ UNCHANGED to_client
    /\ server' = place /\ serving' = next

\* tcp_send, and on to the next place; a client that has gone may have reset the
\* connection, and the SIGPIPE ends the server.
Sends(c, text, place, next) ==
    \/ /\ to_client' = [to_client EXCEPT ![c] = IF Gone(c) THEN <<>>
                                               ELSE @ \o Message(text)]
       /\ server' = place /\ serving' = next
    \/ /\ Gone(c)
       /\ server' = "killed" /\ serving' = Nobody
       /\ UNCHANGED to_client

\* Fault: a file of 1024 bytes is small.
SmallOrEqual(length) == length <= BigSize

Small(length) == length < BigSize

ReadSize(c) ==
    /\ Serves(c, "size")
    /\ \E piece \in Pieces(to_server[c]) :
          /\ to_server' = [to_server EXCEPT
                             ![c] = IF Small(atoi(piece)) THEN Rest(@, piece) ELSE <<>>]
          /\ Cut(c, piece)
          /\ IF Small(atoi(piece))
             THEN Sends(c, smallFileAck \o end, "file", c)
             ELSE Sends(c, bigFileAck \o end, "accept", Nobody)
    /\ UNCHANGED <<file, client, code, backlog, sockets, printed>>

\* Fault: the server stays with a client it has answered.
Stays(c) == c

NextClient(c) == Nobody

\* The acknowledgement is put together, and the file is sent instead.
ReadFile(c) ==
    /\ Serves(c, "file")
    /\ \E piece \in Pieces(to_server[c]) :
          /\ to_server' = [to_server EXCEPT ![c] = <<>>]
          /\ printed' = [printed EXCEPT ![c] = Message(piece)]
          /\ Cut(c, piece)
          /\ Sends(c, piece, "accept", NextClient(c))
    /\ UNCHANGED <<file, client, code, backlog, sockets>>

-----------------------------------------------------------------------------

ClientStep(c) == ReadAck(c) \/ ReadLast(c)
ServerStep ==
    \/ \E c \in Clients : Accept(c) \/ ReadSize(c) \/ ReadFile(c)
    \/ AcceptFails
    \/ ServeNobody

Next ==
    \/ \E c \in Clients, f \in Files : Run(c, f)
    \/ \E c \in Clients : SendSize(c) \/ ClientStep(c) \/ Killed(c)
    \/ ServerStep

Spec == Init /\ [][Next]_vars

\* Programs that can run do run. Nobody has to start a client, and one that has
\* connected may be silent for ever.
FairSpec == Spec /\ WF_vars(ServerStep) /\ \A c \in Clients : WF_vars(ClientStep(c))

-----------------------------------------------------------------------------
(* Properties.                                                              *)

\* Every variable has its type; the server serves somebody between accept and
\* accept only, and nobody it has yet to accept.
TypeOK ==
    /\ client \in [Clients -> {"away", "connected", "ack", "last", "ended", "killed"}]
    /\ code \in [Clients -> {"none", "0", "-1", "IO", "INVALID_ARGUMENT"}]
    /\ server \in {"accept", "size", "file", "killed"}
    /\ serving \in (Clients \cup {Nobody}) \ backlog
    /\ serving # Nobody => server \in {"size", "file"}
    /\ sockets \in 0 .. MaxSockets
    /\ backlog \subseteq Clients /\ cut \subseteq Clients

\* The two ends never wait for each other: a client waits for an answer only
\* while the server has yet to accept it, or has bytes of it to read, however
\* the messages before were cut.
NeverStuck ==
    \A c \in Clients :
        client[c] \in {"ack", "last"} /\ to_client[c] = <<>> =>
            \/ server = "killed"
            \/ c \in backlog
            \/ serving = c /\ to_server[c] # <<>>

\* A transfer whose messages were each read in one piece has come to what the
\* protocol is for: a small file is printed as it is, with its end, and a big
\* one is not. A text is meant: one without a NUL.
Delivered ==
    \A c \in Clients :
        /\ client[c] = "ended" /\ code[c] \in {"0", "-1"} /\ c \notin cut
        /\ \A n \in DOMAIN file[c].content : file[c].content[n] # "NUL"
        => printed[c] = IF file[c].size < BigSize
                        THEN Message(file[c].content \o end) ELSE <<>>

\* A client that waits for an answer for ever is one the server never accepts:
\* because its descriptors have run out, or because it waits for the length of
\* a client that has connected and stays silent. None that is accepted waits for
\* ever, and none keeps the server by being killed, or by where it cuts.
AllServed ==
    \A c \in Clients :
        <>[](client[c] \in {"ack", "last"}) =>
            \/ <>[](c \in backlog /\ sockets = 0)
            \/ \E d \in Clients :
                  <>[](c \in backlog /\ serving = d /\ client[d] = "connected")

=============================================================================
