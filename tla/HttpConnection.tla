--------------------------- MODULE HttpConnection ---------------------------
(***************************************************************************)
(* One connection of the HTTP server: handle_connection reads what TCP     *)
(* hands over, in pieces of any length, into one buffer, tries to parse    *)
(* the whole of it after every piece, and calls handle_http_message when   *)
(* it has a message. The client, external, sends its next request when it  *)
(* has the reply to the last.                                              *)
(***************************************************************************)
EXTENDS HttpMessage

CONSTANTS
    Requests,     \* the requests the client may send
    MaxRequests,  \* bound: how many of them
    BufferSize    \* BUFFER_SIZE, in tokens

ASSUME BoundsAssumption == MaxRequests \in Nat /\ BufferSize \in Nat \ {0}

VARIABLES
    asked,           \* the requests sent on the connection
    wire,            \* bytes sent and not yet read
    buffer,          \* the bytes read, those of earlier messages behind them
    bytes_received,  \* how many of them belong to the message under way
    calls,           \* what handle_http_message was called for
    connection       \* "open"; "dropped" by the server; "left" by the client

vars == <<asked, wire, buffer, bytes_received, calls, connection>>

Init ==
    /\ asked = <<>> /\ wire = <<>>
    /\ buffer = <<>> /\ bytes_received = 0
    /\ calls = <<>>
    /\ connection = "open"

-----------------------------------------------------------------------------
(* The client. A request is a record: method, path, version, args and       *)
(* headers as sequences of name and value, body.                            *)

Joined(parts) ==
    LET to[n \in 0 .. Len(parts)] == IF n = 0 THEN <<>> ELSE to[n - 1] \o parts[n]
    IN to[Len(parts)]

Query(args) ==
    Joined([k \in DOMAIN args |-> <<IF k = 1 THEN "?" ELSE "&", args[k].name>>
                                   \o args[k].value])

HeaderLines(headers) ==
    Joined([k \in DOMAIN headers |-> <<headers[k].name>> \o KeyDelim
                                      \o headers[k].value \o LineDelim])

Encoded(r) ==
    <<r.method, " ">> \o r.path \o Query(r.args) \o <<" ">> \o r.version
    \o LineDelim \o HeaderLines(r.headers) \o LineDelim \o r.body

\* What no part of the start line has in it, and no part of a header line.
Words == STRING \ {" ", "CRLF", "NUL"}
InLine == STRING \ {"CRLF", "NUL"}

\* The headers as the client means them.
Stated(headers) ==
    [k \in DOMAIN headers |-> [key |-> <<headers[k].name>>, value |-> headers[k].value]]

\* A request as a client makes it: the parts have none of the delimiters that
\* end them, the first Content-Length states the length of the body, and before
\* its first NUL the body has nothing that ends the key of a header (a JPEG file
\* has a NUL near its start).
Framed(r) ==
    /\ r.method \in Words /\ r.path \in Seq(Words)
    /\ r.args \in Seq([name : Words, value : Seq(Words)])
    /\ r.version \in Seq(InLine)
    /\ r.headers \in Seq([name : InLine, value : Seq(InLine)])
    /\ r.body \in Seq(STRING)
    /\ ContentLength(Stated(r.headers)) = Len(r.body)
    /\ \A k \in Hits(r.body, 1, KeyDelim) : \E j \in 1 .. k : r.body[j] = "NUL"

ASSUME RequestsAssumption == \A r \in Requests : Framed(r)

Ask(r) ==
    /\ connection = "open"
    /\ Len(asked) < MaxRequests
    /\ Len(calls) = Len(asked)
    /\ asked' = Append(asked, r)
    /\ wire' = wire \o Encoded(r)
    /\ UNCHANGED <<buffer, bytes_received, calls, connection>>

Leave ==
    /\ connection = "open"
    /\ wire = <<>> /\ Len(calls) = Len(asked)
    /\ connection' = "left"
    /\ UNCHANGED <<asked, wire, buffer, bytes_received, calls>>

-----------------------------------------------------------------------------
(* The read loop.                                                           *)

\* Fault: the text read is not ended.
Unterminated(piece) ==
    SubSeq(buffer, 1, bytes_received) \o piece
    \o SubSeq(buffer, bytes_received + Len(piece) + 1, Len(buffer))

\* buffer[bytes_received] = 0 ends the text read; behind it lies what is left of
\* an earlier message.
Terminated(piece) ==
    SubSeq(buffer, 1, bytes_received) \o piece \o <<"NUL">>
    \o SubSeq(buffer, bytes_received + Len(piece) + 2, Len(buffer))

\* memset(buffer, 0, sizeof(*buffer)) clears one character.
Cleared(b) == [b EXCEPT ![1] = "NUL"]

\* One turn of the loop: tcp_read, the end of the text, http_parse_message. A
\* message is handled and the rest of the buffer given up; an error, or a
\* buffer that is full, ends the connection.
Read(n) ==
    /\ connection = "open"
    /\ n <= Len(wire) /\ n <= BufferSize - bytes_received
    /\ wire' = SubSeq(wire, n + 1, Len(wire))
    /\ \E text \in {Terminated(SubSeq(wire, 1, n))} :
       \E msg \in {Parse(text, bytes_received + n)} :
          \/ /\ msg.result = 1
             /\ calls' = Append(calls, Handle(msg))
             /\ bytes_received' = 0
             /\ buffer' = Cleared(text)
             /\ UNCHANGED connection
          \/ /\ msg.result = 0
             /\ bytes_received' = bytes_received + n
             /\ buffer' = text
             /\ connection' = IF bytes_received' >= BufferSize THEN "dropped"
                              ELSE "open"
             /\ UNCHANGED calls
          \/ /\ msg.result = -1
             /\ connection' = "dropped"
             /\ UNCHANGED <<calls, bytes_received, buffer>>
    /\ UNCHANGED asked

Next ==
    \/ \E r \in Requests : Ask(r)
    \/ Leave
    \/ \E n \in 1 .. BufferSize : Read(n)

Spec == Init /\ [][Next]_vars

-----------------------------------------------------------------------------
(* What the request asks for, from its parts.                               *)

Args(r, name) == {k \in DOMAIN r.args : r.args[k].name = name}
Arg(r, name) == r.args[CHOOSE k \in Args(r, name) : \A j \in Args(r, name) : k <= j].value

Acceptable(r) ==
    /\ r.version = <<"HTTP/1.1">>
    /\ Len(Encoded(r)) < BufferSize
    /\ Len(r.headers) <= MaxHeaders

Asks(r) ==
    CASE r.path \in {<<"/">>, <<"/index.html">>} -> Call("file", Blank, "none", <<>>)
      [] r.path = <<"/imgfs/list">> -> Call("list", Blank, "none", <<>>)
      [] r.path = <<"/imgfs/insert">> /\ r.method = "POST" ->
            IF Args(r, "name=") = {} THEN Refused("INVALID_ARGUMENT")
            ELSE Call("insert", Arg(r, "name="), "none", r.body)
      [] r.path = <<"/imgfs/read">> ->
            IF {} \in {Args(r, "res="), Args(r, "img_id=")}
            THEN Refused("INVALID_ARGUMENT")
            ELSE Call("read", Arg(r, "img_id="), Resolution(Arg(r, "res=")), <<>>)
      [] r.path = <<"/imgfs/delete">> ->
            IF Args(r, "img_id=") = {} THEN Refused("INVALID_ARGUMENT")
            ELSE Call("delete", Arg(r, "img_id="), "none", <<>>)
      [] OTHER -> Refused("INVALID_COMMAND")

\* A request that says nothing twice: a path of one token, arguments where they
\* are needed and none for "/", values of a length the handlers take, and outside
\* the name of an argument no such name, nor an '&', up to where the text ends.
Marks == {"&"} \cup DOMAIN MaxValue

TakesArgs(r) ==
    \/ r.path \in {<<"/imgfs/read">>, <<"/imgfs/delete">>}
    \/ r.path = <<"/imgfs/insert">> /\ r.method = "POST"

Plain(r) ==
    /\ Len(r.path) = 1 /\ r.path # <<"?">>
    /\ r.path = <<"/">> => r.args = <<>>
    /\ TakesArgs(r) => r.args # <<>>
    /\ \A k \in DOMAIN r.args :
          /\ \A i \in DOMAIN r.args[k].value : r.args[k].value[i] \notin Marks
          /\ r.args[k].name \in DOMAIN MaxValue =>
                Len(r.args[k].value) \in 1 .. MaxValue[r.args[k].name]
    /\ \A k \in Len(r.path \o Query(r.args)) + 3 .. Len(Encoded(r)) :
          Encoded(r)[k] \in Marks => \E j \in 1 .. k : Encoded(r)[j] = "NUL"

-----------------------------------------------------------------------------
(* Properties.                                                              *)

\* Every request is understood as what it is, whole and once, however TCP cuts
\* it, and whatever an earlier and longer message left in the buffer.
Understood ==
    /\ Len(calls) <= Len(asked)
    /\ \A k \in DOMAIN calls : calls[k] = Asks(asked[k])

\* The server drops a connection for a request that cannot be accepted only:
\* a request that has arrived in part is not taken for a malformed one.
DroppedForCause ==
    connection = "dropped" => ~Acceptable(asked[Len(asked)])

\* The read loop never waits for a byte the client has not sent: as long as a
\* request is without its call there is something to read, and room for it.
NeverStarved ==
    connection = "open" /\ Len(calls) < Len(asked) =>
        wire # <<>> /\ bytes_received < BufferSize

=============================================================================
