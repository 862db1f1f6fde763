------------------------- MODULE TcpTransferProofs --------------------------
(***************************************************************************)
(* The TCP test programs, for any number of clients, any files and any     *)
(* length of a message: types, and that the two ends never wait for each   *)
(* other. The invariant says what a client that waits can count on: the    *)
(* server has yet to read something of it, or has answered. For messages   *)
(* with room for the digits of a length: what a transfer delivers that no  *)
(* read has cut. Its invariant says where the one message of the transfer  *)
(* is, and what it is.                                                     *)
(***************************************************************************)
EXTENDS TcpTransfer, FiniteSetTheorems, WellFoundedInduction, TLAPS

-----------------------------------------------------------------------------
(* Messages.                                                                *)

\* Every token that may be in a message.
Tokens ==
    {"NUL", "<EOF>", "b", "ig", "s", "ma", "ll", "0", "1", "2", "3", "4", "5", "6",
     "7", "8", "9"}
    \cup UNION {{f.content[n] : n \in DOMAIN f.content} : f \in Files}

Text == Seq(Tokens)

LEMMA FileText == \A f \in Files : f.size \in Nat /\ f.content \in Text
<1> TAKE f \in Files
<1>1. f.size \in Nat /\ f.content \in Seq(STRING)
  BY FilesAssumption
<1>2. DOMAIN f.content = 1 .. Len(f.content) /\ Len(f.content) \in Nat
  BY <1>1
<1>3. \A n \in DOMAIN f.content : f.content[n] \in Tokens
  BY DEF Tokens
<1>4. f.content = [n \in 1 .. Len(f.content) |-> f.content[n]]
  BY <1>1
<1> QED
  BY <1>1, <1>2, <1>3, <1>4 DEF Text

LEMMA MessageFacts ==
    ASSUME NEW text \in Text
    PROVE  /\ Message(text) \in Text
           /\ Len(Message(text)) = MAX_ANSWER_LENGTH
           /\ text # <<>> => Message(text)[1] = text[1]
<1> USE LengthAssumption
<1>1. Message(text) \in [1 .. MAX_ANSWER_LENGTH -> Tokens]
  <2>1. "NUL" \in Tokens
    BY DEF Tokens
  <2>2. \A n \in 1 .. MAX_ANSWER_LENGTH : n <= Len(text) => text[n] \in Tokens
    BY DEF Text
  <2> QED
    BY <2>1, <2>2 DEF Message
<1>2. Message(text) \in Text /\ Len(Message(text)) = MAX_ANSWER_LENGTH
  BY <1>1 DEF Text
<1>3. text # <<>> => Message(text)[1] = text[1]
  BY DEF Message, Text
<1> QED
  BY <1>2, <1>3

LEMMA DecimalType == ASSUME NEW n \in Nat PROVE Decimal(n) \in Text
<1>1. \A k \in 1 .. 10 : Digit[k] \in Tokens
  BY DEF Digit, Tokens
<1>2. \A power \in {1, 10, 100, 1000} : ((n \div power) % 10) + 1 \in 1 .. 10
  <2>1. \A power \in {1, 10, 100, 1000} : n \div power \in Nat
    OBVIOUS
  <2> QED
    BY <2>1
<1> DEFINE d(power) == Digit[((n \div power) % 10) + 1]
<1>3. d(1) \in Tokens /\ d(10) \in Tokens /\ d(100) \in Tokens /\ d(1000) \in Tokens
  BY <1>1, <1>2
<1>4. <<d(1)>> \in Text /\ <<d(10), d(1)>> \in Text /\ <<d(100), d(10), d(1)>> \in Text
      /\ <<d(1000), d(100), d(10), d(1)>> \in Text
  <2> HIDE DEF d
  <2> QED
    BY <1>3 DEF Text
<1> QED
  BY <1>4 DEF Decimal

LEMMA EndedType == ASSUME NEW text \in Text PROVE Ended(text) \in Text
<1> DEFINE kept == {n \in DOMAIN text : \A k \in 1 .. n : text[k] # "NUL"}
<1>0. Len(text) \in Nat /\ DOMAIN text = 1 .. Len(text)
  BY DEF Text
<1>1. IsFiniteSet(1 .. Len(text)) /\ Cardinality(1 .. Len(text)) = Len(text)
  <2>1. 1 \in Int /\ Len(text) \in Int
    BY <1>0
  <2>2. /\ IsFiniteSet(1 .. Len(text))
        /\ Cardinality(1 .. Len(text)) = IF 1 > Len(text) THEN 0 ELSE Len(text) - 1 + 1
    BY <2>1, FS_Interval, Zenon
  <2> QED
    BY <1>0, <2>2
<1>2. kept \subseteq 1 .. Len(text)
  BY <1>0
<1>3. IsFiniteSet(kept) /\ Cardinality(kept) <= Len(text)
  BY <1>1, <1>2, FS_Subset
<1>4. Cardinality(kept) \in Nat
  BY <1>3, FS_CardinalityType
<1> HIDE DEF kept
<1>5. SubSeq(text, 1, Cardinality(kept)) \in Text
  BY <1>0, <1>3, <1>4 DEF Text
<1>6. end \in Text
  BY DEF end, Text, Tokens
<1>7. SubSeq(text, 1, Cardinality(kept)) \o end \in Text
  BY <1>5, <1>6 DEF Text
<1> QED
  BY <1>7 DEF Ended, kept

\* A read takes a beginning of the wire, at least one byte if there is one, and
\* a message's length at most.
LEMMA PieceFacts ==
    ASSUME NEW wire \in Text, NEW piece \in Pieces(wire)
    PROVE  /\ piece \in Text /\ Rest(wire, piece) \in Text
           /\ Len(Rest(wire, piece)) = Len(wire) - Len(piece)
           /\ wire # <<>> => Len(piece) >= 1 /\ piece[1] = wire[1]
           /\ wire = <<>> => piece = <<>>
           /\ Len(piece) <= MAX_ANSWER_LENGTH
<1> USE LengthAssumption
<1>1. CASE wire = <<>>
  BY <1>1 DEF Pieces, Rest, Text
<1>2. CASE wire # <<>>
  <2>1. PICK n \in 1 .. MAX_ANSWER_LENGTH : n <= Len(wire) /\ piece = SubSeq(wire, 1, n)
    BY <1>2 DEF Pieces, Text
  <2>2. piece \in Text /\ Len(piece) = n /\ piece[1] = wire[1]
    BY <2>1 DEF Text
  <2> QED
    BY <1>2, <2>1, <2>2 DEF Rest, Text
<1> QED
  BY <1>1, <1>2

LEMMA Words ==
    /\ smallFileAck \o end \in Text
    /\ bigFileAck \o end \in Text /\ bigFileAck \o end # <<>>
    /\ (bigFileAck \o end)[1] = "b"
<1> smallFileAck \in Text /\ bigFileAck \in Text /\ end \in Text
  BY DEF smallFileAck, bigFileAck, end, Text, Tokens
<1>1. smallFileAck \o end \in Text /\ bigFileAck \o end \in Text
  BY DEF Text
<1>2. bigFileAck \o end # <<>> /\ (bigFileAck \o end)[1] = "b"
  BY DEF bigFileAck, end
<1> QED
  BY <1>1, <1>2

-----------------------------------------------------------------------------
(* The invariant.                                                           *)

\* What the wires carry is text, and a client that has not run has none.
WiresOK ==
    /\ to_server \in [Clients -> Text] /\ to_client \in [Clients -> Text]
    /\ file \in [Clients -> Files \cup {NoFile}]
    /\ \A c \in Clients :
          client[c] = "away" =>
             /\ c \notin backlog /\ serving # c
             /\ to_client[c] = <<>> /\ to_server[c] = <<>>

\* A client that has connected and sent nothing is in the backlog, or the server
\* waits for its length.
Silent(c) ==
    /\ to_server[c] = <<>> /\ to_client[c] = <<>>
    /\ c \in backlog \/ (serving = c /\ server = "size")

\* What a client that waits for the first answer counts on. After an answer that
\* sends it on to its file there is a second one behind it, or the server waits
\* for the file.
AckComes(c) ==
    \/ server = "killed"
    \/ c \in backlog /\ to_client[c] = <<>> /\ to_server[c] # <<>>
    \/ serving = c /\ server = "size" /\ to_client[c] = <<>> /\ to_server[c] # <<>>
    \/ serving = c /\ server = "file" /\ to_client[c] # <<>>
    \/ /\ c \notin backlog /\ serving # c /\ to_client[c] # <<>>
       /\ to_client[c][1] # "s" \/ Len(to_client[c]) > MAX_ANSWER_LENGTH

\* And for the last one.
LastComes(c) ==
    \/ server = "killed"
    \/ serving = c /\ server = "file" /\ to_server[c] # <<>>
    \/ to_client[c] # <<>>

Coming(c) ==
    /\ client[c] = "connected" => Silent(c)
    /\ client[c] = "ack" => AckComes(c)
    /\ client[c] = "last" => LastComes(c)

IInv == TypeOK /\ WiresOK /\ \A c \in Clients : Coming(c)

LEMMA InitInv == Init => IInv
<1> SUFFICES ASSUME Init PROVE IInv
  OBVIOUS
<1>1. <<>> \in Text
  BY DEF Text
<1>2. TypeOK
  BY NobodyAssumption, SocketsAssumption DEF Init, TypeOK
<1>3. WiresOK
  BY <1>1, NobodyAssumption DEF Init, WiresOK
<1>4. \A c \in Clients : Coming(c)
  BY DEF Init, Coming
<1> QED
  BY <1>2, <1>3, <1>4 DEF IInv

\* What nobody else's step takes from a client: its own bytes, its place in the
\* backlog, and the server while it serves it.
LEMMA Others ==
    ASSUME IInv, NEW c \in Clients,
           client'[c] = client[c], to_server'[c] = to_server[c],
           to_client'[c] = to_client[c],
           c \in backlog' <=> c \in backlog,
           \/ serving = c /\ serving' = c /\ server' = server
           \/ serving # c /\ serving' # c /\ server # "killed"
           \/ UNCHANGED <<server, serving>>
    PROVE  Coming(c)'
BY DEF IInv, Coming, Silent, AckComes, LastComes

LEMMA RunStep == ASSUME IInv, NEW c \in Clients, NEW f \in Files, Run(c, f) PROVE IInv'
<1> USE NobodyAssumption
<1>1. TypeOK /\ WiresOK
  BY DEF IInv
<1>2. <<>> \in Text
  BY DEF Text
<1>3. TypeOK'
  BY <1>1 DEF TypeOK, WiresOK, Run, Ends, Closes
<1>4. WiresOK'
  BY <1>1, <1>2 DEF TypeOK, WiresOK, Run, Ends, Closes
<1>5. Coming(c)'
  BY <1>1 DEF TypeOK, WiresOK, Run, Ends, Closes, Coming, Silent
<1>6. ASSUME NEW d \in Clients, d # c PROVE Coming(d)'
  <2>1. /\ client'[d] = client[d] /\ to_server'[d] = to_server[d]
        /\ to_client'[d] = to_client[d]
        /\ d \in backlog' <=> d \in backlog
        /\ UNCHANGED <<server, serving>>
    BY <1>1, <1>6 DEF TypeOK, WiresOK, Run, Ends, Closes
  <2> QED
    BY <2>1, Others
<1> QED
  BY <1>3, <1>4, <1>5, <1>6 DEF IInv

\* The message that carries the length of a file.
LEMMA SizeMessage ==
    ASSUME NEW f \in Files \cup {NoFile}
    PROVE  /\ Message(Decimal(f.size) \o end) \in Text
           /\ Message(Decimal(f.size) \o end) # <<>>
<1>1. f.size \in Nat
  BY FileText DEF NoFile
<1>2. Decimal(f.size) \in Text
  BY <1>1, DecimalType
<1>3. Decimal(f.size) \o end \in Text
  BY <1>2 DEF Text, end, Tokens
<1> QED
  BY <1>3, MessageFacts, LengthAssumption DEF Text

LEMMA SendSizeStep == ASSUME IInv, NEW c \in Clients, SendSize(c) PROVE IInv'
<1>1. TypeOK /\ WiresOK /\ Coming(c) /\ client[c] = "connected"
  BY DEF IInv, SendSize
<1>2. Silent(c)
  BY <1>1 DEF Coming
<1> DEFINE m == Message(Decimal(file[c].size) \o end)
<1>3. m \in Text /\ m # <<>>
  BY <1>1, SizeMessage DEF WiresOK
<1>4. /\ client' = [client EXCEPT ![c] = "ack"]
      /\ to_server' = [to_server EXCEPT ![c] = m]
      /\ UNCHANGED <<file, code, to_client, backlog, server, serving, sockets, cut>>
  BY DEF SendSize
<1> HIDE DEF m
<1>5. TypeOK'
  BY <1>1, <1>4 DEF TypeOK
<1>6. WiresOK'
  BY <1>1, <1>3, <1>4 DEF TypeOK, WiresOK
<1>7. Coming(c)'
  BY <1>1, <1>2, <1>3, <1>4 DEF TypeOK, WiresOK, Silent, Coming, AckComes
<1>8. ASSUME NEW d \in Clients, d # c PROVE Coming(d)'
  <2>1. /\ client'[d] = client[d] /\ to_server'[d] = to_server[d]
        /\ to_client'[d] = to_client[d]
        /\ d \in backlog' <=> d \in backlog
        /\ UNCHANGED <<server, serving>>
    BY <1>1, <1>4, <1>8 DEF TypeOK, WiresOK
  <2> QED
    BY <2>1, Others
<1> QED
  BY <1>5, <1>6, <1>7, <1>8 DEF IInv

\* A client that reads its last answer, or is killed, waits no more.
LEMMA LeaveStep ==
    ASSUME IInv, NEW c \in Clients, ReadLast(c) \/ Killed(c)
    PROVE  IInv'
<1>1. TypeOK /\ WiresOK
  BY DEF IInv
<1>2. <<>> \in Text
  BY DEF Text
<1>3. /\ client' = [client EXCEPT ![c] = client'[c]]
      /\ client'[c] \in {"ended", "killed"} /\ client[c] # "away"
      /\ to_client' = [to_client EXCEPT ![c] = <<>>]
      /\ UNCHANGED <<file, to_server, backlog, server, serving, sockets>>
      /\ code' \in [Clients -> {"none", "0", "-1", "IO", "INVALID_ARGUMENT"}]
      /\ cut' \subseteq Clients
  BY <1>1 DEF TypeOK, ReadLast, Killed, Ends, Closes, Cut
<1>4. TypeOK'
  BY <1>1, <1>3 DEF TypeOK
<1>5. WiresOK'
  BY <1>1, <1>2, <1>3 DEF TypeOK, WiresOK
<1>6. ASSUME NEW d \in Clients PROVE Coming(d)'
  <2>1. CASE d = c
    BY <2>1, <1>1, <1>3 DEF TypeOK, Coming
  <2>2. CASE d # c
    <3>1. /\ client'[d] = client[d] /\ to_client'[d] = to_client[d]
          /\ to_server'[d] = to_server[d]
          /\ d \in backlog' <=> d \in backlog
          /\ UNCHANGED <<server, serving>>
      BY <2>2, <1>1, <1>3 DEF TypeOK, WiresOK
    <3> QED
      BY <3>1, Others
  <2> QED
    BY <2>1, <2>2
<1> QED
  BY <1>4, <1>5, <1>6 DEF IInv

\* After an answer that begins with "small" the server waits for the file, or
\* has answered a second time; the client sends it.
LEMMA AckStep == ASSUME IInv, NEW c \in Clients, ReadAck(c) PROVE IInv'
<1>1. TypeOK /\ WiresOK /\ Coming(c)
  BY DEF IInv
<1>2. <<>> \in Text /\ to_client[c] \in Text /\ to_server[c] \in Text
  BY <1>1 DEF Text, WiresOK
<1>3. client[c] = "ack" /\ Readable(to_client[c], server = "killed")
  BY DEF ReadAck
<1>4. PICK piece \in Pieces(to_client[c]) :
        /\ Cut(c, piece)
        /\ \/ \E result \in {"0", "IO"} : Ends(c, result) /\ UNCHANGED to_server
           \/ /\ StartsWith(piece, <<"s", "ma">>) /\ file[c].size > 0
              /\ client' = [client EXCEPT ![c] = "last"]
              /\ to_client' = [to_client EXCEPT ![c] = Rest(@, piece)]
              /\ to_server' = [to_server EXCEPT
                                 ![c] = @ \o Message(Ended(file[c].content))]
              /\ UNCHANGED code
  BY DEF ReadAck
<1>5. UNCHANGED <<file, backlog, server, serving, sockets>>
  BY DEF ReadAck
<1>6. /\ piece \in Text /\ Rest(to_client[c], piece) \in Text
      /\ Len(Rest(to_client[c], piece)) = Len(to_client[c]) - Len(piece)
      /\ to_client[c] # <<>> => Len(piece) >= 1 /\ piece[1] = to_client[c][1]
      /\ to_client[c] = <<>> => piece = <<>>
      /\ Len(piece) <= MAX_ANSWER_LENGTH
  BY <1>2, PieceFacts
<1>7. cut' \subseteq Clients
  BY <1>1, <1>4 DEF TypeOK, Cut
<1>8. \A d \in Clients : d # c =>
        /\ client'[d] = client[d] /\ to_client'[d] = to_client[d]
        /\ to_server'[d] = to_server[d]
  BY <1>1, <1>4 DEF TypeOK, WiresOK, Ends, Closes
<1>9. \A d \in Clients : d # c => Coming(d)'
  BY <1>5, <1>8, Others
<1>10. CASE \E result \in {"0", "IO"} : Ends(c, result) /\ UNCHANGED to_server
  <2>1. TypeOK'
    BY <1>1, <1>5, <1>7, <1>10 DEF TypeOK, Ends, Closes
  <2>2. WiresOK'
    BY <1>1, <1>2, <1>5, <1>10 DEF TypeOK, WiresOK, Ends, Closes
  <2>3. Coming(c)'
    BY <1>1, <1>10 DEF TypeOK, Ends, Coming
  <2> QED
    BY <1>9, <2>1, <2>2, <2>3 DEF IInv
<1>11. CASE /\ StartsWith(piece, <<"s", "ma">>) /\ file[c].size > 0
            /\ client' = [client EXCEPT ![c] = "last"]
            /\ to_client' = [to_client EXCEPT ![c] = Rest(@, piece)]
            /\ to_server' = [to_server EXCEPT
                               ![c] = @ \o Message(Ended(file[c].content))]
            /\ UNCHANGED code
  <2>1. file[c].content \in Text
    BY <1>1, FileText, <1>2 DEF WiresOK, NoFile
  <2>2. /\ Message(Ended(file[c].content)) \in Text
        /\ Len(Message(Ended(file[c].content))) = MAX_ANSWER_LENGTH
    BY <2>1, EndedType, MessageFacts
  <2>3. /\ to_server[c] \o Message(Ended(file[c].content)) \in Text
        /\ to_server[c] \o Message(Ended(file[c].content)) # <<>>
    BY <1>2, <2>2, LengthAssumption DEF Text
  <2>4. TypeOK'
    BY <1>1, <1>5, <1>7, <1>11 DEF TypeOK
  <2>5. WiresOK'
    BY <1>1, <1>5, <1>6, <1>11, <2>3 DEF TypeOK, WiresOK
  <2>6. piece # <<>> /\ piece[1] = "s"
    <3>1. Len(piece) >= 2 /\ SubSeq(piece, 1, 2) = <<"s", "ma">>
      BY <1>11 DEF StartsWith
    <3>2. SubSeq(piece, 1, 2)[1] = piece[1]
      BY <1>6, <3>1 DEF Text
    <3>3. <<"s", "ma">>[1] = "s"
      OBVIOUS
    <3>4. piece # <<>>
      BY <1>6, <3>1 DEF Text
    <3> QED
      BY <3>1, <3>2, <3>3, <3>4, Zenon
  <2>7. to_client[c] # <<>> /\ to_client[c][1] = "s"
    BY <1>6, <2>6
  <2>8. \/ server = "killed"
        \/ serving = c /\ server = "file"
        \/ Len(to_client[c]) > MAX_ANSWER_LENGTH
    BY <1>1, <1>3, <2>7 DEF Coming, AckComes
  <2>9. LastComes(c)'
    <3>1. to_client'[c] = Rest(to_client[c], piece) /\ to_server'[c] # <<>>
      BY <1>1, <1>11, <2>3 DEF WiresOK
    <3>2. Len(to_client[c]) > MAX_ANSWER_LENGTH => to_client'[c] # <<>>
      BY <3>1, <1>2, <1>6, LengthAssumption DEF Text
    <3> QED
      BY <1>5, <2>8, <3>1, <3>2 DEF LastComes
  <2>10. Coming(c)'
    BY <1>1, <1>11, <2>9 DEF TypeOK, Coming
  <2> QED
    BY <1>9, <2>4, <2>5, <2>10 DEF IInv
<1> QED
  BY <1>4, <1>10, <1>11

LEMMA AcceptStep == ASSUME IInv, NEW c \in Clients, Accept(c) PROVE IInv'
<1> USE NobodyAssumption
<1>1. TypeOK /\ WiresOK /\ Coming(c)
  BY DEF IInv
<1>2. TypeOK'
  <2>1. sockets' \in 0 .. MaxSockets
    BY <1>1, SocketsAssumption DEF TypeOK, Accept
  <2> QED
    BY <1>1, <2>1 DEF TypeOK, Accept, wires
<1>3. WiresOK'
  BY <1>1 DEF TypeOK, WiresOK, Accept, wires
<1>5. Coming(c)'
  BY <1>1 DEF TypeOK, Accept, wires, Coming, Silent, AckComes, LastComes
<1>4. ASSUME NEW d \in Clients, d # c PROVE Coming(d)'
  <2>1. /\ client'[d] = client[d] /\ to_server'[d] = to_server[d]
        /\ to_client'[d] = to_client[d]
        /\ d \in backlog' <=> d \in backlog
        /\ serving # d /\ serving' # d /\ server # "killed"
    BY <1>1, <1>4 DEF TypeOK, Accept, wires
  <2> QED
    BY <2>1, Others
<1> QED
  BY <1>2, <1>3, <1>4, <1>5 DEF IInv

\* Without a socket the server goes round for nobody.
LEMMA NobodyStep == ASSUME IInv, AcceptFails \/ ServeNobody PROVE IInv'
<1> USE NobodyAssumption
<1>1. TypeOK /\ WiresOK
  BY DEF IInv
<1>2. /\ UNCHANGED <<file, client, code, to_server, to_client, backlog, serving,
                     sockets, cut>>
      /\ serving = Nobody /\ server # "killed" /\ server' \in {"size", "file", "accept"}
  BY <1>1 DEF AcceptFails, ServeNobody, wires, TypeOK
<1>3. TypeOK' /\ WiresOK'
  BY <1>1, <1>2 DEF TypeOK, WiresOK
<1>4. ASSUME NEW d \in Clients PROVE Coming(d)'
  <2>1. serving # d /\ serving' # d
    BY <1>2
  <2> QED
    BY <1>2, <2>1, Others
<1> QED
  BY <1>3, <1>4 DEF IInv

\* Whom the server can read has sent something, or gone.
LEMMA NotSilent ==
    ASSUME IInv, NEW c \in Clients, NEW place, Serves(c, place)
    PROVE  client[c] \notin {"away", "connected"}
BY DEF IInv, WiresOK, Coming, Silent, Serves, Readable, Gone

\* Two texts one behind the other.
LEMMA JoinFacts ==
    ASSUME NEW T, NEW x \in Seq(T), NEW y \in Seq(T)
    PROVE  /\ x \o y \in Seq(T)
           /\ Len(x \o y) = Len(x) + Len(y)
           /\ x # <<>> => Len(x) > 0
           /\ x = <<>> => x \o y = y
<1>1. x \o y \in Seq(T)
  OBVIOUS
<1>2. Len(x \o y) = Len(x) + Len(y)
  OBVIOUS
<1>3. x # <<>> => Len(x) > 0
  OBVIOUS
<1>4. x = <<>> => x \o y = y
  OBVIOUS
<1> QED
  BY <1>1, <1>2, <1>3, <1>4

\* What the two steps of a service have in common: they answer the client and
\* go on, or are ended by a SIGPIPE.
LEMMA SendStep ==
    ASSUME IInv, NEW c \in Clients, NEW text \in Text, NEW wire \in Text,
           NEW place \in {"file", "accept"}, NEW next \in {c, Nobody},
           place = "file" <=> next = c,
           serving = c, server \in {"size", "file"}, client[c] # "connected",
           Sends(c, text, place, next),
           to_server' = [to_server EXCEPT ![c] = wire],
           cut' \subseteq Clients,
           UNCHANGED <<file, client, code, backlog, sockets>>,
           server = "size" /\ place = "accept" => text # <<>> /\ text[1] # "s",
           place = "accept" \/ server = "size"
    PROVE  IInv'
<1> USE NobodyAssumption
<1>1. TypeOK /\ WiresOK /\ Coming(c)
  BY DEF IInv
<1>2. /\ Message(text) \in Text /\ Len(Message(text)) = MAX_ANSWER_LENGTH
      /\ text # <<>> => Message(text)[1] = text[1]
  BY MessageFacts
<1>3. to_client[c] \in Text /\ <<>> \in Text
  BY <1>1 DEF WiresOK, Text
<1>4. /\ to_client[c] \o Message(text) \in Text
      /\ to_client[c] \o Message(text) # <<>>
      /\ to_client[c] # <<>> => Len(to_client[c] \o Message(text)) > MAX_ANSWER_LENGTH
      /\ to_client[c] = <<>> => to_client[c] \o Message(text) = Message(text)
  <2> DEFINE m == Message(text)
  <2>1. m \in Seq(Tokens) /\ to_client[c] \in Seq(Tokens)
        /\ Len(m) = MAX_ANSWER_LENGTH
    BY <1>2, <1>3 DEF Text
  <2> HIDE DEF m
  <2>2. /\ to_client[c] \o m \in Seq(Tokens)
        /\ Len(to_client[c] \o m) = Len(to_client[c]) + Len(m)
        /\ to_client[c] # <<>> => Len(to_client[c]) > 0
    BY ONLY <2>1, JoinFacts
  <2>3. to_client[c] = <<>> => to_client[c] \o m = m
    BY ONLY <2>1, JoinFacts
  <2>4. to_client[c] \o m # <<>> /\ Len(to_client[c]) \in Nat
    BY <2>1, <2>2, LengthAssumption
  <2> QED
    BY <2>1, <2>2, <2>3, <2>4, LengthAssumption DEF m, Text
<1>5. /\ \/ server' = place /\ serving' = next
         \/ server' = "killed" /\ serving' = Nobody
      /\ to_client' = [to_client EXCEPT ![c] = to_client'[c]]
      /\ to_client'[c] \in Text
      /\ server' # "killed" /\ ~Gone(c) => to_client'[c] = to_client[c] \o Message(text)
  BY <1>1, <1>3, <1>4 DEF Sends, WiresOK, TypeOK
<1>6. TypeOK'
  BY <1>1, <1>5 DEF TypeOK
<1>7. WiresOK'
  BY <1>1, <1>5 DEF TypeOK, WiresOK
<1>8. Coming(c)'
  <2>1. CASE server' = "killed"
    BY <2>1 DEF Coming, AckComes, LastComes
  <2>2. CASE server' # "killed" /\ client[c] \in {"ack", "last"}
    <3>1. to_client'[c] = to_client[c] \o Message(text) /\ to_client'[c] # <<>>
      BY <1>4, <1>5, <2>2 DEF Gone
    <3>2. server' = place /\ serving' = next
      BY <1>5, <2>2
    <3>3. client[c] = "last" => Coming(c)'
      BY <3>1 DEF Coming, LastComes
    <3>4. client[c] = "ack" /\ place = "file" => Coming(c)'
      BY <3>1, <3>2 DEF Coming, AckComes
    <3>5. ASSUME client[c] = "ack", place = "accept" PROVE Coming(c)'
      <4>1. c \notin backlog' /\ serving' # c
        BY <1>1, <3>2, <3>5 DEF TypeOK
      <4>2. to_client'[c][1] # "s" \/ Len(to_client'[c]) > MAX_ANSWER_LENGTH
        <5>1. CASE to_client[c] # <<>>
          BY <5>1, <3>1, <1>4
        <5>2. CASE to_client[c] = <<>>
          <6>1. server = "size"
            BY <1>1, <3>5, <5>2 DEF Coming, AckComes, TypeOK
          <6> QED
            BY <6>1, <5>2, <3>1, <3>5, <1>2, <1>4
        <5> QED
          BY <5>1, <5>2
      <4> QED
        BY <4>1, <4>2, <3>1, <3>5 DEF Coming, AckComes
    <3> QED
      BY <2>2, <3>3, <3>4, <3>5
  <2>3. CASE client[c] \notin {"ack", "last"}
    BY <2>3 DEF Coming
  <2> QED
    BY <2>1, <2>2, <2>3
<1>9. ASSUME NEW d \in Clients, d # c PROVE Coming(d)'
  <2>1. /\ client'[d] = client[d] /\ to_server'[d] = to_server[d]
        /\ to_client'[d] = to_client[d]
        /\ d \in backlog' <=> d \in backlog
        /\ serving # d /\ serving' # d /\ server # "killed"
    BY <1>1, <1>5, <1>9 DEF TypeOK, WiresOK
  <2> QED
    BY <2>1, Others
<1> QED
  BY <1>6, <1>7, <1>8, <1>9 DEF IInv

LEMMA SizeStep == ASSUME IInv, NEW c \in Clients, ReadSize(c) PROVE IInv'
<1>1. TypeOK /\ WiresOK
  BY DEF IInv
<1>2. to_server[c] \in Text /\ <<>> \in Text
  BY <1>1 DEF WiresOK, Text
<1>3. PICK piece \in Pieces(to_server[c]) :
        /\ to_server' = [to_server EXCEPT
                           ![c] = IF Small(atoi(piece)) THEN Rest(@, piece) ELSE <<>>]
        /\ Cut(c, piece)
        /\ IF Small(atoi(piece))
           THEN Sends(c, smallFileAck \o end, "file", c)
           ELSE Sends(c, bigFileAck \o end, "accept", Nobody)
  BY DEF ReadSize
<1>4. /\ serving = c /\ server = "size" /\ client[c] # "connected"
      /\ UNCHANGED <<file, client, code, backlog, sockets>>
  BY NotSilent DEF ReadSize, Serves
<1>5. cut' \subseteq Clients
  BY <1>1, <1>3 DEF TypeOK, Cut
<1>6. Rest(to_server[c], piece) \in Text
  BY <1>2, PieceFacts
<1>7. CASE Small(atoi(piece))
  <2>1. /\ to_server' = [to_server EXCEPT ![c] = Rest(to_server[c], piece)]
        /\ Sends(c, smallFileAck \o end, "file", c)
    BY <1>1, <1>3, <1>7 DEF WiresOK
  <2> QED
    BY <2>1, <1>4, <1>5, <1>6, Words, SendStep, NobodyAssumption
<1>8. CASE ~Small(atoi(piece))
  <2>1. /\ to_server' = [to_server EXCEPT ![c] = <<>>]
        /\ Sends(c, bigFileAck \o end, "accept", Nobody)
    BY <1>1, <1>3, <1>8 DEF WiresOK
  <2>2. bigFileAck \o end \in Text /\ bigFileAck \o end # <<>> /\ (bigFileAck \o end)[1] # "s"
    BY Words
  <2> QED
    BY <2>1, <2>2, <1>2, <1>4, <1>5, SendStep, NobodyAssumption
<1> QED
  BY <1>7, <1>8

LEMMA FileStep == ASSUME IInv, NEW c \in Clients, ReadFile(c) PROVE IInv'
<1>1. TypeOK /\ WiresOK
  BY DEF IInv
<1>2. to_server[c] \in Text /\ <<>> \in Text
  BY <1>1 DEF WiresOK, Text
<1>3. PICK piece \in Pieces(to_server[c]) :
        /\ to_server' = [to_server EXCEPT ![c] = <<>>]
        /\ Cut(c, piece)
        /\ Sends(c, piece, "accept", Nobody)
  BY DEF ReadFile, NextClient
<1>4. /\ serving = c /\ server = "file" /\ client[c] # "connected"
      /\ UNCHANGED <<file, client, code, backlog, sockets>>
  BY NotSilent DEF ReadFile, Serves
<1>5. cut' \subseteq Clients
  BY <1>1, <1>3 DEF TypeOK, Cut
<1>6. piece \in Text
  BY <1>2, PieceFacts
<1> QED
  BY <1>2, <1>3, <1>4, <1>5, <1>6, SendStep, NobodyAssumption

-----------------------------------------------------------------------------

THEOREM Invariance == Spec => []IInv
<1>1. IInv /\ [Next]_vars => IInv'
  <2> SUFFICES ASSUME IInv, [Next]_vars PROVE IInv'
    OBVIOUS
  <2>1. CASE UNCHANGED vars
    <3>1. (TypeOK /\ WiresOK) => (TypeOK /\ WiresOK)'
      BY <2>1 DEF vars, wires, TypeOK, WiresOK
    <3>2. ASSUME NEW c \in Clients PROVE Coming(c)'
      BY <2>1, <3>2 DEF IInv, vars, wires, Coming, Silent, AckComes, LastComes
    <3> QED
      BY <3>1, <3>2 DEF IInv
  <2> QED
    BY <2>1, RunStep, SendSizeStep, LeaveStep, AckStep, AcceptStep, SizeStep, FileStep,
       NobodyStep
    DEF Next, ClientStep, ServerStep
<1> QED
  BY InitInv, <1>1, PTL DEF Spec

\* For any clients, files and length of a message: every variable has its type.
THEOREM TransferTypes == Spec => []TypeOK
  BY Invariance, PTL DEF IInv

\* For any clients, files and length of a message, however the messages are cut
\* and whoever is killed: the client and the server do not wait for each other.
THEOREM NobodyWaitsForever == Spec => []NeverStuck
<1>1. IInv => NeverStuck
  BY DEF IInv, Coming, AckComes, LastComes, NeverStuck
<1> QED
  BY Invariance, <1>1, PTL

-----------------------------------------------------------------------------
(* What atoi makes of a length.                                             *)

\* A set of numbers has a least one.
LEMMA Least ==
    ASSUME NEW S, S \subseteq Nat, S # {}
    PROVE  \E n \in S : \A k \in S : n <= k
<1> DEFINE R == {ss \in Nat \X Nat : ss[1] < ss[2]}
<1>1. IsWellFoundedOn(R, Nat)
  BY NatLessThanWellFounded DEF OpToRel
<1>2. PICK x \in S : \A y \in S : ~ (<<y, x>> \in R)
  BY <1>1, WFMin
<1>3. \A y \in S : ~(y < x)
  BY <1>2
<1> QED
  BY <1>3

\* Induction, for a set of numbers.
LEMMA SetInduction ==
    ASSUME NEW S, 0 \in S, \A n \in Nat : n \in S => n + 1 \in S
    PROVE  Nat \subseteq S
<1> SUFFICES ASSUME Nat \ S # {} PROVE FALSE
  OBVIOUS
<1>1. PICK n \in Nat \ S : \A k \in Nat \ S : n <= k
  BY Least
<1>2. n - 1 \in Nat /\ n - 1 \in S
  BY <1>1
<1> QED
  BY <1>1, <1>2

\* A function that agrees with atoi's loop at every turn is its result.
LEMMA LoopOfAtoi ==
    ASSUME NEW text \in Text,
           NEW f, f = [n \in 0 .. Len(text) |->
                         IF n = 0 THEN 0
                         ELSE IF \A k \in 1 .. n : IsDigit(text[k])
                              THEN 10 * f[n - 1] + Worth(text[n])
                              ELSE f[n - 1]]
    PROVE  atoi(text) = f[Len(text)]
<1> DEFINE all(n) == \A k \in 1 .. n : IsDigit(text[k])
           F(g) == [n \in 0 .. Len(text) |->
                      IF n = 0 THEN 0
                      ELSE IF all(n) THEN 10 * g[n - 1] + Worth(text[n]) ELSE g[n - 1]]
           to == CHOOSE g : g = F(g)
<1>1. to = F(to) /\ f = F(f)
  BY Zenon
<1>2. Len(text) \in Nat
  BY DEF Text
<1> DEFINE S == {n \in Nat : n <= Len(text) => to[n] = f[n]}
<1> HIDE DEF to
<1>3. 0 \in S
  BY <1>1, <1>2
<1>4. ASSUME NEW n \in Nat, n \in S PROVE n + 1 \in S
  <2> DEFINE m == n + 1
  <2>1. m \in Nat /\ m # 0 /\ m - 1 = n
    OBVIOUS
  <2> HIDE DEF m
  <2> SUFFICES ASSUME m <= Len(text) PROVE to[m] = f[m]
    BY <2>1 DEF m
  <2>2. m \in 0 .. Len(text) /\ to[n] = f[n]
    BY <1>2, <1>4, <2>1
  <2> DEFINE a == all(m)
  <2> HIDE DEF all
  <2>3. /\ to[m] = IF a THEN 10 * to[n] + Worth(text[m]) ELSE to[n]
        /\ f[m] = IF a THEN 10 * f[n] + Worth(text[m]) ELSE f[n]
    BY <1>1, <2>1, <2>2
  <2> QED
    BY <2>2, <2>3
<1> HIDE DEF S
<1>5. Nat \subseteq S
  BY <1>3, <1>4, SetInduction
<1>6. \A n \in Nat : n <= Len(text) => to[n] = f[n]
  BY <1>5 DEF S
<1>7. to[Len(text)] = f[Len(text)]
  <2>1. Len(text) <= Len(text)
    BY <1>2
  <2> QED
    BY <1>2, <1>6, <2>1, Zenon
<1> QED
  BY <1>7 DEF atoi, to

\* A text that begins with d digits is worth what they are.
LEMMA DigitsFirst ==
    ASSUME NEW text \in Text, NEW d \in 0 .. Len(text), NEW val, val[0] = 0,
           \A k \in 1 .. d : IsDigit(text[k]) /\ val[k] = 10 * val[k - 1] + Worth(text[k]),
           d < Len(text) => ~IsDigit(text[d + 1])
    PROVE  atoi(text) = val[d]
<1> DEFINE f == [n \in 0 .. Len(text) |-> IF n <= d THEN val[n] ELSE val[d]]
           all(n) == \A k \in 1 .. n : IsDigit(text[k])
<1>1. Len(text) \in Nat /\ d \in Nat
  BY DEF Text
<1>2. ASSUME NEW n \in 0 .. Len(text)
      PROVE  f[n] = IF n = 0 THEN 0
                    ELSE IF all(n) THEN 10 * f[n - 1] + Worth(text[n]) ELSE f[n - 1]
  <2>1. CASE n = 0
    BY <1>1, <2>1
  <2>2. CASE n # 0 /\ n <= d
    <3>1. all(n) /\ n \in 1 .. d /\ n - 1 \in 0 .. Len(text) /\ n - 1 <= d
      BY <1>1, <2>2
    <3> QED
      BY <2>2, <3>1
  <2>3. CASE n > d
    <3>1. d + 1 \in 1 .. n /\ d < Len(text)
      BY <1>1, <2>3
    <3>2. ~all(n)
      BY <3>1
    <3>3. f[n] = val[d] /\ n # 0
      BY <1>1, <2>3
    <3>4. f[n - 1] = val[d]
      <4>1. n - 1 \in 0 .. Len(text) /\ (n - 1 <= d => n - 1 = d)
        BY <1>1, <2>3
      <4> QED
        BY <4>1
    <3> HIDE DEF f, all
    <3> QED
      BY <3>2, <3>3, <3>4
  <2> QED
    BY <1>1, <2>1, <2>2, <2>3
<1>3. f = [n \in 0 .. Len(text) |->
             IF n = 0 THEN 0
             ELSE IF all(n) THEN 10 * f[n - 1] + Worth(text[n]) ELSE f[n - 1]]
  BY <1>2
<1>4. f[Len(text)] = val[d]
  BY <1>1
<1> HIDE DEF f
<1> QED
  BY <1>3, <1>4, LoopOfAtoi

\* The tokens of digits, and what each is worth.
LEMMA Digits ==
    /\ \A v \in 0 .. 9 : IsDigit(Digit[v + 1]) /\ Worth(Digit[v + 1]) = v
    /\ ~IsDigit("<EOF>") /\ ~IsDigit("NUL")
<1>1. \A v \in 0 .. 9 : v \in {0, 1, 2, 3, 4, 5, 6, 7, 8, 9}
  OBVIOUS
<1>2. \A v, w \in 0 .. 9 : Digit[v + 1] = Digit[w + 1] => v = w
  BY <1>1 DEF Digit
<1>3. \A v \in 0 .. 9 : Digit[v + 1] # "<EOF>" /\ Digit[v + 1] # "NUL"
  BY <1>1 DEF Digit
<1>4. ASSUME NEW v \in 0 .. 9 PROVE Worth(Digit[v + 1]) = v
  BY <1>2 DEF Worth
<1> QED
  BY <1>3, <1>4 DEF IsDigit

\* The digits of a number below 10000, as its values one after the other.
LEMMA DigitsOf ==
    ASSUME NEW n \in Nat, n < 10000
    PROVE  LET d1 == (n \div 1) % 10
               d2 == (n \div 10) % 10
               d3 == (n \div 100) % 10
               d4 == (n \div 1000) % 10
           IN /\ d1 \in 0 .. 9 /\ d2 \in 0 .. 9 /\ d3 \in 0 .. 9 /\ d4 \in 0 .. 9
              /\ n < 10 => n = d1
              /\ n < 100 => n = 10 * d2 + d1
              /\ n < 1000 => n = 10 * (10 * d3 + d2) + d1
              /\ n = 10 * (10 * (10 * d4 + d3) + d2) + d1
<1>1. PICK a \in 0 .. 9, b \in 0 .. 9, c \in 0 .. 9, d \in 0 .. 9 :
        n = 1000 * a + 100 * b + 10 * c + d
  <2> DEFINE t == n \div 10
             h == t \div 10
             a == h \div 10
             b == h % 10
             c == t % 10
             d == n % 10
  <2>1. t \in Nat /\ d \in 0 .. 9 /\ n = 10 * t + d
    OBVIOUS
  <2>2. h \in Nat /\ c \in 0 .. 9 /\ t = 10 * h + c
    <3> HIDE DEF t
    <3> QED
      BY <2>1
  <2>3. a \in Nat /\ b \in 0 .. 9 /\ h = 10 * a + b
    <3> HIDE DEF h
    <3> QED
      BY <2>2
  <2> HIDE DEF t, h, a, b, c, d
  <2>4. n = 1000 * a + 100 * b + 10 * c + d /\ a \in 0 .. 9
    BY <2>1, <2>2, <2>3
  <2> QED
    BY <2>1, <2>2, <2>3, <2>4
<1>2. /\ n \div 1 = n /\ n \div 10 = 100 * a + 10 * b + c
      /\ n \div 100 = 10 * a + b /\ n \div 1000 = a
  BY <1>1
<1>3. /\ n % 10 = d /\ (100 * a + 10 * b + c) % 10 = c /\ (10 * a + b) % 10 = b /\ a % 10 = a
  BY <1>1
<1>4. /\ (n \div 1) % 10 = d /\ (n \div 10) % 10 = c /\ (n \div 100) % 10 = b
      /\ (n \div 1000) % 10 = a
  BY <1>2, <1>3
<1>5. /\ n < 10 => a = 0 /\ b = 0 /\ c = 0
      /\ n < 100 => a = 0 /\ b = 0
      /\ n < 1000 => a = 0
  BY <1>1
<1> DEFINE d1 == (n \div 1) % 10
           d2 == (n \div 10) % 10
           d3 == (n \div 100) % 10
           d4 == (n \div 1000) % 10
<1>6. d1 = d /\ d2 = c /\ d3 = b /\ d4 = a
  BY <1>4
<1> HIDE DEF d1, d2, d3, d4
<1>7. /\ d1 \in 0 .. 9 /\ d2 \in 0 .. 9 /\ d3 \in 0 .. 9 /\ d4 \in 0 .. 9
      /\ n < 10 => n = d1
      /\ n < 100 => n = 10 * d2 + d1
      /\ n < 1000 => n = 10 * (10 * d3 + d2) + d1
      /\ n = 10 * (10 * (10 * d4 + d3) + d2) + d1
  BY <1>1, <1>5, <1>6
<1> QED
  BY <1>7 DEF d1, d2, d3, d4

\* A message keeps the tokens of its text for which it has room.
LEMMA MessageAt ==
    ASSUME NEW text \in Text, NEW i \in 1 .. MAX_ANSWER_LENGTH, i <= Len(text)
    PROVE  Message(text)[i] = text[i]
BY DEF Message

\* The length of a file arrives as it was sent, if a message has room for its
\* digits.
LEMMA LengthRead ==
    ASSUME NEW n \in 0 .. MaxSize, MAX_ANSWER_LENGTH >= 4
    PROVE  atoi(Message(Decimal(n) \o end)) = n
<1> DEFINE d1 == (n \div 1) % 10
           d2 == (n \div 10) % 10
           d3 == (n \div 100) % 10
           d4 == (n \div 1000) % 10
           text == Message(Decimal(n) \o end)
<1>1. n \in Nat /\ n < 10000 /\ MAX_ANSWER_LENGTH \in Nat
  BY LengthAssumption DEF MaxSize
<1>2. /\ d1 \in 0 .. 9 /\ d2 \in 0 .. 9 /\ d3 \in 0 .. 9 /\ d4 \in 0 .. 9
      /\ n < 10 => n = d1
      /\ n < 100 => n = 10 * d2 + d1
      /\ n < 1000 => n = 10 * (10 * d3 + d2) + d1
      /\ n = 10 * (10 * (10 * d4 + d3) + d2) + d1
  BY <1>1, DigitsOf
<1> DEFINE t1 == Digit[d1 + 1]
           t2 == Digit[d2 + 1]
           t3 == Digit[d3 + 1]
           t4 == Digit[d4 + 1]
<1>3. /\ IsDigit(t1) /\ IsDigit(t2) /\ IsDigit(t3) /\ IsDigit(t4) /\ ~IsDigit("<EOF>")
      /\ Worth(t1) = d1 /\ Worth(t2) = d2 /\ Worth(t3) = d3 /\ Worth(t4) = d4
  BY <1>2, Digits
<1>4. Decimal(n) = IF n < 10 THEN <<t1>>
                   ELSE IF n < 100 THEN <<t2, t1>>
                   ELSE IF n < 1000 THEN <<t3, t2, t1>>
                   ELSE <<t4, t3, t2, t1>>
  BY DEF Decimal
<1>5. Decimal(n) \o end \in Text
  <2>1. Decimal(n) \in Text
    BY <1>1, DecimalType
  <2> QED
    BY <2>1 DEF Text, end, Tokens
<1>6. text \in Text /\ Len(text) = MAX_ANSWER_LENGTH
  BY <1>5, MessageFacts
<1>7. \A i \in 1 .. MAX_ANSWER_LENGTH :
         i <= Len(Decimal(n) \o end) => text[i] = (Decimal(n) \o end)[i]
  BY <1>5, MessageAt
<1> HIDE DEF d1, d2, d3, d4, t1, t2, t3, t4, text
<1>8. CASE n < 10
  <2>1. Decimal(n) = <<t1>>
    BY <1>1, <1>4, <1>8
  <2>2. /\ Len(Decimal(n) \o end) = 2
        /\ (Decimal(n) \o end)[1] = t1 /\ (Decimal(n) \o end)[2] = "<EOF>"
    BY <2>1 DEF end
  <2>3. text[1] = t1
    BY <1>1, <1>7, <2>2
  <2>4. 1 < Len(text) => text[2] = "<EOF>"
    BY <1>1, <1>6, <1>7, <2>2
  <2> DEFINE val == [i \in 0 .. 1 |-> IF i = 0 THEN 0 ELSE d1]
  <2>5. val[0] = 0 /\ val[1] = d1
    OBVIOUS
  <2>6. 1 \in 0 .. Len(text) /\ val[1] = n
    BY <1>1, <1>2, <1>6, <1>8, <2>5
  <2> HIDE DEF val
  <2>7. \A k \in 1 .. 1 : IsDigit(text[k]) /\ val[k] = 10 * val[k - 1] + Worth(text[k])
    <3> SUFFICES ASSUME NEW k \in 1 .. 1
                 PROVE  IsDigit(text[k]) /\ val[k] = 10 * val[k - 1] + Worth(text[k])
      OBVIOUS
    <3>1. k = 1
      OBVIOUS
    <3> QED
      BY <1>2, <1>3, <2>3, <2>5, <3>1
  <2>8. 1 < Len(text) => ~IsDigit(text[1 + 1])
    BY <1>3, <2>4
  <2>9. atoi(text) = val[1]
    BY <1>6, <2>5, <2>6, <2>7, <2>8, DigitsFirst
  <2> QED
    BY <2>6, <2>9 DEF text
<1>9. CASE n >= 10 /\ n < 100
  <2>1. Decimal(n) = <<t2, t1>>
    BY <1>1, <1>4, <1>9
  <2>2. /\ Len(Decimal(n) \o end) = 3
        /\ (Decimal(n) \o end)[1] = t2 /\ (Decimal(n) \o end)[2] = t1 /\ (Decimal(n) \o end)[3] = "<EOF>"
    BY <2>1 DEF end
  <2>3. text[1] = t2 /\ text[2] = t1
    BY <1>1, <1>7, <2>2
  <2>4. 2 < Len(text) => text[3] = "<EOF>"
    BY <1>1, <1>6, <1>7, <2>2
  <2> DEFINE val == [i \in 0 .. 2 |-> IF i = 0 THEN 0 ELSE IF i = 1 THEN d2 ELSE 10 * d2 + d1]
  <2>5. val[0] = 0 /\ val[1] = d2 /\ val[2] = 10 * d2 + d1
    OBVIOUS
  <2>6. 2 \in 0 .. Len(text) /\ val[2] = n
    BY <1>1, <1>2, <1>6, <1>9, <2>5
  <2> HIDE DEF val
  <2>7. \A k \in 1 .. 2 : IsDigit(text[k]) /\ val[k] = 10 * val[k - 1] + Worth(text[k])
    <3> SUFFICES ASSUME NEW k \in 1 .. 2
                 PROVE  IsDigit(text[k]) /\ val[k] = 10 * val[k - 1] + Worth(text[k])
      OBVIOUS
    <3>1. k = 1 \/ k = 2
      OBVIOUS
    <3> QED
      BY <1>2, <1>3, <2>3, <2>5, <3>1
  <2>8. 2 < Len(text) => ~IsDigit(text[2 + 1])
    BY <1>3, <2>4
  <2>9. atoi(text) = val[2]
    BY <1>6, <2>5, <2>6, <2>7, <2>8, DigitsFirst
  <2> QED
    BY <2>6, <2>9 DEF text
<1>10. CASE n >= 100 /\ n < 1000
  <2>1. Decimal(n) = <<t3, t2, t1>>
    BY <1>1, <1>4, <1>10
  <2>2. /\ Len(Decimal(n) \o end) = 4
        /\ (Decimal(n) \o end)[1] = t3 /\ (Decimal(n) \o end)[2] = t2 /\ (Decimal(n) \o end)[3] = t1 /\ (Decimal(n) \o end)[4] = "<EOF>"
    BY <2>1 DEF end
  <2>3. text[1] = t3 /\ text[2] = t2 /\ text[3] = t1
    BY <1>1, <1>7, <2>2
  <2>4. 3 < Len(text) => text[4] = "<EOF>"
    BY <1>1, <1>6, <1>7, <2>2
  <2> DEFINE val == [i \in 0 .. 3 |-> IF i = 0 THEN 0 ELSE IF i = 1 THEN d3 ELSE IF i = 2 THEN 10 * d3 + d2 ELSE 10 * (10 * d3 + d2) + d1]
  <2>5. val[0] = 0 /\ val[1] = d3 /\ val[2] = 10 * d3 + d2 /\ val[3] = 10 * (10 * d3 + d2) + d1
    OBVIOUS
  <2>6. 3 \in 0 .. Len(text) /\ val[3] = n
    BY <1>1, <1>2, <1>6, <1>10, <2>5
  <2> HIDE DEF val
  <2>7. \A k \in 1 .. 3 : IsDigit(text[k]) /\ val[k] = 10 * val[k - 1] + Worth(text[k])
    <3> SUFFICES ASSUME NEW k \in 1 .. 3
                 PROVE  IsDigit(text[k]) /\ val[k] = 10 * val[k - 1] + Worth(text[k])
      OBVIOUS
    <3>1. k = 1 \/ k = 2 \/ k = 3
      OBVIOUS
    <3> QED
      BY <1>2, <1>3, <2>3, <2>5, <3>1
  <2>8. 3 < Len(text) => ~IsDigit(text[3 + 1])
    BY <1>3, <2>4
  <2>9. atoi(text) = val[3]
    BY <1>6, <2>5, <2>6, <2>7, <2>8, DigitsFirst
  <2> QED
    BY <2>6, <2>9 DEF text
<1>11. CASE n >= 1000
  <2>1. Decimal(n) = <<t4, t3, t2, t1>>
    BY <1>1, <1>4, <1>11
  <2>2. /\ Len(Decimal(n) \o end) = 5
        /\ (Decimal(n) \o end)[1] = t4 /\ (Decimal(n) \o end)[2] = t3 /\ (Decimal(n) \o end)[3] = t2 /\ (Decimal(n) \o end)[4] = t1 /\ (Decimal(n) \o end)[5] = "<EOF>"
    BY <2>1 DEF end
  <2>3. text[1] = t4 /\ text[2] = t3 /\ text[3] = t2 /\ text[4] = t1
    BY <1>1, <1>7, <2>2
  <2>4. 4 < Len(text) => text[5] = "<EOF>"
    BY <1>1, <1>6, <1>7, <2>2
  <2> DEFINE val == [i \in 0 .. 4 |-> IF i = 0 THEN 0 ELSE IF i = 1 THEN d4 ELSE IF i = 2 THEN 10 * d4 + d3 ELSE IF i = 3 THEN 10 * (10 * d4 + d3) + d2 ELSE 10 * (10 * (10 * d4 + d3) + d2) + d1]
  <2>5. val[0] = 0 /\ val[1] = d4 /\ val[2] = 10 * d4 + d3 /\ val[3] = 10 * (10 * d4 + d3) + d2 /\ val[4] = 10 * (10 * (10 * d4 + d3) + d2) + d1
    OBVIOUS
  <2>6. 4 \in 0 .. Len(text) /\ val[4] = n
    BY <1>1, <1>2, <1>6, <1>11, <2>5
  <2> HIDE DEF val
  <2>7. \A k \in 1 .. 4 : IsDigit(text[k]) /\ val[k] = 10 * val[k - 1] + Worth(text[k])
    <3> SUFFICES ASSUME NEW k \in 1 .. 4
                 PROVE  IsDigit(text[k]) /\ val[k] = 10 * val[k - 1] + Worth(text[k])
      OBVIOUS
    <3>1. k = 1 \/ k = 2 \/ k = 3 \/ k = 4
      OBVIOUS
    <3> QED
      BY <1>2, <1>3, <2>3, <2>5, <3>1
  <2>8. 4 < Len(text) => ~IsDigit(text[4 + 1])
    BY <1>3, <2>4
  <2>9. atoi(text) = val[4]
    BY <1>6, <2>5, <2>6, <2>7, <2>8, DigitsFirst
  <2> QED
    BY <2>6, <2>9 DEF text
<1> QED
  BY <1>1, <1>8, <1>9, <1>10, <1>11

-----------------------------------------------------------------------------
(* Transfers whose messages are read in one piece.                          *)

\* Without a NUL in it a text keeps all of itself, and its end.
LEMMA EndedWhole ==
    ASSUME NEW text \in Text, \A n \in DOMAIN text : text[n] # "NUL"
    PROVE  Ended(text) = text \o end
<1> DEFINE kept == {n \in DOMAIN text : \A k \in 1 .. n : text[k] # "NUL"}
<1>1. Len(text) \in Nat /\ DOMAIN text = 1 .. Len(text)
  BY DEF Text
<1>2. kept = 1 .. Len(text)
  BY <1>1
<1>3. Cardinality(1 .. Len(text)) = Len(text)
  <2>1. 1 \in Int /\ Len(text) \in Int
    BY <1>1
  <2>2. Cardinality(1 .. Len(text)) = IF 1 > Len(text) THEN 0 ELSE Len(text) - 1 + 1
    BY <2>1, FS_Interval, Zenon
  <2> QED
    BY <1>1, <2>2
<1>4. SubSeq(text, 1, Len(text)) = text
  BY DEF Text
<1> QED
  BY <1>2, <1>3, <1>4 DEF Ended

\* What is sent back is what was read, with its padding.
LEMMA MessageTwice == ASSUME NEW text \in Text PROVE Message(Message(text)) = Message(text)
<1> DEFINE m == Message(text)
<1>1. Len(m) = MAX_ANSWER_LENGTH /\ m = [n \in 1 .. MAX_ANSWER_LENGTH |-> m[n]]
  BY MessageFacts DEF Message
<1> HIDE DEF m
<1>2. Message(m) = m
  BY <1>1, LengthAssumption DEF Message
<1> QED
  BY <1>2 DEF m

\* One message on the wire, or none, read in one piece.
LEMMA WholePiece ==
    ASSUME NEW wire \in Text, Len(wire) \in {0, MAX_ANSWER_LENGTH},
           NEW piece \in Pieces(wire), ~(Len(piece) < MAX_ANSWER_LENGTH)
    PROVE  piece = wire /\ wire # <<>> /\ Rest(wire, piece) = <<>>
<1> USE LengthAssumption
<1>1. wire # <<>>
  BY DEF Pieces
<1>2. PICK n \in 1 .. MAX_ANSWER_LENGTH : n <= Len(wire) /\ piece = SubSeq(wire, 1, n)
  BY <1>1 DEF Pieces
<1>3. Len(piece) = n /\ Len(wire) \in Nat
  BY <1>2 DEF Text
<1>4. n = MAX_ANSWER_LENGTH /\ Len(wire) = n
  BY <1>2, <1>3
<1>5. piece = wire
  BY <1>2, <1>4 DEF Text
<1>6. SubSeq(wire, Len(wire) + 1, Len(wire)) = <<>>
  BY DEF Text
<1> QED
  BY <1>1, <1>5, <1>6 DEF Rest

\* The two answers differ where the client looks.
SmallAnswer == Message(smallFileAck \o end)
BigAnswer == Message(bigFileAck \o end)

LEMMA Answers ==
    ASSUME MAX_ANSWER_LENGTH >= 4
    PROVE  /\ SmallAnswer \in Text /\ Len(SmallAnswer) = MAX_ANSWER_LENGTH
           /\ BigAnswer \in Text /\ Len(BigAnswer) = MAX_ANSWER_LENGTH
           /\ StartsWith(SmallAnswer, <<"s", "ma">>)
           /\ ~StartsWith(BigAnswer, <<"s", "ma">>)
<1>1. smallFileAck \o end \in Text /\ bigFileAck \o end \in Text
  BY Words
<1>2. /\ SmallAnswer \in Text /\ Len(SmallAnswer) = MAX_ANSWER_LENGTH
      /\ BigAnswer \in Text /\ Len(BigAnswer) = MAX_ANSWER_LENGTH
  BY <1>1, MessageFacts DEF SmallAnswer, BigAnswer
<1>3. /\ Len(smallFileAck \o end) = 4 /\ Len(bigFileAck \o end) = 3
      /\ (smallFileAck \o end)[1] = "s" /\ (smallFileAck \o end)[2] = "ma"
      /\ (bigFileAck \o end)[1] = "b"
  BY DEF smallFileAck, bigFileAck, end
<1>4. SmallAnswer[1] = "s" /\ SmallAnswer[2] = "ma" /\ BigAnswer[1] = "b"
  <2> DEFINE small == smallFileAck \o end
             big == bigFileAck \o end
  <2>1. small \in Text /\ Len(small) = 4 /\ big \in Text /\ Len(big) = 3
    BY <1>1, <1>3
  <2>2. small[1] = "s" /\ small[2] = "ma" /\ big[1] = "b"
    BY <1>3
  <2>3. 1 \in 1 .. MAX_ANSWER_LENGTH /\ 2 \in 1 .. MAX_ANSWER_LENGTH
    BY LengthAssumption
  <2> HIDE DEF small, big
  <2>4. Message(small)[1] = "s" /\ Message(small)[2] = "ma" /\ Message(big)[1] = "b"
    BY <2>1, <2>2, <2>3, MessageAt
  <2> QED
    BY <2>4 DEF SmallAnswer, BigAnswer, small, big
<1> DEFINE s == SmallAnswer
           b == BigAnswer
<1>5. Len(<<"s", "ma">>) = 2
  OBVIOUS
<1>6. SubSeq(s, 1, 2) = <<"s", "ma">>
  <2> HIDE DEF s
  <2>1. s \in Seq(Tokens) /\ Len(s) >= 2 /\ s[1] = "s" /\ s[2] = "ma"
    BY <1>2, <1>4, LengthAssumption DEF s, Text
  <2>2. SubSeq(s, 1, 2) \in Seq(Tokens) /\ Len(SubSeq(s, 1, 2)) = 2
        /\ SubSeq(s, 1, 2)[1] = "s" /\ SubSeq(s, 1, 2)[2] = "ma"
    BY <2>1
  <2>3. <<"s", "ma">> \in Seq(Tokens) /\ Len(<<"s", "ma">>) = 2
        /\ <<"s", "ma">>[1] = "s" /\ <<"s", "ma">>[2] = "ma"
    BY DEF Tokens
  <2> DEFINE a == SubSeq(s, 1, 2)
             w == <<"s", "ma">>
  <2>4. /\ a \in Seq(Tokens) /\ Len(a) = 2 /\ w \in Seq(Tokens) /\ Len(w) = 2
        /\ a[1] = w[1] /\ a[2] = w[2]
    BY <2>2, <2>3
  <2> HIDE DEF a, w
  <2>5. a = w
    BY <2>4
  <2> QED
    BY <2>5 DEF a, w
<1>7. SubSeq(b, 1, 2) # <<"s", "ma">>
  <2> HIDE DEF b
  <2>1. b \in Seq(Tokens) /\ Len(b) >= 2 /\ b[1] = "b"
    BY <1>2, <1>4, LengthAssumption DEF b, Text
  <2>2. SubSeq(b, 1, 2)[1] = "b"
    BY <2>1
  <2>3. <<"s", "ma">>[1] = "s"
    OBVIOUS
  <2> QED
    BY <2>2, <2>3
<1> QED
  BY <1>2, <1>5, <1>6, <1>7, LengthAssumption DEF StartsWith

\* A client whose messages were all read in one piece, and that sends a text.
Intact(c) ==
    c \notin cut /\ \A n \in DOMAIN file[c].content : file[c].content[n] # "NUL"

Announced(c) == Message(Decimal(file[c].size) \o end)
Whole(c) == Message(file[c].content \o end)

\* The server has yet to read the length; has accepted the file; has refused it.
Announcing(c) ==
    /\ to_server[c] = Announced(c) /\ to_client[c] = <<>>
    /\ c \in backlog \/ (serving = c /\ server = "size")
Accepted(c) ==
    /\ to_server[c] = <<>> /\ to_client[c] = SmallAnswer
    /\ serving = c /\ server = "file" /\ file[c].size < BigSize
Refused(c) ==
    /\ to_client[c] = BigAnswer
    /\ serving # c /\ c \notin backlog /\ file[c].size >= BigSize

\* The server has yet to read the file; has sent it back.
Sending(c) ==
    /\ to_server[c] = Whole(c) /\ to_client[c] = <<>>
    /\ serving = c /\ server = "file"
Returned(c) ==
    /\ to_client[c] = Whole(c) /\ printed[c] = Whole(c)
    /\ serving # c

Transfer(c) ==
    /\ client[c] = "ack" =>
         /\ file[c] \in Files /\ file[c].size <= MaxSize /\ printed[c] = <<>>
         /\ Announcing(c) \/ Accepted(c) \/ Refused(c)
    /\ client[c] = "last" =>
         /\ file[c] \in Files /\ file[c].size < BigSize /\ c \notin backlog
         /\ Sending(c) \/ Returned(c)
    /\ client[c] = "ended" /\ code[c] \in {"0", "-1"} =>
         /\ file[c] \in Files /\ c \notin backlog /\ serving # c
         /\ printed[c] = IF file[c].size < BigSize THEN Whole(c) ELSE <<>>

Blank(c) ==
    /\ client[c] \in {"away", "connected"} => printed[c] = <<>>
    /\ client[c] = "connected" => file[c] \in Files /\ file[c].size <= MaxSize

Transfers ==
    /\ printed \in [Clients -> Text]
    /\ \A c \in Clients : Blank(c) /\ (Intact(c) => Transfer(c))

\* An ended transfer is what the property asks of it.
LEMMA TransfersEnough == Transfers => Delivered
BY DEF Transfers, Transfer, Intact, Whole, Delivered

\* No client has run.
LEMMA TransfersInit == Init => Transfers
BY DEF Init, Transfers, Blank, Transfer, Text

\* What nobody else's step changes of a transfer.
LEMMA OtherTransfers ==
    ASSUME Transfers, NEW c \in Clients,
           file'[c] = file[c], client'[c] = client[c], code'[c] = code[c],
           to_server'[c] = to_server[c], to_client'[c] = to_client[c],
           printed'[c] = printed[c],
           cut \subseteq cut',
           c \in backlog' <=> c \in backlog,
           serving' = c <=> serving = c,
           serving = c => server' = server
    PROVE  Blank(c)' /\ (Intact(c)' => Transfer(c)')
<1>1. Blank(c) /\ (Intact(c) => Transfer(c))
  BY DEF Transfers
<1>2. Blank(c)'
  BY <1>1 DEF Blank
<1>3. Intact(c)' => Intact(c)
  BY DEF Intact
<1>4. Announced(c)' = Announced(c) /\ Whole(c)' = Whole(c)
  BY DEF Announced, Whole
<1>5. /\ Announcing(c) => Announcing(c)'
      /\ Accepted(c) => Accepted(c)'
      /\ Refused(c) => Refused(c)'
      /\ Sending(c) => Sending(c)'
      /\ Returned(c) => Returned(c)'
  <2>1. Announcing(c) => Announcing(c)'
    BY <1>4 DEF Announcing
  <2>2. Accepted(c) => Accepted(c)'
    BY <1>4 DEF Accepted
  <2>3. Refused(c) => Refused(c)'
    BY <1>4 DEF Refused
  <2>4. Sending(c) => Sending(c)'
    BY <1>4 DEF Sending
  <2>5. Returned(c) => Returned(c)'
    BY <1>4 DEF Returned
  <2> QED
    BY <2>1, <2>2, <2>3, <2>4, <2>5
<1>6. Transfer(c) => Transfer(c)'
  BY <1>4, <1>5 DEF Transfer
<1> QED
  BY <1>1, <1>2, <1>3, <1>6

\* A client that runs has nothing printed yet.
LEMMA RunTransfers ==
    ASSUME IInv, Transfers, NEW c \in Clients, NEW f \in Files, Run(c, f)
    PROVE  Transfers'
<1>1. TypeOK /\ WiresOK /\ Blank(c)
  BY DEF IInv, Transfers
<1>2. client[c] = "away" /\ printed[c] = <<>>
  BY <1>1 DEF Run, Blank
<1>3. file'[c] = f /\ UNCHANGED <<server, serving, printed, cut>>
  BY <1>1 DEF Run, WiresOK
<1>4. ASSUME NEW result \in {"INVALID_ARGUMENT", "IO"}, Ends(c, result)
      PROVE  Blank(c)' /\ (Intact(c)' => Transfer(c)')
  <2>1. client'[c] = "ended" /\ code'[c] \notin {"0", "-1"}
    BY <1>1, <1>4 DEF Ends, TypeOK
  <2> QED
    BY <2>1 DEF Blank, Transfer
<1>5. ASSUME f.size <= MaxSize, client' = [client EXCEPT ![c] = "connected"]
      PROVE  Blank(c)' /\ (Intact(c)' => Transfer(c)')
  <2>1. client'[c] = "connected"
    BY <1>1, <1>5 DEF TypeOK
  <2> QED
    BY <2>1, <1>2, <1>3, <1>5 DEF Blank, Transfer
<1>6. Blank(c)' /\ (Intact(c)' => Transfer(c)')
  BY <1>4, <1>5 DEF Run
<1>7. ASSUME NEW d \in Clients, d # c PROVE Blank(d)' /\ (Intact(d)' => Transfer(d)')
  <2>1. /\ file'[d] = file[d] /\ client'[d] = client[d] /\ code'[d] = code[d]
        /\ to_server'[d] = to_server[d] /\ to_client'[d] = to_client[d]
        /\ d \in backlog' <=> d \in backlog
    BY <1>1, <1>7 DEF TypeOK, WiresOK, Run, Ends, Closes
  <2>2. UNCHANGED <<server, serving, printed, cut>>
    BY DEF Run
  <2> QED
    BY <2>1, <2>2, OtherTransfers
<1> QED
  BY <1>3, <1>6, <1>7 DEF Transfers

\* A client that has connected announces the length of its file.
LEMMA SendSizeTransfers ==
    ASSUME IInv, Transfers, NEW c \in Clients, SendSize(c)
    PROVE  Transfers'
<1>1. TypeOK /\ WiresOK /\ Blank(c) /\ client[c] = "connected" /\ Silent(c)
  BY DEF IInv, Transfers, Coming, SendSize
<1>2. /\ client' = [client EXCEPT ![c] = "ack"]
      /\ to_server' = [to_server EXCEPT ![c] = Announced(c)]
      /\ UNCHANGED <<file, code, to_client, backlog, server, serving, printed, cut>>
  BY DEF SendSize, Announced
<1>3. client'[c] = "ack" /\ to_server'[c] = Announced(c)
  BY <1>1, <1>2 DEF TypeOK, WiresOK
<1>4. Announced(c)' = Announced(c)
  BY <1>2 DEF Announced
<1>5. Announcing(c)'
  BY <1>1, <1>2, <1>3, <1>4 DEF Silent, Announcing
<1>6. Blank(c)' /\ Transfer(c)'
  BY <1>1, <1>2, <1>3, <1>5 DEF Blank, Transfer
<1>7. ASSUME NEW d \in Clients, d # c PROVE Blank(d)' /\ (Intact(d)' => Transfer(d)')
  <2>1. client'[d] = client[d] /\ to_server'[d] = to_server[d]
    BY <1>1, <1>2, <1>7 DEF TypeOK, WiresOK
  <2> QED
    BY <1>2, <2>1, OtherTransfers
<1> QED
  BY <1>2, <1>6, <1>7 DEF Transfers

\* The server's rounds for nobody touch no transfer.
LEMMA NobodyTransfers ==
    ASSUME IInv, Transfers, AcceptFails \/ ServeNobody
    PROVE  Transfers'
<1>1. /\ UNCHANGED <<file, client, code, to_server, to_client, backlog, serving,
                     printed, cut>>
      /\ serving = Nobody
  BY DEF IInv, TypeOK, AcceptFails, ServeNobody, wires
<1>2. ASSUME NEW d \in Clients PROVE Blank(d)' /\ (Intact(d)' => Transfer(d)')
  <2>1. serving # d
    BY <1>1, NobodyAssumption
  <2> QED
    BY <1>1, <2>1, OtherTransfers
<1> QED
  BY <1>1, <1>2 DEF Transfers

\* The steps of a client that has run leave the others and the server alone.
LEMMA ClientFrame ==
    ASSUME IInv, Transfers, NEW c \in Clients, ReadAck(c) \/ ReadLast(c) \/ Killed(c)
    PROVE  /\ UNCHANGED <<file, printed, backlog, server, serving>>
           /\ cut \subseteq cut' /\ client'[c] \notin {"away", "connected"}
           /\ \A d \in Clients \ {c} : Blank(d)' /\ (Intact(d)' => Transfer(d)')
<1>1. TypeOK /\ WiresOK
  BY DEF IInv
<1>2. UNCHANGED <<file, printed, backlog, server, serving>>
  BY DEF ReadAck, ReadLast, Killed
<1>3. cut \subseteq cut' /\ client'[c] \notin {"away", "connected"}
  BY <1>1 DEF TypeOK, ReadAck, ReadLast, Killed, Ends, Cut
<1>4. ASSUME NEW d \in Clients \ {c}
      PROVE  Blank(d)' /\ (Intact(d)' => Transfer(d)')
  <2>1. /\ client'[d] = client[d] /\ code'[d] = code[d]
        /\ to_server'[d] = to_server[d] /\ to_client'[d] = to_client[d]
    BY <1>1 DEF TypeOK, WiresOK, ReadAck, ReadLast, Killed, Ends, Closes
  <2> QED
    BY <1>2, <1>3, <2>1, OtherTransfers
<1> QED
  BY <1>2, <1>3, <1>4

\* A client that is killed has no transfer any more.
LEMMA KilledTransfers ==
    ASSUME IInv, Transfers, NEW c \in Clients, Killed(c)
    PROVE  Transfers'
<1>1. client'[c] = "killed"
  BY DEF Killed, IInv, TypeOK
<1>2. Blank(c)' /\ Transfer(c)'
  BY <1>1 DEF Blank, Transfer
<1>3. \A d \in Clients \ {c} : Blank(d)' /\ (Intact(d)' => Transfer(d)')
  BY ClientFrame
<1>4. printed' = printed
  BY ClientFrame
<1> QED
  BY <1>2, <1>3, <1>4 DEF Transfers

\* The texts of a transfer have the length of a message.
LEMMA TransferTexts ==
    ASSUME NEW c \in Clients, file[c] \in Files
    PROVE  /\ Announced(c) \in Text /\ Len(Announced(c)) = MAX_ANSWER_LENGTH
           /\ Whole(c) \in Text /\ Len(Whole(c)) = MAX_ANSWER_LENGTH
           /\ file[c].content \in Text /\ file[c].size \in Nat
<1>1. file[c].content \in Text /\ file[c].size \in Nat
  BY FileText
<1>2. Decimal(file[c].size) \in Text
  BY <1>1, DecimalType
<1>3. end \in Text
  BY DEF end, Text, Tokens
<1>4. Decimal(file[c].size) \o end \in Text /\ file[c].content \o end \in Text
  BY <1>1, <1>2, <1>3 DEF Text
<1> QED
  BY <1>1, <1>4, MessageFacts DEF Announced, Whole

\* The client sends its file after the answer that accepts it.
LEMMA AckTransfers ==
    ASSUME IInv, Transfers, MAX_ANSWER_LENGTH >= 4, NEW c \in Clients, ReadAck(c)
    PROVE  Transfers'
<1>1. TypeOK /\ WiresOK /\ client[c] = "ack"
  BY DEF IInv, ReadAck
<1>2. PICK piece \in Pieces(to_client[c]) :
        /\ Cut(c, piece)
        /\ \/ /\ ~StartsWith(piece, <<"s", "ma">>)
              /\ Ends(c, "0")
              /\ UNCHANGED to_server
           \/ /\ StartsWith(piece, <<"s", "ma">>)
              /\ Ends(c, "IO")
              /\ UNCHANGED to_server
           \/ /\ StartsWith(piece, <<"s", "ma">>) /\ file[c].size > 0
              /\ client' = [client EXCEPT ![c] = "last"]
              /\ to_client' = [to_client EXCEPT ![c] = Rest(@, piece)]
              /\ to_server' = [to_server EXCEPT
                                 ![c] = @ \o Message(Ended(file[c].content))]
              /\ UNCHANGED code
  BY DEF ReadAck
<1>3. /\ UNCHANGED <<file, printed, backlog, server, serving>>
      /\ cut \subseteq cut' /\ client'[c] \notin {"away", "connected"}
      /\ \A d \in Clients \ {c} : Blank(d)' /\ (Intact(d)' => Transfer(d)')
  BY ClientFrame
<1>4. ASSUME Intact(c)' PROVE Transfer(c)'
  <2>1. Transfer(c) /\ ~(Len(piece) < MAX_ANSWER_LENGTH) /\ Intact(c)
    BY <1>1, <1>2, <1>3, <1>4 DEF Intact, Cut, Transfers, TypeOK
  <2>2. /\ file[c] \in Files /\ printed[c] = <<>>
        /\ Announcing(c) \/ Accepted(c) \/ Refused(c)
    BY <1>1, <2>1 DEF Transfer
  <2>3. to_client[c] \in Text /\ Len(to_client[c]) \in {0, MAX_ANSWER_LENGTH}
    BY <1>1, <2>2, Answers DEF WiresOK, Announcing, Accepted, Refused
  <2>4. piece = to_client[c] /\ to_client[c] # <<>> /\ Rest(to_client[c], piece) = <<>>
    BY <2>1, <2>3, WholePiece
  <2>5. CASE Refused(c)
    <3>1. ~StartsWith(piece, <<"s", "ma">>)
      BY <2>4, <2>5, Answers DEF Refused
    <3>2. client'[c] = "ended"
      BY <1>1, <1>2, <3>1 DEF Ends, TypeOK
    <3>3. ~(file[c].size < BigSize)
      <4> DEFINE size == file[c].size
      <4>1. size \in Nat /\ size >= BigSize
        BY <2>2, <2>5, TransferTexts DEF Refused
      <4> HIDE DEF size
      <4>2. ~(size < BigSize)
        BY <4>1 DEF BigSize
      <4> QED
        BY <4>2 DEF size
    <3> QED
      BY <1>3, <2>2, <2>5, <3>2, <3>3 DEF Transfer, Refused
  <2>6. CASE Accepted(c)
    <3>1. StartsWith(piece, <<"s", "ma">>)
      BY <2>4, <2>6, Answers DEF Accepted
    <3>2. CASE Ends(c, "IO")
      <4>1. client'[c] = "ended" /\ code'[c] = "IO"
        BY <1>1, <3>2 DEF Ends, TypeOK
      <4> QED
        BY <4>1 DEF Transfer
    <3>3. CASE /\ client' = [client EXCEPT ![c] = "last"]
               /\ to_client' = [to_client EXCEPT ![c] = Rest(@, piece)]
               /\ to_server' = [to_server EXCEPT
                                  ![c] = @ \o Message(Ended(file[c].content))]
      <4>1. /\ client'[c] = "last" /\ to_client'[c] = <<>>
            /\ to_server'[c] = to_server[c] \o Message(Ended(file[c].content))
        BY <1>1, <2>4, <3>3 DEF TypeOK, WiresOK
      <4>2. file[c].content \in Text /\ Whole(c) \in Text
        BY <2>2, TransferTexts
      <4>3. Message(Ended(file[c].content)) = Whole(c)
        BY <2>1, <4>2, EndedWhole DEF Intact, Whole
      <4>4. to_server'[c] = Whole(c)
        BY <2>6, <4>1, <4>2, <4>3 DEF Accepted, Text
      <4>5. Sending(c)'
        BY <1>3, <2>6, <4>1, <4>4 DEF Accepted, Sending, Whole
      <4>6. c \notin backlog
        BY <1>1, <2>6 DEF Accepted, TypeOK
      <4> QED
        BY <1>3, <2>2, <2>6, <4>1, <4>5, <4>6 DEF Accepted, Transfer
    <3> QED
      BY <1>2, <3>1, <3>2, <3>3
  <2>7. ~Announcing(c)
    BY <2>4 DEF Announcing
  <2> QED
    BY <2>2, <2>5, <2>6, <2>7
<1> QED
  BY <1>3, <1>4 DEF Transfers, Blank

\* The client ends with the file it gets back.
LEMMA LastTransfers ==
    ASSUME IInv, Transfers, NEW c \in Clients, ReadLast(c)
    PROVE  Transfers'
<1>1. TypeOK /\ WiresOK /\ client[c] = "last"
  BY DEF IInv, ReadLast
<1>2. PICK piece \in Pieces(to_client[c]) :
        Cut(c, piece) /\ \E result \in {"0", "-1"} : Ends(c, result)
  BY DEF ReadLast
<1>3. /\ UNCHANGED <<file, printed, backlog, server, serving>>
      /\ cut \subseteq cut' /\ client'[c] \notin {"away", "connected"}
      /\ \A d \in Clients \ {c} : Blank(d)' /\ (Intact(d)' => Transfer(d)')
  BY ClientFrame
<1>4. ASSUME Intact(c)' PROVE Transfer(c)'
  <2>1. Transfer(c) /\ ~(Len(piece) < MAX_ANSWER_LENGTH)
    BY <1>1, <1>2, <1>3, <1>4 DEF Intact, Cut, Transfers, TypeOK
  <2>2. file[c] \in Files /\ file[c].size < BigSize /\ c \notin backlog
    BY <1>1, <2>1 DEF Transfer
  <2>3. Sending(c) \/ Returned(c)
    BY <1>1, <2>1 DEF Transfer
  <2>4. to_client[c] \in Text /\ Len(to_client[c]) \in {0, MAX_ANSWER_LENGTH}
    BY <1>1, <2>2, <2>3, TransferTexts DEF WiresOK, Sending, Returned
  <2>5. to_client[c] # <<>>
    BY <2>1, <2>4, WholePiece
  <2>6. Returned(c)
    BY <2>3, <2>5 DEF Sending
  <2>7. client'[c] = "ended"
    BY <1>1, <1>2 DEF Ends, TypeOK
  <2> QED
    BY <1>3, <2>2, <2>6, <2>7 DEF Returned, Transfer, Whole
<1> QED
  BY <1>3, <1>4 DEF Transfers, Blank

\* The server turns to a client.
LEMMA AcceptTransfers ==
    ASSUME IInv, Transfers, NEW c \in Clients, Accept(c)
    PROVE  Transfers'
<1>1. TypeOK /\ WiresOK
  BY DEF IInv
<1>2. /\ UNCHANGED <<file, client, code, to_server, to_client, printed, cut>>
      /\ backlog' = backlog \ {c} /\ c \in backlog
      /\ serving = Nobody /\ serving' = c /\ server' = "size"
  BY <1>1 DEF Accept, wires, TypeOK
<1>3. ASSUME NEW d \in Clients \ {c} PROVE Blank(d)' /\ (Intact(d)' => Transfer(d)')
  <2>1. d \in backlog' <=> d \in backlog
    BY <1>2
  <2>2. serving' # d /\ serving # d
    BY <1>2, NobodyAssumption
  <2> QED
    BY <1>2, <2>1, <2>2, OtherTransfers
<1>4. Blank(c)'
  BY <1>2 DEF Transfers, Blank
<1>5. ASSUME Intact(c)' PROVE Transfer(c)'
  <2>1. Transfer(c)
    BY <1>2, <1>5 DEF Intact, Transfers
  <2>2. client[c] = "ack" \/ Transfer(c)'
    BY <1>1, <1>2, <2>1 DEF Transfer, TypeOK
  <2>4. CASE client[c] = "ack"
    <3>1. Announcing(c)
      BY <1>1, <1>2, <2>1, <2>4, NobodyAssumption DEF Transfer, Accepted, Refused
    <3>2. Announcing(c)'
      BY <1>2, <3>1 DEF Announcing, Announced
    <3> QED
      BY <1>2, <2>1, <2>4, <3>2 DEF Transfer
  <2> QED
    BY <2>2, <2>4
<1> QED
  BY <1>2, <1>3, <1>4, <1>5 DEF Transfers

\* The service of a client leaves the other transfers alone, and its own if the
\* client has gone.
LEMMA ServiceFrame ==
    ASSUME IInv, Transfers, NEW c \in Clients, serving = c, server \in {"size", "file"},
           client[c] \notin {"away", "connected"},
           NEW text, NEW place \in {"file", "accept"}, NEW next \in {c, Nobody},
           Sends(c, text, place, next),
           to_server' = [to_server EXCEPT ![c] = to_server'[c]],
           printed' = [printed EXCEPT ![c] = printed'[c]],
           cut \subseteq cut',
           UNCHANGED <<file, client, code, backlog>>
    PROVE  /\ \A d \in Clients \ {c} : Blank(d)' /\ (Intact(d)' => Transfer(d)')
           /\ Blank(c)'
           /\ client[c] \notin {"ack", "last"} => (Intact(c)' => Transfer(c)')
           /\ client[c] \in {"ack", "last"} =>
                /\ to_client'[c] = to_client[c] \o Message(text)
                /\ server' = place /\ serving' = next
<1>1. TypeOK /\ WiresOK
  BY DEF IInv
<1>2. ASSUME NEW d \in Clients \ {c} PROVE Blank(d)' /\ (Intact(d)' => Transfer(d)')
  <2>1. /\ to_server'[d] = to_server[d] /\ to_client'[d] = to_client[d]
        /\ printed'[d] = printed[d]
    BY <1>1 DEF Sends, WiresOK, Transfers
  <2>2. serving # d /\ serving' # d
    BY NobodyAssumption DEF Sends
  <2> QED
    BY <2>1, <2>2, OtherTransfers
<1>3. Blank(c)'
  BY DEF Blank
<1>4. ASSUME client[c] \notin {"ack", "last"}, Intact(c)' PROVE Transfer(c)'
  <2>1. Transfer(c)
    BY <1>4 DEF Intact, Transfers
  <2> QED
    BY <1>4, <2>1 DEF Transfer
<1>5. ASSUME client[c] \in {"ack", "last"}
      PROVE  /\ to_client'[c] = to_client[c] \o Message(text)
             /\ server' = place /\ serving' = next
  BY <1>1, <1>5 DEF Sends, Gone, WiresOK
<1> QED
  BY <1>2, <1>3, <1>4, <1>5

\* The server reads the length as it was sent, and answers.
LEMMA SizeTransfers ==
    ASSUME IInv, Transfers, MAX_ANSWER_LENGTH >= 4, NEW c \in Clients, ReadSize(c)
    PROVE  Transfers'
<1>1. TypeOK /\ WiresOK
  BY DEF IInv
<1>2. PICK piece \in Pieces(to_server[c]) :
        /\ to_server' = [to_server EXCEPT
                           ![c] = IF Small(atoi(piece)) THEN Rest(@, piece) ELSE <<>>]
        /\ Cut(c, piece)
        /\ IF Small(atoi(piece))
           THEN Sends(c, smallFileAck \o end, "file", c)
           ELSE Sends(c, bigFileAck \o end, "accept", Nobody)
  BY DEF ReadSize
<1>3. /\ serving = c /\ server = "size" /\ client[c] \notin {"away", "connected"}
      /\ UNCHANGED <<file, client, code, backlog, printed>>
  BY NotSilent DEF ReadSize, Serves
<1> DEFINE text == IF Small(atoi(piece)) THEN smallFileAck \o end ELSE bigFileAck \o end
           place == IF Small(atoi(piece)) THEN "file" ELSE "accept"
           next == IF Small(atoi(piece)) THEN c ELSE Nobody
<1>4. /\ Sends(c, text, place, next)
      /\ place \in {"file", "accept"} /\ next \in {c, Nobody}
  <2>1. CASE Small(atoi(piece))
    BY <1>2, <2>1
  <2>2. CASE ~Small(atoi(piece))
    BY <1>2, <2>2
  <2> QED
    BY <2>1, <2>2
<1> HIDE DEF text, place, next
<1>5. /\ to_server' = [to_server EXCEPT ![c] = to_server'[c]]
      /\ printed' = [printed EXCEPT ![c] = printed'[c]]
      /\ cut \subseteq cut'
  BY <1>1, <1>2, <1>3 DEF WiresOK, Transfers, Cut
<1>6. /\ \A d \in Clients \ {c} : Blank(d)' /\ (Intact(d)' => Transfer(d)')
      /\ Blank(c)'
      /\ client[c] \notin {"ack", "last"} => (Intact(c)' => Transfer(c)')
      /\ client[c] \in {"ack", "last"} =>
           /\ to_client'[c] = to_client[c] \o Message(text)
           /\ server' = place /\ serving' = next
  BY <1>3, <1>4, <1>5, ServiceFrame
<1>7. ASSUME Intact(c)', client[c] \in {"ack", "last"} PROVE Transfer(c)'
  <2>1. Transfer(c) /\ ~(Len(piece) < MAX_ANSWER_LENGTH)
    BY <1>1, <1>2, <1>3, <1>5, <1>7 DEF Intact, Cut, Transfers, TypeOK
  <2>2. client[c] = "ack"
    BY <1>3, <1>7, <2>1 DEF Transfer, Sending, Returned
  <2>3. Announcing(c) /\ file[c] \in Files /\ file[c].size <= MaxSize /\ printed[c] = <<>>
    BY <1>3, <2>1, <2>2 DEF Transfer, Accepted, Refused
  <2>4. to_server[c] \in Text /\ Len(to_server[c]) \in {0, MAX_ANSWER_LENGTH}
    BY <2>3, TransferTexts DEF Announcing
  <2>5. piece = Announced(c) /\ Rest(to_server[c], piece) = <<>>
    BY <2>1, <2>3, <2>4, WholePiece DEF Announcing
  <2> DEFINE size == file[c].size
  <2>a. size \in Nat /\ size <= MaxSize
    BY <2>3, TransferTexts
  <2> HIDE DEF size
  <2>b. size \in 0 .. MaxSize
    BY <2>a DEF MaxSize
  <2>6. file[c].size \in 0 .. MaxSize
    BY <2>b DEF size
  <2>7. atoi(piece) = file[c].size
    BY <2>5, <2>6, LengthRead DEF Announced
  <2>8. to_client'[c] = Message(text) /\ server' = place /\ serving' = next
    <3>1. text \in Text
      BY Words DEF text
    <3>2. Message(text) \in Text
      BY <3>1, MessageFacts
    <3>3. <<>> \o Message(text) = Message(text)
      BY <3>2 DEF Text
    <3> QED
      BY <1>6, <2>2, <2>3, <3>3 DEF Announcing
  <2>9. CASE file[c].size < BigSize
    <3>1. Small(atoi(piece))
      BY <2>7, <2>9 DEF Small
    <3>2. Accepted(c)'
      BY <1>1, <1>2, <1>3, <2>5, <2>8, <2>9, <3>1
         DEF Accepted, SmallAnswer, WiresOK, text, place, next
    <3> QED
      BY <1>3, <2>2, <2>3, <3>2 DEF Transfer
  <2>10. CASE ~(file[c].size < BigSize)
    <3>1. ~Small(atoi(piece)) /\ file[c].size >= BigSize
      BY <2>6, <2>7, <2>10 DEF Small, BigSize
    <3>2. c \notin backlog
      BY <1>1, <1>3 DEF TypeOK
    <3>3. Refused(c)'
      BY <1>3, <2>8, <3>1, <3>2, NobodyAssumption
         DEF Refused, BigAnswer, text, place, next
    <3> QED
      BY <1>3, <2>2, <2>3, <3>3 DEF Transfer
  <2> QED
    BY <2>9, <2>10
<1> QED
  BY <1>3, <1>6, <1>7 DEF Transfers

\* The server prints the file, and sends it back.
LEMMA FileTransfers ==
    ASSUME IInv, Transfers, NEW c \in Clients, ReadFile(c)
    PROVE  Transfers'
<1>1. TypeOK /\ WiresOK
  BY DEF IInv
<1>2. PICK piece \in Pieces(to_server[c]) :
        /\ to_server' = [to_server EXCEPT ![c] = <<>>]
        /\ printed' = [printed EXCEPT ![c] = Message(piece)]
        /\ Cut(c, piece)
        /\ Sends(c, piece, "accept", Nobody)
  BY DEF ReadFile, NextClient
<1>3. /\ serving = c /\ server = "file" /\ client[c] \notin {"away", "connected"}
      /\ UNCHANGED <<file, client, code, backlog>>
  BY NotSilent DEF ReadFile, Serves
<1>4. /\ to_server' = [to_server EXCEPT ![c] = to_server'[c]]
      /\ printed' = [printed EXCEPT ![c] = printed'[c]]
      /\ cut \subseteq cut'
  BY <1>1, <1>2, <1>3 DEF WiresOK, Transfers, Cut
<1>5. /\ \A d \in Clients \ {c} : Blank(d)' /\ (Intact(d)' => Transfer(d)')
      /\ Blank(c)'
      /\ client[c] \notin {"ack", "last"} => (Intact(c)' => Transfer(c)')
      /\ client[c] \in {"ack", "last"} =>
           /\ to_client'[c] = to_client[c] \o Message(piece)
           /\ server' = "accept" /\ serving' = Nobody
  BY <1>2, <1>3, <1>4, ServiceFrame
<1>6. piece \in Text
  BY <1>1, PieceFacts DEF WiresOK
<1>7. Message(piece) \in Text
  BY <1>6, MessageFacts
<1>8. printed' \in [Clients -> Text]
  BY <1>2, <1>7 DEF Transfers
<1>9. ASSUME Intact(c)', client[c] \in {"ack", "last"} PROVE Transfer(c)'
  <2>1. Transfer(c) /\ ~(Len(piece) < MAX_ANSWER_LENGTH)
    BY <1>1, <1>2, <1>3, <1>4, <1>9 DEF Intact, Cut, Transfers, TypeOK
  <2>2. file[c] \in Files /\ (Accepted(c) \/ Sending(c))
    BY <1>1, <1>3, <1>9, <2>1 DEF Transfer, Announcing, Refused, Returned, TypeOK
  <2>3. to_server[c] \in Text /\ Len(to_server[c]) \in {0, MAX_ANSWER_LENGTH}
    BY <1>1, <2>2, TransferTexts DEF Accepted, Sending, WiresOK
  <2>4. piece = to_server[c] /\ to_server[c] # <<>>
    BY <2>1, <2>3, WholePiece
  <2>5. Sending(c)
    BY <2>2, <2>4 DEF Accepted
  <2>6. piece = Whole(c) /\ Message(piece) = Whole(c)
    <3>1. file[c].content \o end \in Text
      BY <2>2, FileText DEF end, Text, Tokens
    <3> QED
      BY <2>4, <2>5, <3>1, MessageTwice DEF Sending, Whole
  <2>7. printed'[c] = Whole(c) /\ to_client'[c] = Whole(c)
    BY <1>2, <1>5, <1>7, <1>9, <2>5, <2>6 DEF Transfers, Sending, Text
  <2>8. Returned(c)'
    BY <1>3, <1>5, <1>9, <2>7, NobodyAssumption DEF Returned, Whole
  <2>9. client[c] = "last"
    BY <1>1, <1>9, <2>1, <2>5, TransferTexts, LengthAssumption, <2>4
       DEF Transfer, Sending, Announcing, Accepted, Refused, TypeOK
  <2> QED
    BY <1>3, <2>1, <2>8, <2>9 DEF Transfer
<1> QED
  BY <1>5, <1>8, <1>9 DEF Transfers

\* Every step keeps the invariant.
LEMMA TransfersStep ==
    ASSUME MAX_ANSWER_LENGTH >= 4
    PROVE  IInv /\ Transfers /\ [Next]_vars => Transfers'
<1> SUFFICES ASSUME IInv, Transfers, [Next]_vars PROVE Transfers'
  OBVIOUS
<1>1. CASE Next
  BY <1>1, RunTransfers, SendSizeTransfers, KilledTransfers, AckTransfers, LastTransfers,
     AcceptTransfers, SizeTransfers, FileTransfers, NobodyTransfers
     DEF Next, ClientStep, ServerStep
<1>2. CASE UNCHANGED vars
  <2>1. \A c \in Clients : Blank(c)' /\ (Intact(c)' => Transfer(c)')
    BY <1>2, OtherTransfers DEF vars, wires
  <2> QED
    BY <1>2, <2>1 DEF vars, wires, Transfers
<1> QED
  BY <1>1, <1>2

\* For any clients and files, if a message has room for the digits of a length:
\* a transfer whose messages were each read in one piece has printed the small
\* file as it is and no big one.
THEOREM WholeTransfersArrive ==
    ASSUME MAX_ANSWER_LENGTH >= 4
    PROVE  Spec => []Delivered
<1>1. IInv /\ Transfers /\ [Next]_vars => Transfers'
  BY TransfersStep
<1>2. Spec => []Transfers
  BY TransfersInit, <1>1, Invariance, PTL DEF Spec
<1> QED
  BY <1>2, TransfersEnough, PTL

=============================================================================
