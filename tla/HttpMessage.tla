---------------------------- MODULE HttpMessage -----------------------------
(***************************************************************************)
(* What the server makes of the bytes of a connection: http_prot.c takes   *)
(* the message apart, imgfs_server_service.c picks the call it asks for.   *)
(*                                                                         *)
(* A text is a sequence of tokens: a delimiter, or a run of characters no  *)
(* search of the code ends in. As in C, a search stops at a NUL.           *)
(***************************************************************************)
EXTENDS Integers, Sequences

CONSTANTS
    MaxHeaders,   \* MAX_HEADERS
    Numeral,      \* what atoi makes of a token: a function on those with digits
    MaxValue,     \* longest value a handler takes of each argument, in tokens
    Blank         \* the empty img_id

ASSUME MaxHeadersAssumption == MaxHeaders \in Nat
ASSUME MaxValueAssumption == MaxValue \in [{"res=", "img_id=", "name="} -> Nat]

LineDelim == <<"CRLF">>
EndDelim == LineDelim \o LineDelim
KeyDelim == <<":", " ">>

-----------------------------------------------------------------------------
(* strstr and get_next_token.                                               *)

At(s, k, delim) ==
    /\ k + Len(delim) - 1 <= Len(s)
    /\ \A n \in 1 .. Len(delim) : s[k + n - 1] = delim[n]

Hits(s, from, delim) == {k \in from .. Len(s) : At(s, k, delim)}

\* The first place of delim from there on; Len(s) + 1 stands for NULL.
Find(s, from, delim) ==
    CHOOSE k \in from .. Len(s) + 1 :
        /\ k <= Len(s) => At(s, k, delim)
        /\ \A j \in Hits(s, from, delim) : k <= j

Found(s, from, delim) == Find(s, from, delim) <= Len(s)

\* The buffer as a C string.
Text(buffer) == SubSeq(buffer, 1, Find(buffer, 1, <<"NUL">>) - 1)

\* The text before the delimiter, and where the one after it starts.
Token(s, from, delim) == SubSeq(s, from, Find(s, from, delim) - 1)
After(s, from, delim) == Find(s, from, delim) + Len(delim)

StartsWith(s, prefix) == Len(prefix) <= Len(s) /\ At(s, 1, prefix)

-----------------------------------------------------------------------------
(* http_parse_headers and http_parse_message.                               *)

\* Stands for the NULL of a value without an end.
Unended == [key |-> <<>>, value |-> <<>>]

\* Key and value in turn until no key is left, or an empty one. Nothing else
\* ends the header: what follows the empty line is searched too.
Headers(s, start) ==
    LET from[i \in start .. Len(s) + 1] ==
            IF ~Found(s, i, KeyDelim) \/ Token(s, i, KeyDelim) = <<>> THEN <<>>
            ELSE LET v == After(s, i, KeyDelim) IN
                 IF ~Found(s, v, LineDelim) THEN <<Unended>>
                 ELSE <<[key |-> Token(s, i, KeyDelim),
                         value |-> Token(s, v, LineDelim)]>>
                      \o from[After(s, v, LineDelim)]
    IN from[start]

WellFormed(headers) ==
    /\ Len(headers) <= MaxHeaders
    /\ \A i \in DOMAIN headers : headers[i] # Unended

\* atoi
Number(s) == IF s # <<>> /\ s[1] \in DOMAIN Numeral THEN Numeral[s[1]] ELSE 0

\* The first header of that name decides.
ContentLength(headers) ==
    LET named == {i \in DOMAIN headers : headers[i].key = <<"Content-Length">>}
    IN IF named = {} THEN 0
       ELSE Number(headers[CHOOSE i \in named : \A j \in named : i <= j].value)

Incomplete == [result |-> 0]
Malformed == [result |-> -1]

\* A message: where its URI lies in the text, its method and its body.
Message(s, method, first, last, body) ==
    [result |-> 1, text |-> s, method |-> method, first |-> first, last |-> last,
     body |-> body]

\* strncmp compares as many characters of the version as there are.
KnownVersion(version) == version \in {<<>>, <<"HTTP/1.1">>}

\* The start line up to the version, the version, and the first header.
StartLine(s) ==
    LET uri == After(s, 1, <<" ">>)
        version == After(s, uri, <<" ">>)
    IN [uri |-> uri, version |-> version,
        next |-> After(s, version, LineDelim)]

WellStarted(s) ==
    /\ Found(s, 1, <<" ">>)
    /\ Found(s, StartLine(s).uri, <<" ">>)
    /\ Found(s, StartLine(s).version, LineDelim)
    /\ KnownVersion(Token(s, StartLine(s).version, LineDelim))

\* Fault: the start line is taken for the whole header.
StartReceived(s) == Found(s, 1, LineDelim)

HeaderReceived(s) == Found(s, 1, EndDelim)

\* Fault: a byte more than the message has is waited for.
BodyExceeded(n, size, received) == received > size + n

BodyReceived(n, size, received) == received >= size + n

\* Without a header http_parse_headers returns headers[-1].key.val, which is
\* method.val in this struct: not NULL.
Parse(buffer, received) ==
    LET s == Text(buffer)
        headers == Headers(s, StartLine(s).next)
        n == ContentLength(headers)
        size == After(s, 1, EndDelim) - 1
    IN IF ~HeaderReceived(s) THEN Incomplete
       ELSE IF ~WellStarted(s) \/ ~WellFormed(headers) THEN Malformed
       ELSE IF n > 0 /\ ~BodyReceived(n, size, received) THEN Incomplete
       ELSE Message(s, Token(s, 1, <<" ">>), StartLine(s).uri,
                    StartLine(s).version - 2,
                    IF n > 0 THEN SubSeq(buffer, size + 1, size + n) ELSE <<>>)

-----------------------------------------------------------------------------
(* http_match_uri, http_match_verb and http_get_var.                        *)

Uri(msg) == SubSeq(msg.text, msg.first, msg.last)

MatchUri(msg, target) == StartsWith(Uri(msg), target)

MatchVerb(method, verb) == method = verb

\* The value ends at the next '&' of the text, or with the URI.
ValueEnd(msg, at) ==
    IF Found(msg.text, at, <<"&">>) THEN Find(msg.text, at, <<"&">>)
    ELSE msg.last + 1

\* The search runs over the text from the first '?' on, not over the URI.
\* "absent" is the return value 0; "error" is a negative one.
GetVar(msg, name) ==
    LET query == Find(msg.text, msg.first, <<"?">>)
        at == Find(msg.text, query, <<name>>)
        length == ValueEnd(msg, at) - (at + 1)
    IN IF query > Len(msg.text) THEN [code |-> "error", value |-> <<>>]
       ELSE IF at > Len(msg.text) THEN [code |-> "absent", value |-> <<>>]
       ELSE IF length \notin 1 .. MaxValue[name]
            THEN [code |-> "error", value |-> <<>>]
       ELSE [code |-> "found", value |-> SubSeq(msg.text, at + 1, at + length)]

-----------------------------------------------------------------------------
(* handle_http_message and the handlers: the library call a message asks    *)
(* for, or the error replied.                                               *)

Call(call, id, res, body) == [call |-> call, id |-> id, res |-> res, body |-> body]

Refused(err) == Call("refused", err, "none", <<>>)

\* resolution_atoi; -1 goes on to do_read like the others.
Resolution(value) ==
    CASE value \in {<<"thumb">>, <<"thumb", "nail">>} -> "THUMB_RES"
      [] value = <<"small">> -> "SMALL_RES"
      [] value \in {<<"orig">>, <<"orig", "inal">>} -> "ORIG_RES"
      [] OTHER -> "-1"

\* Only the return value 0 is refused: after an error the name stays empty.
Name(var) == IF var.value = <<>> THEN Blank ELSE var.value

ReadCall(msg) ==
    LET res == GetVar(msg, "res=")
        id == GetVar(msg, "img_id=")
    IN IF "absent" \in {res.code, id.code} THEN Refused("INVALID_ARGUMENT")
       ELSE Call("read", Name(id), Resolution(res.value), <<>>)

DeleteCall(msg) ==
    LET id == GetVar(msg, "img_id=")
    IN IF id.code = "absent" THEN Refused("INVALID_ARGUMENT")
       ELSE Call("delete", Name(id), "none", <<>>)

InsertCall(msg) ==
    LET name == GetVar(msg, "name=")
    IN IF name.code = "absent" THEN Refused("INVALID_ARGUMENT")
       ELSE Call("insert", Name(name), "none", msg.body)

Handle(msg) ==
    CASE MatchVerb(Uri(msg), <<"/">>) \/ MatchUri(msg, <<"/index.html">>) ->
             Call("file", Blank, "none", <<>>)
      [] MatchUri(msg, <<"/imgfs/list">>) -> Call("list", Blank, "none", <<>>)
      [] /\ MatchUri(msg, <<"/imgfs/insert">>)
         /\ MatchVerb(msg.method, <<"POST">>) -> InsertCall(msg)
      [] MatchUri(msg, <<"/imgfs/read">>) -> ReadCall(msg)
      [] MatchUri(msg, <<"/imgfs/delete">>) -> DeleteCall(msg)
      [] OTHER -> Refused("INVALID_COMMAND")

=============================================================================
