-------------------------- MODULE MCHttpConnection --------------------------
(* Requests for HttpConnection: every call the server offers, arguments in   *)
(* either order or missing, headers before and behind Content-Length, bodies *)
(* as JPEG files are (a NUL near the start, any delimiter behind it), and    *)
(* requests that cannot be accepted.                                         *)
EXTENDS HttpClaims

HTTP == <<"HTTP/1.1">>
Request(method, path, args, headers, body) ==
    [method |-> method, path |-> <<path>>, version |-> HTTP, args |-> args,
     headers |-> headers, body |-> body]

Pair(name, value) == [name |-> name, value |-> value]
Res(value) == Pair("res=", <<value>>)
Id == Pair("img_id=", <<"pic">>)
Host == Pair("Host", <<"localhost", ":", "8000">>)
Accept == Pair("Accept", <<"any", " ", "?">>)
Length2 == Pair("Content-Length", <<"2">>)
Length4 == Pair("Content-Length", <<"4">>)

Reads ==
    {Request("GET", "/imgfs/read", args, headers, <<>>) :
        args \in {<<Res("small"), Id>>, <<Id, Res("orig")>>, <<Id>>},
        headers \in {<<>>, <<Host, Accept>>}}

Inserts ==
    {Request("POST", "/imgfs/insert", <<Pair("name=", <<"pic">>)>>, headers,
             <<"NUL", ": ">>) : headers \in {<<Length2, Host>>, <<Host, Length2>>}}
    \cup {Request("POST", "/imgfs/insert", <<Pair("name=", <<"pic">>)>>,
                  <<Length4>>, body) :
            body \in {<<"jfif", "NUL", ":", " ">>, <<"CRLF", "CRLF", "NUL", "?">>}}

Others ==
    {Request("GET", path, <<>>, <<Host>>, <<>>) :
        path \in {"/", "/index.html", "/imgfs/list", "/imgfs/insert", "/else"}}
    \cup {Request("GET", "/imgfs/delete", <<arg>>, <<>>, <<>>) :
            arg \in {Id, Pair("id", <<"pic">>)}}

Unacceptable ==
    {[Request("GET", "/imgfs/list", <<>>, <<Host>>, <<>>) EXCEPT !.version = <<"HTTP/2">>],
     Request("GET", "/imgfs/list", <<>>, <<Host, Host, Host>>, <<>>),
     Request("GET", "/imgfs/list", <<>>, <<Host, Accept, Accept, Accept>>, <<>>)}

\* For ErrorsRefused.
Bare ==
    {Request("GET", "/imgfs/read", <<Res("small"), Id>>, <<Host>>, <<>>),
     Request("GET", "/imgfs/delete", <<>>, <<Host>>, <<>>),
     Request("POST", "/imgfs/insert", <<>>, <<Length2>>, <<"jfif", "NUL">>)}

MCRequests == Reads \cup Inserts \cup Others \cup Unacceptable
MCNumeral == [token \in {"2", "4"} |-> IF token = "2" THEN 2 ELSE 4]
MCMaxValue == [name \in {"res=", "img_id=", "name="} |-> 1]

ASSUME PlainRequests == \A r \in MCRequests : Plain(r)

=============================================================================
