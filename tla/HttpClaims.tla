----------------------------- MODULE HttpClaims -----------------------------
(***************************************************************************)
(* What the comments and handouts say of requests and the handlers do not  *)
(* keep. It is the property of a run that TLC refutes.                     *)
(***************************************************************************)
EXTENDS HttpConnection

Required == [read |-> {"res=", "img_id="}, delete |-> {"img_id="},
             insert |-> {"name="}]

\* A request without the arguments its call requires, or with one that is too
\* long, calls nothing: of http_get_var "0 or negative return values indicate
\* an error". The handlers refuse the 0 only.
ErrorsRefused ==
    \A k \in DOMAIN calls :
        calls[k].call \in DOMAIN Required =>
            \A name \in Required[calls[k].call] :
                /\ Args(asked[k], name) # {}
                /\ Len(Arg(asked[k], name)) <= MaxValue[name]

=============================================================================
