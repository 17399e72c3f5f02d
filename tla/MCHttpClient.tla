---------------------------- MODULE MCHttpClient ----------------------------
(* One client, one page. *)
EXTENDS HttpClient

CONSTANT c1

NoScript == c1 :> <<>>
IndexPage == <<"index.html">> :> "index"
=============================================================================
