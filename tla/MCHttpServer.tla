---------------------------- MODULE MCHttpServer ----------------------------
(* Connections and pages for TLC. *)
EXTENDS HttpServer

CONSTANTS c1, c2

Get(u) == [kind |-> "GET", url |-> u]
Header == [kind |-> "other"]
Form == <<"form_submited", "http_post.html">>
PostForm(user) ==
  <<[kind |-> "POST", url |-> <<"form_submited">>], [kind |-> "Referer", name |-> "http_post.html"], [kind |-> "user", user |-> user]>>

MCPages == <<"index.html">> :> "index" @@ Form :> Template

\* A browser that loads pages, next to one that posts and looks at the page; and
\* two that post.
Reader == <<Get(<<>>), Header, Get(<<"a.html">>), Get(<<"form_submited">>), Get(Form)>>
Serve == c1 :> Reader @@ c2 :> PostForm("u2") \o <<Get(Form)>>
TwoPosts == c1 :> PostForm("u1") @@ c2 :> PostForm("u2")
=============================================================================
