----------------------------- MODULE MCRequests -----------------------------
(***************************************************************************)
(* A small instance of Requests for TLC.                                   *)
(***************************************************************************)
EXTENDS Requests

Page(code, headers, body) ==
    [code |-> code, headers |-> headers, body |-> body]

Location    == Header("Location", 0)
Disposition == Header("Content-Disposition", 7)

\* A torrent of four bytes; one announced by the length of its compressed
\* form, with a name; one of no bytes; one that begins with NUL; a redirect
\* with a body, its headers in either order; an error.
Documents == {
    Page(200, <<Length(<<255, 3, 0, 90>>)>>, <<255, 3, 0, 90>>),
    Page(200, <<Header("Content-Length", 1), Disposition>>, <<100, 61>>),
    Page(200, <<>>, <<>>),
    Page(200, <<>>, <<0>>),
    Page(302, <<Length(<<60, 60>>), Location>>, <<60, 60>>),
    Page(302, <<Location, Length(<<60>>)>>, <<60>>),
    Page(404, <<>>, <<60, 60>>)}

\* Everything the configuration can ask for, and nothing of it.
SomeOptions ==
    UNION {[upload_limit : {on}, prowl_key : {on}, pushover_key : {on}] :
           on \in BOOLEAN}

Links == {<<700>>}
=============================================================================
