--------------------------- MODULE MCHttpRewrite ---------------------------
(* Small requests for HttpRewrite: every sequence of up to MaxGiven headers *)
(* of the given kinds, with and without an empty line before and a body     *)
(* after it, one request with more headers than there is room for, one with *)
(* a value that looks like a Host header, and two requests in a row.        *)
(* HttpRewrite cuts them into pieces.                                       *)
EXTENDS HttpRewrite, SequencesExt

CONSTANTS MaxGiven, Leads, Bodies

\* Name, length of the value, blanks on each side of the value.
HeaderKinds ==
    {<<<<Host>>, 0, 0>>, <<<<Host>>, 1, 1>>, <<<<Host>>, 2, 0>>, <<<<Host>>, 2, 1>>,
     <<<<Host>>, 3, 0>>, <<<<HostAlias>>, 3, 1>>, <<<<Accept>>, 2, 0>>,
     <<<<Forwarded, Host>>, 1, 0>>}

Blanks(n) == [k \in 1..n |-> Blank]
Header(h, kind) ==
    kind[1] \o Blanks(kind[3]) \o [k \in 1..kind[2] |-> 100 * h + k]
        \o Blanks(kind[3]) \o <<Crlf>>

Request(lead, hs, body) ==
    [k \in 1..lead |-> Crlf] \o <<Line>>
        \o FlattenSeq([h \in DOMAIN hs |-> Header(h, hs[h])])
        \o <<Crlf>> \o [k \in 1..body |-> 1000 + k]

MCRequests ==
    {Request(lead, hs, body) :
        lead \in Leads, hs \in BoundedSeq(HeaderKinds, MaxGiven), body \in Bodies}
    \cup {Request(0, [h \in 1..MaxHeaders + 1 |-> <<<<Host>>, 1, 0>>], 0),
          <<Line, Host, 101, Crlf, Accept, Host, 201, Crlf, Crlf>>,
          <<Line, Host, 101, 102, Crlf, Crlf, Line, Host, 201, 202, Crlf, Crlf>>}

=============================================================================
