--------------------------------- MODULE MCHttp ---------------------------------
(***************************************************************************)
(* The HTTP endpoint for the model checker: its session (HttpEndpoint) and *)
(* the parser of its POST requests (PostParser).  They share nothing but   *)
(* the thread that calls them, and are explored one at a time ("part");    *)
(* while the session is, the parser waits with one short request.          *)
(***************************************************************************)
EXTENDS HttpEndpoint, Sequences

CONSTANTS Posts, Symbols    \* of the parser: the requests and what they are made of

VARIABLES part, post, got, state, rest, held, headers, out, ended_

\* The contents of a file that look like the delimiter, as far as they can.
Contents == {
    <<>>,
    <<"x">>,
    <<"x", "cr">>,
    <<"cr", "lf", "x">>,
    <<"cr", "cr", "lf", "-", "-", "x">>,
    <<"x", "cr", "lf", "-", "-", "B", "x">> }

\* With a line break before the first delimiter, without, and after a preamble.
Leads == { <<>>, <<"cr", "lf">>, <<"x", "cr", "lf">>, <<"-", "x", "cr", "lf">> }

File(c) == [headers |-> <<"file">>, content |-> c]
Form(c) == [headers |-> <<"other", "form">>, content |-> c]
Bare(c) == [headers |-> <<>>, content |-> c]

Multipart(lead, parts) == [multipart |-> TRUE, lead |-> lead, parts |-> parts]
Short == [multipart |-> FALSE, lead |-> <<>>, parts |-> <<File(<<"x", "cr">>)>>]

PostRequests ==
    {Short}
    \union {Multipart(lead, <<File(c)>>) : lead \in Leads, c \in Contents}
    \union {Multipart(<<>>, <<Form(c), File(<<"x">>)>>) : c \in Contents}
    \union {Multipart(<<>>, <<File(c), File(<<"x">>)>>) : c \in Contents}
    \union {Multipart(<<"cr", "lf">>, <<p, File(<<"x">>)>>) : p \in {Form(<<"x">>), Bare(<<"x">>)}}
    \union {Multipart(<<>>, <<Form(<<>>)>>)}

Parser == INSTANCE PostParser WITH ended <- ended_

ASSUME PostsAssumption == Parser!ConstantsOK

parser == <<post, got, state, rest, held, headers, out, ended_>>
all == <<vars, part, parser>>

MCInit ==
    /\ Init /\ Parser!Init
    /\ part \in {"session", "parser"}
    /\ part = "session" => post = Short
    /\ part = "parser" => server = "none"

MCNext ==
    \/ part = "session" /\ Next /\ UNCHANGED <<part, parser>>
    \/ part = "parser" /\ Parser!Next /\ UNCHANGED <<part, vars>>

MCSpec == MCInit /\ [][MCNext]_all /\ Fairness

(* The type invariants. *)
Types == TypeOK /\ Parser!TypeOK

(* PostParser: the parser on chunks implements what PostUpload promises. *)
Uploads == Parser!Uploads
=================================================================================
