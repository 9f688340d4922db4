------------------------------- MODULE PostParser -------------------------------
(***************************************************************************)
(* The POST controller (KmsHttpPost.cpp): the parser that takes the body   *)
(* of a request chunk by chunk, as libsoup hands it over, and delivers     *)
(* what the endpoint gets.  One action is one pass of the loop of          *)
(* kms_http_post_parse_multipart_data, that is, one of its functions.      *)
(*                                                                         *)
(* The boundary is one token here, so that the code's boundary_len is 1.   *)
(* Where the code keeps pointers into the buffer of an earlier chunk,      *)
(* "held" is the data it keeps for the next one: the functions put it      *)
(* before the chunk (kms_http_post_concat_previous_buffer) once.           *)
(***************************************************************************)
EXTENDS Integers, Sequences, SequencesExt, FiniteSetsExt

CONSTANTS Posts, Symbols

VARIABLES
    post,      \* the request
    got,       \* tokens of the body handed over so far
    state,     \* the parser's state
    rest,      \* start .. end: what is left of the chunk
    held,      \* tmp_buff: the end of the chunks before it
    headers,   \* the headers of the part
    out,       \* history: the data of the "got-data" signals
    ended      \* "finished" was emitted

vars == <<post, got, state, rest, held, headers, out, ended>>

Upload == INSTANCE PostUpload WITH received <- got, delivered <- out

ConstantsOK == \A p \in Posts : Upload!WellFormed(p)

BoundaryLength == 1

\* kms_http_post_configure_msg: a request the controller accepts.
Init ==
    /\ post \in Posts
    /\ got = 0
    /\ state = "initial"
    /\ rest = <<>> /\ held = <<>>
    /\ headers = {}
    /\ out = <<>>
    /\ ended = FALSE

-----------------------------------------------------------------------------
(* The chunks. *)

\* got_chunk_cb, multipart: the loop begins.
GotChunk(n) ==
    /\ ~ended /\ post.multipart /\ rest = <<>>
    /\ got + n <= Len(Upload!Body)
    /\ got' = got + n
    /\ rest' = SubSeq(Upload!Body, got + 1, got + n)
    /\ UNCHANGED <<post, state, held, headers, out, ended>>

\* got_chunk_cb, any other content type.
PassChunk(n) ==
    /\ ~ended /\ ~post.multipart
    /\ got + n <= Len(Upload!Body)
    /\ got' = got + n
    /\ out' = out \o SubSeq(Upload!Body, got + 1, got + n)
    /\ UNCHANGED <<post, state, rest, held, headers, ended>>

\* finished_cb, at the end of the body or when the connection is lost: what is held
\* goes with the parser.
Finished ==
    /\ ~ended /\ rest = <<>>
    /\ ended' = TRUE
    /\ held' = <<>>
    /\ UNCHANGED <<post, got, state, rest, headers, out>>

-----------------------------------------------------------------------------
(* Pieces of the functions.  data is the held data and the chunk. *)

Loop(s) == ~ended /\ rest # <<>> /\ state = s

From(data, i) == SubSeq(data, i, Len(data))

\* Nothing is left of the chunk, and data from i on waits for the next one.
\* (Forget, which keeps nothing, is a mutant.)
Forget(data, i) == rest' = <<>> /\ held' = <<>> /\ i \in 1 .. Len(data) + 1
Hold(data, i) == rest' = <<>> /\ held' = From(data, i)

Continue(data, i) == rest' = From(data, i) /\ held' = <<>>

\* What two tokens after a boundary mean.
Ending(data, i) ==
    CASE SubSeq(data, i, i + 1) = <<"cr", "lf">> -> "headers"
      [] SubSeq(data, i, i + 1) = <<"-", "-">>   -> "finished"
      [] OTHER                                   -> "none"

\* A line break at i with too little behind it to tell a delimiter.
Undecided(data, i) == Len(data) < i + BoundaryLength + 5

IsDelimiter(data, i) ==
    /\ SubSeq(data, i, i + 3 + BoundaryLength) = <<"cr", "lf", "-", "-", "B">>
    /\ Ending(data, i + 4 + BoundaryLength) # "none"

\* Where kms_http_post_read_until_boundary stops in data, if it does.
Stops(data) ==
    {i \in DOMAIN data : data[i] = "cr" /\ (Undecided(data, i) \/ IsDelimiter(data, i))}

\* The blank line that ends the headers, and the lines before position i.
Blank(data) ==
    {i \in DOMAIN data : /\ i > 1 /\ data[i] = "lf" /\ data[i - 1] = "cr"
                         /\ i = 2 \/ data[i - 2] = "lf"}
Lines(data, i) == Range(SubSeq(data, 1, i)) \intersect Upload!HeaderLines

-----------------------------------------------------------------------------
(* The functions of the loop. *)

CheckPreamble ==
    /\ Loop("initial")
    /\ state' = IF Head(rest) = "cr" THEN "ignore" ELSE "preamble"
    /\ UNCHANGED <<post, got, rest, held, headers, out, ended>>

SkipPreamble ==
    LET data == held \o rest IN
    /\ Loop("preamble")
    /\ \/ /\ \/ data[1] # "-"
             \/ /\ Len(data) >= BoundaryLength + 4
                /\ SubSeq(data, 2, 2 + BoundaryLength) # <<"-", "B">>
          /\ state' = "ignore"
          /\ Continue(data, 1)
       \/ /\ data[1] = "-" /\ Len(data) < BoundaryLength + 4
          /\ Hold(data, 1)
          /\ UNCHANGED state
       \/ /\ Len(data) >= BoundaryLength + 4
          /\ SubSeq(data, 1, 2 + BoundaryLength) = <<"-", "-", "B">>
          /\ LET next == Ending(data, BoundaryLength + 3)
             IN state' = IF next = "none" THEN state ELSE next
          /\ Continue(data, BoundaryLength + 5)
    /\ UNCHANGED <<post, got, headers, out, ended>>

ReadHeaders ==
    LET data == held \o rest IN
    /\ Loop("headers")
    /\ IF Blank(data) # {}
       THEN /\ headers' = headers \union Lines(data, Min(Blank(data)))
            /\ state' = "check"
            /\ Continue(data, Min(Blank(data)) + 1)
       ELSE LET last == Max({0} \union {i \in DOMAIN data : data[i] = "lf"})
            IN /\ headers' = headers \union Lines(data, last)
               /\ Hold(data, last + 1)
               /\ UNCHANGED state
    /\ UNCHANGED <<post, got, out, ended>>

\* Without a Content-Disposition the loop changes nothing and never ends: there is
\* no step.
CheckHeaders ==
    /\ Loop("check")
    /\ headers \intersect {"file", "form"} # {}
    /\ state' = IF "file" \in headers THEN "content" ELSE "ignore"
    /\ UNCHANGED <<post, got, rest, held, headers, out, ended>>

\* kms_http_post_read_until_boundary: data[1 .. kept] is of the part.
ReadUntilBoundary(data, kept, next) ==
    IF Stops(data) = {}
    THEN kept = Len(data) /\ next = state /\ Hold(data, Len(data) + 1)
    ELSE LET i == Min(Stops(data))
         IN /\ kept = i - 1
            /\ IF Undecided(data, i)
               THEN next = state /\ Hold(data, i)
               ELSE /\ next = Ending(data, i + 4 + BoundaryLength)
                    /\ Continue(data, i + 6 + BoundaryLength)

IgnoreContent ==
    LET data == held \o rest IN
    /\ Loop("ignore")
    /\ \E kept \in 0 .. Len(data), next \in {"ignore", "headers", "finished"} :
          /\ ReadUntilBoundary(data, kept, next)
          /\ state' = next
          /\ headers' = IF next = "ignore" THEN headers ELSE {}
    /\ UNCHANGED <<post, got, out, ended>>

\* Whatever follows the file is left.
ReadContent ==
    LET data == held \o rest IN
    /\ Loop("content")
    /\ \E kept \in 0 .. Len(data), next \in {"content", "headers", "finished"} :
          /\ ReadUntilBoundary(data, kept, next)
          /\ out' = out \o SubSeq(data, 1, kept)
          /\ state' = IF next = "content" THEN "content" ELSE "finished"
    /\ UNCHANGED <<post, got, headers, ended>>

LeaveRest ==
    /\ Loop("finished")
    /\ rest' = <<>>
    /\ UNCHANGED <<post, got, state, held, headers, out, ended>>

Next ==
    \/ \E n \in 1 .. Len(Upload!Body) : GotChunk(n) \/ PassChunk(n)
    \/ Finished
    \/ CheckPreamble \/ SkipPreamble \/ ReadHeaders \/ CheckHeaders
    \/ IgnoreContent \/ ReadContent \/ LeaveRest

Spec == Init /\ [][Next]_vars

-----------------------------------------------------------------------------

TypeOK ==
    /\ post \in Posts
    /\ got \in 0 .. Len(Upload!Body)
    /\ state \in {"initial", "preamble", "headers", "check", "ignore", "content", "finished"}
    /\ Len(rest) <= got + Len(held) /\ Len(held) <= got
    /\ headers \subseteq Upload!HeaderLines
    /\ ended \in BOOLEAN

(***************************************************************************)
(* However the chunks cut the request, the parser does what PostUpload     *)
(* promises.                                                               *)
(***************************************************************************)
Uploads == Upload!Spec

=================================================================================
