------------------------------- MODULE PostUpload -------------------------------
(***************************************************************************)
(* What the POST controller promises, without a word of how it parses: of  *)
(* a multipart request the content of the first part with a file is        *)
(* delivered, and of any other request the body, whatever pieces it        *)
(* arrives in.                                                             *)
(*                                                                         *)
(* A body is a sequence of tokens.  "B" is the boundary the request        *)
(* announced, a header line is one token, and everything else is written   *)
(* as it is on the wire.                                                   *)
(***************************************************************************)
EXTENDS Integers, Sequences, SequencesExt, FiniteSetsExt

CONSTANTS
    Posts,    \* the requests: [multipart, lead, parts], of parts [headers, content]
    Symbols   \* the tokens that mean nothing

VARIABLES
    post,        \* the request
    received,    \* tokens of its body that have arrived
    delivered,   \* what the endpoint was given
    ended        \* the end of the request was reported

upload == <<post, received, delivered, ended>>

-----------------------------------------------------------------------------
(* Bodies, as a client writes them. *)

CrLf == <<"cr", "lf">>
Dashes == <<"-", "-">>
Boundary == Dashes \o <<"B">>
Delimiter == CrLf \o Boundary

HeaderLines == {"file", "form", "other"}
Tokens == {"cr", "lf", "-", "B"} \union HeaderLines \union Symbols

Lines(lines) ==
    [i \in 1 .. 3 * Len(lines) |-> <<lines[(i + 2) \div 3], "cr", "lf">>[1 + ((i + 2) % 3)]]

\* What follows the delimiter before a part, up to the one after it.
Section(part) == CrLf \o Lines(part.headers) \o CrLf \o part.content \o Delimiter

\* A multipart body up to the delimiter after its part n.
Upto(p) ==
    LET upto[n \in 0 .. Len(p.parts)] ==
            IF n = 0 THEN p.lead \o Boundary ELSE upto[n - 1] \o Section(p.parts[n])
    IN upto

Text(p) ==
    IF p.multipart THEN Upto(p)[Len(p.parts)] \o Dashes ELSE p.parts[1].content

\* The requests: what is before the first boundary may be nothing, and ends in a line
\* break otherwise; the boundary is none of the lines of the preamble or of a part.
Undelimited(text) ==
    \A i \in 1 .. Len(text) - 6 :
        SubSeq(text, i, i + 6) \notin {Delimiter \o CrLf, Delimiter \o Dashes}

Preamble(lead) ==
    /\ Len(lead) >= 2 /\ SubSeq(lead, Len(lead) - 1, Len(lead)) = CrLf
    /\ Len(lead) >= 3 => SubSeq(lead, 1, 3) # Boundary
    /\ Undelimited(lead)

WellFormed(p) ==
    /\ p \in [multipart : BOOLEAN, lead : Seq(Tokens),
              parts : Seq([headers : Seq(HeaderLines), content : Seq(Tokens)])]
    /\ Len(p.parts) > 0
    /\ p.multipart =>
         /\ p.lead # <<>> => Preamble(p.lead)
         /\ \A k \in DOMAIN p.parts : Undelimited(p.parts[k].content \o CrLf)

Body == Text(post)

Files == {i \in DOMAIN post.parts : "file" \in Range(post.parts[i].headers)}

\* The part that is delivered, where its content ends in the body, and where the
\* delimiter after it does.
Wanted ==
    IF ~post.multipart THEN post.parts[1].content
    ELSE IF Files = {} THEN <<>>
    ELSE post.parts[Min(Files)].content

WantedEnd ==
    IF ~post.multipart \/ Files = {} THEN Len(Body)
    ELSE Len(Upto(post)[Min(Files)]) - Len(Delimiter)

Closed == IF post.multipart THEN WantedEnd + Len(Delimiter) + 2 ELSE WantedEnd

\* The tokens of that content among the received ones.
Arrived ==
    LET missing == Max({0, WantedEnd - received})
    IN Max({0, Len(Wanted) - missing})

-----------------------------------------------------------------------------

Init ==
    /\ post \in Posts
    /\ received = 0
    /\ delivered = <<>>
    /\ ended = FALSE

Receive ==
    /\ ~ended
    /\ received' \in received + 1 .. Len(Body)
    /\ UNCHANGED <<post, delivered, ended>>

Deliver ==
    /\ ~ended
    /\ \E n \in Len(delivered) + 1 .. Arrived : delivered' = SubSeq(Wanted, 1, n)
    /\ UNCHANGED <<post, received, ended>>

\* All of the content was delivered when its delimiter has arrived; of one that was
\* cut short, at most what might have been the beginning of the delimiter is missing.
End ==
    /\ ~ended
    /\ received >= Closed => delivered = Wanted
    /\ Len(delivered) > Arrived - (Len(Delimiter) + 2)
    /\ ended' = TRUE
    /\ UNCHANGED <<post, received, delivered>>

\* A non-multipart chunk is delivered as it arrives.
Pass ==
    /\ ~ended /\ ~post.multipart
    /\ received' \in received + 1 .. Len(Body)
    /\ delivered' = SubSeq(Wanted, 1, received')
    /\ UNCHANGED <<post, ended>>

Next == Receive \/ Deliver \/ End \/ Pass

Spec == Init /\ [][Next]_upload

=================================================================================
