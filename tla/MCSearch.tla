------------------------------- MODULE MCSearch -------------------------------
(* An instance of Search for TLC. *)
EXTENDS Search

Text(w)       == [is |-> "text", text |-> <<w>>]
Domain(h)     == [is |-> "domain", value |-> <<h>>]
Size(more, n) == [is |-> "size", greater |-> more, size |-> n]
Type(value)   == [is |-> "content_type", value |-> value]
Not           == [is |-> "not"]

Version(url, host, path, type, size, hash, words) ==
    [url |-> url, host |-> <<host>>, path |-> path, content_type |-> type,
     size |-> size, hash |-> hash, words |-> words]

\* A page, what has become of it when it is crawled again, a copy of it in an
\* archive, and one of the same text and path whose size is unknown.
Page == Version("page", "h", <<"x">>, <<"text", "gemini">>, 3, 1, {<<"w">>})
MCVersions == {
    Page, Version("page", "h", <<"x">>, <<>>, 9, 2, {}),
    Version("copy", "g", <<"h", "x">>, <<"text">>, 7, 1, {<<"w">>}),
    Version("other", "i", <<"x">>, <<>>, 0, 1, {<<"w">>})}

MCIndexed == {v \in MCVersions : v.hash = 1 /\ v.size # 0}

\* Hashes of 4 bits of the texts of filters.
MCHashOf == <<"h">> :> {1, 3} @@ <<"text">> :> {0, 1}

\* Questions without a filter, with a key that is that of no filter, with
\* criteria of three types, without a word, and with a size that is no number.
CONSTANTS r, s, t
Plain    == [words |-> <<Text("w")>>, page |-> 2]
Twice    == [words |-> <<Domain("h"), Text("w"), Domain("h")>>, page |-> 1]
Several  == [words |-> <<Text("w"), Not, Domain("h"), Type(<<"text">>), Size(TRUE, 5)>>, page |-> 1]
Wordless == [words |-> <<Domain("h")>>, page |-> 1]
Broken   == [words |-> <<Text("w"), [is |-> "nonumber"]>>, page |-> 1]

MCSearches == {r, s, t}
MCAsks == r :> {Plain, Wordless, Broken} @@ s :> {Twice} @@ t :> {Several, Twice}

=============================================================================
