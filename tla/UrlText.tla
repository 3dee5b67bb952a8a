------------------------------- MODULE UrlText -------------------------------
(***************************************************************************)
(* URLs as the code takes them apart, normalises, composes and writes them *)
(* (tlgsutils/url_parser.cpp, url_parser.hpp, utils.cpp).                  *)
(*                                                                         *)
(* The text of a URL is a record of its parts as they are spelt: scheme    *)
(* "" is that of //host/path, port 0 none, path the segments between the   *)
(* slashes (a last segment "" is a slash at the end, <<>> no path at all). *)
(* A Url object has the same parts and dport, its default_port_.  Texts    *)
(* that the constructor rejects are not among them.                        *)
(***************************************************************************)
EXTENDS Naturals, Sequences, SequencesExt

\* std::tolower of a scheme or host, for the names with a capital in use.
Lower(name) ==
    CASE name = "GEMINI" -> "gemini" [] name = "HTTPS" -> "https" [] name = "H" -> "h"
      [] name = "GIT" -> "git"
      [] OTHER -> name

\* protocolDefaultPort
DefaultPort(scheme) ==
    CASE scheme = "gemini" -> 1965 [] scheme = "https" -> 443 [] OTHER -> 0

\* Seeded fault: two dots and the name before them go, but only once.
NormalOnce(path) ==
    LET goes(i) == \/ path[i] \in {"", "."}
                   \/ path[i] = ".." /\ i > 1 /\ path[i - 1] # ".."
                   \/ i < Len(path) /\ path[i] # ".." /\ path[i + 1] = ".."
        kept == FoldLeftDomain(LAMBDA s, i : IF goes(i) THEN s ELSE Append(s, path[i]), <<>>, path)
    IN  IF Last(path) \in {"", ".", ".."} THEN Append(kept, "") ELSE kept

\* std::filesystem::path::lexically_normal of a path from the root: no empty
\* segments, no dots, two dots take back the segment before them.
Normal(path) ==
    LET step(dirs, s) == CASE s \in {"", "."} -> dirs
                           [] s = ".." -> IF dirs = <<>> THEN <<>> ELSE Front(dirs)
                           [] OTHER -> Append(dirs, s)
        names[i \in 0..Len(path)] == IF i = 0 THEN <<>> ELSE step(names[i - 1], path[i])
    IN  IF Last(path) \in {"", ".", ".."} THEN Append(names[Len(path)], "") ELSE names[Len(path)]

\* Url::Url(text): the default port is looked up before normalize() lowers the
\* scheme, and never for a text without a scheme, which leaves default_port_
\* at whatever junk was there.
Parse(text, junk) ==
    [scheme |-> Lower(text.scheme),
     host   |-> Lower(text.host),
     port   |-> text.port,
     dport  |-> IF text.scheme = "" THEN junk ELSE DefaultPort(text.scheme),
     path   |-> Normal(IF text.path = <<>> THEN <<"">> ELSE text.path),
     param  |-> text.param,
     fragment |-> text.fragment]

\* Seeded fault: the comparison is the wrong way round.
StrDefault(url) ==
    [scheme |-> url.scheme, host |-> url.host, port |-> IF url.port = url.dport THEN url.port ELSE 0,
     path |-> url.path, param |-> url.param, fragment |-> url.fragment]

\* Url::str()
Str(url) ==
    [scheme |-> url.scheme,
     host   |-> url.host,
     port   |-> IF url.port # url.dport THEN url.port ELSE 0,
     path   |-> url.path,
     param  |-> url.param,
     fragment |-> url.fragment]

\* Url::port()
PortOf(url) == IF url.port # 0 THEN url.port ELSE url.dport

\* operator< of Url tells all parts apart but the default port.
SameUrl(url, other) == [url EXCEPT !.dport = 0] = [other EXCEPT !.dport = 0]

WithPath(url, path) == [url EXCEPT !.path = Normal(path)]

\* linkCompose: a rooted link replaces the path, another one what follows the
\* last slash of it.  A link of a param only has the empty path "", so that it
\* leads to the directory of the page, not to the page.
LinkCompose(url, link) ==
    [WithPath(url, IF link.rooted THEN link.path ELSE Front(url.path) \o link.path)
        EXCEPT !.param = link.param, !.fragment = link.fragment]

\* Url(text).str(): how the crawler respells a URL.  The texts it does this to
\* have a scheme.
Respelt(text) == Str(Parse(text, 0))

=============================================================================
