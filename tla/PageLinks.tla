------------------------------ MODULE PageLinks ------------------------------
(***************************************************************************)
(* From the links of a page to the next page (tlgs/crawler/crawler.cpp):   *)
(* crawlPage composes and stores the links of the page, those that the     *)
(* blacklist (tlgs/crawler/blacklist.cpp) lets through become rows of      *)
(* pages, and getNextCrawlPage takes one of them up.  The capsules may     *)
(* have any of the links of Links on any page.                             *)
(***************************************************************************)
EXTENDS UrlText, PathRules

CONSTANTS Links,       \* the links of pages, as written
          Seeds,       \* the texts of the seeds
          Listed,      \* the texts of blacklist_urls
          BadHosts,    \* hosts refused by name: blacklist_domains, git., .local, .onion
          BadEnds,     \* ends of paths refused by name: robots.txt, next.cgi, git.sh
          Junk,        \* the values default_port_ may happen to have
          MaxLinks     \* bound: the links of a page that are looked at

\* URLs as UrlText takes them apart.
IsText(url) ==
    /\ url = [scheme |-> url.scheme, host |-> url.host, port |-> url.port,
              path |-> url.path, param |-> url.param, fragment |-> url.fragment]
    /\ url.path \in Seq(ToSet(url.path))

ASSUME LinksAssumption ==
    /\ \A url \in Seeds : IsText(url)
    /\ \A link \in Links :
          \/ link.kind = "url" /\ IsText(link.url)
          \/ link.kind = "local" /\ link.path \in Seq(ToSet(link.path)) \ {<<>>}
          \/ link.kind \in {"action", "broken"}

VARIABLES page,        \* url of crawlPage
          links        \* link_urls, each with the link it was made of

(* A link is one of                                                        *)
(*   [kind |-> "url", url |-> text]: Url(link) is good;                    *)
(*   [kind |-> "local", rooted, path, param, fragment]: it is not;         *)
(*   [kind |-> "action"], [kind |-> "broken"]: mailto:name and the like; a *)
(*   gemini:// URL with a bad host or port, or a text of over 1024 bytes.  *)

Walk == <<page, links>>

Entry(text) ==
    LET url == Parse(text, 0)
    IN  [key |-> Str([url EXCEPT !.path = <<"">>, !.param = "", !.fragment = ""]),
         path |-> url.path]

Chars(path) == FlattenSeq([i \in DOMAIN path |-> IF path[i] = "" THEN <<"/">> ELSE <<"/", path[i]>>])

\* The table of UrlBlacklist.
Entries == {Entry(text) : text \in Listed}

\* UrlBlacklist: the paths listed for the scheme, host and port of url.
UrlIsBlocked(url) ==
    \E entry \in Entries :
       /\ entry.key = Str([url EXCEPT !.path = <<"">>, !.param = "", !.fragment = ""])
       /\ PathMatch(Chars(entry.path), Chars(url.path))

\* Seeded fault: only names that follow each other are counted.
IsNestedInRow(path) ==
    \E i \in 3..Len(path) : path[i] = path[i - 1] /\ path[i] = path[i - 2]

\* A path component that occurs three times.
IsNested(path) ==
    \E name \in {path[i] : i \in DOMAIN path} :
        Cardinality({i \in DOMAIN path : path[i] = name}) >= 3

\* inBlacklist; of the tests for names those of the host and of the end of the
\* path stand for all.
InBlacklist(url) ==
    \/ url.host \in BadHosts
    \/ UrlIsBlocked(Parse(Str(url), 0))
    \/ Last(url.path) \in BadEnds
    \/ IsNested(url.path)

\* Whether a row of pages is crawled: getNextCrawlPage asks shouldCrawl about it
\* and respells it, crawlPage takes it up if it is normal then and asks again.
IsCrawled(text) ==
    LET next == Parse(Respelt(text), 0)
    IN  /\ next.scheme = "gemini"
        /\ ~InBlacklist(Parse(text, 0))
        /\ Str(next) = Respelt(text)
        /\ ~InBlacklist(next)

StartPages == {Parse(Respelt(text), 0) : text \in {seed \in Seeds : IsCrawled(seed)}}

WalkInit ==
    /\ page \in StartPages
    /\ links = {}

\* A mistyped link to a .gmi file whose param is the link itself.
WithoutEcho(url) ==
    IF url.param = "self" /\ Last(url.path) = "x.gmi" THEN [url EXCEPT !.param = ""] ELSE url

\* The Url objects that crawlPage may make of a link.
Composed(link) ==
    CASE link.kind = "url" ->
           {url \in {[Parse(link.url, junk) EXCEPT
                        !.scheme = IF @ = "" THEN page.scheme ELSE @] : junk \in Junk} :
              url.scheme = "gemini"}
      [] link.kind = "local" -> {LinkCompose(page, link)}
      [] OTHER -> {}

\* One link: link_urls is a set, in which the first of equal links stays.
TakeLink(link) ==
    /\ Cardinality(links) < MaxLinks
    /\ \E made \in Composed(link) :
          LET url == WithoutEcho([made EXCEPT !.fragment = ""])
          IN  links' = IF \E l \in links : SameUrl(l.url, url) THEN links
                       ELSE links \cup {[url |-> url, link |-> link]}
    /\ UNCHANGED page

\* is_cross_site
IsCrossSite(url) == url.host # page.host \/ PortOf(page) # PortOf(url)

\* Seeded fault: the blacklist is asked about the object, not about its text.
RefusedAsMade(l) ==
    \/ l.url.host \in BadHosts \/ Last(l.url.path) \in BadEnds
    \/ UrlIsBlocked(l.url) \/ IsNested(l.url.path)

\* shouldCrawl(link_url.str()), as far as the blacklist goes.
Refused(l) == InBlacklist(Parse(Str(l.url), 0))

\* A link that is not refused is a row of pages.
Follow(l) ==
    /\ ~Refused(l)
    /\ IsCrawled(Str(l.url))
    /\ page' = Parse(Respelt(Str(l.url)), 0)
    /\ links' = {}

WalkNext ==
    \/ \E link \in Links : TakeLink(link)
    \/ \E l \in links : Follow(l)

WalkSpec == WalkInit /\ [][WalkNext]_Walk

-----------------------------------------------------------------------------

PageTypeOK == page.scheme = "gemini" /\ page.dport = 1965 /\ page = Parse(Str(page), 0)

LinkTypeOK ==
    \A l \in links : l.url.scheme = "gemini" /\ l.url.fragment = "" /\ l.link \in Links

\* The type of the state, and the page being a normal gemini URL.
WalkTypeOK == PageTypeOK /\ LinkTypeOK

\* However a link is spelt, the spelling that getNextCrawlPage makes of the
\* stored one passes the test of crawlPage for normal URLs: one respelling is
\* enough, so that no row is crawled under a text that crawlPage would remove.
RespellingSettles ==
    \A l \in links : LET text == Respelt(Str(l.url)) IN Respelt(text) = text

\* The links whose default port is known: the others take part in the hazards
\* of a scheme in capitals or left out.
Plain(link) == link.kind = "local" \/ link.url.scheme = "gemini"

Address(text) == <<text.host, IF text.port = 0 THEN 1965 ELSE text.port>>

\* A link leads to the host and port it names, the page's if it names none,
\* through storing, respelling and parsing, and is called cross site exactly
\* when these are not the page's.
LinksKeepTheirAddress ==
    \A l \in links : Plain(l.link) =>
        LET named == IF l.link.kind = "local" THEN Address(Str(page))
                     ELSE Address([l.link.url EXCEPT !.host = Lower(@)])
        IN  /\ Address(Respelt(Str(l.url))) = named
            /\ IsCrossSite(l.url) <=> named # Address(Str(page))

\* The blacklist refuses a link in the spelling of the page that has it if and
\* only if it refuses it in the spelling it is crawled under.
VerdictKnowsSpellings ==
    \A l \in links :
        Refused(l) <=> InBlacklist(Parse(Respelt(Str(l.url)), 0))

\* A capsule whose pages link to ever deeper copies of themselves does not hold
\* the crawler for ever: no name is in the path of a crawled page three times, so
\* that a path has two of each name at most, and the slash at the end.
PathsAreBounded ==
    Len(page.path) <= 1 + 2 * Cardinality({page.path[i] : i \in DOMAIN page.path} \ {""})

=============================================================================
