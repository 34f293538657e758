------------------------------- MODULE Links --------------------------------
(***************************************************************************)
(* Which links of a page full_crawl follows, and under which URL           *)
(* (_normalize_url and _same_host_links,                                   *)
(* crawlfast_external_worker/executor.py).  A URL has its parts; a path is *)
(* what split("/") makes of it, so that "" is <<"">>, "/" is <<"", "">> and *)
(* "/a/" is <<"", "a", "">>.  An href of the markup is a URL whose scheme  *)
(* and host can be missing (""), its path then beginning with "/" or not.  *)
(***************************************************************************)
EXTENDS Naturals, FiniteSetsExt, SequencesExt

CONSTANTS
    Text,       \* what the parts of URLs are made of
    Bare,       \* a segment less its ";parameters"
    Assets      \* last segments and queries that name assets (_SKIP_EXT and the like)

Web == {"http", "https"}

ASSUME LinkConstants ==
    /\ Web \cup {""} \subseteq Text
    /\ Assets \subseteq Text
    /\ Bare \in [Text -> Text]
    /\ Bare[""] = "" /\ (\A seg \in Text : Bare[Bare[seg]] = Bare[seg])

Urls ==
    [scheme : Text, host : Text, path : Seq(Text), query : Text, fragment : Text]

URL(scheme, host, path, query, fragment) ==
    [scheme |-> scheme, host |-> host, path |-> path, query |-> query,
     fragment |-> fragment]

----------------------------------------------------------------------------
\* _normalize_url.

\* urlparse takes the parameters off the last segment, and off no other.
Plain(path) == [path EXCEPT ![Len(path)] = Bare[@]]

\* A segment that repeats the one before it goes.
Joined(out, seg) ==
    IF seg # "" /\ out # <<>> /\ Last(out) = seg THEN out ELSE Append(out, seg)

Collapse(path) ==
    LET out[n \in 0 .. Len(path)] == IF n = 0 THEN <<>> ELSE Joined(out[n - 1], path[n])
    IN  out[Len(path)]

\* rstrip("/"): all slashes at the end go.
Strip(path) == SubSeq(path, 1, Max({1} \cup {i \in DOMAIN path : path[i] # ""}))

\* Slip: a segment given twice stays.
StripOnly(url) == [url EXCEPT !.path = Strip(Plain(url.path)), !.fragment = ""]

NormalizeUrl(url) == [url EXCEPT !.path = Strip(Collapse(Plain(url.path))), !.fragment = ""]

----------------------------------------------------------------------------
\* _same_host_links.

\* _HREF_RE finds no href that has a "#" in it.
Matched(href) == href.fragment = ""

\* urljoin: what is missing comes from the page the link is on, a path without
\* a leading slash goes on from the page's folder.
Folder(path) == IF Len(path) = 1 THEN path ELSE Front(path)

UrlJoin(base, href) ==
    IF href.scheme # "" THEN href
    ELSE [href EXCEPT !.scheme = base.scheme,
                      !.host = base.host,
                      !.path = IF Head(href.path) = "" THEN href.path
                               ELSE Folder(base.path) \o href.path]

\* The URL an href stands for.
LinkOf(base, href) == NormalizeUrl(UrlJoin(base, href))

\* No mail address or script, and no asset by its path or its query.
IsPage(url) ==
    /\ url.scheme \in Web
    /\ Bare[Last(url.path)] \notin Assets
    /\ url.query \notin Assets

Followed(url, host) == IsPage(url) /\ url.host = host

----------------------------------------------------------------------------
\* For the properties: two URLs that a site takes for one page, as far as the
\* docstring of _normalize_url says.  They differ at most in the fragment,
\* slashes at the end and segments given several times in a row; parameters
\* count.
Words(path) ==
    LET kept == {i \in DOMAIN path :
                    /\ path[i] = "" \/ i = 1 \/ path[i - 1] # path[i]
                    /\ \E j \in i .. Len(path) : path[j] # ""}
    IN  [n \in 1 .. Cardinality(kept) |->
            path[CHOOSE i \in kept : Cardinality({j \in kept : j <= i}) = n]]

SamePage(u, v) ==
    /\ u.scheme = v.scheme
    /\ u.host = v.host
    /\ u.query = v.query
    /\ Words(u.path) = Words(v.path)

\* What is left of a URL when the parameters of its last segment are ignored.
WithoutParams(url) == [url EXCEPT !.path = Plain(url.path)]
=============================================================================
