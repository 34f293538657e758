---------------------------- MODULE MCSiteCrawl ----------------------------
(***************************************************************************)
(* Small instances of SiteCrawl: a site of five pages, of which a crawl    *)
(* takes at most three, and every way its markup has of naming them.       *)
(***************************************************************************)
EXTENDS SiteCrawl

MCText == Web \cup {"", "mailto", "h", "www.h", "other", "a", "a;p", "b", "q", "top", "style"}

MCBare == [seg \in MCText |-> IF seg = "a;p" THEN "a" ELSE seg]

\* The lead's url: http://h/#top
MCSeed == URL("http", "h", <<"", "">>, "", "top")

\* The site answers under https, as most do; or under another host name.
MCHome == [scheme |-> "https", host |-> "h"]
MCMoved == [scheme |-> "https", host |-> "www.h"]

\* A page is redirected to its folder, or to another site.
MCLandings == {URL("https", "h", <<"", "a", "">>, "", ""), URL("https", "other", <<"", "b">>, "", "")}

Rooted(path, query, fragment) == URL("", "", path, query, fragment)

MCHref == {
    Rooted(<<"", "">>, "", ""),                 \* /
    Rooted(<<"", "b">>, "", "top"),             \* /b#top, which is not found
    Rooted(<<"", "a", "">>, "", ""),            \* /a/
    Rooted(<<"", "a;p">>, "", ""),              \* /a;p
    Rooted(<<"", "a;p", "">>, "", ""),          \* /a;p/
    Rooted(<<"a", "b">>, "q", ""),              \* a/b?q, relative to the page
    Rooted(<<"", "style">>, "", ""),            \* an asset
    Rooted(<<"", "a">>, "style", ""),           \* an asset by its query
    URL("http", "other", <<"", "a">>, "", ""),  \* another site
    URL("mailto", "", <<"a">>, "", "") }

MCAssets == {"style"}

TwoPages == {NormalizeUrl(MCSeed), URL("http", "h", <<"", "a">>, "", "")}

\* Lists of up to three of two pages, the empty one and repetitions included.
MCPageLists == BoundedSeq(TwoPages, 3)
=============================================================================
