------------------------------ MODULE StreamUrl ------------------------------
(***************************************************************************)
(* How a stream link travels from the landing page to the storage network. *)
(* LandingPage (client/src/LandingPage.js) builds the /video URL by string *)
(* interpolation and navigates to it; the router parses the URL back into  *)
(* the route params and the search string; StreamPlayer reads the link     *)
(* from the params and the share password with searchParams.get("pw"), and *)
(* interpolates that password into the ?password= query of the prepare     *)
(* call, which the network parses again.                                   *)
(*                                                                         *)
(* Abstractions: a URL is a sequence of symbols. Fixed words of the code   *)
(* ("video", "pw", "password", the API path) are one symbol each; the      *)
(* characters the user types are single-character strings from LinkChars   *)
(* and PasswordChars, which hold no "%" and no "/" (so percent-decoding is *)
(* the identity and a link is one path segment).                           *)
(***************************************************************************)
EXTENDS Naturals, Sequences, SequencesExt

CONSTANTS
    LinkChars,      \* characters of a typed or listed link
    PasswordChars,  \* characters of a typed or listed share password
    MaxLen,         \* bound on the length of a typed value
    Bundled,        \* the link list of videos.json
    Remote,         \* the links /api/link-list returns ({} without a sign URL)
    Null            \* null / undefined

FILE_HASH == "FILE_HASH"
SHARE_LINK == "SHARE_LINK"

Words(S) == BoundedSeq(S, MaxLen)

\* A stream link as the landing page means it.
StreamLink == [linkType : {FILE_HASH, SHARE_LINK}, link : Seq(LinkChars),
               password : Seq(PasswordChars) \cup {Null}]

VARIABLES
    linkType,   \* customLinkType
    link,       \* customLink
    password,   \* sharePassword
    location,   \* the URL navigated to, or Null on the landing page
    linkList,   \* linkList, the links the page lists
    intended    \* the stream link the navigation was for (history)

vars == <<linkType, link, password, location, linkList, intended>>

TypeOK ==
    /\ linkType \in {FILE_HASH, SHARE_LINK}
    /\ link \in Words(LinkChars) /\ password \in Words(PasswordChars)
    /\ location \in Seq(STRING) \cup {Null}
    /\ linkList \subseteq Bundled \cup Remote
    /\ intended \in StreamLink \cup {Null}

\* String.prototype.trim on the typed characters.
Trim(s) ==
    LET first == SelectInSeq(s, LAMBDA c : c # " ")
        last  == SelectLastInSeq(s, LAMBDA c : c # " ")
    IN IF first = 0 THEN <<>> ELSE SubSeq(s, first, last)

\* Mutant: the password appended with "&pw=" rather than "?pw=".
VideoUrlAmp(t, l, pw) ==
    <<"/", "video", "/", t, "/">> \o l
      \o (IF t = SHARE_LINK THEN <<"&", "pw", "=">> \o pw ELSE <<>>)

\* The template literals of handleCustomLinkClick and of the list's <Link>.
VideoUrl(t, l, pw) ==
    <<"/", "video", "/", t, "/">> \o l
      \o (IF t = SHARE_LINK THEN <<"?", "pw", "=">> \o pw ELSE <<>>)

-----------------------------------------------------------------------------
(* The parsers of the browser, the router and the network.                 *)

RECURSIVE Split(_, _)
Split(s, sep) ==
    LET i == SelectInSeq(s, LAMBDA c : c = sep)
    IN IF i = 0 THEN <<s>>
       ELSE <<SubSeq(s, 1, i - 1)>> \o Split(SubSeq(s, i + 1, Len(s)), sep)

\* The part of s before the first sep, and the part after it.
Before(s, sep) ==
    LET i == SelectInSeq(s, LAMBDA c : c = sep)
    IN IF i = 0 THEN s ELSE SubSeq(s, 1, i - 1)
After(s, sep) ==
    LET i == SelectInSeq(s, LAMBDA c : c = sep)
    IN IF i = 0 THEN <<>> ELSE SubSeq(s, i + 1, Len(s))

\* parsePath: the fragment is cut off, then the search string.
Pathname(url) == Before(Before(url, "#"), "?")
Search(url) == After(Before(url, "#"), "?")

\* URLSearchParams(search).get(name): the value of the first
\* name=value pair of the "&"-separated list, "+" read as a space; Null
\* when no pair has that name.
QueryGet(search, name) ==
    LET pairs == Split(search, "&")
        named == {i \in DOMAIN pairs : Before(pairs[i], "=") = <<name>>}
    IN IF named = {} THEN Null
       ELSE ReplaceAll(After(pairs[Min(named)], "="), "+", " ")

\* The route "video/:linkType/:link" of App.js: each param is one
\* non-empty path segment.
RouteMatches(url) ==
    LET segs == Split(Pathname(url), "/")
    IN /\ Len(segs) = 4 /\ segs[1] = <<>> /\ segs[2] = <<"video">>
       /\ Len(segs[3]) = 1 /\ segs[4] # <<>>
Params(url) ==
    LET segs == Split(Pathname(url), "/")
    IN [linkType |-> segs[3][1], link |-> segs[4]]

\* StreamPlayer's prepare call for the route it is mounted on: the
\* file-hash path, or the share-link path with ?password= and the
\* password read from ?pw= (the string "null" when there is none).
PrepareUrl(url) ==
    LET p == Params(url)
        pw == QueryGet(Search(url), "pw")
    IN IF p.linkType = FILE_HASH
       THEN <<"/", "prepareVideoFileCache", "/", "wallet", "/">> \o p.link
       ELSE <<"/", "prepareSharedVideoFileCache", "/">> \o p.link
              \o <<"?", "password", "=">> \o (IF pw = Null THEN <<"null">> ELSE pw)

\* StreamPlayer is mounted and its effect's switch prepares the link type.
Prepares(url) ==
    RouteMatches(url) /\ Params(url).linkType \in {FILE_HASH, SHARE_LINK}

\* What the storage network receives: the link of the path, and the
\* password query parameter (the fragment is never sent).
Received(url) ==
    LET p == PrepareUrl(url)
        segs == Split(Pathname(p), "/")
    IN [linkType |-> IF segs[2] = <<"prepareVideoFileCache">>
                     THEN FILE_HASH ELSE SHARE_LINK,
        link |-> segs[Len(segs)],
        password |-> QueryGet(Search(p), "password")]
-----------------------------------------------------------------------------
\* Navigation unmounts the landing page; it mounts again with the
\* useState defaults.
Fresh ==
    /\ linkType' = FILE_HASH /\ link' = <<>> /\ password' = <<>>
    /\ linkList' = Bundled

Init ==
    /\ linkType = FILE_HASH /\ link = <<>> /\ password = <<>>
    /\ location = Null /\ intended = Null
    /\ linkList = Bundled

\* The onChange handlers of the select and of the two inputs; the password
\* input is rendered for share links only.
SelectLinkType(t) ==
    /\ location = Null
    /\ linkType' = t
    /\ UNCHANGED <<link, password, location, linkList, intended>>

EditLink(l) ==
    /\ location = Null
    /\ link' = l
    /\ UNCHANGED <<linkType, password, location, linkList, intended>>

EditPassword(pw) ==
    /\ location = Null /\ linkType = SHARE_LINK
    /\ password' = pw
    /\ UNCHANGED <<linkType, link, location, linkList, intended>>

\* The GO button (disabled while customLink is empty) and
\* handleCustomLinkClick: navigate to the URL of the trimmed values; the
\* landing page unmounts (Fresh).
Go ==
    /\ location = Null /\ link # <<>>
    /\ location' = VideoUrl(linkType, Trim(link), Trim(password))
    /\ intended' = [linkType |-> linkType, link |-> Trim(link),
                    password |-> IF linkType = SHARE_LINK THEN Trim(password)
                                 ELSE Null]
    /\ Fresh

\* fetchLinks, the mount effect: the links of /api/link-list are appended
\* to the list of videos.json.
FetchLinks ==
    /\ location = Null /\ linkList = Bundled
    /\ linkList' = Bundled \cup Remote
    /\ UNCHANGED <<linkType, link, password, location, intended>>

\* A <Link> of the link list: the entry's values, untrimmed.
FollowListed(e) ==
    /\ location = Null /\ e \in linkList
    /\ location' = VideoUrl(e.linkType, e.link, e.password)
    /\ intended' = e
    /\ Fresh

\* The browser's back button: the landing page mounts afresh.
Back ==
    /\ location # Null
    /\ location' = Null
    /\ UNCHANGED <<linkType, link, password, linkList, intended>>

Next ==
    \/ \E t \in {FILE_HASH, SHARE_LINK} : SelectLinkType(t)
    \/ \E l \in Words(LinkChars) : EditLink(l)
    \/ \E pw \in Words(PasswordChars) : EditPassword(pw)
    \/ Go
    \/ FetchLinks
    \/ \E e \in linkList : FollowListed(e)
    \/ Back

Spec == Init /\ [][Next]_vars

-----------------------------------------------------------------------------
\* The stream link reaches the storage network as the landing page meant
\* it (spec: a StreamLink is immutable once parsed from the entry point,
\* and the share link's preparation carries its password): the link the
\* page navigates to mounts StreamPlayer, and its prepare call names the
\* same link type, link and password.
LinkDelivered ==
    location # Null =>
        /\ Prepares(location)
        /\ Received(location) = intended
=============================================================================
