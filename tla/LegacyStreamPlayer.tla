------------------------ MODULE LegacyStreamPlayer ------------------------
(***************************************************************************)
(* The streaming example's first player (example/streaming/src): its       *)
(* KeyPairContext provider, the StreamPlayer component that prepares the   *)
(* stream once the key pair is known, and the segment interceptor it       *)
(* installs in the player library, videojs.Vhs.xhr.beforeRequest, which   *)
(* rewrites every request of the player into a POST of a content-hash-    *)
(* addressed slice of the stream descriptor.                               *)
(*                                                                         *)
(* Abstractions: the preparation (getOzone, local signing, the prepare    *)
(* POST) is one request in flight, since its inner steps touch no state of *)
(* the component (StreamSession models them); a response body is          *)
(* [ok, att, segs]: whether it is a descriptor, which attempt it answers  *)
(* (its req_id) and the segment names its segment_to_slice_info maps; a   *)
(* slice request is named by the fileReqId and the segment it carries.    *)
(***************************************************************************)
EXTENDS Naturals, Sequences

CONSTANTS
    Segs,        \* file names the player may request (header and segments)
    Links,       \* file hashes / share links named in the route
    Null,        \* null / undefined
    MaxMounts    \* bound on how often the StreamPlayer route is mounted


\* LinkType (src/LinkType.js); other values fall into the switch's default.
FILE_HASH == "FILE_HASH"
SHARE_LINK == "SHARE_LINK"
OTHER_LINK == "OTHER"
LinkTypes == {FILE_HASH, SHARE_LINK, OTHER_LINK}

VARIABLES
    provider,    \* KeyPairContextProvider's initKeyPair(): pending/done/failed
    keyPair,     \* the context value is a key pair (TRUE) or null (FALSE)
    mounts,      \* number of StreamPlayer instances mounted so far
    mounted,     \* the latest instance is mounted
    route,       \* its route parameters {linkType, link}
    streamInfo,  \* its streamInfo state
    playerReady, \* handlePlayerReady has set its playerRef.current
    srcPending,  \* player.ready(() => player.src(...)) is scheduled
    srcSet,      \* its player's source is set
    crashed,     \* playVideo threw on a null player; the tree is unmounted
    hook,        \* videojs.Vhs.xhr.beforeRequest (global, library-wide)
    attempts,    \* every preparation started, in order
    sent         \* every request the player library put on the network

vars == <<provider, keyPair, mounts, mounted, route, streamInfo, playerReady,
          srcPending, srcSet, crashed, hook, attempts, sent>>

Route == [linkType : LinkTypes, link : Links]
Info == [ok : BOOLEAN, att : Nat, segs : SUBSET Segs]
Attempt == [mount : Nat, pc : {"inflight", "reply", "done", "failed"},
            info : Info]
Hook == [mount : Nat, info : Info]
\* null is neither a file name nor an object: not a descriptor body and
\* not an installed interceptor.
ASSUME LegacyConstantsAssumption ==
    /\ Null \notin Segs
    /\ Null \notin Info /\ Null \notin Hook
    /\ MaxMounts \in Nat

\* A request on the network: the instance whose player issued it, the
\* attempt whose descriptor that instance holds, the fileReqId it carries
\* (Null when it went out unrewritten) and the segment it asks for.
Request == [mount : Nat, own : Nat, reqId : Nat \cup {Null}, seg : Segs]

TypeOK ==
    /\ provider \in {"pending", "done", "failed"}
    /\ keyPair \in BOOLEAN
    /\ mounts \in 0..MaxMounts
    /\ mounted \in BOOLEAN
    /\ route \in Route
    /\ streamInfo \in Info \cup {Null}
    /\ playerReady \in BOOLEAN
    /\ srcPending \in BOOLEAN
    /\ srcSet \in BOOLEAN
    /\ crashed \in BOOLEAN
    /\ hook \in Hook \cup {Null}
    /\ attempts \in Seq(Attempt)
    /\ sent \in SUBSET Request

-----------------------------------------------------------------------------
\* The keyPair effect of StreamPlayer: with a key pair and a known link
\* type it starts fetchStreamInfo / fetchStreamInfoByShareLink.
StartAttempt(k, r, m) ==
    IF k /\ r.linkType \in {FILE_HASH, SHARE_LINK}
    THEN Append(attempts, [mount |-> m, pc |-> "inflight",
                           info |-> [ok |-> FALSE, att |-> 0, segs |-> {}]])
    ELSE attempts

\* Mutant: playVideo installs the interceptor only when none is installed.
InstallHookOnce(m, info) ==
    IF hook = Null THEN [mount |-> m, info |-> info] ELSE hook

\* playVideo: videojs.Vhs.xhr.beforeRequest is set to a function closing
\* over this streamInfo.
InstallHook(m, info) == [mount |-> m, info |-> info]

\* The rewrite beforeRequest makes of a request for file name seg, under
\* the installed hook h: the segment's sliceInfo is looked up in
\* segment_to_slice_info; an absent one makes sliceInfo.slice_storage_info
\* throw, so nothing is sent. Without a hook the request goes out as is.
Rewrite(h, seg) ==
    IF h = Null THEN {Null}
    ELSE IF seg \in h.info.segs THEN {h.info.att}
    ELSE {}

-----------------------------------------------------------------------------
Init ==
    /\ provider = "pending"
    /\ keyPair = FALSE
    /\ mounts = 0
    /\ mounted = FALSE
    /\ route \in Route
    /\ streamInfo = Null
    /\ playerReady = FALSE
    /\ srcPending = FALSE
    /\ srcSet = FALSE
    /\ crashed = FALSE
    /\ hook = Null
    /\ attempts = <<>>
    /\ sent = {}

\* initKeyPair().then(key => setKeyPair(key)); the effect re-runs. After
\* a crash React has unmounted the whole tree, the provider included, and
\* drops the update.
ProviderResolve ==
    /\ provider = "pending"
    /\ provider' = "done"
    /\ keyPair' = ~crashed
    /\ attempts' = IF mounted THEN StartAttempt(TRUE, route, mounts)
                   ELSE attempts
    /\ UNCHANGED <<mounts, mounted, route, streamInfo, playerReady,
                   srcPending, srcSet, crashed, hook, sent>>

\* initKeyPair() rejects (no or invalid mnemonic): keyPair stays null.
ProviderFail ==
    /\ provider = "pending"
    /\ provider' = "failed"
    /\ UNCHANGED <<keyPair, mounts, mounted, route, streamInfo, playerReady,
                   srcPending, srcSet, crashed, hook, attempts, sent>>

\* Navigation to /video/:linkType/:link: a new instance with a new player
\* (not ready yet); its mount effect runs with the current key pair.
\* Nothing mounts again once a crash has unmounted the tree.
Mount ==
    /\ ~mounted
    /\ ~crashed
    /\ mounts < MaxMounts
    /\ \E r \in Route :
          /\ route' = r
          /\ attempts' = StartAttempt(keyPair, r, mounts + 1)
    /\ mounts' = mounts + 1
    /\ mounted' = TRUE
    /\ streamInfo' = Null
    /\ playerReady' = FALSE
    /\ srcPending' = FALSE
    /\ srcSet' = FALSE
    /\ crashed' = FALSE
    /\ UNCHANGED <<provider, keyPair, hook, sent>>

\* Navigation away: the player is disposed (its "dispose" handler only
\* logs); the interceptor stays installed.
Unmount ==
    /\ mounted
    /\ mounted' = FALSE
    /\ srcPending' = FALSE
    /\ UNCHANGED <<provider, keyPair, mounts, route, streamInfo, playerReady,
                   srcSet, crashed, hook, attempts, sent>>

\* The player's ready callback: handlePlayerReady(player).
PlayerReady ==
    /\ mounted
    /\ ~playerReady
    /\ playerReady' = TRUE
    /\ UNCHANGED <<provider, keyPair, mounts, mounted, route, streamInfo,
                   srcPending, srcSet, crashed, hook, attempts, sent>>

\* The prepare endpoint answers: a descriptor mapping some segment names,
\* or an error body.
NetReply(i) ==
    /\ attempts[i].pc = "inflight"
    /\ \E info \in {[ok |-> TRUE, att |-> i, segs |-> S] : S \in SUBSET Segs}
                   \cup {[ok |-> FALSE, att |-> i, segs |-> {}]} :
          attempts' = [attempts EXCEPT ![i].pc = "reply", ![i].info = info]
    /\ UNCHANGED <<provider, keyPair, mounts, mounted, route, streamInfo,
                   playerReady, srcPending, srcSet, crashed, hook, sent>>

\* A fetch or .json() of the preparation rejects; nothing catches it.
FetchFail(i) ==
    /\ attempts[i].pc \in {"inflight", "reply"}
    /\ attempts' = [attempts EXCEPT ![i].pc = "failed"]
    /\ UNCHANGED <<provider, keyPair, mounts, mounted, route, streamInfo,
                   playerReady, srcPending, srcSet, crashed, hook, sent>>

\* Mutant: setStreamInfo(streamInfoResp) without awaiting .json(), so the
\* component holds the response object rather than the body.
DeliverRawResponse(i) ==
    LET a == attempts[i] IN
    /\ a.pc = "reply"
    /\ attempts' = [attempts EXCEPT ![i].pc = "done"]
    /\ IF mounted /\ a.mount = mounts
       THEN /\ streamInfo' = a
            /\ hook' = InstallHook(mounts, a.info)
            /\ srcPending' = playerReady
            /\ crashed' = ~playerReady
            /\ mounted' = playerReady
       ELSE UNCHANGED <<streamInfo, hook, srcPending, crashed, mounted>>
    /\ UNCHANGED <<provider, keyPair, mounts, route, playerReady,
                   srcSet, sent>>

\* Mutant: the response is applied whichever instance started the
\* preparation, as if setStreamInfo reached the latest instance.
DeliverAnyInstance(i) ==
    LET a == attempts[i] IN
    /\ a.pc = "reply"
    /\ attempts' = [attempts EXCEPT ![i].pc = "done"]
    /\ streamInfo' = a.info
    /\ hook' = InstallHook(mounts, a.info)
    /\ srcPending' = playerReady
    /\ crashed' = ~playerReady
    /\ mounted' = playerReady
    /\ UNCHANGED <<provider, keyPair, mounts, route, playerReady,
                   srcSet, sent>>

\* .then(info => setStreamInfo(info)), and the [streamInfo] effect that
\* calls playVideo(playerRef.current): the interceptor is installed, then
\* player.ready(...) schedules the source, or throws on a null player.
\* Nothing catches the throw, so React unmounts the whole tree (the
\* instance and its player are gone; the global interceptor stays).
\* React drops the update of an unmounted instance.
Deliver(i) ==
    LET a == attempts[i] IN
    /\ a.pc = "reply"
    /\ attempts' = [attempts EXCEPT ![i].pc = "done"]
    /\ IF mounted /\ a.mount = mounts
       THEN /\ streamInfo' = a.info
            /\ hook' = InstallHook(mounts, a.info)
            /\ srcPending' = playerReady
            /\ crashed' = ~playerReady
            /\ mounted' = playerReady
       ELSE UNCHANGED <<streamInfo, hook, srcPending, crashed, mounted>>
    /\ UNCHANGED <<provider, keyPair, mounts, route, playerReady,
                   srcSet, sent>>

\* The ready callback: player.src(getVideoSliceCache/header_file).
SetSource ==
    /\ srcPending
    /\ srcPending' = FALSE
    /\ srcSet' = TRUE
    /\ UNCHANGED <<provider, keyPair, mounts, mounted, route, streamInfo,
                   playerReady, crashed, hook, attempts, sent>>

\* The player library requests file seg of its source (the header, then
\* the segments the manifest lists); beforeRequest rewrites it.
PlayerRequest(seg) ==
    /\ mounted
    /\ srcSet
    /\ sent' = sent \cup {[mount |-> mounts, own |-> streamInfo.att,
                           reqId |-> id, seg |-> seg] : id \in Rewrite(hook, seg)}
    /\ UNCHANGED <<provider, keyPair, mounts, mounted, route, streamInfo,
                   playerReady, srcPending, srcSet, crashed, hook, attempts>>

-----------------------------------------------------------------------------
Next ==
    \/ ProviderResolve
    \/ ProviderFail
    \/ Mount
    \/ Unmount
    \/ PlayerReady
    \/ \E i \in DOMAIN attempts : NetReply(i) \/ FetchFail(i) \/ Deliver(i)
    \/ SetSource
    \/ \E seg \in Segs : PlayerRequest(seg)

Spec == Init /\ [][Next]_vars

-----------------------------------------------------------------------------
(***************************************************************************)
(* Properties.                                                             *)
(***************************************************************************)

\* Every request the player puts on the network was rewritten by the
\* interceptor against the descriptor its own session holds, and only for
\* a segment that descriptor maps (spec 4.5: never passed through
\* unauthenticated, never against another session's descriptor, nothing
\* sent for an unknown segment), although the interceptor is one global
\* hook shared by every player instance.
RewriteBoundToOwnSession ==
    \A r \in sent :
        /\ r.reqId = r.own
        /\ r.seg \in attempts[r.own].info.segs

\* Disposing the session uninstalls the interceptor (spec 4.5, 5, 8): no
\* interceptor bound to a session that is no longer mounted stays installed.
DisposedSessionHookRemoved ==
    hook # Null => mounted /\ hook.mount = mounts

\* A delivered stream descriptor never tears the application down (spec
\* 4.4 and 7: a session with a descriptor is Ready, and failures surface
\* as "not ready", never as a silent blank state), whether the descriptor
\* or handlePlayerReady comes first.
DescriptorNeverCrashes == ~crashed
=============================================================================
