----------------------- MODULE LegacyStreamLifecycle -----------------------
(***************************************************************************)
(* The legacy player (LegacyStreamPlayer) seen as the session lifecycle   *)
(* of spec 4.4: the refinement mapping reads the phase of the latest      *)
(* StreamPlayer instance off its state and the preparations it started;   *)
(* the identity is whether KeyPairContext has published a key pair.       *)
(***************************************************************************)
EXTENDS LegacyStreamPlayer

\* The preparations started by the latest instance.
CurrentAttempts == {i \in DOMAIN attempts : attempts[i].mount = mounts}

\* The phase of the latest instance: none mounted yet; unmounted; holding
\* a response (setStreamInfo ran); no preparation started (the keyPair
\* effect returned early); a preparation awaiting its response or its
\* body; every preparation rejected.
Phase ==
    IF mounts = 0 THEN "Idle"
    ELSE IF ~mounted THEN "Disposed"
    ELSE IF streamInfo # Null THEN "Ready"
    ELSE IF CurrentAttempts = {} THEN "AwaitingIdentity"
    ELSE IF \E i \in CurrentAttempts : attempts[i].pc \in {"inflight", "reply"}
         THEN "Preparing"
    ELSE "Failed"

\* The route names a link type the keyPair effect's switch prepares.
LinkKnown == route.linkType \in {FILE_HASH, SHARE_LINK}

LL == INSTANCE SessionLifecycle
        WITH Identities <- {TRUE}, NoIdentity <- FALSE,
             phase <- Phase, identity <- keyPair, linkKnown <- LinkKnown

\* The legacy player implements the session lifecycle of spec 4.4: it
\* prepares once the key pair and a known link are both there, leaves
\* Preparing only by the current instance's response or failure, and never
\* retries a failed preparation.
LegacyLifecycleRefined == LL!Spec
=============================================================================
