----------------------- MODULE StreamSessionLifecycle -----------------------
(***************************************************************************)
(* The client session (StreamSession) seen as the lifecycle of spec 4.4:  *)
(* the refinement mapping reads the phase of the latest StreamPlayer      *)
(* instance off the component's state and the attempts it started.        *)
(***************************************************************************)
EXTENDS StreamSession

\* Null (undefined) is no context value: the mapping below tells "no
\* identity yet" from an identity.
ASSUME NullNotCtx == Null \notin Ctx

\* The attempts started by the latest StreamPlayer instance.
CurrentAttempts == {i \in DOMAIN attempts : attempts[i].mount = mounts}

\* The phase of the latest instance: none mounted yet; unmounted; showing
\* the player (isReady); no preparation started (the effect returned
\* early); a preparation still awaiting getOzone, the signer, the prepare
\* call or its body; every preparation rejected.
Phase ==
    IF mounts = 0 THEN "Idle"
    ELSE IF ~mounted THEN "Disposed"
    ELSE IF isReady THEN "Ready"
    ELSE IF CurrentAttempts = {} THEN "AwaitingIdentity"
    ELSE IF \E i \in CurrentAttempts : attempts[i].pc \notin {"done", "failed"}
         THEN "Preparing"
    ELSE "Failed"

\* The identity the component sees: its context value once it names a
\* wallet address (the effect's guard walletAddress == null).
Identity == IF ctx.walletAddress = Null THEN Null ELSE ctx

\* The route names a link type the effect's switch prepares.
LinkKnown == route.linkType \in {FILE_HASH, SHARE_LINK}

SL == INSTANCE SessionLifecycle
        WITH Identities <- Ctx, NoIdentity <- Null,
             phase <- Phase, identity <- Identity, linkKnown <- LinkKnown

\* The client implements the session lifecycle of spec 4.4: every step of
\* KeyPairContext, StreamPlayer, the signer and the network is a lifecycle
\* step or leaves the lifecycle unchanged; in particular a failed
\* preparation is never retried without an identity change, and the
\* player is shown only after a preparation of the current instance.
SessionLifecycleRefined == SL!Spec
=============================================================================
