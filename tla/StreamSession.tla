--------------------------- MODULE StreamSession ---------------------------
(***************************************************************************)
(* The authenticated stream-preparation session of the streaming client   *)
(* (example/streaming/client/src): the KeyPairContext provider that        *)
(* publishes the wallet identity, the StreamPlayer component whose effect  *)
(* runs one preparation attempt per identity change (getOzone, then        *)
(* getSignature, then prepareVideoFileCache / prepareSharedVideoFileCache), *)
(* the remote signing service (example/streaming/server/server.js) and, as  *)
(* an environment, the storage network's ozone counter and prepare         *)
(* endpoint.                                                               *)
(*                                                                         *)
(* Abstractions: a key pair is named by the wallet address it derives; a   *)
(* signature is the record of who signed which (link, wallet, sequence)    *)
(* tuple; reqTime is left out (no property here tells two seconds apart); *)
(* a response body is [ok, att]: whether it is a stream descriptor and     *)
(* which attempt it answers.                                               *)
(***************************************************************************)
EXTENDS Naturals, Sequences

CONSTANTS
    Wallets,     \* wallet addresses (model values)
    Links,       \* file hashes / share links named in the route
    Null,        \* null / undefined
    NoKey,       \* "no mnemonic configured": initKeyPair yields no key
    MaxMounts,   \* bound on how often the StreamPlayer route is mounted
    MaxOzone     \* bound on the ozone advances made by other clients

ASSUME ConstantsAssumption ==
    /\ Null \notin Wallets
    /\ NoKey \notin Wallets
    /\ Null # NoKey
    /\ MaxMounts \in Nat
    /\ MaxOzone \in Nat

\* The LinkType constants of the route (client/src/LinkType.js); any other
\* value of the :linkType route parameter falls into the switch's default.
FILE_HASH == "FILE_HASH"
SHARE_LINK == "SHARE_LINK"
OTHER_LINK == "OTHER"
LinkTypes == {FILE_HASH, SHARE_LINK, OTHER_LINK}

VARIABLES
    conf,        \* deployment: .env of the client and of the signing server
    provider,    \* KeyPairContextProvider's initKeyPair(): pending/done/failed
    pending,     \* state updates of the provider not yet rendered
    ctx,         \* the context value {keyPair, walletAddress}
    mounts,      \* number of StreamPlayer instances mounted so far
    mounted,     \* the latest StreamPlayer instance is mounted
    route,       \* its route parameters {linkType, link}
    streamInfo,  \* its streamInfo state
    isReady,     \* its isReady state
    attempts,    \* every preparation attempt started, in order
    ozone        \* the storage network's sequence number per wallet

vars == <<conf, provider, pending, ctx, mounts, mounted, route, streamInfo,
          isReady, attempts, ozone>>

Keys == Wallets \cup {NoKey}
Ctx == [keyPair : Wallets \cup {Null}, walletAddress : Wallets \cup {Null}]
Conf == [walletAddress : Wallets \cup {Null},   \* REACT_APP_WALLET_ADDRESS
         mnemonicKey : Keys,                    \* REACT_APP_WALLET_MNEMONIC
         signUrl : BOOLEAN,                     \* REACT_APP_NODE_SIGN_URL set
         serverKey : Keys]                      \* server's WALLET_MNEMONIC
Route == [linkType : LinkTypes, link : Links]
Signature == [by : Wallets, link : Links, wallet : Wallets, seq : Nat]
\* Where an attempt is: a request in flight, or settled.
Pc == {"ozone", "remote", "prepare", "reply", "done", "failed"}
Attempt == [mount : Nat, wallet : Wallets, keyPair : Wallets \cup {Null},
            linkType : LinkTypes, link : Links, pc : Pc, seq : Nat,
            sig : Signature \cup {Null}, sent : BOOLEAN, ok : BOOLEAN]
Info == [ok : BOOLEAN, att : Nat]

TypeOK ==
    /\ conf \in Conf
    /\ provider \in {"pending", "done", "failed"}
    /\ pending \in Seq(Ctx)
    /\ ctx \in Ctx
    /\ mounts \in 0..MaxMounts
    /\ mounted \in BOOLEAN
    /\ route \in Route
    /\ streamInfo \in Info \cup {Null}
    /\ isReady \in BOOLEAN
    /\ attempts \in Seq(Attempt)
    /\ ozone \in [Wallets -> Nat]

-----------------------------------------------------------------------------
(***************************************************************************)
(* Helpers.                                                                *)
(***************************************************************************)

\* signWithPrivateKey(link + walletAddress + sequenceNumber + reqTime, key):
\* the message is the ordered tuple, the signer the key's address.
Sign(key, link, wallet, seq) ==
    [by |-> key, link |-> link, wallet |-> wallet, seq |-> seq]

\* Mutants (plausible bugs, each of which a property must catch).
\* setKeyPair(key) without comparing key?.address with walletAddress.
KeyPairUpdatesUnchecked(c) ==
    << [keyPair |-> c.mnemonicKey, walletAddress |-> Null],
       [keyPair |-> c.mnemonicKey, walletAddress |-> c.walletAddress] >>

\* setWalletAddress(walletAddress) called before setKeyPair(key).
KeyPairUpdatesSwapped(c) ==
    IF c.mnemonicKey # NoKey /\ c.mnemonicKey = c.walletAddress
    THEN << [keyPair |-> Null, walletAddress |-> c.walletAddress],
            [keyPair |-> c.mnemonicKey, walletAddress |-> c.walletAddress] >>
    ELSE << [keyPair |-> Null, walletAddress |-> c.walletAddress] >>

\* The renders the provider's .then callback causes: setKeyPair(key) only
\* when key?.address === walletAddress, then setWalletAddress(walletAddress).
KeyPairUpdates(c) ==
    IF c.mnemonicKey # NoKey /\ c.mnemonicKey = c.walletAddress
    THEN << [keyPair |-> c.mnemonicKey, walletAddress |-> Null],
            [keyPair |-> c.mnemonicKey, walletAddress |-> c.walletAddress] >>
    ELSE << [keyPair |-> Null, walletAddress |-> c.walletAddress] >>

\* The StreamPlayer effect on [walletAddress, keyPair], run for the render
\* of context value c: with a wallet address and a known link type it
\* starts fetchStreamInfo / fetchStreamInfoByShareLink, whose first step
\* is the getOzone request.
StartAttempt(c, r, m) ==
    IF c.walletAddress # Null /\ r.linkType \in {FILE_HASH, SHARE_LINK}
    THEN Append(attempts,
                [mount |-> m, wallet |-> c.walletAddress,
                 keyPair |-> c.keyPair, linkType |-> r.linkType,
                 link |-> r.link, pc |-> "ozone", seq |-> 0, sig |-> Null,
                 sent |-> FALSE, ok |-> FALSE])
    ELSE attempts

\* A render of the mounted player with context value c: the effect runs
\* only when its dependencies [walletAddress, keyPair] changed.
RenderContext(c) ==
    attempts' = IF mounted /\ c # ctx THEN StartAttempt(c, route, mounts)
                ELSE attempts

SetAttempt(i, a) == attempts' = [attempts EXCEPT ![i] = a]

-----------------------------------------------------------------------------
Init ==
    /\ conf \in Conf
    /\ provider = "pending"
    /\ pending = <<>>
    /\ ctx = [keyPair |-> Null, walletAddress |-> Null]
    /\ mounts = 0
    /\ mounted = FALSE
    /\ route \in Route
    /\ streamInfo = Null
    /\ isReady = FALSE
    /\ attempts = <<>>
    /\ ozone = [w \in Wallets |-> 0]

(***************************************************************************)
(* KeyPairContextProvider.                                                 *)
(***************************************************************************)

\* initKeyPair() resolves and its .then callback runs. React either batches
\* the two state updates into one render or renders after each of them.
ProviderResolve ==
    /\ provider = "pending"
    /\ provider' = "done"
    /\ LET ups == KeyPairUpdates(conf) IN
       \E batched \in BOOLEAN :
          LET first == IF batched THEN ups[Len(ups)] ELSE Head(ups) IN
          /\ ctx' = first
          /\ pending' = IF batched THEN <<>> ELSE Tail(ups)
          /\ RenderContext(first)
    /\ UNCHANGED <<conf, mounts, mounted, route, streamInfo, isReady, ozone>>

\* initKeyPair() rejects (key derivation throws): nothing is ever set.
ProviderFail ==
    /\ provider = "pending"
    /\ provider' = "failed"
    /\ UNCHANGED <<conf, pending, ctx, mounts, mounted, route, streamInfo,
                   isReady, attempts, ozone>>

\* The render for the second, unbatched state update.
CommitPending ==
    /\ pending # <<>>
    /\ ctx' = Head(pending)
    /\ pending' = Tail(pending)
    /\ RenderContext(Head(pending))
    /\ UNCHANGED <<conf, provider, mounts, mounted, route, streamInfo,
                   isReady, ozone>>

(***************************************************************************)
(* StreamPlayer mount and unmount (navigation to /video/:linkType/:link    *)
(* and away from it). The mount effect runs with the current context.      *)
(***************************************************************************)
Mount ==
    /\ ~mounted
    /\ mounts < MaxMounts
    /\ \E r \in Route :
          /\ route' = r
          /\ attempts' = StartAttempt(ctx, r, mounts + 1)
    /\ mounts' = mounts + 1
    /\ mounted' = TRUE
    /\ streamInfo' = Null
    /\ isReady' = FALSE
    /\ UNCHANGED <<conf, provider, pending, ctx, ozone>>

\* The component has no effect cleanup: its attempts keep running.
Unmount ==
    /\ mounted
    /\ mounted' = FALSE
    /\ UNCHANGED <<conf, provider, pending, ctx, mounts, route, streamInfo,
                   isReady, attempts, ozone>>

(***************************************************************************)
(* One preparation attempt, fetchStreamInfo / fetchStreamInfoByShareLink.  *)
(***************************************************************************)

\* getSignature(body) for an attempt that read sequence number s: local
\* signing when the captured keyPair has a private key, else a POST to the
\* signing service when signUrl is set, else {} (no signature, no pubKey).
\* Whatever it returns goes into the prepare request, which is sent.
GetSignature(a, s) ==
    IF a.keyPair # Null
    THEN [a EXCEPT !.seq = s, !.pc = "prepare", !.sent = TRUE,
                   !.sig = Sign(a.keyPair, a.link, a.wallet, s)]
    ELSE IF conf.signUrl
    THEN [a EXCEPT !.seq = s, !.pc = "remote"]
    ELSE [a EXCEPT !.seq = s, !.pc = "prepare", !.sent = TRUE]

\* The getOzone response is read (ozoneInfo.sequenceNumber) and
\* getSignature runs with it.
OzoneReply(i) ==
    /\ attempts[i].pc = "ozone"
    /\ SetAttempt(i, GetSignature(attempts[i], ozone[attempts[i].wallet]))
    /\ UNCHANGED <<conf, provider, pending, ctx, mounts, mounted, route,
                   streamInfo, isReady, ozone>>

\* Mutant: the signing service signs without checking the wallet address.
ServerSignUnchecked(i) ==
    LET a == attempts[i]
        k == conf.serverKey
    IN
    /\ a.pc = "remote"
    /\ k # NoKey
    /\ SetAttempt(i, [a EXCEPT !.pc = "prepare", !.sent = TRUE,
                              !.sig = Sign(k, a.link, k, a.seq)])
    /\ UNCHANGED <<conf, provider, pending, ctx, mounts, mounted, route,
                   streamInfo, isReady, ozone>>

\* The signing service's /api/sign handler. It derives its own key pair
\* (throwing, so never answering, when it has no mnemonic) and signs only
\* for the wallet it holds; otherwise it answers {}. The client then sends
\* the prepare request.
ServerSign(i) ==
    LET a == attempts[i]
        k == conf.serverKey
    IN
    /\ a.pc = "remote"
    /\ k # NoKey
    /\ SetAttempt(i,
         IF k = a.wallet
         THEN [a EXCEPT !.pc = "prepare", !.sent = TRUE,
                        !.sig = Sign(k, a.link, k, a.seq)]
         ELSE [a EXCEPT !.pc = "prepare", !.sent = TRUE])
    /\ UNCHANGED <<conf, provider, pending, ctx, mounts, mounted, route,
                   streamInfo, isReady, ozone>>

\* A fetch or its .json() rejects. Nothing catches it: the attempt ends
\* without touching the component.
FetchFail(i) ==
    /\ attempts[i].pc \in {"ozone", "remote", "prepare", "reply"}
    /\ SetAttempt(i, [attempts[i] EXCEPT !.pc = "failed"])
    /\ UNCHANGED <<conf, provider, pending, ctx, mounts, mounted, route,
                   streamInfo, isReady, ozone>>

\* Mutant: the body is applied to whichever instance is mounted, not only
\* the one whose effect started the attempt.
DeliverUnguarded(i) ==
    LET a == attempts[i] IN
    /\ a.pc = "reply"
    /\ SetAttempt(i, [a EXCEPT !.pc = "done"])
    /\ IF mounted
       THEN /\ streamInfo' = [ok |-> a.ok, att |-> i]
            /\ isReady' = TRUE
       ELSE UNCHANGED <<streamInfo, isReady>>
    /\ UNCHANGED <<conf, provider, pending, ctx, mounts, mounted, route,
                   ozone>>

\* .then(info => setStreamInfo(info)) and the [streamInfo] effect that sets
\* isReady for any non-null info. A state update of an unmounted instance
\* is dropped by React.
Deliver(i) ==
    LET a == attempts[i] IN
    /\ a.pc = "reply"
    /\ SetAttempt(i, [a EXCEPT !.pc = "done"])
    /\ IF mounted /\ a.mount = mounts
       THEN /\ streamInfo' = [ok |-> a.ok, att |-> i]
            /\ isReady' = TRUE
       ELSE UNCHANGED <<streamInfo, isReady>>
    /\ UNCHANGED <<conf, provider, pending, ctx, mounts, mounted, route,
                   ozone>>

(***************************************************************************)
(* The storage network (environment).                                      *)
(***************************************************************************)

\* The signature is what the network verifies: made by the wallet's key
\* over this request's link, wallet and sequence number.
ValidEnvelope(a) ==
    a.sig = Sign(a.wallet, a.link, a.wallet, a.seq)

\* The prepare endpoint accepts a valid envelope carrying the wallet's
\* current sequence number and advances it; it may reject for reasons not
\* modelled (wrong share password, unknown file).
NetPrepare(i) ==
    LET a == attempts[i] IN
    /\ a.pc = "prepare"
    /\ \E ok \in BOOLEAN :
          /\ ok => ValidEnvelope(a) /\ a.seq = ozone[a.wallet]
          /\ SetAttempt(i, [a EXCEPT !.pc = "reply", !.ok = ok])
          /\ ozone' = IF ok THEN [ozone EXCEPT ![a.wallet] = @ + 1]
                      ELSE ozone
    /\ UNCHANGED <<conf, provider, pending, ctx, mounts, mounted, route,
                   streamInfo, isReady>>

\* Another client of the same wallet (another viewer of the custodial
\* signing service) gets a request accepted.
OzoneBump(w) ==
    /\ ozone[w] < MaxOzone
    /\ ozone' = [ozone EXCEPT ![w] = @ + 1]
    /\ UNCHANGED <<conf, provider, pending, ctx, mounts, mounted, route,
                   streamInfo, isReady, attempts>>

-----------------------------------------------------------------------------
Next ==
    \/ ProviderResolve
    \/ ProviderFail
    \/ CommitPending
    \/ Mount
    \/ Unmount
    \/ \E i \in DOMAIN attempts :
          \/ OzoneReply(i)
          \/ ServerSign(i)
          \/ FetchFail(i)
          \/ Deliver(i)
          \/ NetPrepare(i)
    \/ \E w \in Wallets : OzoneBump(w)

Spec == Init /\ [][Next]_vars

-----------------------------------------------------------------------------
(***************************************************************************)
(* Properties.                                                             *)
(***************************************************************************)

\* Last identity wins (spec 4.4, 5): the descriptor a mounted player shows
\* was prepared by that player for the context identity it now renders
\* with; no attempt started for an older identity, or by an unmounted
\* player, has its response applied. The effect of StreamPlayer re-runs on
\* every identity change and applies whichever response arrives last, so
\* this rests on KeyPairContext publishing the identity once.
LastIdentityWins ==
    mounted /\ streamInfo # Null =>
        LET a == attempts[streamInfo.att] IN
        /\ a.mount = mounts
        /\ a.wallet = ctx.walletAddress
        /\ a.keyPair = ctx.keyPair

\* The identity is published once (spec 4.4): no step changes a context
\* that already names a wallet. KeyPairContext's .then callback calls
\* setKeyPair before setWalletAddress, so an unbatched commit shows the key
\* first and the wallet last; once a player's effect has seen a wallet,
\* no later render hands it another key or wallet.
IdentityPublishedOnce ==
    [][ctx.walletAddress # Null => ctx' = ctx]_vars

\* Every prepare request that carries a signature carries one made by the
\* key of the wallet the request names, over that request's own link,
\* wallet and sequence number: local signing uses a key only when
\* KeyPairContext matched it to the wallet address, and the signing service
\* signs only for the wallet it holds.
EnvelopeAuthentic ==
    \A i \in DOMAIN attempts :
        attempts[i].sent /\ attempts[i].sig # Null =>
            ValidEnvelope(attempts[i])

\* No sequence number is used twice (spec 3, 7): no two prepare requests of
\* this client carry the same wallet and sequence number.
NonceNeverReissued ==
    \A i, j \in DOMAIN attempts :
        /\ i # j
        /\ attempts[i].sent /\ attempts[j].sent
        /\ attempts[i].wallet = attempts[j].wallet
        => attempts[i].seq # attempts[j].seq

\* The player is shown only with a stream descriptor (spec 4.4: Preparing
\* goes to Ready on a well-formed descriptor, to Failed otherwise).
ReadyOnlyWithDescriptor ==
    isReady => streamInfo # Null /\ streamInfo.ok
=============================================================================
