# Verification of the Stratos streaming example and node panel

TLA+ models of the JavaScript under `src/`:

* the streaming client (`src/example/streaming/client/src`), with its
  landing page and URL handling;
* its remote signing service (`src/example/streaming/server/server.js`);
* the first ("legacy") streaming player (`src/example/streaming/src`);
* the node admin panel helper (`src/sp/web/panel/statics/js/main.js`).

Each model comes with TLC configurations. The client session also has
TLAPS proofs, including a proof that it implements an abstract session
lifecycle.

## The system

The streaming example plays a video whose bytes live in the storage network.
Every playback is authorised by one signed "prepare" request.

* **KeyPairContextProvider** (`client/src/KeyPairContext.js`) derives a key
  pair from the configured mnemonic, asynchronously. It publishes the key
  only if its address equals `REACT_APP_WALLET_ADDRESS`, and then publishes
  the wallet address. These are two state updates, which React may commit
  together or one after the other.
* **StreamPlayer** (`client/src/StreamPlayer.js`) is mounted on
  `/video/:linkType/:link` (`App.js`). Its effect on `[walletAddress, keyPair]`
  starts one preparation: getOzone (the wallet's sequence number), then
  `getSignature`, then the prepare POST, then `setStreamInfo`. A second
  effect sets `isReady` once `streamInfo` is non-null. `getSignature` signs
  locally with the key pair if there is one. Otherwise it calls the signing
  service if `REACT_APP_NODE_SIGN_URL` is set, and otherwise it returns no
  signature.
* **Signing service** `/api/sign` (`server/server.js`) derives its own key
  pair and signs only if its address equals the requested wallet.
* **Storage network** (not in this repository) holds one sequence number
  per wallet. It accepts a prepare request only with a valid signature over
  the current number, and then advances the number.
* **Legacy player** (`src/StreamPlayer.js`, `src/KeyPairContext.js`) has the
  same preparation, signed locally only. On a descriptor it calls
  `playVideo(playerRef.current)`. This installs the global
  `videojs.Vhs.xhr.beforeRequest` interceptor, which rewrites each segment
  request into a slice POST against the descriptor, and then sets the player
  source in `player.ready`. `playerRef` is set by the player's ready
  callback.

The hard behaviours come from the interactions:

* React commits, state updates and effects interleave with asynchronous
  fetch continuations.
* A component can unmount and remount while its preparation is still in
  flight.
* Other clients advance the same wallet's sequence number.
* The network may reject a request or fail.
* The player's ready callback can run before or after the descriptor
  arrives.

## Modules

| Module | Models | Code |
|---|---|---|
| `StreamSession` | client KeyPairContext, StreamPlayer, `/api/sign`, storage network | `client/src/*.js`, `server/server.js` |
| `MC_StreamSession` | TLC instance: 2 wallets, 2 links, symmetry | |
| `StreamSessionProofs` | TLAPS proofs about `StreamSession` | |
| `SessionLifecycle` | abstract session lifecycle of spec section 4.4 | |
| `StreamSessionLifecycle` | refinement mapping from `StreamSession` to `SessionLifecycle` | `client/src/StreamPlayer.js` |
| `StreamSessionLifecycleProofs` | TLAPS proof of the refinement | |
| `StreamSessionIdentityProofs` | TLAPS proofs of `LastIdentityWins` and `IdentityPublishedOnce` | |
| `StreamUrl` | landing page, route and query parsing, prepare URL | `client/src/LandingPage.js`, `App.js`, `StreamPlayer.js` |
| `MC_StreamUrl` | TLC instance: one listed file hash, one fetched share link | |
| `AdminPanel` | admin panel helper in several tabs | `sp/web/panel/statics/js/main.js` |
| `MC_AdminPanel` | TLC instance: 2 tabs, 1 DOM element, 1 token, symmetry | |
| `AdminPanelProofs` | TLAPS proofs of the panel's `TypeOK` and `AlertClosedWithinPeriod` | |
| `LegacyStreamPlayer` | legacy provider, player, interceptor | `src/StreamPlayer.js`, `src/KeyPairContext.js` |
| `MC_LegacyStreamPlayer` | TLC instance: 2 segments, 1 link | |
| `LegacyStreamPlayerProofs` | TLAPS proofs of the legacy `TypeOK` and `RewriteBoundToOwnSession` | |
| `LegacyStreamLifecycle` | refinement mapping from `LegacyStreamPlayer` to `SessionLifecycle` | `src/StreamPlayer.js` |
| `LegacyStreamLifecycleProofs` | TLAPS proof of the legacy refinement | |

### StreamSession

**Mapping the code to the model.**

* The deployment (`.env` of client and server) is `conf`, chosen in `Init`:
  wallet address, mnemonic key (`NoKey` when absent), whether a sign URL is
  set, and the server's key.
* The provider state is:
  * `provider`: whether initKeyPair is pending, done or failed;
  * `ctx`: the committed context value;
  * `pending`: state updates not yet rendered.
* `ProviderResolve` is the `.then` of lines 36-41. `KeyPairUpdates` gives
  the one or two context values it publishes, in order. `\E batched`
  chooses whether React commits them together (one render with the last
  value) or one at a time (`CommitPending` renders the next one). Each
  render runs StreamPlayer's effect when the deps changed (`RenderContext`).
* `Mount` and `Unmount` are navigation. A mount starts a fresh instance
  (`mounts` names it) whose effect runs with the current context.
* Each preparation is a record in `attempts`. Its `pc` steps through the
  await points: `ozone` (waiting for getOzone), `remote` (waiting for
  `/api/sign`), `prepare` (request sent), `reply` (body received), then
  `done` or `failed`.
  * `OzoneReply` reads the network's number and runs `GetSignature`.
  * `ServerSign` is the server handler.
  * `NetPrepare` is the network's answer.
  * `Deliver` is `setStreamInfo` together with the `[streamInfo]` effect.
    React drops it when the instance that started the attempt is gone.
  * `FetchFail` is a rejected fetch or `.json()`, at any await; nothing
    catches it.
* A key pair is named by the wallet it derives. A signature is the record
  of who signed which (link, wallet, sequence number). `reqTime` is left
  out, because no property distinguishes timestamps.

**Properties.**

* `LastIdentityWins`: the shown descriptor came from an attempt of the
  current mount, made with the current identity (spec section 6,
  last-identity-wins).
* `EnvelopeAuthentic`: a signed request is signed by its own wallet's key
  over its own link, wallet and sequence number.
* `IdentityPublishedOnce` (an action property): no step changes a context
  that already names a wallet. The provider calls `setKeyPair` before
  `setWalletAddress`, so a player that has seen a wallet never gets
  another key pair.
* `NonceNeverReissued`: no two sent requests share a wallet and a sequence
  number.
* `ReadyOnlyWithDescriptor`: the player shows only with a well-formed
  descriptor.

### LegacyStreamPlayer

**Mapping the code to the model.**

* `keyPair` is the context value, or null.
* Each preparation is one in-flight request: `NetReply`, `FetchFail`,
  `Deliver`.
* `PlayerReady` is `handlePlayerReady`.
* `Deliver` also runs `playVideo`:
  * it installs `hook`, a closure over this descriptor;
  * it then schedules the source when the player is ready;
  * when `playerRef.current` is still null, `player.ready` throws inside
    the `[streamInfo]` effect. Nothing catches it, so React unmounts the
    whole tree: `crashed` is set and `mounted` cleared. The provider is
    gone too, so a later `initKeyPair` result is dropped, and nothing
    mounts again. The global hook stays installed.
* `SetSource` is the `player.ready` callback.
* `PlayerRequest(seg)` is the player library asking for a file. `Rewrite`
  is what `beforeRequest` makes of it:
  * no hook: the request is sent as is;
  * a segment that maps: it is rewritten to the descriptor's request id;
  * an unmapped segment: `sliceInfo` is undefined and the rewrite throws,
    so nothing is sent.
* `Unmount` disposes the player. Its dispose handler only logs, so `hook`
  stays installed.

**Properties.**

* `RewriteBoundToOwnSession`: every sent request was rewritten against its
  own session's descriptor and for a segment that descriptor maps.
* `DisposedSessionHookRemoved`: no hook outlives its session.
* `DescriptorNeverCrashes`: a delivered descriptor never tears the
  application down. Spec sections 4.4 and 7 say a session with a
  descriptor is Ready and failures surface as "not ready", never as a
  silent blank state.

### SessionLifecycle and the refinement

`SessionLifecycle` states what spec section 4.4 promises of a session,
with none of the machinery. Its state is `phase` (Idle, AwaitingIdentity,
Preparing, Ready, Failed, Disposed), the published `identity`, and
whether the route names a link type the controller can prepare. Its
actions are `Start`, `IdentityChange`, `Succeed`, `Fail` and `Dispose`. It
re-enters Preparing on an identity change and on nothing else, so there
is no automatic retry, and it reaches Ready or Failed only from Preparing.

`StreamSessionLifecycle` maps `StreamSession` onto it:

* `Phase` is read off the latest StreamPlayer instance (`mounts`): not
  mounted yet, unmounted, `isReady`, no attempt of this instance yet, an
  attempt still in flight, or every attempt of it failed;
* `Identity` is the context value once it names a wallet address;
* `LinkKnown` is whether the route's link type is one the effect's switch
  prepares.

`SessionLifecycleRefined == SL!Spec` is checked by TLC and proved by TLAPS.
Every step of the client maps to a lifecycle step or a stutter:

* a render with a new identity is `IdentityChange`;
* `Deliver` of the current instance is `Succeed`;
* a `FetchFail` of its last live attempt is `Fail`;
* `Mount` is `Start` and `Unmount` is `Dispose`;
* everything else (signing, the network, stale instances' attempts) is a
  stutter.

`LegacyStreamLifecycle` maps the legacy player onto the same lifecycle.
This shows that both clients keep one promise.

* `Phase` is read off the latest instance. It is Ready once `streamInfo`
  is set. It is AwaitingIdentity while the `[keyPair]` effect has started
  nothing for this instance. It is Preparing while a preparation of the
  instance is in flight or has its reply, and Failed when that
  preparation rejected.
* The identity is `keyPair`: the legacy context publishes a key pair or
  nothing.
* `LinkKnown` is the effect's `switch (linkType)`.

`ProviderResolve` is `IdentityChange`, or a stutter after a crash (the
provider is unmounted and publishes nothing). A current `Deliver` is
`Succeed` when the player is ready, and `Dispose` when it crashes the
tree. A current `FetchFail` is `Fail`. `Mount` is `Start` and `Unmount` is
`Dispose`. All the other steps stutter. The legacy player has no `isReady`
and no loader, so Ready here means that the descriptor is held. An error
body is held too (the `.then` stores any body), which the lifecycle, like
the spec, does not tell apart.

### StreamUrl

**Mapping the code to the model.** The landing page's state (`linkType`,
`link`, `password`, `linkList`) is the `useState` of `LandingPage`. The
actions are:

* `SelectLinkType`, `EditLink` and `EditPassword`: the `onChange`
  handlers;
* `FetchLinks`: the mount effect that appends `/api/link-list`;
* `Go`: the GO button, guarded as the button is disabled, and
  `handleCustomLinkClick`;
* `FollowListed`: a `<Link>` of the list;
* `Back`: the browser's back button, after which the page mounts afresh
  (`Fresh`).

`intended` records the stream link the navigation was for.

A URL is a sequence of symbols. Each fixed word of the code is one symbol;
each typed character is one. The alphabets hold no `%` and no `/`, so
percent-decoding is the identity and a link is one path segment. The
parsers are modelled by what they do:

* `Pathname` and `Search`: the router's parsePath;
* `RouteMatches` and `Params`: the route `video/:linkType/:link`;
* `QueryGet`: `URLSearchParams.get`, which takes the first pair,
  splits at the first `=` and reads `+` as a space;
* `PrepareUrl`: `getVideoUrl` plus the `?password=` suffix;
* `Received`: what the storage network parses out of the prepare URL.

**Property.** `LinkDelivered`: after any navigation, StreamPlayer is
mounted, prepares, and the network receives the link type, link and
password the page meant (spec: a StreamLink is immutable once parsed).

### AdminPanel

**Mapping the code to the model.** Tabs of one origin share `storage`
(`localStorage["token"]`). Each tab has:

* `page`: the page it shows;
* `target`: a navigation or redirect in progress. Setting
  `location.href` only starts it: the old page stays loaded and its
  handlers and timers keep running until `Load` replaces it;
* `token`: its page's `API.token`;
* `timers`: the intervals `tips()` started;
* `alerts`: the age of each DOM element's alert.

`calls` records each API request with what `localStorage` held when it
went out. `$.ajax` is synchronous (`async: false`), so each handler is
one atomic action:

* `Load`: the page load and `API.init`;
* `Login`: the POST `/login` with its success callback;
* `Logout`: the `#logout` handler, including its trailing `init()`;
* `IsLogined`;
* `Call`;
* `Tips`: `tips()`.

Time is discrete. `Period` ticks are the interval's 1000 ms. `Tick`
advances every timer and alert age, but it may not pass a due timer (the
browser runs a due callback first). `Fire` is an interval's callback. It
closes every alert of the page and is due again a period later. Nothing
clears an interval before its page unloads. `Navigate` is the user
opening a page.

**Properties.**

* `AlertClosedWithinPeriod`: every alert is closed within 1000 ms.
* `TokenGatedCalls`: an API request goes out only while a token is
  stored. The spec calls the panel "a token-gated AJAX wrapper".
* `AlertShownForFullPeriod`: an alert stays up its full 1000 ms.

## Runs

| Run | Expect | Shows |
|---|---|---|
| `stream_session` | pass | `TypeOK`, `LastIdentityWins`, `EnvelopeAuthentic` and the action property `IdentityPublishedOnce` hold under every interleaving of key resolution, commits, remounts, signing, ozone bumps and network answers |
| `stream_session_nonce` | violation | mount, unmount, mount: both instances' preparations read ozone 0 and send two requests with the same nonce (no effect cleanup) |
| `stream_session_ready` | violation | a rejected prepare's error body is stored as `streamInfo` and the player is shown |
| `legacy_interceptor` | pass | `TypeOK`, `RewriteBoundToOwnSession`: the global hook is re-installed by every delivered descriptor, so requests are rewritten against the session that made them; `LegacyLifecycleRefined`: the legacy player implements the abstract lifecycle |
| `legacy_hook_dispose` | violation | after unmount the hook, bound to the disposed session, stays installed |
| `stream_session_lifecycle` | pass | `SessionLifecycleRefined`: the client implements the abstract lifecycle |
| `stream_url` | pass | links of letters and passwords of letters, spaces and `=` reach the network unchanged, typed or listed |
| `stream_url_password` | violation | `?pw=` and `?password=` are not encoded: the password `&` arrives as the empty string (`+` as a space, `#` cuts) |
| `admin_panel` | pass | `TypeOK` and `AlertClosedWithinPeriod` under every interleaving of two tabs' loads, logins, logouts and `tips()` |
| `admin_token_gate` | violation | a panel page loaded with no token stored calls the API before its redirect to `login.html` completes; a page logged out, here or in another tab, does the same. The token is read once per load and never sent |
| `admin_alert_early` | violation | an interval of an earlier `tips()` closes a later alert at once, before its 1000 ms |
| `legacy_early_descriptor` | violation | `DescriptorNeverCrashes`: a descriptor before the player's ready callback makes `playVideo(null)` throw, and React unmounts the whole application |

**Bounds.**

* `StreamSession` runs with two wallets and two links (symmetric model
  values), `MaxMounts = 2` and `MaxOzone = 1`. Two mounts is the least
  that lets a stale instance's preparation race the current one. Two
  wallets let the configured wallet, the mnemonic's and the server's
  differ. One ozone bump by another client lets the read nonce go stale.
  The run reaches about 160,000 distinct states in seconds.
* `StreamUrl` runs with values of up to 3 characters in the passing run,
  and up to 2 in the violation run. That is enough for a character
  between two others (`a=a`, `a a`) and for leading and trailing spaces.
  Links are letters only. With a space in the link alphabet,
  `LinkDelivered` also fails: a link of spaces passes GO's guard, which
  checks the untrimmed length, and navigates to `/video/<type>/`, which
  matches no route. No run is kept for this minor case.
* `AdminPanel` runs with two tabs (symmetric), which is the least that
  shares `localStorage` between pages. It has one DOM element and one
  token, and `MaxTimers = 2`. All runs have `Period = 3`, so a second
  interval can start at two different points of the first one's period.
  The passing run reaches about 1.9 million distinct states in about a
  minute and a half. The proofs hold for every `Period`.
* `LegacyStreamPlayer` runs with two segment names, so that a descriptor
  can map one and not the other, and two mounts.

Every action and every disjunct of both next-state relations fires in the
passing runs. Deadlock checking is off because a user may stay on a page
after everything has settled, which is a real terminal state of the code.

Every property of a passing run has a mutant, a plausible bug in the
mapped definition, under which TLC finds it violated:

* publishing a key without the address check breaks `TypeOK`;
* publishing the address before the key breaks `LastIdentityWins` and
  `IdentityPublishedOnce`;
* a signer that ignores the requested wallet breaks `EnvelopeAuthentic`;
* storing the response object rather than its body breaks the legacy
  `TypeOK`;
* installing the hook only once breaks `RewriteBoundToOwnSession`;
* a `Deliver` that does not check the attempt belongs to the current instance
  breaks `SessionLifecycleRefined`;
* appending the password with `&pw=` breaks `LinkDelivered`;
* storing an empty login token breaks the panel's `TypeOK`;
* a `tips()` that starts no interval breaks `AlertClosedWithinPeriod`;
* a legacy `Deliver` that applies a response to whichever instance is
  mounted breaks `LegacyLifecycleRefined`: a stale preparation makes a
  new instance Ready although it never prepared.

Deadlock checking is on for `StreamUrl` and `AdminPanel`: back, navigation
and edits are always possible.

**Fairness.** No module assumes fairness, and no run checks liveness.
User navigation and the network get none, because the code cannot make
the user stay or the network answer.

## Proofs

`StreamSessionProofs` proves two theorems for all values of the constants
under `ConstantsAssumption`.

* `TypeCorrect`: `Spec => []TypeOK`. `InitTypeOK` and `NextTypeOK` rest on
  lemmas about the helpers: `KeyPairUpdatesType`, `StartAttemptType`,
  `GetSignatureType` and `SetAttemptType`.
* `EnvelopeAuthenticInvariant`: `Spec => []EnvelopeAuthentic`.
  `EnvelopeAuthentic` is not inductive on its own. An unsent attempt with
  a stale signature, or a key pair that is not the attempt's wallet's,
  would break it one step later. The inductive invariant is
  `IInv == TypeOK /\ CtxOwned /\ AllGood`:
  * `CtxOwned`: every committed or pending context value names only the
    configured wallet, and carries a key pair only for that wallet. This
    is KeyPairContext's `key?.address === walletAddress`.
  * `AllGood`: every attempt carries a key pair only of its own wallet;
    it has sent nothing while at `ozone` or `remote`; it has no signature
    until it sends; and once sent, its signature is valid.

  The lemmas `KeyPairUpdatesOwned`, `StartAttemptGood`, `GetSignatureGood`,
  `ServerSignGood`, `AdvanceGood` and `SetAttemptGood` give one fact per
  helper. `NextIInv` has one step per action. TLC checked `IInv` as an
  invariant before it was proved.

`StreamSessionLifecycleProofs` proves `LifecycleRefinement`:
`Spec => SessionLifecycleRefined`. The mapping alone is not a refinement
of every state, because it relies on three facts about reachable states.
The inductive invariant is `LInv == TypeOK /\ IdentitySettles /\
AttemptsOfInstances`:

* `IdentitySettles`: at most one state update is pending, and only
  while the wallet is not yet published. Hence a render changes the
  identity at most once, from none to the final one.
* `AttemptsOfInstances`: every attempt belongs to an instance already
  counted in `mounts`; attempts exist only once an identity is published;
  the player is shown only after an attempt.

`InitLInv` and `NextLInv` prove the invariant, and `InitRefines` and
`StepRefines` prove the mapping. `StepRefines` has one lemma per kind of
step: `RenderRefines`, `DeliverRefines`, `FetchFailRefines`,
`MountRefines`, and `InFlightStep` for the stutters. The lemmas
`ShortSeq` and `TailOfSeq` about sequences support the rest. The theorem
combines these with PTL.

`StreamSessionIdentityProofs` extends the lifecycle proofs and proves two
more theorems.

* `LastIdentityWinsInvariant`: `Spec => []LastIdentityWins`. The
  inductive invariant is `IdentityInv == LInv /\ AttemptsCurrent /\
  InfoOfCurrent`:
  * `AttemptsCurrent`: every attempt carries the wallet and key pair the
    context publishes now;
  * `InfoOfCurrent`: the shown descriptor is that of an attempt of the
    current instance.

  It rests on `LInv`. An attempt exists only once a wallet is published
  (`AttemptsOfInstances`). After that, the provider has resolved and
  nothing is pending (`IdentitySettles`), so the context never changes
  again. `Mount` clears `streamInfo`, and `Deliver` sets it only for the
  current instance. `StartAttemptOwner`, `UpdateOwner` and
  `AttemptStepIdentity` give one fact per helper. TLC checked
  `IdentityInv` on the `stream_session` instance before it was proved.
* `IdentityPublishedOnceProperty`: `Spec => IdentityPublishedOnce`.
  `StepKeepsIdentity` shows that under `LInv`, a step from a context with
  a wallet leaves the context alone: `ProviderResolve` and
  `CommitPending`, the only writers, are disabled there.

`LegacyStreamPlayerProofs` proves `LegacyTypeCorrect` (`Spec => []TypeOK`)
and `RewriteBoundInvariant` (`Spec => []RewriteBoundToOwnSession`). They
share one inductive invariant, because `TypeOK` alone is not inductive:
`PlayerRequest` reads `streamInfo.att`, which is typed only if the
descriptor exists. The invariant is `RInv == TypeOK /\ RepliesNamed /\
InfoDelivered /\ SentDelivered /\ SourceAfterHook /\
RewriteBoundToOwnSession`:

* `RepliesNamed`: a reply is stored in the attempt it answers;
* `InfoDelivered` and `SentDelivered`: the shown descriptor, and the one
  every sent request was rewritten against, belong to a delivered attempt,
  whose body nothing changes again;
* `SourceAfterHook`: while the mounted player's source is set or
  scheduled, the hook is the one installed for its descriptor.

`ReplyUpdate`, `PcUpdate`, `StartAttemptFacts` and `DeliveredKept` give
the facts about the helpers. The proof uses the assumption
`Null \notin Info /\ Null \notin Hook` of `LegacyConstantsAssumption`:
JavaScript's null is not an object, so it is neither a descriptor body nor
an installed interceptor. TLC checked `RInv` on the `legacy_interceptor`
instance before it was proved.

`AdminPanelProofs` proves two theorems under `AdminPanelAssumption`.

* `PanelTypeCorrect`: `Spec => []TypeOK`. The lemma `CountDown` covers
  `Tick`'s decrement of the timers.
* `AlertClosedWithinPeriodInvariant`: `Spec => []AlertClosedWithinPeriod`.
  The age bound alone is not inductive: `Tick` raises every age. The
  strengthening is `AlertCovered`: every open alert has an interval of its
  tab that is due before the alert's age reaches `Period`. `Tips` starts a
  fresh interval for its alert, `Tick` moves age and due time together,
  and `Fire` and `Load` close every alert of the tab. TLC checked
  `AlertCovered` on the `admin_panel` instance with `Period = 3` (1.9 million states) before
  it was proved.

`LegacyStreamLifecycleProofs` proves `LegacyLifecycleRefinement`:
`Spec => LegacyLifecycleRefined`. The mapping is a refinement only in
reachable states. The inductive invariant is `LInv`, the conjunction of
`RInv` and these:

* `KeyFromProvider` and `AttemptsNeedKey`: the key pair is published
  only when `initKeyPair` resolves, and no preparation exists before it.
  So `ProviderResolve` finds the mounted instance still AwaitingIdentity.
* `CrashedUnmounted`: after a crash nothing is mounted. So a
  `ProviderResolve` after a crash, which publishes nothing, is a stutter.
* `AttemptMounts` and `OneAttemptPerMount`: each instance starts at most
  one preparation (the mount effect with the key pair already there, or
  its re-run when the key pair arrives). So a `FetchFail` of the current
  instance's preparation leaves it with none pending, which is `Fail`.
* `InfoCurrent` with `InfoDelivered`: the descriptor held was delivered
  for this very instance. So a `Deliver` for the current instance finds
  no descriptor yet, and is a `Succeed` from Preparing, or, when the
  player is not ready and the tree crashes, a `Dispose` from Preparing.

`StartAttemptShape` and `MountsKept` give the facts about the helpers.
`PhaseKept`, `LifecycleStutter` and `MountedPhase` give the facts about
the mapping. `InitLInv`, `NextLInv`, `InitRefines` and `StepRefines` are
combined by PTL. TLC checked `LInv` on the `legacy_interceptor` instance
before it was proved.

What stays with TLC, and why:

* liveness: no run checks any yet (see the plan), and TLAPS could not
  reason about fairness and `ENABLED` in any case;
* `StreamUrl`'s `LinkDelivered`: the module declares the RECURSIVE `Split`,
  and no module that reaches a RECURSIVE operator can hold theorems. What
  a URL parser computes for every input is also induction over data,
  which the installed provers cannot do;
* the properties of the violation runs, which are false.

## Not modelled (yet)

* `API.param()` of `main.js`: a pure read of the URL that changes no
  state and that no page script in `src/` calls.
* The server behind the panel's `/login` and API, and the storage network,
  are not in the repository. They are an arbitrary errcode and token, and
  a parse of the request.
* `/api/link-list` and the webpack config: I/O and build configuration.
* VideoJS and LinkType are not under `src/`. LinkType is modelled from the
  spec.

## Plan for the next steps

1. Liveness of a preparation under an explicit fairness assumption on the
   network (hazard `StreamPlayer.js:111`, the signer call without a
   timeout).
2. A composition of `StreamUrl` with `StreamSession`, so that the
   prepared link comes from the landing page rather than from `Init`.
3. A liveness property of the legacy lifecycle (a prepared instance
   eventually leaves Preparing) under the same network fairness.
