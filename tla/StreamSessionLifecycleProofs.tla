-------------------- MODULE StreamSessionLifecycleProofs --------------------
(***************************************************************************)
(* Proof that the client session implements the lifecycle of spec 4.4     *)
(* (StreamSession => SL!Spec), for every value of the constants.           *)
(***************************************************************************)
EXTENDS StreamSessionLifecycle, StreamSessionProofs, SequenceTheorems

\* KeyPairContext publishes the wallet address last: once the context
\* names a wallet, initKeyPair has settled and no update is pending; at
\* most one update is ever pending, and only behind a context without one.
IdentitySettles ==
    /\ Len(pending) <= 1
    /\ pending # <<>> => provider = "done" /\ ctx.walletAddress = Null
    /\ ctx.walletAddress # Null => provider = "done" /\ pending = <<>>

\* Attempts are numbered by the instance that started them, which is
\* mounted only after it was counted; an attempt exists only once the
\* context names a wallet, and the player is shown only after one.
AttemptsOfInstances ==
    /\ mounted => mounts >= 1
    /\ \A i \in DOMAIN attempts : attempts[i].mount \in 1..mounts
    /\ attempts # <<>> => ctx.walletAddress # Null
    /\ isReady => attempts # <<>>

\* The invariant the refinement proof rests on.
LInv == TypeOK /\ IdentitySettles /\ AttemptsOfInstances



-----------------------------------------------------------------------------
(***************************************************************************)
(* Lemmas about the helpers.                                               *)
(***************************************************************************)

\* A sequence of at most one element that is not empty has exactly one.
LEMMA ShortSeq ==
    ASSUME NEW S, NEW s \in Seq(S), s # <<>>, Len(s) <= 1
    PROVE  Len(s) = 1 /\ Tail(s) = <<>> /\ Head(s) \in S
<1>1. Len(s) \in Nat \ {0}
  BY EmptySeq
<1>2. Len(s) = 1
  BY <1>1
<1>3. Tail(s) \in Seq(S) /\ Len(Tail(s)) = 0 /\ Head(s) \in S
  BY <1>2, HeadTailProperties
<1>4. Tail(s) = <<>>
  BY <1>3, EmptySeq
<1>5. QED
  BY <1>2, <1>3, <1>4
\* The tail of a non-empty sequence is one shorter, and empty exactly
\* when the sequence has one element.
LEMMA TailOfSeq ==
    ASSUME NEW S, NEW s \in Seq(S), s # <<>>
    PROVE  /\ Tail(s) \in Seq(S) /\ Len(Tail(s)) = Len(s) - 1
           /\ Tail(s) = <<>> <=> Len(s) = 1
           /\ Head(s) = s[1]
<1>1. Tail(s) \in Seq(S) /\ Len(Tail(s)) = Len(s) - 1 /\ Len(s) \in Nat \ {0}
  BY HeadTailProperties, EmptySeq
<1>2. Tail(s) = <<>> => Len(s) = 1
  <2> SUFFICES ASSUME Tail(s) = <<>> PROVE Len(s) = 1
    OBVIOUS
  <2>1. Len(<<>>) = 0
    OBVIOUS
  <2>2. Len(Tail(s)) = 0
    BY <2>1, Zenon
  <2>3. QED
    BY <1>1, <2>2
<1>3. Len(s) = 1 => Tail(s) = <<>>
  <2>1. Tail(s) # <<>> => Len(Tail(s)) \in Nat \ {0}
    BY <1>1, EmptySeq
  <2>2. QED
    BY <1>1, <2>1
<1>4. Head(s) = s[1]
  OBVIOUS
<1>5. QED
  BY <1>1, <1>2, <1>3, <1>4
\* KeyPairContext's first update names no wallet when there are two.
LEMMA KeyPairUpdatesFirst ==
    ASSUME NEW c \in Conf
    PROVE  Len(KeyPairUpdates(c)) = 2 => KeyPairUpdates(c)[1].walletAddress = Null
BY DEF KeyPairUpdates

\* Starting an attempt appends one record numbered m, or nothing.
LEMMA StartAttemptCases ==
    ASSUME NEW c \in Ctx, NEW r \in Route, NEW m \in Nat,
           attempts \in Seq(Attempt)
    PROVE  LET s == StartAttempt(c, r, m) IN
           \/ /\ c.walletAddress # Null /\ r.linkType \in {FILE_HASH, SHARE_LINK}
              /\ s \in Seq(Attempt) /\ Len(s) = Len(attempts) + 1
              /\ \A j \in DOMAIN attempts : s[j] = attempts[j]
              /\ s[Len(s)].mount = m /\ s[Len(s)].pc = "ozone"
           \/ /\ ~(c.walletAddress # Null /\ r.linkType \in {FILE_HASH, SHARE_LINK})
              /\ s = attempts
<1>1. CASE c.walletAddress # Null /\ r.linkType \in {FILE_HASH, SHARE_LINK}
  <2> DEFINE b == [mount |-> m, wallet |-> c.walletAddress,
                   keyPair |-> c.keyPair, linkType |-> r.linkType,
                   link |-> r.link, pc |-> "ozone", seq |-> 0, sig |-> Null,
                   sent |-> FALSE, ok |-> FALSE]
  <2>1. b \in Attempt
    BY <1>1 DEF Ctx, Route, Pc, Attempt
  <2>2. StartAttempt(c, r, m) = Append(attempts, b)
    BY <1>1 DEF StartAttempt
  <2>3. QED
    BY <1>1, <2>1, <2>2
<1>2. CASE ~(c.walletAddress # Null /\ r.linkType \in {FILE_HASH, SHARE_LINK})
  BY <1>2 DEF StartAttempt
<1>3. QED
  BY <1>1, <1>2

\* Replacing attempt i by a record of the same instance keeps every
\* attempt's instance number, and the domain.
LEMMA SetAttemptMount ==
    ASSUME attempts \in Seq(Attempt), NEW i \in DOMAIN attempts, NEW b,
           b.mount = attempts[i].mount, SetAttempt(i, b)
    PROVE  /\ DOMAIN attempts' = DOMAIN attempts
           /\ \A j \in DOMAIN attempts : attempts'[j].mount = attempts[j].mount
           /\ \A j \in DOMAIN attempts \ {i} : attempts'[j] = attempts[j]
           /\ attempts'[i] = b
BY DEF SetAttempt

\* The record updates of the actions keep the attempt's instance number.
LEMMA UpdateMount ==
    ASSUME NEW a \in Attempt, NEW s \in Nat, NEW k, NEW ok
    PROVE  /\ GetSignature(a, s).mount = a.mount
           /\ GetSignature(a, s).pc \in {"remote", "prepare"}
           /\ [a EXCEPT !.pc = "prepare", !.sent = TRUE,
                        !.sig = Sign(k, a.link, k, a.seq)].mount = a.mount
           /\ [a EXCEPT !.pc = "prepare", !.sent = TRUE].mount = a.mount
           /\ [a EXCEPT !.pc = "failed"].mount = a.mount
           /\ [a EXCEPT !.pc = "done"].mount = a.mount
           /\ [a EXCEPT !.pc = "reply", !.ok = ok].mount = a.mount
BY Zenon DEF GetSignature, Attempt

-----------------------------------------------------------------------------
(***************************************************************************)
(* The invariant LInv.                                                     *)
(***************************************************************************)

LEMMA InitLInv == Init => LInv
<1> SUFFICES ASSUME Init PROVE LInv
  OBVIOUS
<1>1. TypeOK
  BY InitTypeOK
<1>2. IdentitySettles
  BY DEF Init, IdentitySettles
<1>3. AttemptsOfInstances
  BY DEF Init, AttemptsOfInstances
<1>4. QED
  BY <1>1, <1>2, <1>3 DEF LInv

\* A step of one attempt (getOzone's answer, the signer, the network, a
\* failure, the delivery) keeps the instance numbers and the provider.
LEMMA AttemptStepLInv ==
    ASSUME TypeOK, IdentitySettles, AttemptsOfInstances,
           NEW i \in DOMAIN attempts, NEW b, b.mount = attempts[i].mount,
           SetAttempt(i, b), UNCHANGED <<provider, pending, ctx, mounts, mounted>>
    PROVE  IdentitySettles' /\ AttemptsOfInstances'
<1>1. /\ DOMAIN attempts' = DOMAIN attempts
      /\ \A j \in DOMAIN attempts : attempts'[j].mount = attempts[j].mount
  BY SetAttemptMount DEF TypeOK
<1>2. IdentitySettles'
  BY DEF IdentitySettles
<1>3. attempts' # <<>> /\ attempts # <<>>
  BY <1>1
<1>4. AttemptsOfInstances'
  BY <1>1, <1>3 DEF AttemptsOfInstances
<1>5. QED
  BY <1>2, <1>4

\* The invariant is kept by every step.
LEMMA NextLInv == LInv /\ [Next]_vars => LInv'
<1> SUFFICES ASSUME TypeOK, IdentitySettles, AttemptsOfInstances, [Next]_vars
             PROVE  IdentitySettles' /\ AttemptsOfInstances'
  BY NextTypeOK DEF LInv
<1>0. /\ conf \in Conf /\ pending \in Seq(Ctx) /\ ctx \in Ctx
      /\ mounts \in Nat /\ route \in Route /\ attempts \in Seq(Attempt)
  BY DEF TypeOK
<1> USE <1>0
<1>1. CASE ProviderResolve
  <2> DEFINE ups == KeyPairUpdates(conf)
  <2>1. PICK batched \in BOOLEAN :
          /\ ctx' = IF batched THEN ups[Len(ups)] ELSE Head(ups)
          /\ pending' = IF batched THEN <<>> ELSE Tail(ups)
          /\ attempts' = IF mounted /\ ctx' # ctx
                         THEN StartAttempt(ctx', route, mounts)
                         ELSE attempts
    BY <1>1, Zenon DEF ProviderResolve, RenderContext
  <2>2. /\ ups \in Seq(Ctx) /\ Len(ups) \in {1, 2}
        /\ ups[Len(ups)] \in Ctx
        /\ Len(ups) = 2 => ups[1].walletAddress = Null
    BY KeyPairUpdatesType, KeyPairUpdatesFirst
  <2>3. attempts = <<>> /\ ~isReady
    BY <1>1 DEF ProviderResolve, IdentitySettles, AttemptsOfInstances
  <2>4. ctx' \in Ctx
    BY <2>1, <2>2
  <2>5. IdentitySettles'
    <3>1. provider' = "done"
      BY <1>1 DEF ProviderResolve
    <3>2. CASE batched
      BY <2>1, <3>1, <3>2 DEF IdentitySettles
    <3>3. CASE ~batched
      <4>1. ctx' = Head(ups) /\ pending' = Tail(ups)
        BY <2>1, <3>3
      <4>2. ups # <<>>
        <5> SUFFICES ASSUME ups = <<>> PROVE FALSE
          OBVIOUS
        <5>1. Len(<<>>) = 0
          OBVIOUS
        <5>2. Len(ups) = 0
          BY <5>1, Zenon
        <5>3. QED
          BY <5>2, <2>2
      <4>4. /\ Tail(ups) \in Seq(Ctx) /\ Len(Tail(ups)) = Len(ups) - 1
            /\ Tail(ups) = <<>> <=> Len(ups) = 1
            /\ Head(ups) = ups[1]
        BY <2>2, <4>2, TailOfSeq, Zenon
      <4>5. Len(pending') <= 1
        <5>1. Len(pending') = Len(Tail(ups))
          BY <4>1, Zenon
        <5>2. QED
          BY <2>2, <4>4, <5>1
      <4>6. pending' # <<>> => ctx'.walletAddress = Null
        <5>1. pending' # <<>> => Len(ups) = 2
          BY <2>2, <4>1, <4>4
        <5>2. ctx' = ups[1]
          BY <4>1, <4>4
        <5>3. QED
          BY <2>2, <5>1, <5>2
      <4>7. QED
        BY <3>1, <4>5, <4>6, Zenon DEF IdentitySettles
    <3>4. QED
      BY <3>2, <3>3
  <2>6. StartAttempt(ctx', route, mounts) = <<>>
        \/ /\ StartAttempt(ctx', route, mounts) \in Seq(Attempt)
           /\ Len(StartAttempt(ctx', route, mounts)) = 1
           /\ StartAttempt(ctx', route, mounts)[1].mount = mounts
           /\ ctx'.walletAddress # Null
    BY <2>3, <2>4, StartAttemptCases
  <2>7. AttemptsOfInstances'
    BY <1>1, <2>1, <2>3, <2>6 DEF ProviderResolve, AttemptsOfInstances
  <2>8. QED
    BY <2>5, <2>7
<1>2. CASE ProviderFail
  BY <1>2 DEF ProviderFail, IdentitySettles, AttemptsOfInstances
<1>3. CASE CommitPending
  <2>a. pending # <<>> /\ provider = "done" /\ ctx.walletAddress = Null
    BY <1>3 DEF CommitPending, IdentitySettles
  <2>b. Len(pending) = 1 /\ Tail(pending) = <<>> /\ Head(pending) \in Ctx
    BY <2>a, ShortSeq, Zenon DEF IdentitySettles
  <2>c. attempts = <<>>
    BY <2>a DEF AttemptsOfInstances
  <2>d. ~isReady
    BY <2>c, Zenon DEF AttemptsOfInstances
  <2>3. attempts' = IF mounted /\ Head(pending) # ctx
                    THEN StartAttempt(Head(pending), route, mounts)
                    ELSE attempts
    BY <1>3 DEF CommitPending, RenderContext
  <2>4. StartAttempt(Head(pending), route, mounts) = <<>>
        \/ /\ Len(StartAttempt(Head(pending), route, mounts)) = 1
           /\ StartAttempt(Head(pending), route, mounts)[1].mount = mounts
           /\ Head(pending).walletAddress # Null
    BY <2>b, <2>c, StartAttemptCases
  <2>5. IdentitySettles'
    BY <1>3, <2>a, <2>b DEF CommitPending, IdentitySettles
  <2>6. AttemptsOfInstances'
    BY <1>3, <2>c, <2>d, <2>3, <2>4 DEF CommitPending, AttemptsOfInstances
  <2>7. QED
    BY <2>5, <2>6
<1>4. CASE Mount
  <2>1. PICK r \in Route : attempts' = StartAttempt(ctx, r, mounts + 1)
    BY <1>4 DEF Mount
  <2>2. \/ /\ ctx.walletAddress # Null
           /\ Len(attempts') = Len(attempts) + 1
           /\ \A j \in DOMAIN attempts : attempts'[j] = attempts[j]
           /\ attempts'[Len(attempts')].mount = mounts + 1
        \/ attempts' = attempts
    BY <2>1, StartAttemptCases
  <2>3. IdentitySettles'
    BY <1>4 DEF Mount, IdentitySettles
  <2>4. AttemptsOfInstances'
    BY <1>4, <2>2 DEF Mount, AttemptsOfInstances
  <2>5. QED
    BY <2>3, <2>4
<1>5. CASE Unmount
  BY <1>5 DEF Unmount, IdentitySettles, AttemptsOfInstances
<1>6. ASSUME NEW i \in DOMAIN attempts, OzoneReply(i)
      PROVE  IdentitySettles' /\ AttemptsOfInstances'
  <2>1. attempts[i] \in Attempt /\ ozone[attempts[i].wallet] \in Nat
    <3>1. attempts[i] \in Attempt
      OBVIOUS
    <3>2. attempts[i].wallet \in Wallets
      BY <3>1 DEF Attempt
    <3>3. QED
      BY <3>1, <3>2 DEF TypeOK
  <2>2. GetSignature(attempts[i], ozone[attempts[i].wallet]).mount = attempts[i].mount
    BY <2>1, UpdateMount
  <2>3. QED
    BY <1>6, <2>2, AttemptStepLInv DEF OzoneReply
<1>7. ASSUME NEW i \in DOMAIN attempts, ServerSign(i)
      PROVE  IdentitySettles' /\ AttemptsOfInstances'
  <2> DEFINE a == attempts[i]
             k == conf.serverKey
             b == IF k = a.wallet
                  THEN [a EXCEPT !.pc = "prepare", !.sent = TRUE,
                                 !.sig = Sign(k, a.link, k, a.seq)]
                  ELSE [a EXCEPT !.pc = "prepare", !.sent = TRUE]
  <2>1. a \in Attempt
    OBVIOUS
  <2>2. b.mount = a.mount
    BY <2>1, UpdateMount
  <2>3. SetAttempt(i, b) /\ UNCHANGED <<provider, pending, ctx, mounts, mounted>>
    BY <1>7 DEF ServerSign
  <2>4. QED
    BY <2>2, <2>3, AttemptStepLInv
<1>8. ASSUME NEW i \in DOMAIN attempts, FetchFail(i)
      PROVE  IdentitySettles' /\ AttemptsOfInstances'
  <2>1. [attempts[i] EXCEPT !.pc = "failed"].mount = attempts[i].mount
    BY UpdateMount
  <2>2. QED
    BY <1>8, <2>1, AttemptStepLInv DEF FetchFail
<1>9. ASSUME NEW i \in DOMAIN attempts, Deliver(i)
      PROVE  IdentitySettles' /\ AttemptsOfInstances'
  <2>1. [attempts[i] EXCEPT !.pc = "done"].mount = attempts[i].mount
    BY UpdateMount
  <2>2. QED
    BY <1>9, <2>1, AttemptStepLInv DEF Deliver
<1>10. ASSUME NEW i \in DOMAIN attempts, NetPrepare(i)
       PROVE  IdentitySettles' /\ AttemptsOfInstances'
  <2>1. PICK ok \in BOOLEAN :
          /\ SetAttempt(i, [attempts[i] EXCEPT !.pc = "reply", !.ok = ok])
          /\ UNCHANGED <<provider, pending, ctx, mounts, mounted>>
    BY <1>10 DEF NetPrepare
  <2>2. [attempts[i] EXCEPT !.pc = "reply", !.ok = ok].mount = attempts[i].mount
    BY UpdateMount
  <2>3. QED
    BY <2>1, <2>2, AttemptStepLInv
<1>11. ASSUME NEW w \in Wallets, OzoneBump(w)
       PROVE  IdentitySettles' /\ AttemptsOfInstances'
  BY <1>11 DEF OzoneBump, IdentitySettles, AttemptsOfInstances
<1>12. CASE UNCHANGED vars
  BY <1>12 DEF vars, IdentitySettles, AttemptsOfInstances
<1>13. QED
  BY <1>1, <1>2, <1>3, <1>4, <1>5, <1>6, <1>7, <1>8, <1>9, <1>10, <1>11,
     <1>12 DEF Next

-----------------------------------------------------------------------------
(***************************************************************************)
(* The refinement mapping.                                                 *)
(***************************************************************************)

\* The phase depends only on the instance counters, isReady, and which
\* attempts of the latest instance are still in flight.
LEMMA PhaseStable ==
    ASSUME UNCHANGED <<mounts, mounted, isReady>>,
           DOMAIN attempts' = DOMAIN attempts,
           \A j \in DOMAIN attempts : attempts'[j].mount = attempts[j].mount,
           \A j \in DOMAIN attempts :
              attempts[j].mount = mounts =>
                 (attempts'[j].pc \in {"done", "failed"}
                    <=> attempts[j].pc \in {"done", "failed"})
    PROVE  Phase' = Phase
<1>1. CurrentAttempts' = CurrentAttempts
  BY DEF CurrentAttempts
<1>2. (\E j \in CurrentAttempts' : attempts'[j].pc \notin {"done", "failed"})
      <=> \E j \in CurrentAttempts : attempts[j].pc \notin {"done", "failed"}
  BY <1>1 DEF CurrentAttempts
<1>3. QED
  BY <1>1, <1>2, Zenon DEF Phase

\* A step that leaves the phase, the context and the route alone is a
\* lifecycle stutter.
LEMMA Stutter ==
    ASSUME Phase' = Phase, UNCHANGED <<ctx, route>>
    PROVE  [SL!Next]_SL!vars
BY DEF SL!vars, Identity, LinkKnown

LEMMA InitRefines == Init => SL!Init
<1> SUFFICES ASSUME Init PROVE SL!Init
  OBVIOUS
<1>1. Phase = "Idle"
  BY DEF Init, Phase
<1>2. Identity = Null
  BY DEF Init, Identity
<1>3. LinkKnown \in BOOLEAN
  BY DEF LinkKnown
<1>4. QED
  BY <1>1, <1>2, <1>3 DEF SL!Init

\* A step of one attempt that keeps it in flight, or keeps it settled, is
\* a lifecycle stutter (getOzone's answer, the signer, the network).
LEMMA InFlightStep ==
    ASSUME attempts \in Seq(Attempt), NEW i \in DOMAIN attempts, NEW b,
           b.mount = attempts[i].mount,
           b.pc \in {"done", "failed"} <=> attempts[i].pc \in {"done", "failed"},
           SetAttempt(i, b),
           UNCHANGED <<ctx, route, mounts, mounted, isReady>>
    PROVE  [SL!Next]_SL!vars
<1>1. /\ DOMAIN attempts' = DOMAIN attempts
      /\ \A j \in DOMAIN attempts : attempts'[j].mount = attempts[j].mount
      /\ \A j \in DOMAIN attempts \ {i} : attempts'[j] = attempts[j]
      /\ attempts'[i] = b
  BY SetAttemptMount
<1>2. \A j \in DOMAIN attempts :
         attempts'[j].pc \in {"done", "failed"}
            <=> attempts[j].pc \in {"done", "failed"}
  BY <1>1
<1>3. Phase' = Phase
  BY <1>1, <1>2, PhaseStable
<1>4. QED
  BY <1>3, Stutter

\* A render of KeyPairContext's update c while no identity is published
\* yet (ProviderResolve, CommitPending): a stutter while c names no
\* wallet, else the identity change, which starts the preparation exactly
\* when a player is mounted on a link it can prepare.
LEMMA RenderRefines ==
    ASSUME TypeOK, AttemptsOfInstances,
           ctx.walletAddress = Null, attempts = <<>>, ~isReady,
           NEW c \in Ctx, ctx' = c,
           attempts' = IF mounted /\ c # ctx THEN StartAttempt(c, route, mounts)
                       ELSE attempts,
           UNCHANGED <<mounts, mounted, route, isReady>>
    PROVE  [SL!Next]_SL!vars
<1>0. /\ mounts \in Nat /\ route \in Route /\ ctx \in Ctx
      /\ attempts \in Seq(Attempt) /\ mounted \in BOOLEAN
  BY DEF TypeOK
<1>1. CurrentAttempts = {}
  BY DEF CurrentAttempts
<1>2. Identity = Null
  BY DEF Identity
<1>3. CASE c.walletAddress = Null
  <2>1. attempts' = attempts
    BY <1>0, <1>3, StartAttemptCases
  <2>2. Phase' = Phase
    BY <2>1 DEF Phase, CurrentAttempts
  <2>3. QED
    BY <1>2, <1>3, <2>2 DEF SL!vars, Identity, LinkKnown
<1>4. CASE c.walletAddress # Null
  <2>1. Identity' = c /\ c # Null
    BY <1>4, NullNotCtx DEF Identity
  <2>2. UNCHANGED LinkKnown
    BY DEF LinkKnown
  <2>3. Phase' = IF Phase \in SL!Live /\ c # Null /\ LinkKnown
                 THEN "Preparing" ELSE Phase
    <3>1. CASE ~mounted
      <4>1. attempts' = attempts
        BY <3>1
      <4>2. Phase' = Phase /\ Phase \in {"Idle", "Disposed"}
        BY <3>1, <4>1 DEF Phase, CurrentAttempts
      <4>3. QED
        BY <4>2 DEF SL!Live
    <3>2. CASE mounted
      <4>1. Phase = "AwaitingIdentity" /\ mounts >= 1
        BY <3>2, <1>1 DEF Phase, AttemptsOfInstances
      <4>2. attempts' = StartAttempt(c, route, mounts)
        BY <3>2, <1>4
      <4>3. CASE LinkKnown
        <5>1. /\ Len(attempts') = 1
              /\ attempts'[1].mount = mounts /\ attempts'[1].pc = "ozone"
          BY <1>0, <1>4, <4>2, <4>3, StartAttemptCases DEF LinkKnown
        <5>2. CurrentAttempts' = {1}
          BY <5>1 DEF CurrentAttempts
        <5>3. Phase' = "Preparing"
          BY <3>2, <4>1, <5>1, <5>2 DEF Phase
        <5>4. QED
          BY <2>1, <4>1, <4>3, <5>3 DEF SL!Live
      <4>4. CASE ~LinkKnown
        <5>1. attempts' = attempts
          BY <1>0, <4>2, <4>4, StartAttemptCases DEF LinkKnown
        <5>2. Phase' = Phase
          BY <5>1 DEF Phase, CurrentAttempts
        <5>3. QED
          BY <4>4, <5>2
      <4>5. QED
        BY <4>3, <4>4
    <3>3. QED
      BY <3>1, <3>2, <1>0
  <2>4. SL!IdentityChange
    BY <1>2, <2>1, <2>2, <2>3 DEF SL!IdentityChange
  <2>5. QED
    BY <2>4 DEF SL!Next
<1>5. QED
  BY <1>3, <1>4

\* The .then(info => setStreamInfo(info)) of an attempt: Ready when it
\* belongs to the mounted instance, otherwise dropped by React.
LEMMA DeliverRefines ==
    ASSUME TypeOK, AttemptsOfInstances, NEW i \in DOMAIN attempts, Deliver(i)
    PROVE  [SL!Next]_SL!vars
<1> DEFINE a == attempts[i]
<1>0. attempts \in Seq(Attempt) /\ a \in Attempt /\ mounts \in Nat
  BY DEF TypeOK
<1>1. /\ a.pc = "reply"
      /\ SetAttempt(i, [a EXCEPT !.pc = "done"])
      /\ UNCHANGED <<ctx, route, mounts, mounted>>
  BY DEF Deliver
<1>2. /\ DOMAIN attempts' = DOMAIN attempts
      /\ \A j \in DOMAIN attempts : attempts'[j].mount = attempts[j].mount
      /\ \A j \in DOMAIN attempts \ {i} : attempts'[j] = attempts[j]
      /\ attempts'[i] = [a EXCEPT !.pc = "done"]
  BY <1>0, <1>1, UpdateMount, SetAttemptMount
<1>3. CASE mounted /\ a.mount = mounts
  <2>1. isReady' = TRUE /\ mounts # 0
    BY <1>0, <1>3 DEF Deliver, AttemptsOfInstances
  <2>2. Phase' = "Ready"
    BY <1>1, <1>3, <2>1, Zenon DEF Phase
  <2>3. CASE isReady
    <3>1. Phase = "Ready"
      BY <1>3, <2>1, <2>3, Zenon DEF Phase
    <3>2. QED
      BY <1>1, <2>2, <3>1, Stutter
  <2>4. CASE ~isReady
    <3>1. i \in CurrentAttempts
      BY <1>3 DEF CurrentAttempts
    <3>2. Phase = "Preparing"
      BY <1>1, <1>3, <2>1, <2>4, <3>1 DEF Phase
    <3>3. SL!Succeed
      BY <1>1, <2>2, <3>2 DEF SL!Succeed, Identity, LinkKnown
    <3>4. QED
      BY <3>3 DEF SL!Next
  <2>5. QED
    BY <2>3, <2>4
<1>4. CASE ~mounted
  <2>1. UNCHANGED isReady
    BY <1>4 DEF Deliver
  <2>2. Phase' = Phase
    BY <1>1, <1>4, <2>1 DEF Phase
  <2>3. QED
    BY <1>1, <2>2, Stutter
<1>5. CASE mounted /\ a.mount # mounts
  <2>1. UNCHANGED isReady
    BY <1>5 DEF Deliver
  <2>2. \A j \in DOMAIN attempts :
           attempts[j].mount = mounts =>
              (attempts'[j].pc \in {"done", "failed"}
                 <=> attempts[j].pc \in {"done", "failed"})
    BY <1>2, <1>5
  <2>3. Phase' = Phase
    BY <1>1, <1>2, <2>1, <2>2, PhaseStable
  <2>4. QED
    BY <1>1, <2>3, Stutter
<1>6. QED
  BY <1>3, <1>4, <1>5

\* A rejected fetch of an attempt: the latest instance fails when this was
\* its last preparation in flight and it shows no player yet.
LEMMA FetchFailRefines ==
    ASSUME TypeOK, AttemptsOfInstances, NEW i \in DOMAIN attempts, FetchFail(i)
    PROVE  [SL!Next]_SL!vars
<1> DEFINE a == attempts[i]
<1>0. attempts \in Seq(Attempt) /\ a \in Attempt /\ mounts \in Nat
  BY DEF TypeOK
<1>1. /\ a.pc \in {"ozone", "remote", "prepare", "reply"}
      /\ SetAttempt(i, [a EXCEPT !.pc = "failed"])
      /\ UNCHANGED <<ctx, route, mounts, mounted, isReady>>
  BY DEF FetchFail
<1>2. /\ DOMAIN attempts' = DOMAIN attempts
      /\ \A j \in DOMAIN attempts : attempts'[j].mount = attempts[j].mount
      /\ \A j \in DOMAIN attempts \ {i} : attempts'[j] = attempts[j]
      /\ attempts'[i] = [a EXCEPT !.pc = "failed"]
  BY <1>0, <1>1, UpdateMount, SetAttemptMount
<1>3. CASE mounted /\ a.mount = mounts /\ ~isReady
  <2>1. mounts >= 1 /\ mounts # 0
    BY <1>3 DEF AttemptsOfInstances
  <2>2. i \in CurrentAttempts /\ CurrentAttempts' = CurrentAttempts
    BY <1>1, <1>2, <1>3 DEF CurrentAttempts
  <2>3. Phase = "Preparing"
    BY <1>1, <1>3, <2>1, <2>2 DEF Phase
  <2>4. Phase' \in {"Preparing", "Failed"}
    BY <1>1, <1>3, <2>1, <2>2 DEF Phase
  <2>5. CASE Phase' = "Preparing"
    BY <1>1, <2>3, <2>5, Stutter
  <2>6. CASE Phase' = "Failed"
    <3>1. SL!Fail
      BY <1>1, <2>3, <2>6 DEF SL!Fail, Identity, LinkKnown
    <3>2. QED
      BY <3>1 DEF SL!Next
  <2>7. QED
    BY <2>4, <2>5, <2>6
<1>4. CASE ~mounted \/ isReady
  <2>1. Phase' = Phase
    BY <1>1, <1>4 DEF Phase
  <2>2. QED
    BY <1>1, <2>1, Stutter
<1>5. CASE a.mount # mounts
  <2>1. \A j \in DOMAIN attempts :
           attempts[j].mount = mounts =>
              (attempts'[j].pc \in {"done", "failed"}
                 <=> attempts[j].pc \in {"done", "failed"})
    BY <1>2, <1>5
  <2>2. Phase' = Phase
    BY <1>1, <1>2, <2>1, PhaseStable
  <2>3. QED
    BY <1>1, <2>2, Stutter
<1>6. QED
  BY <1>3, <1>4, <1>5, <1>0 DEF TypeOK

\* Navigation to the player: the session starts, and prepares at once
\* when the identity and the link type are already known.
LEMMA MountRefines ==
    ASSUME TypeOK, AttemptsOfInstances, Mount
    PROVE  [SL!Next]_SL!vars
<1>0. attempts \in Seq(Attempt) /\ mounts \in Nat /\ ctx \in Ctx
  BY DEF TypeOK
<1>1. PICK r \in Route : route' = r /\ attempts' = StartAttempt(ctx, r, mounts + 1)
  BY DEF Mount
<1>2. /\ ~mounted /\ mounted' = TRUE /\ isReady' = FALSE
      /\ mounts' = mounts + 1 /\ UNCHANGED ctx
  BY DEF Mount
<1>3. Phase \in {"Idle", "Disposed"}
  BY <1>2 DEF Phase
<1>4. \A j \in DOMAIN attempts : attempts[j].mount # mounts'
  BY <1>0, <1>2 DEF AttemptsOfInstances
<1>5. Phase' = SL!Entered(Identity, LinkKnown')
  <2>1. CASE ctx.walletAddress # Null /\ r.linkType \in {FILE_HASH, SHARE_LINK}
    <3>1. /\ Len(attempts') = Len(attempts) + 1
          /\ \A j \in DOMAIN attempts : attempts'[j] = attempts[j]
          /\ attempts'[Len(attempts')].mount = mounts + 1
          /\ attempts'[Len(attempts')].pc = "ozone"
      BY <1>0, <1>1, <2>1, StartAttemptCases
    <3>2. CurrentAttempts' = {Len(attempts')}
      BY <1>0, <1>2, <1>4, <3>1 DEF CurrentAttempts
    <3>3. Phase' = "Preparing"
      BY <1>0, <1>2, <3>1, <3>2 DEF Phase
    <3>4. Identity # Null
      BY <1>0, <2>1, NullNotCtx DEF Identity
    <3>5. QED
      BY <1>1, <2>1, <3>3, <3>4 DEF SL!Entered, LinkKnown
  <2>2. CASE ~(ctx.walletAddress # Null /\ r.linkType \in {FILE_HASH, SHARE_LINK})
    <3>1. attempts' = attempts
      BY <1>0, <1>1, <2>2, StartAttemptCases
    <3>2. CurrentAttempts' = {}
      BY <1>2, <1>4, <3>1 DEF CurrentAttempts
    <3>3. Phase' = "AwaitingIdentity"
      BY <1>0, <1>2, <3>2 DEF Phase
    <3>4. QED
      BY <1>1, <2>2, <3>3, NullNotCtx DEF SL!Entered, Identity, LinkKnown
  <2>3. QED
    BY <2>1, <2>2
<1>6. SL!Start
  <2>1. LinkKnown' \in BOOLEAN
    BY DEF LinkKnown
  <2>2. \E known \in BOOLEAN : LinkKnown' = known /\ Phase' = SL!Entered(Identity, known)
    BY <1>5, <2>1, Zenon
  <2>3. Identity' = Identity
    BY <1>2 DEF Identity
  <2>4. QED
    BY <1>3, <2>2, <2>3, Zenon DEF SL!Start
<1>7. QED
  BY <1>6 DEF SL!Next

\* Every step of the client, the signing service and the network is a
\* lifecycle step or a lifecycle stutter.
LEMMA StepRefines == LInv /\ [Next]_vars => [SL!Next]_SL!vars
<1> SUFFICES ASSUME TypeOK, IdentitySettles, AttemptsOfInstances, [Next]_vars
             PROVE  [SL!Next]_SL!vars
  BY DEF LInv
<1>0. /\ conf \in Conf /\ pending \in Seq(Ctx) /\ ctx \in Ctx
      /\ attempts \in Seq(Attempt) /\ ozone \in [Wallets -> Nat]
  BY DEF TypeOK
<1>1. CASE ProviderResolve
  <2> DEFINE ups == KeyPairUpdates(conf)
  <2>1. PICK batched \in BOOLEAN :
          /\ ctx' = IF batched THEN ups[Len(ups)] ELSE Head(ups)
          /\ attempts' = IF mounted /\ ctx' # ctx
                         THEN StartAttempt(ctx', route, mounts)
                         ELSE attempts
    BY <1>1, Zenon DEF ProviderResolve, RenderContext
  <2>2. ctx' \in Ctx
    <3>1. ups \in Seq(Ctx) /\ ups[Len(ups)] \in Ctx /\ Len(ups) \in {1, 2}
      BY <1>0, KeyPairUpdatesType
    <3>2. Head(ups) \in Ctx
      BY <3>1
    <3>3. QED
      BY <2>1, <3>1, <3>2
  <2>3. ctx.walletAddress = Null /\ attempts = <<>>
    BY <1>1 DEF ProviderResolve, IdentitySettles, AttemptsOfInstances
  <2>4. ~isReady
    BY <2>3, Zenon DEF AttemptsOfInstances
  <2>5. QED
    BY <1>1, <2>1, <2>2, <2>3, <2>4, RenderRefines DEF ProviderResolve
<1>2. CASE CommitPending
  <2>1. pending # <<>> /\ ctx.walletAddress = Null
    BY <1>2 DEF CommitPending, IdentitySettles
  <2>2. Head(pending) \in Ctx
    BY <1>0, <2>1, ShortSeq, Zenon DEF IdentitySettles
  <2>3. attempts = <<>>
    BY <2>1 DEF AttemptsOfInstances
  <2>4. ~isReady
    BY <2>3, Zenon DEF AttemptsOfInstances
  <2>5. QED
    BY <1>2, <2>1, <2>2, <2>3, <2>4, RenderRefines DEF CommitPending, RenderContext
<1>3. CASE Mount
  BY <1>3, MountRefines
<1>4. CASE Unmount
  <2>1. mounts # 0
    BY <1>4 DEF Unmount, AttemptsOfInstances, TypeOK
  <2>2. Phase \in SL!Live /\ Phase' = "Disposed"
    BY <1>4, <2>1 DEF Unmount, Phase, SL!Live
  <2>3. SL!Dispose
    BY <1>4, <2>2 DEF Unmount, SL!Dispose, Identity, LinkKnown
  <2>4. QED
    BY <2>3 DEF SL!Next
<1>5. CASE ProviderFail \/ \E w \in Wallets : OzoneBump(w)
  <2>1. UNCHANGED <<ctx, route, mounts, mounted, isReady, attempts>>
    BY <1>5 DEF ProviderFail, OzoneBump
  <2>2. Phase' = Phase
    BY <2>1 DEF Phase, CurrentAttempts
  <2>3. QED
    BY <2>1, <2>2, Stutter
<1>6. ASSUME NEW i \in DOMAIN attempts, OzoneReply(i)
      PROVE  [SL!Next]_SL!vars
  <2> DEFINE a == attempts[i]
             b == GetSignature(a, ozone[a.wallet])
  <2>1. a \in Attempt /\ ozone[a.wallet] \in Nat
    <3>1. a \in Attempt
      BY <1>0
    <3>2. a.wallet \in Wallets
      BY <3>1 DEF Attempt
    <3>3. QED
      BY <1>0, <3>1, <3>2
  <2>2. b.mount = a.mount /\ b.pc \in {"remote", "prepare"} /\ a.pc = "ozone"
    BY <1>6, <2>1, UpdateMount DEF OzoneReply
  <2>3. QED
    BY <1>0, <1>6, <2>2, InFlightStep DEF OzoneReply
<1>7. ASSUME NEW i \in DOMAIN attempts, ServerSign(i)
      PROVE  [SL!Next]_SL!vars
  <2> DEFINE a == attempts[i]
             k == conf.serverKey
             b == IF k = a.wallet
                  THEN [a EXCEPT !.pc = "prepare", !.sent = TRUE,
                                 !.sig = Sign(k, a.link, k, a.seq)]
                  ELSE [a EXCEPT !.pc = "prepare", !.sent = TRUE]
  <2>1. a \in Attempt
    BY <1>0
  <2>2. b.mount = a.mount /\ b.pc = "prepare"
    BY <2>1, UpdateMount, Zenon DEF Attempt
  <2>3. a.pc = "remote" /\ SetAttempt(i, b)
        /\ UNCHANGED <<ctx, route, mounts, mounted, isReady>>
    BY <1>7 DEF ServerSign
  <2>4. QED
    BY <1>0, <2>2, <2>3, InFlightStep
<1>8. ASSUME NEW i \in DOMAIN attempts, NetPrepare(i)
      PROVE  [SL!Next]_SL!vars
  <2>1. PICK ok \in BOOLEAN :
          /\ attempts[i].pc = "prepare"
          /\ SetAttempt(i, [attempts[i] EXCEPT !.pc = "reply", !.ok = ok])
          /\ UNCHANGED <<ctx, route, mounts, mounted, isReady>>
    BY <1>8 DEF NetPrepare
  <2>2. /\ [attempts[i] EXCEPT !.pc = "reply", !.ok = ok].mount = attempts[i].mount
        /\ [attempts[i] EXCEPT !.pc = "reply", !.ok = ok].pc = "reply"
    <3>1. attempts[i] \in Attempt
      BY <1>0
    <3>2. QED
      BY <3>1, UpdateMount, Zenon DEF Attempt
  <2>3. QED
    BY <1>0, <2>1, <2>2, InFlightStep
<1>9. ASSUME NEW i \in DOMAIN attempts, FetchFail(i)
      PROVE  [SL!Next]_SL!vars
  BY <1>9, FetchFailRefines
<1>10. ASSUME NEW i \in DOMAIN attempts, Deliver(i)
       PROVE  [SL!Next]_SL!vars
  BY <1>10, DeliverRefines
<1>11. CASE UNCHANGED vars
  <2>1. Phase' = Phase
    BY <1>11 DEF vars, Phase, CurrentAttempts
  <2>2. QED
    BY <1>11, <2>1, Stutter DEF vars
<1>12. QED
  BY <1>1, <1>2, <1>3, <1>4, <1>5, <1>6, <1>7, <1>8, <1>9, <1>10, <1>11
     DEF Next

\* The client implements the lifecycle of spec 4.4 for every deployment
\* and every bound: KeyPairContext's renders are identity changes,
\* StreamPlayer's mount and unmount start and dispose a session, and only
\* the delivery or the failure of a preparation of the mounted instance
\* ends Preparing.
THEOREM LifecycleRefinement == Spec => SessionLifecycleRefined
<1>1. Init => LInv /\ SL!Init
  BY InitLInv, InitRefines
<1>2. LInv /\ [Next]_vars => LInv' /\ [SL!Next]_SL!vars
  BY NextLInv, StepRefines
<1>3. QED
  BY <1>1, <1>2, PTL DEF Spec, SessionLifecycleRefined, SL!Spec

=============================================================================
