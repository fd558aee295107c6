--------------------- MODULE StreamSessionIdentityProofs ---------------------
(***************************************************************************)
(* Proof of last-identity-wins (spec 4.4, 5) for the client session, for  *)
(* every value of the constants: the descriptor a mounted StreamPlayer    *)
(* shows was prepared by that instance for the identity it renders with.  *)
(***************************************************************************)
EXTENDS StreamSessionLifecycleProofs

\* Every attempt was started for the context identity of now: attempts
\* are started only once the context names a wallet, after which
\* KeyPairContext never publishes again.
AttemptsCurrent ==
    \A i \in DOMAIN attempts :
        attempts[i].wallet = ctx.walletAddress /\ attempts[i].keyPair = ctx.keyPair

\* The descriptor shown names an attempt of the latest instance: mounting
\* clears streamInfo, and Deliver applies only the current instance's.
InfoOfCurrent ==
    streamInfo # Null =>
        /\ streamInfo.att \in DOMAIN attempts
        /\ attempts[streamInfo.att].mount = mounts

\* The inductive invariant behind LastIdentityWins.
IdentityInv == LInv /\ AttemptsCurrent /\ InfoOfCurrent

-----------------------------------------------------------------------------
(***************************************************************************)
(* Lemmas about the helpers.                                               *)
(***************************************************************************)

\* Starting an attempt keeps the earlier ones and adds at most one, made
\* by instance m for context value c.
LEMMA StartAttemptOwner ==
    ASSUME NEW c \in Ctx, NEW r \in Route, NEW m \in Nat,
           attempts \in Seq(Attempt)
    PROVE  LET s == StartAttempt(c, r, m) IN
           /\ DOMAIN attempts \subseteq DOMAIN s
           /\ \A j \in DOMAIN attempts : s[j] = attempts[j]
           /\ \A j \in DOMAIN s \ DOMAIN attempts :
                 s[j].wallet = c.walletAddress /\ s[j].keyPair = c.keyPair
                 /\ s[j].mount = m
<1>1. CASE c.walletAddress # Null /\ r.linkType \in {FILE_HASH, SHARE_LINK}
  <2> DEFINE b == [mount |-> m, wallet |-> c.walletAddress,
                   keyPair |-> c.keyPair, linkType |-> r.linkType,
                   link |-> r.link, pc |-> "ozone", seq |-> 0, sig |-> Null,
                   sent |-> FALSE, ok |-> FALSE]
  <2>1. StartAttempt(c, r, m) = Append(attempts, b)
    BY <1>1 DEF StartAttempt
  <2>2. /\ DOMAIN Append(attempts, b) = 1..(Len(attempts) + 1)
        /\ \A j \in 1..Len(attempts) : Append(attempts, b)[j] = attempts[j]
        /\ Append(attempts, b)[Len(attempts) + 1] = b
    OBVIOUS
  <2>3. DOMAIN attempts = 1..Len(attempts)
    OBVIOUS
  <2>4. QED
    BY <2>1, <2>2, <2>3
<1>2. CASE ~(c.walletAddress # Null /\ r.linkType \in {FILE_HASH, SHARE_LINK})
  BY <1>2 DEF StartAttempt
<1>3. QED
  BY <1>1, <1>2

\* The record updates of the attempt steps keep the attempt's instance,
\* wallet and key pair.
LEMMA UpdateOwner ==
    ASSUME NEW a \in Attempt, NEW s \in Nat, NEW k, NEW ok
    PROVE  /\ GetSignature(a, s).wallet = a.wallet
           /\ GetSignature(a, s).keyPair = a.keyPair
           /\ [a EXCEPT !.pc = "prepare", !.sent = TRUE,
                        !.sig = Sign(k, a.link, k, a.seq)].wallet = a.wallet
           /\ [a EXCEPT !.pc = "prepare", !.sent = TRUE,
                        !.sig = Sign(k, a.link, k, a.seq)].keyPair = a.keyPair
           /\ [a EXCEPT !.pc = "prepare", !.sent = TRUE].wallet = a.wallet
           /\ [a EXCEPT !.pc = "prepare", !.sent = TRUE].keyPair = a.keyPair
           /\ [a EXCEPT !.pc = "failed"].wallet = a.wallet
           /\ [a EXCEPT !.pc = "failed"].keyPair = a.keyPair
           /\ [a EXCEPT !.pc = "done"].wallet = a.wallet
           /\ [a EXCEPT !.pc = "done"].keyPair = a.keyPair
           /\ [a EXCEPT !.pc = "reply", !.ok = ok].wallet = a.wallet
           /\ [a EXCEPT !.pc = "reply", !.ok = ok].keyPair = a.keyPair
BY Zenon DEF GetSignature, Attempt

\* A step of one attempt that keeps its instance, wallet and key pair, and
\* leaves the context and the instance count alone, keeps every attempt
\* current, and the shown descriptor's attempt too if streamInfo stays.
LEMMA AttemptStepIdentity ==
    ASSUME attempts \in Seq(Attempt), AttemptsCurrent, InfoOfCurrent,
           NEW i \in DOMAIN attempts, NEW b,
           b.mount = attempts[i].mount, b.wallet = attempts[i].wallet,
           b.keyPair = attempts[i].keyPair,
           SetAttempt(i, b), UNCHANGED <<ctx, mounts>>
    PROVE  AttemptsCurrent' /\ (UNCHANGED streamInfo => InfoOfCurrent')
<1>1. /\ DOMAIN attempts' = DOMAIN attempts
      /\ \A j \in DOMAIN attempts \ {i} : attempts'[j] = attempts[j]
      /\ attempts'[i] = b
  BY SetAttemptMount
<1>2. AttemptsCurrent'
  BY <1>1 DEF AttemptsCurrent
<1>3. UNCHANGED streamInfo => InfoOfCurrent'
  BY <1>1 DEF InfoOfCurrent
<1>4. QED
  BY <1>2, <1>3
-----------------------------------------------------------------------------
(***************************************************************************)
(* The invariant IdentityInv.                                              *)
(***************************************************************************)

LEMMA InitIdentityInv == Init => IdentityInv
<1> SUFFICES ASSUME Init PROVE IdentityInv
  OBVIOUS
<1>1. LInv
  BY InitLInv
<1>2. AttemptsCurrent /\ InfoOfCurrent
  BY DEF Init, AttemptsCurrent, InfoOfCurrent
<1>3. QED
  BY <1>1, <1>2 DEF IdentityInv

\* Before KeyPairContext publishes a wallet, no attempt exists and no
\* descriptor is shown.
LEMMA NoAttemptsYet ==
    ASSUME AttemptsOfInstances, InfoOfCurrent, ctx.walletAddress = Null
    PROVE  attempts = <<>> /\ streamInfo = Null
<1>1. attempts = <<>>
  BY DEF AttemptsOfInstances
<1>2. DOMAIN attempts = {}
  BY <1>1
<1>3. QED
  BY <1>1, <1>2 DEF InfoOfCurrent

\* A render of a new context value, while no attempt exists, leaves only
\* attempts started for that value.
LEMMA RenderIdentity ==
    ASSUME NEW c \in Ctx, route \in Route, mounts \in Nat,
           attempts = <<>>, streamInfo = Null, ctx' = c,
           attempts' = IF mounted /\ c # ctx THEN StartAttempt(c, route, mounts)
                       ELSE attempts,
           UNCHANGED <<mounts, streamInfo>>
    PROVE  AttemptsCurrent' /\ InfoOfCurrent'
<1>1. attempts \in Seq(Attempt) /\ DOMAIN attempts = {}
  OBVIOUS
<1>2. \A j \in DOMAIN attempts' :
         attempts'[j].wallet = c.walletAddress /\ attempts'[j].keyPair = c.keyPair
  <2>1. CASE mounted /\ c # ctx
    BY <1>1, <2>1, StartAttemptOwner
  <2>2. CASE ~(mounted /\ c # ctx)
    BY <1>1, <2>2
  <2>3. QED
    BY <2>1, <2>2
<1>3. QED
  BY <1>2 DEF AttemptsCurrent, InfoOfCurrent

\* Every step keeps the invariant.
LEMMA NextIdentityInv == IdentityInv /\ [Next]_vars => IdentityInv'
<1> SUFFICES ASSUME LInv, AttemptsCurrent, InfoOfCurrent, [Next]_vars
             PROVE  AttemptsCurrent' /\ InfoOfCurrent'
  BY NextLInv DEF IdentityInv
<1>0. /\ conf \in Conf /\ pending \in Seq(Ctx) /\ ctx \in Ctx
      /\ mounts \in Nat /\ route \in Route /\ attempts \in Seq(Attempt)
      /\ IdentitySettles /\ AttemptsOfInstances
  BY DEF LInv, TypeOK
<1> USE <1>0
<1>1. CASE ProviderResolve
  <2> DEFINE ups == KeyPairUpdates(conf)
  <2>1. PICK batched \in BOOLEAN :
          /\ ctx' = IF batched THEN ups[Len(ups)] ELSE Head(ups)
          /\ attempts' = IF mounted /\ ctx' # ctx
                         THEN StartAttempt(ctx', route, mounts)
                         ELSE attempts
    BY <1>1, Zenon DEF ProviderResolve, RenderContext
  <2>2. ctx.walletAddress = Null
    BY <1>1 DEF ProviderResolve, IdentitySettles
  <2>3. attempts = <<>> /\ streamInfo = Null
    BY <2>2, NoAttemptsYet
  <2>4. ups \in Seq(Ctx) /\ Len(ups) \in {1, 2}
    BY KeyPairUpdatesType
  <2>5. ctx' \in Ctx
    <3>1. ups # <<>>
      <4> SUFFICES ASSUME ups = <<>> PROVE FALSE
        OBVIOUS
      <4>1. Len(<<>>) = 0
        OBVIOUS
      <4>2. Len(ups) = 0
        BY <4>1, Zenon
      <4>3. QED
        BY <4>2, <2>4
    <3>2. Head(ups) = ups[1]
      BY <2>4, <3>1, TailOfSeq, Zenon
    <3>3. ups[1] \in Ctx /\ ups[Len(ups)] \in Ctx
      BY <2>4
    <3>4. QED
      BY <2>1, <3>2, <3>3
  <2>6. UNCHANGED <<mounts, streamInfo>>
    BY <1>1 DEF ProviderResolve
  <2>7. QED
    BY <2>1, <2>3, <2>5, <2>6, RenderIdentity
<1>2. CASE ProviderFail
  BY <1>2 DEF ProviderFail, AttemptsCurrent, InfoOfCurrent
<1>3. CASE CommitPending
  <2>1. pending # <<>> /\ ctx.walletAddress = Null
    BY <1>3 DEF CommitPending, IdentitySettles
  <2>2. Head(pending) \in Ctx
    BY <2>1, ShortSeq, Zenon DEF IdentitySettles
  <2>3. attempts = <<>> /\ streamInfo = Null
    BY <2>1, NoAttemptsYet
  <2>4. /\ ctx' = Head(pending)
        /\ attempts' = IF mounted /\ Head(pending) # ctx
                       THEN StartAttempt(Head(pending), route, mounts)
                       ELSE attempts
        /\ UNCHANGED <<mounts, streamInfo>>
    BY <1>3 DEF CommitPending, RenderContext
  <2>5. QED
    BY <2>2, <2>3, <2>4, RenderIdentity
<1>4. CASE Mount
  <2>1. PICK r \in Route : attempts' = StartAttempt(ctx, r, mounts + 1)
    BY <1>4 DEF Mount
  <2>2. /\ DOMAIN attempts \subseteq DOMAIN attempts'
        /\ \A j \in DOMAIN attempts : attempts'[j] = attempts[j]
        /\ \A j \in DOMAIN attempts' \ DOMAIN attempts :
              attempts'[j].wallet = ctx.walletAddress
              /\ attempts'[j].keyPair = ctx.keyPair
    BY <2>1, StartAttemptOwner
  <2>3. UNCHANGED ctx /\ streamInfo' = Null
    BY <1>4 DEF Mount
  <2>4. AttemptsCurrent'
    BY <2>2, <2>3 DEF AttemptsCurrent
  <2>5. InfoOfCurrent'
    BY <2>3 DEF InfoOfCurrent
  <2>6. QED
    BY <2>4, <2>5
<1>5. CASE Unmount
  BY <1>5 DEF Unmount, AttemptsCurrent, InfoOfCurrent
<1>6. ASSUME NEW i \in DOMAIN attempts, OzoneReply(i)
      PROVE  AttemptsCurrent' /\ InfoOfCurrent'
  <2>1. attempts[i] \in Attempt /\ ozone[attempts[i].wallet] \in Nat
    <3>1. attempts[i] \in Attempt
      OBVIOUS
    <3>2. attempts[i].wallet \in Wallets
      BY <3>1 DEF Attempt
    <3>3. QED
      BY <3>1, <3>2 DEF LInv, TypeOK
  <2>2. LET b == GetSignature(attempts[i], ozone[attempts[i].wallet]) IN
        b.mount = attempts[i].mount /\ b.wallet = attempts[i].wallet
        /\ b.keyPair = attempts[i].keyPair
    BY <2>1, UpdateMount, UpdateOwner
  <2>3. QED
    BY <1>6, <2>2, AttemptStepIdentity DEF OzoneReply
<1>7. ASSUME NEW i \in DOMAIN attempts, ServerSign(i)
      PROVE  AttemptsCurrent' /\ InfoOfCurrent'
  <2> DEFINE a == attempts[i]
             k == conf.serverKey
             b == IF k = a.wallet
                  THEN [a EXCEPT !.pc = "prepare", !.sent = TRUE,
                                 !.sig = Sign(k, a.link, k, a.seq)]
                  ELSE [a EXCEPT !.pc = "prepare", !.sent = TRUE]
  <2>1. a \in Attempt
    OBVIOUS
  <2>2. b.mount = a.mount /\ b.wallet = a.wallet /\ b.keyPair = a.keyPair
    BY <2>1, UpdateMount, UpdateOwner
  <2>3. SetAttempt(i, b) /\ UNCHANGED <<ctx, mounts, streamInfo>>
    BY <1>7 DEF ServerSign
  <2>4. QED
    BY <2>2, <2>3, AttemptStepIdentity
<1>8. ASSUME NEW i \in DOMAIN attempts, FetchFail(i)
      PROVE  AttemptsCurrent' /\ InfoOfCurrent'
  <2>1. LET b == [attempts[i] EXCEPT !.pc = "failed"] IN
        b.mount = attempts[i].mount /\ b.wallet = attempts[i].wallet
        /\ b.keyPair = attempts[i].keyPair
    BY UpdateMount, UpdateOwner
  <2>2. QED
    BY <1>8, <2>1, AttemptStepIdentity DEF FetchFail
<1>9. ASSUME NEW i \in DOMAIN attempts, Deliver(i)
      PROVE  AttemptsCurrent' /\ InfoOfCurrent'
  <2> DEFINE a == attempts[i]
             b == [a EXCEPT !.pc = "done"]
  <2>1. b.mount = a.mount /\ b.wallet = a.wallet /\ b.keyPair = a.keyPair
    BY UpdateMount, UpdateOwner
  <2>2. /\ SetAttempt(i, b) /\ UNCHANGED <<ctx, mounts>>
        /\ IF mounted /\ a.mount = mounts
           THEN streamInfo' = [ok |-> a.ok, att |-> i]
           ELSE UNCHANGED streamInfo
    BY <1>9, Zenon DEF Deliver
  <2>3. /\ DOMAIN attempts' = DOMAIN attempts
        /\ \A j \in DOMAIN attempts \ {i} : attempts'[j] = attempts[j]
        /\ attempts'[i] = b
    BY <2>1, <2>2, SetAttemptMount
  <2>4. AttemptsCurrent' /\ (UNCHANGED streamInfo => InfoOfCurrent')
    BY <2>1, <2>2, AttemptStepIdentity
  <2>5. CASE mounted /\ a.mount = mounts
    <3>1. streamInfo' = [ok |-> a.ok, att |-> i]
      BY <2>2, <2>5
    <3>2. streamInfo'.att = i
      BY <3>1
    <3>3. QED
      BY <2>1, <2>2, <2>3, <2>4, <2>5, <3>2 DEF InfoOfCurrent
  <2>6. CASE ~(mounted /\ a.mount = mounts)
    BY <2>2, <2>4, <2>6
  <2>7. QED
    BY <2>5, <2>6
<1>10. ASSUME NEW i \in DOMAIN attempts, NetPrepare(i)
       PROVE  AttemptsCurrent' /\ InfoOfCurrent'
  <2>1. PICK ok \in BOOLEAN :
          /\ SetAttempt(i, [attempts[i] EXCEPT !.pc = "reply", !.ok = ok])
          /\ UNCHANGED <<ctx, mounts, streamInfo>>
    BY <1>10 DEF NetPrepare
  <2>2. LET b == [attempts[i] EXCEPT !.pc = "reply", !.ok = ok] IN
        b.mount = attempts[i].mount /\ b.wallet = attempts[i].wallet
        /\ b.keyPair = attempts[i].keyPair
    BY UpdateMount, UpdateOwner
  <2>3. QED
    BY <2>1, <2>2, AttemptStepIdentity
<1>11. ASSUME NEW w \in Wallets, OzoneBump(w)
       PROVE  AttemptsCurrent' /\ InfoOfCurrent'
  BY <1>11 DEF OzoneBump, AttemptsCurrent, InfoOfCurrent
<1>12. CASE UNCHANGED vars
  BY <1>12 DEF vars, AttemptsCurrent, InfoOfCurrent
<1>13. QED
  BY <1>1, <1>2, <1>3, <1>4, <1>5, <1>6, <1>7, <1>8, <1>9, <1>10, <1>11,
     <1>12 DEF Next

-----------------------------------------------------------------------------
\* Last identity wins: in every reachable state, the descriptor a mounted
\* StreamPlayer shows was prepared by an attempt of that very instance for
\* the wallet and key pair KeyPairContext now publishes, whatever order the
\* provider's updates, the renders, remounts and network answers take.
THEOREM LastIdentityWinsInvariant == Spec => []LastIdentityWins
<1>1. IdentityInv => LastIdentityWins
  BY DEF IdentityInv, AttemptsCurrent, InfoOfCurrent, LastIdentityWins
<1>2. QED
  BY <1>1, InitIdentityInv, NextIdentityInv, PTL DEF Spec

-----------------------------------------------------------------------------
\* Once the context names a wallet, no step of the system changes it: the
\* provider has resolved and committed its last update (IdentitySettles),
\* and only ProviderResolve and CommitPending write the context.
LEMMA StepKeepsIdentity ==
    LInv /\ [Next]_vars => (ctx.walletAddress # Null => ctx' = ctx)
<1> SUFFICES ASSUME LInv, [Next]_vars, ctx.walletAddress # Null
             PROVE  ctx' = ctx
  OBVIOUS
<1>0. provider = "done" /\ pending = <<>>
  BY DEF LInv, IdentitySettles
<1>1. ~ProviderResolve /\ ~CommitPending
  BY <1>0 DEF ProviderResolve, CommitPending
<1>2. CASE ProviderFail \/ Mount \/ Unmount
  BY <1>2 DEF ProviderFail, Mount, Unmount
<1>3. ASSUME NEW i \in DOMAIN attempts,
             OzoneReply(i) \/ ServerSign(i) \/ FetchFail(i) \/ Deliver(i)
             \/ NetPrepare(i)
      PROVE  ctx' = ctx
  BY <1>3 DEF OzoneReply, ServerSign, FetchFail, Deliver, NetPrepare
<1>4. ASSUME NEW w \in Wallets, OzoneBump(w) PROVE ctx' = ctx
  BY <1>4 DEF OzoneBump
<1>5. CASE UNCHANGED vars
  BY <1>5 DEF vars
<1>6. QED
  BY <1>1, <1>2, <1>3, <1>4, <1>5 DEF Next

\* The identity is published once: in every behaviour, KeyPairContext never
\* hands a StreamPlayer that has seen a wallet address a different key pair
\* or wallet, because setKeyPair commits before setWalletAddress.
THEOREM IdentityPublishedOnceProperty == Spec => IdentityPublishedOnce
<1>1. Spec => []LInv
  BY InitLInv, NextLInv, PTL DEF Spec
<1>2. QED
  BY <1>1, StepKeepsIdentity, PTL DEF Spec, IdentityPublishedOnce
====
