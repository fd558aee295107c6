------------------- MODULE LegacyStreamLifecycleProofs -------------------
(***************************************************************************)
(* Proof that the legacy StreamPlayer implements the session lifecycle   *)
(* (SessionLifecycle) under the mapping of LegacyStreamLifecycle, for     *)
(* every value of the constants.                                          *)
(***************************************************************************)
EXTENDS LegacyStreamLifecycle, LegacyStreamPlayerProofs, SequenceTheorems, TLAPS

\* KeyPairContext publishes a key pair only once initKeyPair resolved (not
\* at all when a crash has unmounted the provider first).
KeyFromProvider == keyPair => provider = "done"

\* A crash in the [streamInfo] effect unmounts the tree, and nothing mounts
\* again afterwards.
CrashedUnmounted == crashed => ~mounted

\* No preparation is started before the key pair is published.
AttemptsNeedKey == attempts # <<>> => keyPair

\* Every preparation belongs to an instance mounted so far, and the latest
\* instance is one of them whenever it is mounted.
AttemptMounts ==
    /\ mounted => mounts >= 1
    /\ \A i \in DOMAIN attempts : attempts[i].mount \in 1..mounts

\* The keyPair effect starts at most one preparation per instance: the
\* mount effect with the key pair present, or the re-run when it arrives.
OneAttemptPerMount ==
    \A i, j \in DOMAIN attempts : attempts[i].mount = attempts[j].mount => i = j

\* The descriptor a mounted instance holds came from its own preparation.
InfoCurrent ==
    (mounted /\ streamInfo # Null) => attempts[streamInfo.att].mount = mounts

\* The inductive invariant the refinement rests on.
LInv ==
    /\ RInv /\ KeyFromProvider /\ AttemptsNeedKey /\ AttemptMounts
    /\ OneAttemptPerMount /\ InfoCurrent /\ CrashedUnmounted
-----------------------------------------------------------------------------
(***************************************************************************)
(* Lemmas about the helpers.                                               *)
(***************************************************************************)

\* The keyPair effect appends one preparation, for instance m and still in
\* flight, exactly when it has a key pair and a known link; else it leaves
\* the preparations as they are.
LEMMA StartAttemptShape ==
    ASSUME attempts \in Seq(Attempt), NEW k \in BOOLEAN, NEW r \in Route,
           NEW m \in Nat, attempts' = StartAttempt(k, r, m)
    PROVE  IF k /\ r.linkType \in {FILE_HASH, SHARE_LINK}
           THEN /\ DOMAIN attempts' = 1..Len(attempts) + 1
                /\ attempts'[Len(attempts) + 1].mount = m
                /\ attempts'[Len(attempts) + 1].pc = "inflight"
                /\ \A j \in DOMAIN attempts : attempts'[j] = attempts[j]
           ELSE attempts' = attempts
BY DEF StartAttempt

\* Storing a reply in attempt i, or marking it done or failed, keeps the
\* instance every attempt belongs to.
LEMMA MountsKept ==
    ASSUME attempts \in Seq(Attempt), NEW i \in DOMAIN attempts,
           \/ \E f \in Info :
                 attempts' = [attempts EXCEPT ![i].pc = "reply", ![i].info = f]
           \/ \E p \in {"done", "failed"} : attempts' = [attempts EXCEPT ![i].pc = p]
    PROVE  /\ DOMAIN attempts' = DOMAIN attempts
           /\ \A j \in DOMAIN attempts : attempts'[j].mount = attempts[j].mount
<1>1. attempts[i] \in Attempt
  BY ElementOfSeq, LenProperties
<1>2. CASE \E f \in Info :
              attempts' = [attempts EXCEPT ![i].pc = "reply", ![i].info = f]
  <2>1. PICK f \in Info :
          attempts' = [attempts EXCEPT ![i].pc = "reply", ![i].info = f]
    BY <1>2
  <2>2. [attempts[i] EXCEPT !.pc = "reply", !.info = f].mount = attempts[i].mount
    BY <1>1, Zenon DEF Attempt
  <2>3. QED
    BY <2>1, <2>2
<1>3. CASE \E p \in {"done", "failed"} : attempts' = [attempts EXCEPT ![i].pc = p]
  <2>1. PICK p \in {"done", "failed"} : attempts' = [attempts EXCEPT ![i].pc = p]
    BY <1>3
  <2>2. [attempts[i] EXCEPT !.pc = p].mount = attempts[i].mount
    BY <1>1, Zenon DEF Attempt
  <2>3. QED
    BY <2>1, <2>2
<1>4. QED
  BY <1>2, <1>3
-----------------------------------------------------------------------------
(***************************************************************************)
(* The invariant LInv.                                                     *)
(***************************************************************************)

\* The conjuncts LInv adds to RInv.
XInv ==
    KeyFromProvider /\ AttemptsNeedKey /\ AttemptMounts /\ OneAttemptPerMount
    /\ InfoCurrent /\ CrashedUnmounted

LEMMA InitLInv == Init => LInv
<1> SUFFICES ASSUME Init PROVE LInv
  OBVIOUS
<1>1. RInv
  BY InitRInv
<1>2. KeyFromProvider
  BY DEF Init, KeyFromProvider
<1>3. attempts = <<>> /\ ~mounted
  BY DEF Init
<1>4. XInv
  BY <1>2, <1>3 DEF XInv, AttemptsNeedKey, AttemptMounts,
     OneAttemptPerMount, InfoCurrent, CrashedUnmounted
<1>5. QED
  BY <1>1, <1>4 DEF LInv, XInv

\* Every step keeps LInv: only the keyPair effect starts a preparation,
\* once per instance, and only the latest instance stores a response.
LEMMA NextLInv == LInv /\ [Next]_vars => LInv'
<1> SUFFICES ASSUME LInv, [Next]_vars PROVE LInv'
  OBVIOUS
<1>0. /\ RInv' /\ TypeOK /\ InfoDelivered /\ RepliesNamed /\ XInv
      /\ attempts \in Seq(Attempt) /\ mounts \in 0..MaxMounts /\ mounts \in Nat
  BY NextRInv DEF LInv, RInv, XInv, TypeOK
<1> SUFFICES XInv'
  BY <1>0 DEF LInv, XInv
<1>1. CASE ProviderResolve
  <2>1. keyPair = FALSE /\ attempts = <<>> /\ streamInfo = Null
    <3>1. keyPair = FALSE /\ attempts = <<>>
      BY <1>0, <1>1 DEF ProviderResolve, XInv, KeyFromProvider, AttemptsNeedKey, TypeOK
    <3>2. QED
      BY <1>0, <3>1 DEF InfoDelivered, Delivered
  <2>2. /\ provider' = "done" /\ keyPair' = ~crashed
        /\ UNCHANGED <<mounts, mounted, route, streamInfo, crashed>>
    BY <1>1 DEF ProviderResolve
  <2>3. CASE mounted
    <3>0. keyPair' = TRUE
      BY <1>0, <2>2, <2>3 DEF XInv, CrashedUnmounted, TypeOK
    <3>1. attempts' = StartAttempt(TRUE, route, mounts)
      BY <1>1, <2>3 DEF ProviderResolve
    <3>2. attempts' = <<>> \/ (DOMAIN attempts' = {1} /\ attempts'[1].mount = mounts)
      <4>1. route \in Route /\ TRUE \in BOOLEAN
        BY <1>0 DEF TypeOK
      <4>2. IF TRUE /\ route.linkType \in {FILE_HASH, SHARE_LINK}
            THEN /\ DOMAIN attempts' = 1..Len(attempts) + 1
                 /\ attempts'[Len(attempts) + 1].mount = mounts
            ELSE attempts' = attempts
        BY <1>0, <3>1, <4>1, StartAttemptShape
      <4>3. Len(attempts) = 0
        BY <2>1
      <4>4. QED
        BY <2>1, <4>2, <4>3
    <3>3. mounts >= 1
      BY <1>0, <2>3 DEF XInv, AttemptMounts
    <3>4. KeyFromProvider' /\ AttemptsNeedKey' /\ InfoCurrent' /\ CrashedUnmounted'
      BY <1>0, <2>1, <2>2, <3>0 DEF XInv, KeyFromProvider, AttemptsNeedKey,
         InfoCurrent, CrashedUnmounted
    <3>5. AttemptMounts' /\ OneAttemptPerMount'
      <4>1. CASE attempts' = <<>>
        BY <2>2, <3>3, <4>1 DEF AttemptMounts, OneAttemptPerMount
      <4>2. CASE DOMAIN attempts' = {1} /\ attempts'[1].mount = mounts
        BY <1>0, <2>2, <3>3, <4>2 DEF AttemptMounts, OneAttemptPerMount
      <4>3. QED
        BY <3>2, <4>1, <4>2
    <3>6. QED
      BY <3>4, <3>5 DEF XInv
  <2>4. CASE ~mounted
    <3>1. attempts' = <<>>
      BY <1>1, <2>1, <2>4 DEF ProviderResolve
    <3>2. KeyFromProvider' /\ AttemptsNeedKey'
      BY <2>2, <3>1 DEF KeyFromProvider, AttemptsNeedKey
    <3>3. ~mounted'
      BY <2>2, <2>4
    <3>4. /\ AttemptMounts' /\ OneAttemptPerMount' /\ InfoCurrent'
          /\ CrashedUnmounted'
      BY <3>1, <3>3 DEF AttemptMounts, OneAttemptPerMount, InfoCurrent,
         CrashedUnmounted
    <3>5. QED
      BY <3>2, <3>4 DEF XInv
  <2>5. QED
    BY <2>3, <2>4
<1>2. CASE ProviderFail
  BY <1>0, <1>2 DEF ProviderFail, XInv, KeyFromProvider, AttemptsNeedKey,
     AttemptMounts, OneAttemptPerMount, InfoCurrent, CrashedUnmounted
<1>3. CASE Unmount \/ PlayerReady \/ SetSource \/ \E seg \in Segs : PlayerRequest(seg)
  <2>1. UNCHANGED <<provider, keyPair, mounts, streamInfo, attempts, crashed>>
        /\ (mounted' => mounted)
    BY <1>3 DEF Unmount, PlayerReady, SetSource, PlayerRequest
  <2>2. QED
    BY <1>0, <2>1 DEF XInv, KeyFromProvider, AttemptsNeedKey,
       AttemptMounts, OneAttemptPerMount, InfoCurrent, CrashedUnmounted
<1>4. CASE Mount
  <2>1. PICK r \in Route : attempts' = StartAttempt(keyPair, r, mounts + 1)
    BY <1>4 DEF Mount
  <2>2. /\ mounts' = mounts + 1 /\ mounted' /\ streamInfo' = Null
        /\ crashed' = FALSE /\ UNCHANGED <<provider, keyPair>>
    BY <1>4 DEF Mount
  <2>3. CASE keyPair /\ r.linkType \in {FILE_HASH, SHARE_LINK}
    <3> DEFINE n == Len(attempts) + 1
    <3>1. /\ DOMAIN attempts' = 1..n
          /\ attempts'[n].mount = mounts + 1
          /\ \A j \in DOMAIN attempts : attempts'[j] = attempts[j]
      <4>1. keyPair \in BOOLEAN /\ mounts + 1 \in Nat
        BY <1>0 DEF TypeOK
      <4>2. QED
        BY <1>0, <2>1, <2>3, <4>1, StartAttemptShape
    <3>2. DOMAIN attempts' = DOMAIN attempts \cup {n} /\ n \notin DOMAIN attempts
      BY <1>0, <3>1
    <3>3. \A j \in DOMAIN attempts' : attempts'[j].mount \in 1..mounts + 1
      BY <1>0, <3>1, <3>2 DEF XInv, AttemptMounts
    <3>4. \A j \in DOMAIN attempts : attempts'[j].mount # attempts'[n].mount
      BY <1>0, <3>1 DEF XInv, AttemptMounts
    <3>5. OneAttemptPerMount'
      BY <1>0, <3>1, <3>2, <3>4 DEF XInv, OneAttemptPerMount
    <3>6. QED
      BY <1>0, <2>2, <2>3, <3>3, <3>5 DEF XInv, KeyFromProvider,
         AttemptsNeedKey, AttemptMounts, InfoCurrent, CrashedUnmounted
  <2>4. CASE ~(keyPair /\ r.linkType \in {FILE_HASH, SHARE_LINK})
    <3>1. attempts' = attempts
      <4>1. keyPair \in BOOLEAN /\ mounts + 1 \in Nat
        BY <1>0 DEF TypeOK
      <4>2. QED
        BY <1>0, <2>1, <2>4, <4>1, StartAttemptShape
    <3>2. QED
      BY <1>0, <2>2, <3>1 DEF XInv, KeyFromProvider, AttemptsNeedKey,
         AttemptMounts, OneAttemptPerMount, InfoCurrent, CrashedUnmounted
  <2>5. QED
    BY <2>3, <2>4
<1>5. ASSUME NEW i \in DOMAIN attempts,
             NetReply(i) \/ FetchFail(i) \/ Deliver(i)
      PROVE  XInv'
  <2>1. /\ DOMAIN attempts' = DOMAIN attempts
        /\ \A j \in DOMAIN attempts : attempts'[j].mount = attempts[j].mount
    <3>1. \/ \E f \in Info :
                attempts' = [attempts EXCEPT ![i].pc = "reply", ![i].info = f]
          \/ \E p \in {"done", "failed"} : attempts' = [attempts EXCEPT ![i].pc = p]
      <4>1. \A S \in SUBSET Segs : [ok |-> TRUE, att |-> i, segs |-> S] \in Info
        BY <1>0 DEF Info
      <4>2. [ok |-> FALSE, att |-> i, segs |-> {}] \in Info
        BY <1>0 DEF Info
      <4>3. CASE NetReply(i)
        <5>1. PICK f \in {[ok |-> TRUE, att |-> i, segs |-> S] : S \in SUBSET Segs}
                         \cup {[ok |-> FALSE, att |-> i, segs |-> {}]} :
                attempts' = [attempts EXCEPT ![i].pc = "reply", ![i].info = f]
          BY <4>3 DEF NetReply
        <5>2. f \in Info
          BY <4>1, <4>2, <5>1
        <5>3. QED
          BY <5>1, <5>2
      <4>4. CASE FetchFail(i) \/ Deliver(i)
        BY <4>4 DEF FetchFail, Deliver
      <4>5. QED
        BY <1>5, <4>3, <4>4
    <3>2. QED
      BY <1>0, <3>1, MountsKept
  <2>2. UNCHANGED <<provider, keyPair, mounts>> /\ keyPair /\ (mounted' => mounted)
    <3>1. UNCHANGED <<provider, keyPair, mounts>> /\ (mounted' => mounted)
      BY <1>5 DEF NetReply, FetchFail, Deliver
    <3>2. attempts # <<>>
      BY <1>0
    <3>3. QED
      BY <1>0, <3>1, <3>2 DEF XInv, AttemptsNeedKey
  <2>3. InfoCurrent'
    <3>1. CASE Deliver(i) /\ mounted /\ attempts[i].mount = mounts
      <4>1. streamInfo' = attempts[i].info /\ attempts[i].pc = "reply"
        BY <3>1 DEF Deliver
      <4>2. attempts[i].info.att = i
        BY <1>0, <4>1 DEF RepliesNamed
      <4>3. QED
        BY <2>1, <2>2, <3>1, <4>1, <4>2 DEF InfoCurrent
    <3>2. CASE ~(Deliver(i) /\ mounted /\ attempts[i].mount = mounts)
      <4>1. UNCHANGED streamInfo
        BY <1>5, <3>2 DEF NetReply, FetchFail, Deliver
      <4>2. QED
        BY <1>0, <2>1, <2>2, <4>1 DEF XInv, InfoCurrent, InfoDelivered, Delivered
    <3>3. QED
      BY <3>1, <3>2
  <2>4. CrashedUnmounted'
    <3>1. CASE Deliver(i) /\ mounted /\ attempts[i].mount = mounts
      <4>1. crashed' = ~playerReady /\ mounted' = playerReady
        BY <3>1 DEF Deliver
      <4>2. QED
        BY <1>0, <4>1 DEF CrashedUnmounted, TypeOK
    <3>2. CASE ~(Deliver(i) /\ mounted /\ attempts[i].mount = mounts)
      <4>1. UNCHANGED <<crashed, mounted>>
        BY <1>5, <3>2 DEF NetReply, FetchFail, Deliver
      <4>2. QED
        BY <1>0, <4>1 DEF XInv, CrashedUnmounted
    <3>3. QED
      BY <3>1, <3>2
  <2>5. QED
    BY <1>0, <2>1, <2>2, <2>3, <2>4 DEF XInv, KeyFromProvider, AttemptsNeedKey,
       AttemptMounts, OneAttemptPerMount
<1>6. CASE UNCHANGED vars
  BY <1>0, <1>6 DEF vars, XInv, KeyFromProvider, AttemptsNeedKey,
     AttemptMounts, OneAttemptPerMount, InfoCurrent, CrashedUnmounted
<1>7. QED
  BY <1>1, <1>2, <1>3, <1>4, <1>5, <1>6 DEF Next
-----------------------------------------------------------------------------
(***************************************************************************)
(* The refinement.                                                         *)
(***************************************************************************)

\* A step that keeps the instance, its descriptor and which preparations
\* belong to it, and, while the instance waits for a descriptor, whether
\* each of its preparations is pending, keeps the phase.
LEMMA PhaseKept ==
    ASSUME UNCHANGED <<mounts, mounted, streamInfo>>,
           DOMAIN attempts' = DOMAIN attempts,
           \A j \in DOMAIN attempts : attempts'[j].mount = attempts[j].mount,
           (mounted /\ streamInfo = Null) =>
               \A j \in DOMAIN attempts :
                   attempts[j].mount = mounts =>
                       (attempts'[j].pc \in {"inflight", "reply"}
                          <=> attempts[j].pc \in {"inflight", "reply"})
    PROVE  Phase' = Phase
<1>1. CurrentAttempts' = CurrentAttempts
  BY DEF CurrentAttempts
<1>2. CASE mounted /\ streamInfo = Null /\ mounts # 0
  BY <1>1, <1>2 DEF Phase, CurrentAttempts
<1>3. CASE ~(mounted /\ streamInfo = Null /\ mounts # 0)
  BY <1>3 DEF Phase
<1>4. QED
  BY <1>2, <1>3

\* A step that keeps the phase, the key pair and the route is a stutter of
\* the lifecycle.
LEMMA LifecycleStutter ==
    ASSUME Phase' = Phase, UNCHANGED <<keyPair, route>>
    PROVE  UNCHANGED LL!vars
BY DEF LL!vars, LinkKnown

\* Facts about the phase of a mounted instance.
LEMMA MountedPhase ==
    ASSUME mounted, mounts # 0
    PROVE  /\ Phase \in LL!Live
           /\ streamInfo # Null => Phase = "Ready"
           /\ (streamInfo = Null /\ CurrentAttempts = {}) => Phase = "AwaitingIdentity"
           /\ \A i \in CurrentAttempts :
                 (streamInfo = Null /\ attempts[i].pc \in {"inflight", "reply"})
                     => Phase = "Preparing"
           /\ \A i \in DOMAIN attempts :
                 (streamInfo = Null /\ CurrentAttempts = {i}
                     /\ attempts[i].pc \notin {"inflight", "reply"})
                     => Phase = "Failed"
BY DEF Phase, LL!Live, CurrentAttempts
\* Every step of the legacy player is a step of the lifecycle or leaves it
\* as it was.
LEMMA StepRefines == LInv /\ [Next]_vars => [LL!Next]_LL!vars
<1> SUFFICES ASSUME LInv, [Next]_vars PROVE [LL!Next]_LL!vars
  OBVIOUS
<1>0. /\ TypeOK /\ InfoDelivered /\ RepliesNamed /\ XInv
      /\ attempts \in Seq(Attempt) /\ mounts \in Nat
  BY DEF LInv, RInv, XInv, TypeOK
<1>1. CASE ProviderResolve
  <2>1. keyPair = FALSE /\ attempts = <<>> /\ streamInfo = Null
    <3>1. keyPair = FALSE /\ attempts = <<>>
      BY <1>0, <1>1 DEF ProviderResolve, XInv, KeyFromProvider, AttemptsNeedKey, TypeOK
    <3>2. QED
      BY <1>0, <3>1 DEF InfoDelivered, Delivered
  <2>2. /\ keyPair' = ~crashed
        /\ UNCHANGED <<mounts, mounted, route, streamInfo, crashed>>
    BY <1>1 DEF ProviderResolve
  <2>0. CASE crashed
    <3>1. ~mounted /\ keyPair' = FALSE
      BY <1>0, <2>0, <2>2 DEF XInv, CrashedUnmounted
    <3>2. attempts' = attempts
      BY <1>1, <3>1 DEF ProviderResolve
    <3>3. Phase' = Phase
      BY <2>2, <3>2, PhaseKept
    <3>4. QED
      BY <2>1, <2>2, <3>1, <3>3, LifecycleStutter
  <2>3. SUFFICES ASSUME ~crashed PROVE [LL!Next]_LL!vars
    BY <2>0
  <2>7. keyPair' = TRUE
    BY <1>0, <2>2, <2>3 DEF TypeOK
  <2>8. SUFFICES Phase' = IF Phase \in LL!Live /\ LinkKnown THEN "Preparing" ELSE Phase
    BY <2>1, <2>2, <2>7 DEF LL!Next, LL!IdentityChange, LinkKnown
  <2>4. CASE mounted
    <3>1. mounts # 0
      BY <1>0, <2>4 DEF XInv, AttemptMounts
    <3>2. Phase = "AwaitingIdentity"
      BY <2>1, <2>4, <3>1, MountedPhase DEF CurrentAttempts
    <3>3. IF TRUE /\ route.linkType \in {FILE_HASH, SHARE_LINK}
          THEN /\ DOMAIN attempts' = 1..Len(attempts) + 1
               /\ attempts'[Len(attempts) + 1].mount = mounts
               /\ attempts'[Len(attempts) + 1].pc = "inflight"
          ELSE attempts' = attempts
      <4>1. attempts' = StartAttempt(TRUE, route, mounts)
        BY <1>1, <2>4 DEF ProviderResolve
      <4>2. route \in Route /\ TRUE \in BOOLEAN
        BY <1>0 DEF TypeOK
      <4>3. QED
        BY <1>0, <4>1, <4>2, StartAttemptShape
    <3>4. CASE LinkKnown
      <4>1. DOMAIN attempts' = {1} /\ attempts'[1].mount = mounts
            /\ attempts'[1].pc = "inflight"
        <5>1. Len(attempts) = 0
          BY <2>1
        <5>2. QED
          BY <3>3, <3>4, <5>1 DEF LinkKnown
      <4>2. CurrentAttempts' = {1}
        BY <2>2, <4>1 DEF CurrentAttempts
      <4>3. Phase' = "Preparing"
        BY <2>1, <2>2, <2>4, <3>1, <4>1, <4>2 DEF Phase
      <4>4. QED
        BY <3>2, <3>4, <4>3 DEF LL!Live
    <3>5. CASE ~LinkKnown
      <4>1. attempts' = attempts
        BY <3>3, <3>5 DEF LinkKnown
      <4>2. Phase' = Phase
        BY <2>2, <4>1, PhaseKept
      <4>3. QED
        BY <3>5, <4>2
    <3>6. QED
      BY <3>4, <3>5
  <2>5. CASE ~mounted
    <3>1. Phase \notin LL!Live /\ Phase' = Phase
      BY <2>2, <2>5 DEF Phase, LL!Live
    <3>2. QED
      BY <3>1
  <2>6. QED
    BY <2>4, <2>5
<1>2. CASE ProviderFail \/ PlayerReady \/ SetSource \/ \E seg \in Segs : PlayerRequest(seg)
  <2>1. UNCHANGED <<mounts, mounted, streamInfo, attempts, keyPair, route>>
    BY <1>2 DEF ProviderFail, PlayerReady, SetSource, PlayerRequest
  <2>2. QED
    BY <2>1, PhaseKept, LifecycleStutter
<1>3. CASE Unmount
  <2>1. mounted /\ ~mounted' /\ UNCHANGED <<mounts, keyPair, route>>
    BY <1>3 DEF Unmount
  <2>2. mounts # 0
    BY <1>0, <2>1 DEF XInv, AttemptMounts
  <2>3. Phase \in LL!Live /\ Phase' = "Disposed"
    BY <2>1, <2>2, MountedPhase DEF Phase
  <2>4. QED
    BY <2>1, <2>3 DEF LL!Next, LL!Dispose, LinkKnown
<1>4. CASE Mount
  <2>1. PICK r \in Route : /\ route' = r
                           /\ attempts' = StartAttempt(keyPair, r, mounts + 1)
    BY <1>4 DEF Mount
  <2>2. /\ ~mounted /\ mounts' = mounts + 1 /\ mounted' /\ streamInfo' = Null
        /\ UNCHANGED keyPair
    BY <1>4 DEF Mount
  <2>3. Phase \in {"Idle", "Disposed"}
    BY <2>2 DEF Phase
  <2>4. SUFFICES Phase' = LL!Entered(keyPair, LinkKnown')
    <3>1. LinkKnown' \in BOOLEAN
      BY DEF LinkKnown
    <3>2. LL!Start
      BY <2>2, <2>3, <3>1 DEF LL!Start
    <3>3. QED
      BY <3>2 DEF LL!Next
  <2>5. keyPair \in BOOLEAN /\ mounts + 1 \in Nat /\ mounts + 1 # 0
    BY <1>0 DEF TypeOK
  <2>6. \A j \in DOMAIN attempts : attempts[j].mount # mounts + 1
    BY <1>0 DEF XInv, AttemptMounts
  <2>10. LinkKnown' <=> r.linkType \in {FILE_HASH, SHARE_LINK}
    BY <2>1 DEF LinkKnown
  <2>11. IF keyPair /\ r.linkType \in {FILE_HASH, SHARE_LINK}
         THEN /\ DOMAIN attempts' = 1..Len(attempts) + 1
              /\ attempts'[Len(attempts) + 1].mount = mounts + 1
              /\ attempts'[Len(attempts) + 1].pc = "inflight"
              /\ \A j \in DOMAIN attempts : attempts'[j] = attempts[j]
         ELSE attempts' = attempts
    BY <1>0, <2>1, <2>5, StartAttemptShape
  <2>7. CASE keyPair /\ LinkKnown'
    <3> DEFINE n == Len(attempts) + 1
    <3>1. /\ DOMAIN attempts' = 1..n
          /\ attempts'[n].mount = mounts + 1 /\ attempts'[n].pc = "inflight"
          /\ \A j \in DOMAIN attempts : attempts'[j] = attempts[j]
      BY <2>7, <2>10, <2>11
    <3>2. CurrentAttempts' = {n}
      BY <1>0, <2>2, <2>6, <3>1 DEF CurrentAttempts
    <3>3. Phase' = "Preparing"
      BY <2>2, <2>5, <3>1, <3>2 DEF Phase
    <3>4. QED
      BY <2>7, <3>3 DEF LL!Entered
  <2>8. CASE ~(keyPair /\ LinkKnown')
    <3>1. attempts' = attempts
      BY <2>8, <2>10, <2>11
    <3>2. CurrentAttempts' = {}
      BY <2>2, <2>6, <3>1 DEF CurrentAttempts
    <3>3. Phase' = "AwaitingIdentity"
      BY <2>2, <2>5, <3>2 DEF Phase
    <3>4. QED
      BY <2>5, <2>8, <3>3 DEF LL!Entered
  <2>9. QED
    BY <2>7, <2>8
<1>5. ASSUME NEW i \in DOMAIN attempts, NetReply(i) PROVE [LL!Next]_LL!vars
  <2>1. PICK f \in {[ok |-> TRUE, att |-> i, segs |-> S] : S \in SUBSET Segs}
                   \cup {[ok |-> FALSE, att |-> i, segs |-> {}]} :
          attempts' = [attempts EXCEPT ![i].pc = "reply", ![i].info = f]
    BY <1>5 DEF NetReply
  <2>2. f \in Info
    <3>1. \A S \in SUBSET Segs : [ok |-> TRUE, att |-> i, segs |-> S] \in Info
      BY <1>0 DEF Info
    <3>2. [ok |-> FALSE, att |-> i, segs |-> {}] \in Info
      BY <1>0 DEF Info
    <3>3. QED
      BY <2>1, <3>1, <3>2
  <2>3. /\ DOMAIN attempts' = DOMAIN attempts /\ attempts'[i].pc = "reply"
        /\ \A j \in DOMAIN attempts \ {i} : attempts'[j] = attempts[j]
        /\ \A j \in DOMAIN attempts : attempts'[j].mount = attempts[j].mount
    BY <1>0, <2>1, <2>2, ReplyUpdate, MountsKept
  <2>4. attempts[i].pc = "inflight"
        /\ UNCHANGED <<mounts, mounted, streamInfo, keyPair, route>>
    BY <1>5 DEF NetReply
  <2>5. QED
    BY <2>3, <2>4, PhaseKept, LifecycleStutter
<1>6. ASSUME NEW i \in DOMAIN attempts, FetchFail(i) PROVE [LL!Next]_LL!vars
  <2>1. /\ DOMAIN attempts' = DOMAIN attempts /\ attempts'[i].pc = "failed"
        /\ \A j \in DOMAIN attempts \ {i} : attempts'[j] = attempts[j]
        /\ \A j \in DOMAIN attempts : attempts'[j].mount = attempts[j].mount
    BY <1>0, <1>6, PcUpdate, MountsKept DEF FetchFail
  <2>2. attempts[i].pc \in {"inflight", "reply"}
        /\ UNCHANGED <<mounts, mounted, streamInfo, keyPair, route>>
    BY <1>6 DEF FetchFail
  <2>3. CASE mounted /\ streamInfo = Null /\ attempts[i].mount = mounts
    <3>1. mounts # 0
      BY <1>0, <2>3 DEF XInv, AttemptMounts
    <3>2. CurrentAttempts = {i} /\ CurrentAttempts' = {i}
      BY <1>0, <2>1, <2>2, <2>3 DEF XInv, OneAttemptPerMount, CurrentAttempts
    <3>3. Phase = "Preparing"
      BY <2>2, <2>3, <3>1, <3>2, MountedPhase
    <3>4. Phase' = "Failed"
      BY <2>1, <2>2, <2>3, <3>1, <3>2 DEF Phase
    <3>5. QED
      BY <2>2, <3>3, <3>4 DEF LL!Next, LL!Fail, LinkKnown
  <2>4. CASE ~(mounted /\ streamInfo = Null /\ attempts[i].mount = mounts)
    BY <2>1, <2>2, <2>4, PhaseKept, LifecycleStutter
  <2>5. QED
    BY <2>3, <2>4
<1>7. ASSUME NEW i \in DOMAIN attempts, Deliver(i) PROVE [LL!Next]_LL!vars
  <2> DEFINE a == attempts[i]
  <2>1. /\ DOMAIN attempts' = DOMAIN attempts /\ attempts'[i].pc = "done"
        /\ \A j \in DOMAIN attempts \ {i} : attempts'[j] = attempts[j]
        /\ \A j \in DOMAIN attempts : attempts'[j].mount = attempts[j].mount
    BY <1>0, <1>7, PcUpdate, MountsKept DEF Deliver
  <2>2. a.pc = "reply" /\ a.info \in Info
        /\ UNCHANGED <<mounts, keyPair, route>>
    <3>1. a \in Attempt
      BY <1>0
    <3>2. QED
      BY <1>7, <3>1, Zenon DEF Deliver, Attempt
  <2>3. CASE mounted /\ a.mount = mounts
    <3>1. mounts # 0
      BY <1>0, <2>3 DEF XInv, AttemptMounts
    <3>2. streamInfo = Null
      <4>1. SUFFICES ASSUME streamInfo # Null PROVE FALSE
        OBVIOUS
      <4>2. streamInfo.att \in DOMAIN attempts
            /\ attempts[streamInfo.att].pc = "done"
            /\ attempts[streamInfo.att].mount = mounts
        BY <1>0, <2>3, <4>1 DEF InfoDelivered, Delivered, XInv, InfoCurrent
      <4>3. streamInfo.att = i
        BY <1>0, <2>3, <4>2 DEF XInv, OneAttemptPerMount
      <4>4. QED
        BY <2>2, <4>2, <4>3
    <3>3. Phase = "Preparing"
      BY <2>2, <2>3, <3>1, <3>2, MountedPhase DEF CurrentAttempts
    <3>4. streamInfo' = a.info /\ mounted' = playerReady
      BY <1>7, <2>3 DEF Deliver
    \* The player was ready: it plays the descriptor.
    <3>5. CASE playerReady
      <4>1. Phase' = "Ready"
        BY <2>2, <3>1, <3>4, <3>5, LegacyConstantsAssumption DEF Phase
      <4>2. QED
        BY <2>2, <3>3, <4>1 DEF LL!Next, LL!Succeed, LinkKnown
    \* playVideo threw on the null player and React unmounted the tree.
    <3>6. CASE ~playerReady
      <4>1. Phase' = "Disposed"
        BY <2>2, <3>1, <3>4, <3>6 DEF Phase
      <4>2. QED
        BY <2>2, <3>3, <4>1 DEF LL!Next, LL!Dispose, LL!Live, LinkKnown
    <3>7. QED
      BY <3>5, <3>6
  <2>4. CASE ~(mounted /\ a.mount = mounts)
    <3>1. UNCHANGED <<streamInfo, mounted>>
      BY <1>7, <2>4 DEF Deliver
    <3>2. QED
      BY <2>1, <2>2, <2>4, <3>1, PhaseKept, LifecycleStutter
  <2>5. QED
    BY <2>3, <2>4
<1>8. CASE UNCHANGED vars
  BY <1>8, PhaseKept, LifecycleStutter DEF vars
<1>9. QED
  BY <1>1, <1>2, <1>3, <1>4, <1>5, <1>6, <1>7, <1>8 DEF Next

\* The initial states of the legacy player are initial states of the
\* lifecycle: no instance, no key pair.
LEMMA InitRefines == Init => LL!Init
<1> SUFFICES ASSUME Init PROVE LL!Init
  OBVIOUS
<1>1. Phase = "Idle" /\ keyPair = FALSE
  BY DEF Init, Phase
<1>2. LinkKnown \in BOOLEAN
  BY DEF LinkKnown
<1>3. QED
  BY <1>1, <1>2 DEF LL!Init

\* The legacy StreamPlayer keeps the promise of the session lifecycle in
\* every interleaving of key-pair resolution, remounts, late prepare
\* responses and failures: an instance prepares exactly when the key pair
\* and a known link type are both there, becomes ready only by the
\* response of its own preparation, and fails only when that preparation
\* rejects, never retrying it.
THEOREM LegacyLifecycleRefinement == Spec => LegacyLifecycleRefined
<1>1. QED
  BY InitRefines, StepRefines, InitLInv, NextLInv, PTL
     DEF Spec, LegacyLifecycleRefined, LL!Spec
=============================================================================
