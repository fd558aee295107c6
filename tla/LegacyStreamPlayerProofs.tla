--------------------- MODULE LegacyStreamPlayerProofs ---------------------
(***************************************************************************)
(* Proofs about the legacy StreamPlayer for every value of the constants: *)
(* the type invariant, and that the global segment interceptor rewrites   *)
(* every request against the descriptor of the session that issued it.   *)
(***************************************************************************)
EXTENDS LegacyStreamPlayer, SequenceTheorems, TLAPS

\* A prepare response is stored in the attempt it answers: once an attempt
\* has its reply, the descriptor's req_id names that attempt.
RepliesNamed ==
    \A i \in DOMAIN attempts :
        attempts[i].pc \in {"reply", "done"} => attempts[i].info.att = i

\* A delivered descriptor is final: streamInfo and every request sent are
\* those of an attempt whose response was delivered, and whose body no
\* later step changes.
Delivered(j) == j \in DOMAIN attempts /\ attempts[j].pc = "done"

InfoDelivered ==
    streamInfo # Null =>
        /\ Delivered(streamInfo.att)
        /\ attempts[streamInfo.att].info = streamInfo

SentDelivered == \A r \in sent : Delivered(r.own)

\* The source of the mounted player is set, or scheduled, only after the
\* [streamInfo] effect installed the interceptor for that very descriptor,
\* and no delivery since has replaced one without the other.
SourceAfterHook ==
    (mounted /\ (srcSet \/ srcPending)) =>
        /\ streamInfo # Null
        /\ hook = [mount |-> mounts, info |-> streamInfo]

\* The inductive invariant RewriteBoundToOwnSession rests on.
RInv ==
    /\ TypeOK /\ RepliesNamed /\ InfoDelivered /\ SentDelivered
    /\ SourceAfterHook /\ RewriteBoundToOwnSession

USE LegacyConstantsAssumption

-----------------------------------------------------------------------------
(***************************************************************************)
(* Lemmas about the helpers.                                               *)
(***************************************************************************)

\* The keyPair effect appends at most one attempt, still in flight, and
\* keeps the attempts already started.
LEMMA StartAttemptFacts ==
    ASSUME attempts \in Seq(Attempt), NEW k, NEW r, NEW m \in Nat,
           attempts' = StartAttempt(k, r, m)
    PROVE  /\ attempts' \in Seq(Attempt)
           /\ DOMAIN attempts \subseteq DOMAIN attempts'
           /\ \A j \in DOMAIN attempts : attempts'[j] = attempts[j]
           /\ \A j \in DOMAIN attempts' \ DOMAIN attempts : attempts'[j].pc = "inflight"
<1>1. [mount |-> m, pc |-> "inflight",
       info |-> [ok |-> FALSE, att |-> 0, segs |-> {}]] \in Attempt
  BY DEF Attempt, Info
<1>2. QED
  BY <1>1 DEF StartAttempt

\* Replacing element i of a sequence by b changes element i alone.
LEMMA SetOne ==
    ASSUME NEW S, NEW seq \in Seq(S), NEW i \in DOMAIN seq, NEW b \in S
    PROVE  LET s == [seq EXCEPT ![i] = b] IN
           /\ s \in Seq(S)
           /\ DOMAIN s = DOMAIN seq
           /\ s[i] = b
           /\ \A j \in DOMAIN seq \ {i} : s[j] = seq[j]
OBVIOUS

\* The reply of the prepare endpoint is stored in attempt i alone.
LEMMA ReplyUpdate ==
    ASSUME attempts \in Seq(Attempt), NEW i \in DOMAIN attempts, NEW f \in Info,
           attempts' = [attempts EXCEPT ![i].pc = "reply", ![i].info = f]
    PROVE  /\ attempts' \in Seq(Attempt)
           /\ DOMAIN attempts' = DOMAIN attempts
           /\ attempts'[i].pc = "reply" /\ attempts'[i].info = f
           /\ \A j \in DOMAIN attempts \ {i} : attempts'[j] = attempts[j]
<1> DEFINE a == attempts[i]
           b == [a EXCEPT !.pc = "reply", !.info = f]
<1>1. a \in Attempt
  OBVIOUS
<1>2. b \in Attempt /\ b.pc = "reply" /\ b.info = f
  BY <1>1, Zenon DEF Attempt
<1>3. [attempts EXCEPT ![i].pc = "reply", ![i].info = f]
        = [attempts EXCEPT ![i] = b]
  BY Zenon
<1>4. QED
  BY <1>2, <1>3, SetOne, Zenon

\* Marking attempt i done or failed keeps its body and the others.
LEMMA PcUpdate ==
    ASSUME attempts \in Seq(Attempt), NEW i \in DOMAIN attempts,
           NEW p \in {"done", "failed"},
           attempts' = [attempts EXCEPT ![i].pc = p]
    PROVE  /\ attempts' \in Seq(Attempt)
           /\ DOMAIN attempts' = DOMAIN attempts
           /\ attempts'[i].pc = p /\ attempts'[i].info = attempts[i].info
           /\ \A j \in DOMAIN attempts \ {i} : attempts'[j] = attempts[j]
<1> DEFINE a == attempts[i]
           b == [a EXCEPT !.pc = p]
<1>1. a \in Attempt
  OBVIOUS
<1>2. b \in Attempt /\ b.pc = p /\ b.info = a.info
  BY <1>1, Zenon DEF Attempt
<1>3. [attempts EXCEPT ![i].pc = p] = [attempts EXCEPT ![i] = b]
  BY Zenon
<1>4. QED
  BY <1>2, <1>3, SetOne, Zenon

\* A step that leaves every delivered attempt as it was, and sends nothing,
\* keeps what the requests sent so far and the shown descriptor rest on.
LEMMA DeliveredKept ==
    ASSUME RInv,
           \A j \in DOMAIN attempts :
               Delivered(j) => j \in DOMAIN attempts' /\ attempts'[j] = attempts[j],
           UNCHANGED sent
    PROVE  /\ SentDelivered' /\ RewriteBoundToOwnSession'
           /\ UNCHANGED streamInfo => InfoDelivered'
<1>1. SentDelivered' /\ RewriteBoundToOwnSession'
  BY DEF RInv, SentDelivered, RewriteBoundToOwnSession, Delivered
<1>2. UNCHANGED streamInfo => InfoDelivered'
  BY DEF RInv, InfoDelivered, Delivered
<1>3. QED
  BY <1>1, <1>2

-----------------------------------------------------------------------------
(***************************************************************************)
(* The invariant RInv.                                                     *)
(***************************************************************************)

LEMMA InitRInv == Init => RInv
<1> SUFFICES ASSUME Init PROVE RInv
  OBVIOUS
<1>1. TypeOK
  <2>1. keyPair \in BOOLEAN /\ mounted \in BOOLEAN /\ playerReady \in BOOLEAN
        /\ srcPending \in BOOLEAN /\ srcSet \in BOOLEAN /\ crashed \in BOOLEAN
    BY Zenon DEF Init
  <2>2. QED
    BY <2>1 DEF Init, TypeOK
<1>2. QED
  BY <1>1 DEF Init, RInv, RepliesNamed, InfoDelivered, SentDelivered,
     SourceAfterHook, RewriteBoundToOwnSession

\* Every step of the component, the player library and the network keeps
\* RInv.
LEMMA NextRInv == RInv /\ [Next]_vars => RInv'
<1> SUFFICES ASSUME RInv, [Next]_vars PROVE RInv'
  OBVIOUS
<1>0. /\ TypeOK /\ RepliesNamed /\ InfoDelivered /\ SentDelivered
      /\ SourceAfterHook /\ RewriteBoundToOwnSession
      /\ attempts \in Seq(Attempt) /\ mounts \in 0..MaxMounts
      /\ mounts \in Nat /\ mounts + 1 \in Nat
  BY DEF RInv, TypeOK
<1>1. CASE ProviderResolve
  <2>1. /\ attempts' \in Seq(Attempt)
        /\ DOMAIN attempts \subseteq DOMAIN attempts'
        /\ \A j \in DOMAIN attempts : attempts'[j] = attempts[j]
        /\ \A j \in DOMAIN attempts' \ DOMAIN attempts : attempts'[j].pc = "inflight"
    <3>1. CASE mounted
      <4>1. attempts' = StartAttempt(TRUE, route, mounts)
        BY <1>1, <3>1 DEF ProviderResolve
      <4>2. QED
        BY <1>0, <4>1, StartAttemptFacts
    <3>2. CASE ~mounted
      BY <1>0, <1>1, <3>2 DEF ProviderResolve
    <3>3. QED
      BY <3>1, <3>2
  <2>2. TypeOK'
    <3>1. /\ provider' = "done" /\ keyPair' = ~crashed
          /\ UNCHANGED <<mounts, mounted, route, streamInfo, playerReady,
                         srcPending, srcSet, crashed, hook, sent>>
      BY <1>1 DEF ProviderResolve
    <3>2. keyPair' \in BOOLEAN
      BY <1>0, <3>1, Zenon DEF TypeOK
    <3>3. QED
      BY <1>0, <2>1, <3>1, <3>2, Zenon DEF TypeOK
  <2>3. RepliesNamed'
    BY <1>0, <2>1 DEF RepliesNamed
  <2>4. SentDelivered' /\ RewriteBoundToOwnSession' /\ InfoDelivered'
    BY <1>0, <1>1, <2>1, DeliveredKept DEF ProviderResolve, Delivered
  <2>5. SourceAfterHook'
    BY <1>0, <1>1 DEF ProviderResolve, SourceAfterHook
  <2>6. QED
    BY <2>2, <2>3, <2>4, <2>5 DEF RInv
<1>2. CASE ProviderFail \/ Unmount \/ PlayerReady
  <2>1. UNCHANGED <<attempts, sent, streamInfo, hook, srcSet, mounts>>
    BY <1>2 DEF ProviderFail, Unmount, PlayerReady
  <2>2. TypeOK'
    BY <1>0, <1>2 DEF ProviderFail, Unmount, PlayerReady, TypeOK
  <2>3. SourceAfterHook'
    BY <1>0, <1>2 DEF ProviderFail, Unmount, PlayerReady, SourceAfterHook
  <2>4. QED
    BY <1>0, <2>1, <2>2, <2>3 DEF RInv, RepliesNamed, InfoDelivered,
       SentDelivered, RewriteBoundToOwnSession, Delivered
<1>3. CASE Mount
  <2>1. PICK r \in Route : attempts' = StartAttempt(keyPair, r, mounts + 1)
    BY <1>3 DEF Mount
  <2>2. /\ attempts' \in Seq(Attempt)
        /\ DOMAIN attempts \subseteq DOMAIN attempts'
        /\ \A j \in DOMAIN attempts : attempts'[j] = attempts[j]
        /\ \A j \in DOMAIN attempts' \ DOMAIN attempts : attempts'[j].pc = "inflight"
    BY <1>0, <2>1, StartAttemptFacts
  <2>3. TypeOK'
    <3>1. /\ mounted' \in BOOLEAN /\ playerReady' \in BOOLEAN
          /\ srcPending' \in BOOLEAN /\ srcSet' \in BOOLEAN
          /\ crashed' \in BOOLEAN
      BY <1>3, Zenon DEF Mount
    <3>2. QED
      BY <1>0, <1>3, <2>2, <3>1 DEF Mount, TypeOK
  <2>4. RepliesNamed'
    BY <1>0, <2>2 DEF RepliesNamed
  <2>5. SentDelivered' /\ RewriteBoundToOwnSession' /\ InfoDelivered'
    <3>1. SentDelivered' /\ RewriteBoundToOwnSession'
      BY <1>0, <1>3, <2>2, DeliveredKept DEF Mount, Delivered
    <3>2. InfoDelivered'
      BY <1>3 DEF Mount, InfoDelivered
    <3>3. QED
      BY <3>1, <3>2
  <2>6. SourceAfterHook'
    BY <1>3 DEF Mount, SourceAfterHook
  <2>7. QED
    BY <2>3, <2>4, <2>5, <2>6 DEF RInv
<1>4. ASSUME NEW i \in DOMAIN attempts, NetReply(i) PROVE RInv'
  <2>1. PICK f \in {[ok |-> TRUE, att |-> i, segs |-> S] : S \in SUBSET Segs}
                   \cup {[ok |-> FALSE, att |-> i, segs |-> {}]} :
          attempts' = [attempts EXCEPT ![i].pc = "reply", ![i].info = f]
    BY <1>4 DEF NetReply
  <2>2. f \in Info /\ f.att = i
    <3>1. i \in Nat
      BY <1>0
    <3>2. CASE \E S \in SUBSET Segs : f = [ok |-> TRUE, att |-> i, segs |-> S]
      <4>1. PICK S \in SUBSET Segs : f = [ok |-> TRUE, att |-> i, segs |-> S]
        BY <3>2
      <4>2. QED
        BY <3>1, <4>1 DEF Info
    <3>3. CASE f = [ok |-> FALSE, att |-> i, segs |-> {}]
      BY <3>1, <3>3 DEF Info
    <3>4. QED
      BY <2>1, <3>2, <3>3
  <2>3. /\ attempts' \in Seq(Attempt) /\ DOMAIN attempts' = DOMAIN attempts
        /\ attempts'[i].pc = "reply" /\ attempts'[i].info = f
        /\ \A j \in DOMAIN attempts \ {i} : attempts'[j] = attempts[j]
    BY <1>0, <2>1, <2>2, ReplyUpdate
  <2>4. ~Delivered(i)
    BY <1>4 DEF NetReply, Delivered
  <2>5. UNCHANGED <<mounts, mounted, streamInfo, srcPending, srcSet, hook, sent>>
    BY <1>4 DEF NetReply
  <2>6. TypeOK'
    BY <1>0, <1>4, <2>3 DEF NetReply, TypeOK
  <2>7. RepliesNamed'
    BY <1>0, <2>2, <2>3 DEF RepliesNamed
  <2>8. SentDelivered' /\ RewriteBoundToOwnSession' /\ InfoDelivered'
    BY <1>0, <2>3, <2>4, <2>5, DeliveredKept DEF Delivered
  <2>9. SourceAfterHook'
    BY <1>0, <2>5 DEF SourceAfterHook
  <2>10. QED
    BY <2>6, <2>7, <2>8, <2>9 DEF RInv
<1>5. ASSUME NEW i \in DOMAIN attempts, FetchFail(i) PROVE RInv'
  <2>1. /\ attempts' \in Seq(Attempt) /\ DOMAIN attempts' = DOMAIN attempts
        /\ attempts'[i].pc = "failed"
        /\ \A j \in DOMAIN attempts \ {i} : attempts'[j] = attempts[j]
    BY <1>0, <1>5, PcUpdate DEF FetchFail
  <2>2. ~Delivered(i)
    BY <1>5 DEF FetchFail, Delivered
  <2>3. UNCHANGED <<mounts, mounted, streamInfo, srcPending, srcSet, hook, sent>>
    BY <1>5 DEF FetchFail
  <2>4. TypeOK'
    BY <1>0, <1>5, <2>1 DEF FetchFail, TypeOK
  <2>5. RepliesNamed'
    BY <1>0, <2>1 DEF RepliesNamed
  <2>6. SentDelivered' /\ RewriteBoundToOwnSession' /\ InfoDelivered'
    BY <1>0, <2>1, <2>2, <2>3, DeliveredKept DEF Delivered
  <2>7. SourceAfterHook'
    BY <1>0, <2>3 DEF SourceAfterHook
  <2>8. QED
    BY <2>4, <2>5, <2>6, <2>7 DEF RInv
<1>6. ASSUME NEW i \in DOMAIN attempts, Deliver(i) PROVE RInv'
  <2> DEFINE a == attempts[i]
  <2>1. /\ attempts' \in Seq(Attempt) /\ DOMAIN attempts' = DOMAIN attempts
        /\ attempts'[i].pc = "done" /\ attempts'[i].info = a.info
        /\ \A j \in DOMAIN attempts \ {i} : attempts'[j] = attempts[j]
    BY <1>0, <1>6, PcUpdate DEF Deliver
  <2>2. a.pc = "reply" /\ a.info.att = i /\ a.info \in Info /\ ~Delivered(i)
    <3>1. a.pc = "reply"
      BY <1>6, Zenon DEF Deliver
    <3>2. a \in Attempt
      BY <1>0
    <3>3. a.info \in Info
      BY <3>2 DEF Attempt
    <3>4. a.info.att = i
      BY <1>0, <3>1 DEF RepliesNamed
    <3>5. QED
      BY <3>1, <3>3, <3>4 DEF Delivered
  <2>3. UNCHANGED <<provider, keyPair, mounts, route, playerReady,
                   srcSet, sent>>
    BY <1>6 DEF Deliver
  <2>4. SentDelivered' /\ RewriteBoundToOwnSession'
    BY <1>0, <2>1, <2>2, <2>3, DeliveredKept DEF Delivered
  <2>5. RepliesNamed'
    BY <1>0, <2>1, <2>2 DEF RepliesNamed
  <2>6. CASE mounted /\ a.mount = mounts
    <3>1. /\ streamInfo' = a.info
          /\ hook' = [mount |-> mounts, info |-> a.info]
          /\ srcPending' = playerReady /\ crashed' = ~playerReady
          /\ mounted' = playerReady
      BY <1>6, <2>6 DEF Deliver, InstallHook
    <3>2. TypeOK'
      <4>1. srcPending' \in BOOLEAN /\ crashed' \in BOOLEAN /\ mounted' \in BOOLEAN
        BY <1>0, <3>1, Zenon DEF TypeOK
      <4>2. QED
        BY <1>0, <2>1, <2>2, <2>3, <3>1, <4>1 DEF TypeOK, Hook
    <3>3. InfoDelivered'
      BY <2>1, <2>2, <3>1 DEF InfoDelivered, Delivered
    <3>4. SourceAfterHook'
      BY <2>2, <2>3, <3>1 DEF SourceAfterHook
    <3>5. QED
      BY <2>4, <2>5, <3>2, <3>3, <3>4 DEF RInv
  <2>7. CASE ~(mounted /\ a.mount = mounts)
    <3>1. UNCHANGED <<streamInfo, hook, srcPending, crashed, mounted>>
      BY <1>6, <2>7 DEF Deliver
    <3>2. TypeOK'
      BY <1>0, <2>1, <2>3, <3>1 DEF TypeOK
    <3>3. InfoDelivered'
      BY <1>0, <2>1, <2>2, <2>3, <3>1, DeliveredKept DEF Delivered
    <3>4. SourceAfterHook'
      BY <1>0, <2>3, <3>1 DEF SourceAfterHook
    <3>5. QED
      BY <2>4, <2>5, <3>2, <3>3, <3>4 DEF RInv
  <2>8. QED
    BY <2>6, <2>7
<1>7. CASE SetSource
  <2>1. UNCHANGED <<attempts, sent, streamInfo, hook, mounts, mounted>>
        /\ srcPending /\ srcSet' = TRUE /\ srcPending' = FALSE
    BY <1>7 DEF SetSource
  <2>2. TypeOK'
    <3>1. srcSet' \in BOOLEAN /\ srcPending' \in BOOLEAN
      BY <2>1, Zenon
    <3>2. QED
      BY <1>0, <1>7, <3>1 DEF SetSource, TypeOK
  <2>3. SourceAfterHook'
    BY <1>0, <2>1 DEF SourceAfterHook
  <2>4. QED
    BY <1>0, <2>1, <2>2, <2>3 DEF RInv, RepliesNamed, InfoDelivered,
       SentDelivered, RewriteBoundToOwnSession, Delivered
<1>8. ASSUME NEW seg \in Segs, PlayerRequest(seg) PROVE RInv'
  <2> DEFINE new == {[mount |-> mounts, own |-> streamInfo.att, reqId |-> id,
                      seg |-> seg] : id \in Rewrite(hook, seg)}
  <2>1. /\ sent' = sent \cup new
        /\ UNCHANGED <<provider, keyPair, mounts, mounted, route, streamInfo,
                       playerReady, srcPending, srcSet, crashed, hook, attempts>>
    BY <1>8 DEF PlayerRequest
  <2>2. /\ streamInfo \in Info /\ streamInfo # Null
        /\ hook = [mount |-> mounts, info |-> streamInfo]
    BY <1>0, <1>8 DEF PlayerRequest, SourceAfterHook, TypeOK
  <2>3. hook # Null
    BY <1>0, <2>2 DEF Hook
  <2>4. Rewrite(hook, seg) \subseteq {streamInfo.att}
        /\ (Rewrite(hook, seg) # {} => seg \in streamInfo.segs)
    BY <2>2, <2>3 DEF Rewrite
  <2>5. Delivered(streamInfo.att) /\ attempts[streamInfo.att].info = streamInfo
    BY <1>0, <2>2 DEF InfoDelivered
  <2>6. \A r \in new :
          /\ r \in Request /\ r.own = streamInfo.att /\ r.reqId = r.own
          /\ r.seg \in streamInfo.segs
    BY <1>0, <2>2, <2>4 DEF Request, Info
  <2>7. TypeOK'
    BY <1>0, <2>1, <2>6 DEF TypeOK
  <2>8. SentDelivered' /\ RewriteBoundToOwnSession'
    BY <1>0, <2>1, <2>5, <2>6 DEF SentDelivered, RewriteBoundToOwnSession,
       Delivered
  <2>9. QED
    BY <1>0, <2>1, <2>7, <2>8 DEF RInv, RepliesNamed, InfoDelivered,
       SourceAfterHook, Delivered
<1>9. CASE UNCHANGED vars
  BY <1>0, <1>9 DEF vars, RInv, TypeOK, RepliesNamed, InfoDelivered,
     SentDelivered, SourceAfterHook, RewriteBoundToOwnSession, Delivered
<1>10. QED
  BY <1>1, <1>2, <1>3, <1>4, <1>5, <1>6, <1>7, <1>8, <1>9 DEF Next

-----------------------------------------------------------------------------
\* The legacy player's variables keep their types in every reachable state.
THEOREM LegacyTypeCorrect == Spec => []TypeOK
<1>1. RInv => TypeOK
  BY DEF RInv
<1>2. QED
  BY <1>1, InitRInv, NextRInv, PTL DEF Spec

\* Every request the player library puts on the network, in any
\* interleaving of remounts, late prepare responses, player-ready callbacks
\* and segment requests, was rewritten by the one global beforeRequest hook
\* against the descriptor of the instance that issued it, for a segment
\* that descriptor maps: the [streamInfo] effect installs the hook for the
\* descriptor it stores before the source is set, and a stale response is
\* dropped.
THEOREM RewriteBoundInvariant == Spec => []RewriteBoundToOwnSession
<1>1. RInv => RewriteBoundToOwnSession
  BY DEF RInv
<1>2. QED
  BY <1>1, InitRInv, NextRInv, PTL DEF Spec
=============================================================================
