------------------------ MODULE StreamSessionProofs ------------------------
(***************************************************************************)
(* Proofs about StreamSession for every value of the constants: the type  *)
(* invariant, and that every signed prepare request is signed by the key  *)
(* of the wallet it names over its own link, wallet and sequence number.  *)
(***************************************************************************)
EXTENDS StreamSession, TLAPS

\* A context value names at most the configured wallet, and holds a key
\* pair only for it (KeyPairContext's key?.address === walletAddress).
OwnedCtx(c) ==
    /\ c.walletAddress \in {Null, conf.walletAddress}
    /\ c.keyPair # Null => c.keyPair = conf.walletAddress

\* What an attempt carries: a key pair only of its own wallet; nothing is
\* sent before the signature is known, and no signature before sending.
AttemptShape(a) ==
    /\ a.keyPair # Null => a.keyPair = a.wallet
    /\ a.pc \in {"ozone", "remote"} => ~a.sent
    /\ ~a.sent => a.sig = Null

\* An attempt in a good state: its shape, and its envelope authentic once
\* it is signed and sent.
Good(a) ==
    /\ AttemptShape(a)
    /\ a.sent /\ a.sig # Null => ValidEnvelope(a)

\* Every context value, committed or pending, is owned by the deployment.
CtxOwned ==
    /\ OwnedCtx(ctx)
    /\ \A k \in 1..Len(pending) : OwnedCtx(pending[k])

\* Every attempt started so far is good.
AllGood == \A i \in DOMAIN attempts : Good(attempts[i])

\* The inductive invariant that EnvelopeAuthentic rests on.
IInv == TypeOK /\ CtxOwned /\ AllGood

USE ConstantsAssumption

\* TypeOK split into the part about Boolean-valued variables, which Zenon
\* proves, and the rest, which needs SMT's arithmetic and sequences.
FlagsOK == mounted \in BOOLEAN /\ isReady \in BOOLEAN
DataOK ==
    /\ conf \in Conf
    /\ provider \in {"pending", "done", "failed"}
    /\ pending \in Seq(Ctx)
    /\ ctx \in Ctx
    /\ mounts \in 0..MaxMounts
    /\ route \in Route
    /\ streamInfo \in Info \cup {Null}
    /\ attempts \in Seq(Attempt)
    /\ ozone \in [Wallets -> Nat]

-----------------------------------------------------------------------------
(***************************************************************************)
(* Lemmas about the helpers.                                               *)
(***************************************************************************)

\* The provider's renders are one or two context values.
LEMMA KeyPairUpdatesType ==
    ASSUME NEW c \in Conf
    PROVE  /\ KeyPairUpdates(c) \in Seq(Ctx)
           /\ Len(KeyPairUpdates(c)) \in {1, 2}
           /\ KeyPairUpdates(c)[Len(KeyPairUpdates(c))] \in Ctx
<1>1. CASE c.mnemonicKey # NoKey /\ c.mnemonicKey = c.walletAddress
  <2>1. c.mnemonicKey \in Wallets
    BY <1>1 DEF Conf, Keys
  <2>2. /\ [keyPair |-> c.mnemonicKey, walletAddress |-> Null] \in Ctx
        /\ [keyPair |-> c.mnemonicKey, walletAddress |-> c.walletAddress] \in Ctx
    BY <2>1 DEF Conf, Ctx
  <2>3. KeyPairUpdates(c) =
          << [keyPair |-> c.mnemonicKey, walletAddress |-> Null],
             [keyPair |-> c.mnemonicKey, walletAddress |-> c.walletAddress] >>
    BY <1>1 DEF KeyPairUpdates
  <2>4. QED
    BY <2>2, <2>3
<1>2. CASE ~(c.mnemonicKey # NoKey /\ c.mnemonicKey = c.walletAddress)
  <2>1. [keyPair |-> Null, walletAddress |-> c.walletAddress] \in Ctx
    BY DEF Conf, Ctx
  <2>2. KeyPairUpdates(c) = << [keyPair |-> Null, walletAddress |-> c.walletAddress] >>
    BY <1>2 DEF KeyPairUpdates
  <2>3. QED
    BY <2>1, <2>2
<1>3. QED
  BY <1>1, <1>2

\* Starting an attempt keeps attempts a sequence of attempt records.
LEMMA StartAttemptType ==
    ASSUME NEW c \in Ctx, NEW r \in Route, NEW m \in Nat,
           attempts \in Seq(Attempt)
    PROVE  StartAttempt(c, r, m) \in Seq(Attempt)
<1>1. CASE c.walletAddress # Null /\ r.linkType \in {FILE_HASH, SHARE_LINK}
  <2>1. [mount |-> m, wallet |-> c.walletAddress, keyPair |-> c.keyPair,
         linkType |-> r.linkType, link |-> r.link, pc |-> "ozone",
         seq |-> 0, sig |-> Null, sent |-> FALSE, ok |-> FALSE] \in Attempt
    BY <1>1 DEF Ctx, Route, Pc, Attempt
  <2>2. QED
    BY <1>1, <2>1 DEF StartAttempt
<1>2. CASE ~(c.walletAddress # Null /\ r.linkType \in {FILE_HASH, SHARE_LINK})
  BY <1>2 DEF StartAttempt
<1>3. QED
  BY <1>1, <1>2

\* getSignature yields an attempt record.
LEMMA GetSignatureType ==
    ASSUME NEW a \in Attempt, NEW s \in Nat
    PROVE  GetSignature(a, s) \in Attempt
<1>1. CASE a.keyPair # Null
  <2>1. Sign(a.keyPair, a.link, a.wallet, s) \in Signature
    BY <1>1 DEF Sign, Signature, Attempt
  <2>2. QED
    BY <1>1, <2>1, Zenon DEF GetSignature, Attempt, Pc
<1>2. CASE a.keyPair = Null
  BY <1>2, Zenon DEF GetSignature, Attempt, Pc
<1>3. QED
  BY <1>1, <1>2

\* Replacing one attempt by an attempt record keeps the type.
LEMMA SetAttemptType ==
    ASSUME attempts \in Seq(Attempt), NEW i \in DOMAIN attempts,
           NEW a \in Attempt, SetAttempt(i, a)
    PROVE  attempts' \in Seq(Attempt)
BY DEF SetAttempt

-----------------------------------------------------------------------------
\* The initial states are well typed.
LEMMA InitTypeOK == Init => TypeOK
<1> SUFFICES ASSUME Init PROVE DataOK /\ FlagsOK
  BY Zenon DEF TypeOK, DataOK, FlagsOK
<1>1. DataOK
  BY DEF Init, DataOK, Ctx
<1>2. FlagsOK
  BY Zenon DEF Init, FlagsOK
<1>3. QED
  BY <1>1, <1>2

\* Every step of the client, the signing service and the network keeps the
\* types.
LEMMA NextTypeOK == TypeOK /\ [Next]_vars => TypeOK'
<1> SUFFICES ASSUME DataOK, FlagsOK, [Next]_vars PROVE DataOK' /\ FlagsOK'
  BY Zenon DEF TypeOK, DataOK, FlagsOK
<1> USE DEF DataOK
<1>0. \A i \in DOMAIN attempts : attempts[i] \in Attempt
  OBVIOUS
<1>1. CASE ProviderResolve
  <2>1. PICK batched \in BOOLEAN :
          /\ ctx' = IF batched
                    THEN KeyPairUpdates(conf)[Len(KeyPairUpdates(conf))]
                    ELSE Head(KeyPairUpdates(conf))
          /\ pending' = IF batched THEN <<>> ELSE Tail(KeyPairUpdates(conf))
          /\ attempts' = IF mounted /\ ctx' # ctx
                         THEN StartAttempt(ctx', route, mounts)
                         ELSE attempts
    BY <1>1, Zenon DEF ProviderResolve, RenderContext
  <2>2. /\ KeyPairUpdates(conf) \in Seq(Ctx)
        /\ Len(KeyPairUpdates(conf)) \in {1, 2}
    BY KeyPairUpdatesType
  <2>3. ctx' \in Ctx /\ pending' \in Seq(Ctx)
    <3>1. CASE batched
      <4>1. KeyPairUpdates(conf)[Len(KeyPairUpdates(conf))] \in Ctx
        BY KeyPairUpdatesType
      <4>2. ctx' = KeyPairUpdates(conf)[Len(KeyPairUpdates(conf))] /\ pending' = <<>>
        BY <2>1, <3>1
      <4>3. QED
        BY <4>1, <4>2
    <3>2. CASE ~batched
      BY <2>1, <2>2, <3>2
    <3>3. QED
      BY <3>1, <3>2
  <2>4. StartAttempt(ctx', route, mounts) \in Seq(Attempt)
    BY <2>3, StartAttemptType
  <2>5. DataOK'
    BY <1>1, <2>1, <2>3, <2>4 DEF ProviderResolve
  <2>6. FlagsOK'
    BY <1>1, Zenon DEF ProviderResolve, FlagsOK
  <2>7. QED
    BY <2>5, <2>6
<1>2. CASE ProviderFail
  <2>1. DataOK'
    BY <1>2 DEF ProviderFail
  <2>2. FlagsOK'
    BY <1>2, Zenon DEF ProviderFail, FlagsOK
  <2>3. QED
    BY <2>1, <2>2
<1>3. CASE CommitPending
  <2>1. Head(pending) \in Ctx /\ Tail(pending) \in Seq(Ctx)
    BY <1>3 DEF CommitPending
  <2>2. attempts' = IF mounted /\ Head(pending) # ctx
                    THEN StartAttempt(Head(pending), route, mounts)
                    ELSE attempts
    BY <1>3 DEF CommitPending, RenderContext
  <2>3. StartAttempt(Head(pending), route, mounts) \in Seq(Attempt)
    <3>1. mounts \in Nat
      OBVIOUS
    <3>2. QED
      BY <2>1, <3>1, StartAttemptType
  <2>4. DataOK'
    BY <1>3, <2>1, <2>2, <2>3 DEF CommitPending
  <2>5. FlagsOK'
    BY <1>3, Zenon DEF CommitPending, FlagsOK
  <2>6. QED
    BY <2>4, <2>5
<1>4. CASE Mount
  <2>1. PICK r \in Route : route' = r /\ attempts' = StartAttempt(ctx, r, mounts + 1)
    BY <1>4 DEF Mount
  <2>2. attempts' \in Seq(Attempt)
    BY <2>1, StartAttemptType
  <2>3. DataOK'
    BY <1>4, <2>1, <2>2 DEF Mount
  <2>4. FlagsOK'
    BY <1>4, Zenon DEF Mount, FlagsOK
  <2>5. QED
    BY <2>3, <2>4
<1>5. CASE Unmount
  <2>1. DataOK'
    BY <1>5 DEF Unmount
  <2>2. FlagsOK'
    BY <1>5, Zenon DEF Unmount, FlagsOK
  <2>3. QED
    BY <2>1, <2>2
<1>6. ASSUME NEW i \in DOMAIN attempts, OzoneReply(i)
      PROVE  DataOK' /\ FlagsOK'
  <2>1. attempts[i] \in Attempt /\ ozone[attempts[i].wallet] \in Nat
    <3>1. attempts[i] \in Attempt
      BY <1>0
    <3>2. attempts[i].wallet \in Wallets
      BY <3>1 DEF Attempt
    <3>3. QED
      BY <3>1, <3>2
  <2>2. GetSignature(attempts[i], ozone[attempts[i].wallet]) \in Attempt
    BY <2>1, GetSignatureType
  <2>3. attempts' \in Seq(Attempt)
    BY <1>6, <2>2, SetAttemptType DEF OzoneReply
  <2>4. DataOK'
    BY <1>6, <2>3 DEF OzoneReply
  <2>5. FlagsOK'
    BY <1>6, Zenon DEF OzoneReply, FlagsOK
  <2>6. QED
    BY <2>4, <2>5
<1>7. ASSUME NEW i \in DOMAIN attempts, ServerSign(i)
      PROVE  DataOK' /\ FlagsOK'
  <2> DEFINE a == attempts[i]
             k == conf.serverKey
  <2>1. a \in Attempt /\ k \in Wallets \cup {NoKey}
    BY <1>0 DEF Conf, Keys
  <2>2. k # NoKey => Sign(k, a.link, k, a.seq) \in Signature
    BY <2>1 DEF Sign, Signature, Attempt
  <2>3. attempts' \in Seq(Attempt)
    <3>1. IF k = a.wallet
          THEN [a EXCEPT !.pc = "prepare", !.sent = TRUE,
                         !.sig = Sign(k, a.link, k, a.seq)] \in Attempt
          ELSE [a EXCEPT !.pc = "prepare", !.sent = TRUE] \in Attempt
      BY <1>7, <2>1, <2>2, Zenon DEF ServerSign, Attempt, Pc
    <3>2. QED
      BY <1>7, <3>1, SetAttemptType DEF ServerSign
  <2>4. DataOK'
    BY <1>7, <2>3 DEF ServerSign
  <2>5. FlagsOK'
    BY <1>7, Zenon DEF ServerSign, FlagsOK
  <2>6. QED
    BY <2>4, <2>5
<1>8. ASSUME NEW i \in DOMAIN attempts, FetchFail(i)
      PROVE  DataOK' /\ FlagsOK'
  <2>1. [attempts[i] EXCEPT !.pc = "failed"] \in Attempt
    BY <1>0, Zenon DEF Attempt, Pc
  <2>2. attempts' \in Seq(Attempt)
    BY <1>8, <2>1, SetAttemptType DEF FetchFail
  <2>3. DataOK'
    BY <1>8, <2>2 DEF FetchFail
  <2>4. FlagsOK'
    BY <1>8, Zenon DEF FetchFail, FlagsOK
  <2>5. QED
    BY <2>3, <2>4
<1>9. ASSUME NEW i \in DOMAIN attempts, Deliver(i)
      PROVE  DataOK' /\ FlagsOK'
  <2>1. [attempts[i] EXCEPT !.pc = "done"] \in Attempt
    BY <1>0, Zenon DEF Attempt, Pc
  <2>2. attempts' \in Seq(Attempt)
    BY <1>9, <2>1, SetAttemptType DEF Deliver
  <2>3. [ok |-> attempts[i].ok, att |-> i] \in Info
    BY <1>0 DEF Info, Attempt
  <2>4. streamInfo' \in Info \cup {Null}
    BY <1>9, <2>3 DEF Deliver
  <2>5. DataOK'
    BY <1>9, <2>2, <2>4 DEF Deliver
  <2>6. FlagsOK'
    BY <1>9, Zenon DEF Deliver, FlagsOK
  <2>7. QED
    BY <2>5, <2>6
<1>10. ASSUME NEW i \in DOMAIN attempts, NetPrepare(i)
       PROVE  DataOK' /\ FlagsOK'
  <2>1. PICK ok \in BOOLEAN :
          /\ SetAttempt(i, [attempts[i] EXCEPT !.pc = "reply", !.ok = ok])
          /\ ozone' = IF ok THEN [ozone EXCEPT ![attempts[i].wallet] = @ + 1]
                      ELSE ozone
    BY <1>10, Zenon DEF NetPrepare
  <2>2. [attempts[i] EXCEPT !.pc = "reply", !.ok = ok] \in Attempt
    BY <1>0, Zenon DEF Attempt, Pc
  <2>3. attempts' \in Seq(Attempt)
    BY <2>1, <2>2, SetAttemptType
  <2>4. attempts[i].wallet \in Wallets
    BY <1>0 DEF Attempt
  <2>5. ozone' \in [Wallets -> Nat]
    BY <2>1, <2>4
  <2>6. DataOK'
    BY <1>10, <2>3, <2>5 DEF NetPrepare
  <2>7. FlagsOK'
    BY <1>10, Zenon DEF NetPrepare, FlagsOK
  <2>8. QED
    BY <2>6, <2>7
<1>11. ASSUME NEW w \in Wallets, OzoneBump(w)
       PROVE  DataOK' /\ FlagsOK'
  <2>1. DataOK'
    BY <1>11 DEF OzoneBump
  <2>2. FlagsOK'
    BY <1>11, Zenon DEF OzoneBump, FlagsOK
  <2>3. QED
    BY <2>1, <2>2
<1>12. CASE UNCHANGED vars
  <2>1. DataOK'
    BY <1>12 DEF vars
  <2>2. FlagsOK'
    BY <1>12, Zenon DEF vars, FlagsOK
  <2>3. QED
    BY <2>1, <2>2
<1>13. QED
  BY <1>1, <1>2, <1>3, <1>4, <1>5, <1>6, <1>7, <1>8, <1>9, <1>10, <1>11,
     <1>12 DEF Next

\* Type correctness: every reachable state has the types TypeOK gives.
THEOREM TypeCorrect == Spec => []TypeOK
BY InitTypeOK, NextTypeOK, PTL DEF Spec

-----------------------------------------------------------------------------
(***************************************************************************)
(* Authenticity of the prepare envelope.                                   *)
(***************************************************************************)

\* KeyPairContext publishes only context values owned by the deployment:
\* the key pair appears only when its address is the configured wallet.
LEMMA KeyPairUpdatesOwned ==
    ASSUME NEW c \in Conf, c = conf
    PROVE  \A k \in 1..Len(KeyPairUpdates(c)) : OwnedCtx(KeyPairUpdates(c)[k])
<1>1. CASE c.mnemonicKey # NoKey /\ c.mnemonicKey = c.walletAddress
  <2>1. KeyPairUpdates(c) =
          << [keyPair |-> c.mnemonicKey, walletAddress |-> Null],
             [keyPair |-> c.mnemonicKey, walletAddress |-> c.walletAddress] >>
    BY <1>1 DEF KeyPairUpdates
  <2>2. QED
    BY <1>1, <2>1 DEF OwnedCtx
<1>2. CASE ~(c.mnemonicKey # NoKey /\ c.mnemonicKey = c.walletAddress)
  <2>1. KeyPairUpdates(c) = << [keyPair |-> Null, walletAddress |-> c.walletAddress] >>
    BY <1>2 DEF KeyPairUpdates
  <2>2. QED
    BY <2>1 DEF OwnedCtx
<1>3. QED
  BY <1>1, <1>2

\* An attempt started from an owned context is good: it carries a key pair
\* only of its own wallet, and nothing is sent yet.
LEMMA StartAttemptGood ==
    ASSUME NEW c \in Ctx, NEW r \in Route, NEW m \in Nat, OwnedCtx(c),
           attempts \in Seq(Attempt),
           \A i \in DOMAIN attempts : Good(attempts[i])
    PROVE  \A i \in DOMAIN StartAttempt(c, r, m) : Good(StartAttempt(c, r, m)[i])
<1>1. CASE c.walletAddress # Null /\ r.linkType \in {FILE_HASH, SHARE_LINK}
  <2> DEFINE b == [mount |-> m, wallet |-> c.walletAddress, keyPair |-> c.keyPair,
                   linkType |-> r.linkType, link |-> r.link, pc |-> "ozone",
                   seq |-> 0, sig |-> Null, sent |-> FALSE, ok |-> FALSE]
  <2>1. Good(b)
    BY <1>1, Zenon DEF OwnedCtx, Good, AttemptShape
  <2>2. StartAttempt(c, r, m) = Append(attempts, b)
    BY <1>1 DEF StartAttempt
  <2>3. QED
    BY <2>1, <2>2
<1>2. CASE ~(c.walletAddress # Null /\ r.linkType \in {FILE_HASH, SHARE_LINK})
  BY <1>2 DEF StartAttempt
<1>3. QED
  BY <1>1, <1>2

\* Replacing one attempt by a good record keeps every attempt good.
LEMMA SetAttemptGood ==
    ASSUME attempts \in Seq(Attempt), NEW i \in DOMAIN attempts, NEW b,
           \A j \in DOMAIN attempts : Good(attempts[j]),
           Good(b), SetAttempt(i, b)
    PROVE  \A j \in DOMAIN attempts' : Good(attempts'[j])
BY DEF SetAttempt

\* getSignature on an attempt that has not sent anything: a local signature
\* is made with the attempt's own key pair over the sequence number just
\* read; a remote one waits, unsent; otherwise the request goes unsigned.
LEMMA GetSignatureGood ==
    ASSUME NEW a \in Attempt, NEW s \in Nat, Good(a), a.pc = "ozone"
    PROVE  Good(GetSignature(a, s))
<1>1. ~a.sent /\ a.sig = Null
  BY Zenon DEF Good, AttemptShape, Attempt
<1>2. CASE a.keyPair # Null
  <2>1. a.keyPair = a.wallet
    BY <1>2, Zenon DEF Good, AttemptShape, Attempt
  <2>2. GetSignature(a, s) = [a EXCEPT !.seq = s, !.pc = "prepare", !.sent = TRUE,
                                       !.sig = Sign(a.keyPair, a.link, a.wallet, s)]
    BY <1>2 DEF GetSignature
  <2> DEFINE b == GetSignature(a, s)
  <2>3. /\ b.wallet = a.wallet /\ b.link = a.link /\ b.keyPair = a.keyPair
        /\ b.seq = s /\ b.pc = "prepare" /\ b.sent = TRUE
        /\ b.sig = Sign(a.keyPair, a.link, a.wallet, s)
    BY <2>2, Zenon DEF Attempt
  <2>4. QED
    BY <2>1, <2>3, Zenon DEF Good, AttemptShape, ValidEnvelope
<1>3. CASE a.keyPair = Null /\ conf.signUrl
  <2>1. GetSignature(a, s) = [a EXCEPT !.seq = s, !.pc = "remote"]
    BY <1>3 DEF GetSignature
  <2>2. QED
    BY <1>1, <2>1, Zenon DEF Good, AttemptShape, Attempt
<1>5. CASE a.keyPair = Null /\ ~conf.signUrl
  <2>1. GetSignature(a, s) = [a EXCEPT !.seq = s, !.pc = "prepare", !.sent = TRUE]
    BY <1>5 DEF GetSignature
  <2>2. QED
    BY <1>1, <2>1, Zenon DEF Good, AttemptShape, Attempt
<1>4. QED
  BY <1>2, <1>3, <1>5

\* The signing service signs for the attempt's wallet only with that
\* wallet's key; otherwise the request goes out with no signature.
LEMMA ServerSignGood ==
    ASSUME NEW a \in Attempt, NEW k, Good(a), a.pc = "remote"
    PROVE  Good(IF k = a.wallet
                THEN [a EXCEPT !.pc = "prepare", !.sent = TRUE,
                               !.sig = Sign(k, a.link, k, a.seq)]
                ELSE [a EXCEPT !.pc = "prepare", !.sent = TRUE])
<1>1. ~a.sent /\ a.sig = Null
  BY Zenon DEF Good, AttemptShape, Attempt
<1>2. CASE k = a.wallet
  BY <1>1, <1>2, Zenon DEF Good, AttemptShape, Attempt, ValidEnvelope, Sign
<1>3. CASE k # a.wallet
  BY <1>1, <1>3, Zenon DEF Good, AttemptShape, Attempt
<1>4. QED
  BY <1>2, <1>3

\* Moving an attempt to a later stage (reply, done, failed) leaves what it
\* sent untouched.
LEMMA AdvanceGood ==
    ASSUME NEW a \in Attempt, Good(a), NEW p \in {"reply", "done", "failed"},
           NEW ok \in BOOLEAN
    PROVE  /\ Good([a EXCEPT !.pc = p])
           /\ Good([a EXCEPT !.pc = p, !.ok = ok])
BY Zenon DEF Good, AttemptShape, Attempt, ValidEnvelope

LEMMA InitIInv == Init => IInv
<1> SUFFICES ASSUME Init PROVE IInv
  OBVIOUS
<1>1. TypeOK
  BY InitTypeOK
<1>2. CtxOwned
  BY DEF Init, CtxOwned, OwnedCtx
<1>3. AllGood
  BY DEF Init, AllGood
<1>4. QED
  BY <1>1, <1>2, <1>3 DEF IInv

LEMMA NextIInv == IInv /\ [Next]_vars => IInv'
<1> SUFFICES ASSUME TypeOK, CtxOwned, AllGood, [Next]_vars
             PROVE  TypeOK' /\ CtxOwned' /\ AllGood'
  BY DEF IInv
<1>0. TypeOK'
  BY NextTypeOK
<1> SUFFICES CtxOwned' /\ AllGood'
  BY <1>0
<1>a. /\ conf \in Conf /\ ctx \in Ctx /\ pending \in Seq(Ctx)
      /\ attempts \in Seq(Attempt) /\ route \in Route /\ mounts \in Nat
      /\ \A i \in DOMAIN attempts : attempts[i] \in Attempt
  BY DEF TypeOK
<1>1. CASE ProviderResolve
  <2> DEFINE ups == KeyPairUpdates(conf)
  <2>1. PICK batched \in BOOLEAN :
          /\ ctx' = IF batched THEN ups[Len(ups)] ELSE Head(ups)
          /\ pending' = IF batched THEN <<>> ELSE Tail(ups)
          /\ attempts' = IF mounted /\ ctx' # ctx
                         THEN StartAttempt(ctx', route, mounts)
                         ELSE attempts
    BY <1>1, Zenon DEF ProviderResolve, RenderContext
  <2>2. /\ ups \in Seq(Ctx) /\ Len(ups) \in {1, 2} /\ ups[Len(ups)] \in Ctx
        /\ \A k \in 1..Len(ups) : OwnedCtx(ups[k])
    BY <1>a, KeyPairUpdatesType, KeyPairUpdatesOwned
  <2>3. ctx' \in Ctx /\ OwnedCtx(ctx')
    BY <2>1, <2>2
  <2>4. \A k \in 1..Len(pending') : OwnedCtx(pending'[k])
    BY <2>1, <2>2
  <2>5. CtxOwned'
    BY <1>1, <2>3, <2>4 DEF ProviderResolve, CtxOwned, OwnedCtx
  <2>6. AllGood'
    BY <1>a, <2>1, <2>3, StartAttemptGood DEF AllGood
  <2>7. QED
    BY <2>5, <2>6
<1>2. CASE ProviderFail
  BY <1>2 DEF ProviderFail, CtxOwned, OwnedCtx, AllGood
<1>3. CASE CommitPending
  <2>1. Head(pending) \in Ctx /\ OwnedCtx(Head(pending))
    BY <1>3, <1>a DEF CommitPending, CtxOwned
  <2>2. CtxOwned'
    BY <1>3, <1>a, <2>1 DEF CommitPending, CtxOwned, OwnedCtx
  <2>3. attempts' = IF mounted /\ Head(pending) # ctx
                    THEN StartAttempt(Head(pending), route, mounts)
                    ELSE attempts
    BY <1>3 DEF CommitPending, RenderContext
  <2>4. AllGood'
    BY <1>a, <2>1, <2>3, StartAttemptGood DEF AllGood
  <2>5. QED
    BY <2>2, <2>4
<1>4. CASE Mount
  <2>1. PICK r \in Route : attempts' = StartAttempt(ctx, r, mounts + 1)
    BY <1>4 DEF Mount
  <2>2. AllGood'
    BY <1>a, <2>1, StartAttemptGood DEF AllGood, CtxOwned
  <2>3. CtxOwned'
    BY <1>4 DEF Mount, CtxOwned, OwnedCtx
  <2>4. QED
    BY <2>2, <2>3
<1>5. CASE Unmount
  BY <1>5 DEF Unmount, CtxOwned, OwnedCtx, AllGood
<1>6. ASSUME NEW i \in DOMAIN attempts, OzoneReply(i)
      PROVE  CtxOwned' /\ AllGood'
  <2>1. attempts[i].wallet \in Wallets
    BY <1>a DEF Attempt
  <2>2. Good(GetSignature(attempts[i], ozone[attempts[i].wallet]))
    BY <1>6, <1>a, <2>1, GetSignatureGood DEF OzoneReply, AllGood, TypeOK
  <2>3. AllGood'
    BY <1>6, <1>a, <2>2, SetAttemptGood DEF OzoneReply, AllGood
  <2>4. CtxOwned'
    BY <1>6 DEF OzoneReply, CtxOwned, OwnedCtx
  <2>5. QED
    BY <2>3, <2>4
<1>7. ASSUME NEW i \in DOMAIN attempts, ServerSign(i)
      PROVE  CtxOwned' /\ AllGood'
  <2> DEFINE a == attempts[i]
             k == conf.serverKey
  <2>1. Good(IF k = a.wallet
             THEN [a EXCEPT !.pc = "prepare", !.sent = TRUE,
                            !.sig = Sign(k, a.link, k, a.seq)]
             ELSE [a EXCEPT !.pc = "prepare", !.sent = TRUE])
    BY <1>7, <1>a, ServerSignGood DEF ServerSign, AllGood
  <2>2. AllGood'
    BY <1>7, <1>a, <2>1, SetAttemptGood DEF ServerSign, AllGood
  <2>3. CtxOwned'
    BY <1>7 DEF ServerSign, CtxOwned, OwnedCtx
  <2>4. QED
    BY <2>2, <2>3
<1>8. ASSUME NEW i \in DOMAIN attempts, FetchFail(i)
      PROVE  CtxOwned' /\ AllGood'
  <2>1. Good([attempts[i] EXCEPT !.pc = "failed"])
    BY <1>a, AdvanceGood DEF AllGood
  <2>2. AllGood'
    BY <1>8, <1>a, <2>1, SetAttemptGood DEF FetchFail, AllGood
  <2>3. CtxOwned'
    BY <1>8 DEF FetchFail, CtxOwned, OwnedCtx
  <2>4. QED
    BY <2>2, <2>3
<1>9. ASSUME NEW i \in DOMAIN attempts, Deliver(i)
      PROVE  CtxOwned' /\ AllGood'
  <2>1. Good([attempts[i] EXCEPT !.pc = "done"])
    BY <1>a, AdvanceGood DEF AllGood
  <2>2. AllGood'
    BY <1>9, <1>a, <2>1, SetAttemptGood DEF Deliver, AllGood
  <2>3. CtxOwned'
    BY <1>9 DEF Deliver, CtxOwned, OwnedCtx
  <2>4. QED
    BY <2>2, <2>3
<1>10. ASSUME NEW i \in DOMAIN attempts, NetPrepare(i)
       PROVE  CtxOwned' /\ AllGood'
  <2>1. PICK ok \in BOOLEAN :
          SetAttempt(i, [attempts[i] EXCEPT !.pc = "reply", !.ok = ok])
    BY <1>10, Zenon DEF NetPrepare
  <2>2. Good([attempts[i] EXCEPT !.pc = "reply", !.ok = ok])
    BY <1>a, AdvanceGood DEF AllGood
  <2>3. AllGood'
    BY <1>a, <2>1, <2>2, SetAttemptGood DEF AllGood
  <2>4. CtxOwned'
    BY <1>10 DEF NetPrepare, CtxOwned, OwnedCtx
  <2>5. QED
    BY <2>3, <2>4
<1>11. ASSUME NEW w \in Wallets, OzoneBump(w)
       PROVE  CtxOwned' /\ AllGood'
  BY <1>11 DEF OzoneBump, CtxOwned, OwnedCtx, AllGood
<1>12. CASE UNCHANGED vars
  BY <1>12 DEF vars, CtxOwned, OwnedCtx, AllGood
<1>13. QED
  BY <1>1, <1>2, <1>3, <1>4, <1>5, <1>6, <1>7, <1>8, <1>9, <1>10, <1>11,
     <1>12 DEF Next

\* Every prepare request sent with a signature, locally made or obtained
\* from the signing service, is signed by the key of the wallet it names
\* over its own link, wallet and sequence number (EnvelopeAuthentic), for
\* every set of wallets and links and every deployment configuration.
THEOREM EnvelopeAuthenticInvariant == Spec => []EnvelopeAuthentic
<1>1. IInv => EnvelopeAuthentic
  BY DEF IInv, AllGood, Good, EnvelopeAuthentic
<1>2. QED
  BY InitIInv, NextIInv, <1>1, PTL DEF Spec

=============================================================================
