--------------------------- MODULE AdminPanelProofs ---------------------------
(***************************************************************************)
(* Proofs about the admin panel helper (main.js) in any number of tabs,    *)
(* for every period and bound on the intervals of tips(): type             *)
(* correctness and the bound on how long an alert stays up.                *)
(***************************************************************************)
EXTENDS AdminPanel, SequenceTheorems, TLAPS

\* Every alert shown has an interval of its page that is due no later
\* than the end of the alert's period: the one its own tips() started,
\* unless an earlier one fires first.
AlertCovered ==
    \A t \in Tabs, d \in Doms :
        alerts[t][d] # NoAlert =>
            \E k \in DOMAIN timers[t] : timers[t][k] + alerts[t][d] <= Period

-----------------------------------------------------------------------------
(***************************************************************************)
(* Type correctness.                                                       *)
(***************************************************************************)

\* One tick takes a sequence of due times, none due yet, to one of the
\* same length with each one less.
LEMMA CountDown ==
    ASSUME NEW P \in Nat, NEW s \in Seq(0..P),
           \A k \in DOMAIN s : s[k] > 0
    PROVE  /\ [k \in DOMAIN s |-> s[k] - 1] \in Seq(0..P)
           /\ DOMAIN [k \in DOMAIN s |-> s[k] - 1] = DOMAIN s
<1>1. DOMAIN s = 1..Len(s) /\ Len(s) \in Nat
  OBVIOUS
<1>2. [k \in DOMAIN s |-> s[k] - 1] \in [1..Len(s) -> 0..P]
  BY <1>1
<1>3. QED
  BY <1>1, <1>2

LEMMA InitTypeOK == Init => TypeOK
BY AdminPanelAssumption DEF Init, TypeOK, NoAlerts

LEMMA NextTypeOK == TypeOK /\ [Next]_vars => TypeOK'
<1> SUFFICES ASSUME TypeOK, [Next]_vars PROVE TypeOK'
  OBVIOUS
<1> USE AdminPanelAssumption
<1>1. ASSUME NEW t \in Tabs, NEW p \in Pages, Navigate(t, p)
      PROVE  TypeOK'
  BY <1>1 DEF Navigate, TypeOK
<1>2. ASSUME NEW t \in Tabs, Load(t) PROVE TypeOK'
  BY <1>2 DEF Load, TypeOK, InitRedirect, NoAlerts, Pages
<1>3. ASSUME NEW t \in Tabs, Login(t) PROVE TypeOK'
  <2>1. PICK tok \in Tokens \cup {Empty} :
          \/ tok # Empty /\ storage' = tok /\ target' = [target EXCEPT ![t] = "panel"]
          \/ UNCHANGED <<storage, target>>
    BY <1>3, Zenon DEF Login
  <2>2. storage' \in Tokens \cup {Null} /\ target' \in [Tabs -> Pages \cup {Null}]
    BY <2>1 DEF TypeOK, Pages
  <2>3. UNCHANGED <<page, token, timers, alerts, calls>>
    BY <1>3 DEF Login
  <2>4. QED
    BY <2>2, <2>3 DEF TypeOK
<1>4. ASSUME NEW t \in Tabs, Logout(t) PROVE TypeOK'
  BY <1>4 DEF Logout, TypeOK, InitRedirect, Pages
<1>5. ASSUME NEW t \in Tabs, IsLogined(t) PROVE TypeOK'
  BY <1>5 DEF IsLogined, TypeOK, Pages
<1>6. ASSUME NEW t \in Tabs, Call(t) PROVE TypeOK'
  BY <1>6 DEF Call, TypeOK, Request
<1>7. ASSUME NEW t \in Tabs, NEW d \in Doms, Tips(t, d) PROVE TypeOK'
  BY <1>7 DEF Tips, TypeOK
<1>8. ASSUME NEW t \in Tabs, NEW k \in DOMAIN timers[t], Fire(t, k)
      PROVE  TypeOK'
  BY <1>8 DEF Fire, TypeOK, NoAlerts
<1>9. CASE Tick
  <2>1. \A t \in Tabs : [k \in DOMAIN timers[t] |-> timers[t][k] - 1] \in Seq(0..Period)
    BY <1>9, CountDown DEF Tick, TypeOK
  <2>2. QED
    BY <1>9, <2>1 DEF Tick, TypeOK
<1>10. CASE UNCHANGED vars
  BY <1>10 DEF vars, TypeOK
<1>11. QED
  BY <1>1, <1>2, <1>3, <1>4, <1>5, <1>6, <1>7, <1>8, <1>9, <1>10 DEF Next

\* The panel's state keeps its types in every reachable state.
THEOREM PanelTypeCorrect == Spec => []TypeOK
BY InitTypeOK, NextTypeOK, PTL DEF Spec
-----------------------------------------------------------------------------
(***************************************************************************)
(* Every alert is closed within a period.                                  *)
(***************************************************************************)

LEMMA NextAlertCovered ==
    TypeOK /\ AlertCovered /\ [Next]_vars => AlertCovered'
<1> SUFFICES ASSUME TypeOK, AlertCovered, [Next]_vars
             PROVE  AlertCovered'
  OBVIOUS
<1> USE AdminPanelAssumption
<1>0. /\ timers \in [Tabs -> Seq(0..Period)]
      /\ alerts \in [Tabs -> [Doms -> Nat \cup {NoAlert}]]
  BY DEF TypeOK
<1>a. ASSUME UNCHANGED <<timers, alerts>> PROVE AlertCovered'
  BY <1>a DEF AlertCovered
<1>1. ASSUME NEW t \in Tabs, NEW p \in Pages, Navigate(t, p)
      PROVE  AlertCovered'
  BY <1>1, <1>a DEF Navigate
<1>2. ASSUME NEW t \in Tabs, Load(t) PROVE AlertCovered'
  BY <1>0, <1>2 DEF Load, AlertCovered, NoAlerts
<1>3. ASSUME NEW t \in Tabs, Login(t) PROVE AlertCovered'
  BY <1>3, <1>a DEF Login
<1>4. ASSUME NEW t \in Tabs, Logout(t) PROVE AlertCovered'
  BY <1>4, <1>a DEF Logout
<1>5. ASSUME NEW t \in Tabs, IsLogined(t) PROVE AlertCovered'
  BY <1>5, <1>a DEF IsLogined
<1>6. ASSUME NEW t \in Tabs, Call(t) PROVE AlertCovered'
  BY <1>6, <1>a DEF Call
<1>7. ASSUME NEW t \in Tabs, NEW d \in Doms, Tips(t, d) PROVE AlertCovered'
  <2> SUFFICES ASSUME NEW u \in Tabs, NEW e \in Doms, alerts'[u][e] # NoAlert
               PROVE  \E k \in DOMAIN timers'[u] : timers'[u][k] + alerts'[u][e] <= Period
    BY DEF AlertCovered
  <2>1. timers'[t] = Append(timers[t], Period)
        /\ alerts'[t] = [alerts[t] EXCEPT ![d] = 0]
        /\ \A v \in Tabs \ {t} : timers'[v] = timers[v] /\ alerts'[v] = alerts[v]
    BY <1>0, <1>7 DEF Tips
  <2>2. CASE u = t /\ e = d
    <3>1. Len(timers[t]) + 1 \in DOMAIN timers'[t]
          /\ timers'[t][Len(timers[t]) + 1] = Period /\ alerts'[t][d] = 0
      BY <1>0, <2>1
    <3>2. QED
      BY <2>2, <3>1
  <2>3. CASE u = t /\ e # d
    <3>1. alerts'[t][e] = alerts[t][e]
      BY <1>0, <2>1, <2>3
    <3>2. PICK k \in DOMAIN timers[t] : timers[t][k] + alerts[t][e] <= Period
      BY <2>3, <3>1 DEF AlertCovered
    <3>3. k \in DOMAIN timers'[t] /\ timers'[t][k] = timers[t][k]
      BY <1>0, <2>1
    <3>4. QED
      BY <2>3, <3>1, <3>2, <3>3
  <2>4. CASE u # t
    BY <2>1, <2>4 DEF AlertCovered
  <2>5. QED
    BY <2>2, <2>3, <2>4
<1>8. ASSUME NEW t \in Tabs, NEW k \in DOMAIN timers[t], Fire(t, k)
      PROVE  AlertCovered'
  BY <1>0, <1>8 DEF Fire, AlertCovered, NoAlerts
<1>9. CASE Tick
  <2> SUFFICES ASSUME NEW u \in Tabs, NEW e \in Doms, alerts'[u][e] # NoAlert
               PROVE  \E k \in DOMAIN timers'[u] : timers'[u][k] + alerts'[u][e] <= Period
    BY DEF AlertCovered
  <2>1. alerts[u][e] # NoAlert /\ alerts'[u][e] = alerts[u][e] + 1
    BY <1>0, <1>9 DEF Tick
  <2>2. PICK k \in DOMAIN timers[u] : timers[u][k] + alerts[u][e] <= Period
    BY <2>1 DEF AlertCovered
  <2>3. k \in DOMAIN timers'[u] /\ timers'[u][k] = timers[u][k] - 1
    BY <1>0, <1>9 DEF Tick
  <2>4. alerts[u][e] \in Nat /\ timers[u][k] \in Nat
    BY <1>0, <2>1
  <2>5. QED
    BY <2>1, <2>2, <2>3, <2>4
<1>10. CASE UNCHANGED vars
  BY <1>10, <1>a DEF vars
<1>11. QED
  BY <1>1, <1>2, <1>3, <1>4, <1>5, <1>6, <1>7, <1>8, <1>9, <1>10 DEF Next

\* Every alert tips() shows is dismissed at most 1000 ms (Period ticks)
\* after it was shown, however many intervals earlier calls left running:
\* the interval its own call started is due by then.
THEOREM AlertClosedWithinPeriodInvariant == Spec => []AlertClosedWithinPeriod
<1>1. Init => AlertCovered
  BY DEF Init, AlertCovered, NoAlerts
<1>2. TypeOK /\ AlertCovered => AlertClosedWithinPeriod
  <2> SUFFICES ASSUME TypeOK, AlertCovered, NEW t \in Tabs, NEW d \in Doms,
                      alerts[t][d] # NoAlert
               PROVE  alerts[t][d] <= Period
    BY DEF AlertClosedWithinPeriod
  <2>1. PICK k \in DOMAIN timers[t] : timers[t][k] + alerts[t][d] <= Period
    BY DEF AlertCovered
  <2>2. timers[t] \in Seq(0..Period) /\ alerts[t][d] \in Nat \cup {NoAlert}
    BY DEF TypeOK
  <2>3. timers[t][k] \in Nat /\ alerts[t][d] \in Nat
    <3>0. k \in 1..Len(timers[t])
      BY <2>2
    <3>1. timers[t][k] \in 0..Period
      BY <2>2, <3>0, ElementOfSeq
    <3>2. QED
      BY <2>2, <3>1
  <2>4. QED
    BY <2>1, <2>3, AdminPanelAssumption
<1>3. QED
  BY <1>1, <1>2, InitTypeOK, NextTypeOK, NextAlertCovered, PTL DEF Spec
=============================================================================
