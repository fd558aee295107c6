-------------------------- MODULE SessionLifecycle --------------------------
(***************************************************************************)
(* What the stream session controller promises (spec 3 and 4.4), stated   *)
(* without any of its machinery: a session is Idle, AwaitingIdentity,     *)
(* Preparing, Ready, Failed or Disposed. It prepares exactly when it has  *)
(* both an identity and a link it can prepare, re-enters Preparing on     *)
(* every identity change and on nothing else (no automatic retry), and    *)
(* reaches Ready or Failed only from Preparing. A new navigation starts a *)
(* new session once the previous one is disposed.                         *)
(***************************************************************************)
CONSTANTS
    Identities,  \* the wallet identities a session can be bound to
    NoIdentity   \* no wallet identity resolved yet

VARIABLES
    phase,       \* the session state of spec 3
    identity,    \* the wallet identity currently published
    linkKnown    \* the route names a link type the controller can prepare

vars == <<phase, identity, linkKnown>>

Live == {"AwaitingIdentity", "Preparing", "Ready", "Failed"}

TypeOK ==
    /\ phase \in {"Idle", "Disposed"} \cup Live
    /\ identity \in Identities \cup {NoIdentity}
    /\ linkKnown \in BOOLEAN

\* What a session does with the identity and link it has: prepare if it can.
Entered(id, known) ==
    IF id # NoIdentity /\ known THEN "Preparing" ELSE "AwaitingIdentity"

Init ==
    /\ phase = "Idle"
    /\ identity = NoIdentity
    /\ linkKnown \in BOOLEAN

\* Mount on a route: the session starts, and prepares at once when the
\* identity and the link are already known.
Start ==
    /\ phase \in {"Idle", "Disposed"}
    /\ \E known \in BOOLEAN :
          /\ linkKnown' = known
          /\ phase' = Entered(identity, known)
    /\ UNCHANGED identity

\* The identity changes. A live session re-enters Preparing when it can
\* prepare for the new identity, even if already Ready or Failed.
IdentityChange ==
    /\ \E id \in Identities \cup {NoIdentity} :
          /\ id # identity
          /\ identity' = id
          /\ phase' = IF phase \in Live /\ id # NoIdentity /\ linkKnown
                      THEN "Preparing" ELSE phase
    /\ UNCHANGED linkKnown

\* The preparation answers.
Succeed ==
    /\ phase = "Preparing"
    /\ phase' = "Ready"
    /\ UNCHANGED <<identity, linkKnown>>

Fail ==
    /\ phase = "Preparing"
    /\ phase' = "Failed"
    /\ UNCHANGED <<identity, linkKnown>>

\* Navigation away or player disposal.
Dispose ==
    /\ phase \in Live
    /\ phase' = "Disposed"
    /\ UNCHANGED <<identity, linkKnown>>

Next == Start \/ IdentityChange \/ Succeed \/ Fail \/ Dispose

Spec == Init /\ [][Next]_vars
=============================================================================
