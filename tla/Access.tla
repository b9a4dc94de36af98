------------------------------- MODULE Access -------------------------------
(***************************************************************************)
(* How the ACS and one CPE reach each other: the connection request        *)
(* listener and the STUN client, which share the tree's connection request *)
(* credentials, and the transport the CPE's sessions use.                  *)
(***************************************************************************)
EXTENDS StunClient, AcsTransport

CONSTANT Plans   \* what may happen, and how often: the instances to check

\* A profile without the STUN leaves asks for no loop.
ASSUME PlanAssumption ==
    \A p \in Plans :
      /\ p.scheme \in {"none", "basic", "digest"} /\ p.login \in Logins
      /\ p.leaves \in [on : BOOLEAN, server : Servers]
      /\ p.factory \in [leaves : [on : BOOLEAN, server : Servers],
                        login : Logins, stored : Identities]
      /\ p.stun \/ ~wants(p.leaves)

VARIABLE factory   \* the profile's template: the leaves a factory reset restores

vars == <<crVars, stunVars, acsVars, factory>>

(* factoryReset puts a copy of the template in the place of the tree, under *)
(* the tree's lock: the settings, the credentials of both directions and    *)
(* what a STUN loop reported.  No observer is told, the loops run on and    *)
(* the transport keeps what it has cached.                                  *)
FactoryReset ==
    /\ Spend("resets")
    /\ leaves' = factory.leaves
    /\ login' = factory.login
    /\ stored' = factory.stored
    /\ natDetected' = FALSE
    /\ udpAddress' = Nowhere
    /\ overwritten' = {"nat", "address"}
    /\ unseen' = (unseen \/ leaves' # leaves)
    /\ upset' = TRUE
    /\ UNCHANGED <<serving, scheme, clock, nonces, issued, lastAllowed, handler,
                   admitted, told>>
    /\ UNCHANGED <<task, running, settings, cur, started, loop, binding, wire, last,
                   taken, stale, observing, mixed>>
    /\ UNCHANGED <<expected, nonce, counts, auth, jar, session, sending, acsLeft>>
    /\ UNCHANGED factory

Init ==
    \E p \in Plans :
      /\ CrInit(p.serving, p.scheme, p.login, p.left)
      /\ StunInit(p.stun, p.leaves)
      /\ AcsInit(p.identities, p.acs)
      /\ factory = p.factory

Next ==
    \/ CrStep /\ UNCHANGED <<stunVars, acsVars, factory>>
    \/ StunStep /\ UNCHANGED <<acsVars, factory>>
    \/ AcsStep /\ UNCHANGED <<crVars, stunVars, factory>>
    \/ FactoryReset

Spec == Init /\ [][Next]_vars /\ StunFairness
=============================================================================
