---------------------------- MODULE AcsTransport ----------------------------
(***************************************************************************)
(* The CWMP HTTP transport (src/internal/cwmp/transport): what one CPE's   *)
(* sessions send to the ACS, and how a challenge is answered.  A digest is *)
(* the credentials, the nonce and the count it was computed from; a cookie *)
(* is the number of the session the ACS set it in.  The ACS is external:   *)
(* it accepts an answer to its current nonce, each count once, and every   *)
(* challenge of its has a nonce of its own.                                *)
(***************************************************************************)
EXTENDS Naturals

CONSTANTS
    Identities,    \* the credentials: [user, pass]
    MaxSessions    \* bound

VARIABLES
    stored,      \* the tree's ManagementServer.Username and Password
    expected,    \* the credentials the ACS accepts
    nonce,       \* the ACS's current nonce
    counts,      \* the counts of it the ACS has seen
    auth,        \* Transport.auth, NoAuth when nil
    jar,         \* the cookies the transport holds
    session,     \* the number of the session
    sending,     \* where Send is
    upset,       \* history: the ACS or the tree changed during this Send
    acsLeft      \* what may still happen (bounds)

acsVars == <<stored, expected, nonce, counts, auth, jar, session, sending,
             upset, acsLeft>>

NoAuth == [kind |-> "none"]

SpendAcs(what) == acsLeft[what] > 0 /\ acsLeft' = [acsLeft EXCEPT ![what] = @ - 1]

(* resetSession, at the start of every session.                             *)
ResetSession ==
    /\ sending.at = "idle"
    /\ session < MaxSessions
    /\ SpendAcs("sessions")
    /\ session' = session + 1
    /\ auth' = NoAuth
    /\ jar' = {}
    /\ UNCHANGED <<stored, expected, nonce, counts, sending, upset>>

(* authorizationHeader: every request uses up a count of the nonce.         *)
authorizationHeader ==
    IF auth.kind = "Digest" THEN [auth EXCEPT !.nc = @ + 1] ELSE auth

(* do: the request with the cached auth and the jar's cookies.              *)
Do(place) ==
    /\ auth' = authorizationHeader
    /\ sending' = [at |-> place, header |-> auth', cookies |-> jar]

Send ==
    /\ sending.at = "idle"
    /\ session > 0
    /\ SpendAcs("sends")
    /\ Do("first")
    /\ upset' = FALSE
    /\ UNCHANGED <<stored, expected, nonce, counts, jar, session>>

Awaiting == sending.at \in {"first", "second"}

(* What the ACS does with a request (external).                             *)
Authorized(h) ==
    \/ h.kind = "Basic" /\ h.login = expected
    \/ /\ h.kind = "Digest"
       /\ h.login = expected
       /\ h.nonce = nonce
       /\ h.nc \notin counts

(* An authorized request is answered, with a session cookie; a status other *)
(* than success is an error of Send all the same.                           *)
Answered ==
    /\ Awaiting
    /\ Authorized(sending.header)
    /\ counts' = IF sending.header.kind = "Digest"
                   THEN counts \cup {sending.header.nc} ELSE counts
    /\ jar' = sending.cookies \cup {session}
    /\ \E end \in {"idle", "failed"} : sending' = [sending EXCEPT !.at = end]
    /\ UNCHANGED <<stored, expected, nonce, auth, session, upset, acsLeft>>

(* A request without credentials the ACS accepts gets 401 and a challenge.  *)
Challenged ==
    /\ Awaiting
    /\ ~Authorized(sending.header)
    /\ nonce' = nonce + 1
    /\ counts' = {}
    /\ \E kind \in {"Basic", "Digest"} :
         sending' = [sending EXCEPT !.at = IF @ = "first" THEN "401" ELSE "refused",
                                    !.header = [kind |-> kind, nonce |-> nonce + 1]]
    /\ UNCHANGED <<stored, expected, auth, jar, session, upset, acsLeft>>

(* A challenge the CPE cannot parse or support, a 401 without one, a lost   *)
(* connection or the timeout.                                               *)
SendFails ==
    /\ sending.at \in {"first", "401", "second"}
    /\ SpendAcs("failures")
    /\ sending' = [sending EXCEPT !.at = "failed"]
    /\ UNCHANGED <<stored, expected, nonce, counts, auth, jar, session, upset>>

(* Send that answers a challenge only when it has cached nothing yet (a      *)
(* mutant).                                                                  *)
AnswerFirstChallenge ==
    /\ sending.at = "401"
    /\ IF auth = NoAuth
         THEN /\ auth' = [kind |-> sending.header.kind, login |-> stored,
                          nonce |-> sending.header.nonce, nc |-> 1]
              /\ sending' = [sending EXCEPT !.at = "second", !.header = auth']
         ELSE auth' = auth /\ sending' = [sending EXCEPT !.at = "refused"]
    /\ UNCHANGED <<stored, expected, nonce, counts, jar, session, upset, acsLeft>>

(* The challenge is answered once, with the credentials of the moment, and  *)
(* the same body is sent again.                                             *)
AnswerChallenge ==
    /\ sending.at = "401"
    /\ auth' = [kind |-> sending.header.kind, login |-> stored,
                nonce |-> sending.header.nonce, nc |-> 1]
    /\ sending' = [sending EXCEPT !.at = "second", !.header = auth', !.cookies = jar]
    /\ UNCHANGED <<stored, expected, nonce, counts, jar, session, upset, acsLeft>>

(* Send has returned an error and the session ends.                         *)
SessionFails ==
    /\ sending.at \in {"failed", "refused"}
    /\ sending' = [sending EXCEPT !.at = "idle"]
    /\ UNCHANGED <<stored, expected, nonce, counts, auth, jar, session, upset,
                   acsLeft>>

(* The ACS rotates its nonce; the ACS's operator, or a SetParameterValues,  *)
(* changes one side's credentials.                                          *)
Rotate ==
    /\ SpendAcs("rotations")
    /\ \/ nonce' = nonce + 1 /\ counts' = {} /\ UNCHANGED <<stored, expected>>
       \/ expected' \in Identities \ {expected} /\ UNCHANGED <<stored, nonce, counts>>
       \/ stored' \in Identities \ {stored} /\ UNCHANGED <<expected, nonce, counts>>
    /\ upset' = TRUE
    /\ UNCHANGED <<auth, jar, session, sending>>

AcsInit(logins, left_) ==
    /\ stored \in logins
    /\ expected \in logins
    /\ nonce = 0
    /\ counts = {}
    /\ auth = NoAuth
    /\ jar = {}
    /\ session = 0
    /\ sending = [at |-> "idle", header |-> NoAuth, cookies |-> {}]
    /\ upset = FALSE
    /\ acsLeft = left_

AcsStep ==
    \/ ResetSession \/ Send \/ Answered \/ Challenged \/ SendFails
    \/ AnswerChallenge \/ SessionFails \/ Rotate

-----------------------------------------------------------------------------

(* Credentials that are right get a request through, also when the ACS has  *)
(* rotated its nonce or either side has changed its credentials since the   *)
(* cached answer was made: Send ends in a 401 only if the two sides         *)
(* disagree or something changed while it was under way (Send: "the CPE     *)
(* re-answers the server's current challenge with its current credentials   *)
(* exactly once").  And a request never carries another session's cookies   *)
(* (resetSession).                                                          *)
GoodCredentialsGetIn ==
    /\ sending.at = "refused" => upset \/ stored # expected
    /\ Awaiting => sending.cookies \subseteq {session}
=============================================================================
