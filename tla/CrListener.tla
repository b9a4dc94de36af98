----------------------------- MODULE CrListener -----------------------------
(***************************************************************************)
(* The connection request listener (src/internal/cwmp/cr): one CPE's       *)
(* endpoint, its HTTP handlers (listener.go) and its Basic or Digest       *)
(* authenticator (auth.go).  Each caller's request runs on a handler       *)
(* goroutine of its own; they share the nonce store and the throttle.      *)
(*                                                                         *)
(* A nonce is the number of the challenge that issued it.  A response      *)
(* digest is the credentials it was computed with.  Time is in ticks,      *)
(* PerSecond of them to the second that Retry-After counts in.             *)
(***************************************************************************)
EXTENDS Naturals, Integers, Sequences, FiniteSets, FiniteSetsExt

CONSTANTS
    Callers,        \* the requests that can be in a handler at once
    Logins,         \* the credentials the tree may hold: [user, pass]
    Counts,         \* the nonce counts a caller may send
    Throttle,       \* Endpoint.Throttle, in ticks
    NonceTTL,       \* DigestOptions.NonceTTL, in ticks
    PerSecond       \* ticks in a second

ASSUME ThrottleAssumption == Throttle \in Nat /\ NonceTTL \in Nat
ASSUME TickAssumption == PerSecond \in Nat \ {0}

VARIABLES
    serving,      \* the listener: "none", "new", "registered", "up" or "down"
    scheme,       \* the profile's scheme: "none", "basic" or "digest"
    login,        \* the tree's ConnectionRequestUsername and Password
    clock,        \* time.Now
    nonces,       \* digestAuth.nonces: per nonce, its issue time and counts
    issued,       \* how many challenges have been issued
    lastAllowed,  \* endpointState.lastAllowed (NotYet while it is zero)
    handler,      \* per caller, where its handler is
    admitted,     \* history: the (nonce, nc) pairs that authenticated
    told,         \* history: the requests sent away since one was accepted
    left          \* what may still happen (bounds)

crVars == <<serving, scheme, login, clock, nonces, issued, lastAllowed,
            handler, admitted, told, left>>

NotYet == -1
Idle   == [at |-> "idle"]
NoUser == ""

Spend(what) == left[what] > 0 /\ left' = [left EXCEPT ![what] = @ - 1]

At(c, place) == handler[c].at = place

(* What a caller can put in the Authorization header: Basic credentials,    *)
(* the answer to a challenge, which may come again or be made with other    *)
(* credentials, or nothing the authenticator supports.                      *)
Headers ==
    LET known == {l \in Logins : l.user # NoUser} IN
    [form : {"other"}]
      \cup [form : {"basic"}, login : known]
      \cup [form : {"digest"}, login : known, nonce : 1 .. issued, nc : Counts]

-----------------------------------------------------------------------------
(* Register, Start and Shutdown.                                            *)

Register ==
    /\ serving = "new"
    /\ serving' = "registered"
    /\ UNCHANGED <<scheme, login, clock, nonces, issued, lastAllowed, handler,
                   admitted, told, left>>

Start ==
    /\ serving = "registered"
    /\ serving' \in {"up", "down"}      \* the socket binds, or the run ends
    /\ UNCHANGED <<scheme, login, clock, nonces, issued, lastAllowed, handler,
                   admitted, told, left>>

(* Handlers in progress go on to their end.                                 *)
Shutdown ==
    /\ serving = "up"
    /\ Spend("shutdowns")
    /\ serving' = "down"
    /\ UNCHANGED <<scheme, login, clock, nonces, issued, lastAllowed, handler,
                   admitted, told>>

-----------------------------------------------------------------------------
(* handlerFor.                                                              *)

Leave(c) == handler' = [handler EXCEPT ![c] = Idle]

Go(c, place) == handler' = [handler EXCEPT ![c].at = place]

(* A request for the endpoint's path with the GET method; any other gets    *)
(* 404 or 405 and touches nothing.                                          *)
Arrive(c) ==
    /\ serving = "up"
    /\ At(c, "idle")
    /\ Spend("requests")
    /\ \E h \in Headers :
         handler' = [handler EXCEPT ![c] =
                       [at |-> IF scheme = "none" THEN "clock" ELSE "user",
                        header |-> h, user |-> NoUser, pass |-> "", stale |-> FALSE,
                        now |-> 0]]
    /\ UNCHANGED <<serving, scheme, login, clock, nonces, issued, lastAllowed,
                   admitted, told>>

(* CredentialsLookup reads the two leaves one after the other.              *)
LookupUser(c) ==
    /\ At(c, "user")
    /\ handler' = [handler EXCEPT ![c].user = login.user, ![c].at = "pass"]
    /\ UNCHANGED <<serving, scheme, login, clock, nonces, issued, lastAllowed,
                   admitted, told, left>>

(* What the header is checked for before the nonce is.                      *)
Fits(h, pass) ==
    /\ h.header.form = scheme
    /\ IF scheme = "basic" THEN h.header.login = [user |-> h.user, pass |-> pass]
                           ELSE h.header.login.user = h.user /\ h.header.nc # 0

(* The rest of the lookup, and the checks up to the nonce's: an endpoint    *)
(* without a username refuses everyone and challenges nobody.               *)
LookupPass(c) ==
    LET h == handler[c] IN
    /\ At(c, "pass")
    /\ IF h.user = NoUser
         THEN Leave(c)
         ELSE handler' = [handler EXCEPT
                ![c].pass = login.pass,
                ![c].at   = IF ~Fits(h, login.pass) THEN "challenge"
                            ELSE IF scheme = "basic" THEN "clock" ELSE "nonce"]
    /\ UNCHANGED <<serving, scheme, login, clock, nonces, issued, lastAllowed,
                   admitted, told, left>>

(* gcNoncesLocked.                                                          *)
gcNonces(store) ==
    [n \in {n \in DOMAIN store : clock - store[n].issuedAt <= NonceTTL} |-> store[n]]

(* A check that forgets to record the count (a mutant).                      *)
CheckNonceOnly(c) ==
    LET h    == handler[c]
        kept == gcNonces(nonces)
    IN
    /\ At(c, "nonce")
    /\ nonces' = kept
    /\ IF h.header.nonce \in DOMAIN kept
         THEN Go(c, IF h.header.nc \in kept[h.header.nonce].seenNC
                      THEN "challenge" ELSE "verify")
         ELSE handler' = [handler EXCEPT ![c].stale = TRUE, ![c].at = "challenge"]
    /\ UNCHANGED <<serving, scheme, login, clock, issued, lastAllowed, admitted,
                   told, left>>

(* The nonce and its count, in one lock section: a count is used up         *)
(* whether or not the answer proves right.                                  *)
CheckNonce(c) ==
    LET h    == handler[c]
        kept == gcNonces(nonces)
    IN
    /\ At(c, "nonce")
    /\ IF h.header.nonce \notin DOMAIN kept
         THEN /\ nonces' = kept
              /\ handler' = [handler EXCEPT ![c].stale = TRUE, ![c].at = "challenge"]
         ELSE IF h.header.nc \in kept[h.header.nonce].seenNC
                THEN nonces' = kept /\ Go(c, "challenge")
                ELSE /\ nonces' = [kept EXCEPT ![h.header.nonce].seenNC = @ \cup {h.header.nc}]
                     /\ Go(c, "verify")
    /\ UNCHANGED <<serving, scheme, login, clock, issued, lastAllowed, admitted,
                   told, left>>

Verify(c) ==
    LET h == handler[c] IN
    /\ At(c, "verify")
    /\ IF h.header.login = [user |-> h.user, pass |-> h.pass]
         THEN /\ Go(c, "clock")
              /\ admitted' = admitted \cup {<<h.header.nonce, h.header.nc>>}
         ELSE Go(c, "challenge") /\ UNCHANGED admitted
    /\ UNCHANGED <<serving, scheme, login, clock, nonces, issued, lastAllowed,
                   told, left>>

(* writeChallenge and the 401.  Basic's challenge has no state.             *)
Challenge(c) ==
    /\ At(c, "challenge")
    /\ Leave(c)
    /\ IF scheme = "digest"
         THEN /\ issued' = issued + 1
              /\ nonces' = gcNonces([n \in DOMAIN nonces \cup {issued + 1} |->
                             IF n = issued + 1
                               THEN [issuedAt |-> clock, seenNC |-> {}]
                               ELSE nonces[n]])
         ELSE UNCHANGED <<issued, nonces>>
    /\ UNCHANGED <<serving, scheme, login, clock, lastAllowed, admitted,
                   told, left>>

(* now is read before the endpoint's lock is taken, so two handlers may     *)
(* come to the throttle in the other order.                                 *)
ReadClock(c) ==
    /\ At(c, "clock")
    /\ handler' = [handler EXCEPT ![c].now = clock, ![c].at = "throttle"]
    /\ UNCHANGED <<serving, scheme, login, clock, nonces, issued, lastAllowed,
                   admitted, told, left>>

inWindow(now) == lastAllowed # NotYet /\ now - lastAllowed < Throttle

(* Retry-After without the rounding up (a mutant).                           *)
RetryAfterDown(now) == Max({1, (Throttle - (now - lastAllowed)) \div PerSecond})

(* Retry-After in seconds: at least one, and rounded up.                    *)
RetryAfter(now) ==
    LET wait    == Throttle - (now - lastAllowed)
        seconds == wait \div PerSecond
    IN  IF seconds < 1 THEN 1
        ELSE IF wait > seconds * PerSecond THEN seconds + 1 ELSE seconds

(* The throttle.  A request that passes it gets OnRequest, which asks the   *)
(* session runner for a session on a goroutine of its own.                  *)
ThrottleStep(c) ==
    LET now == handler[c].now IN
    /\ At(c, "throttle")
    /\ Leave(c)
    /\ IF Throttle > 0 /\ inWindow(now)
         THEN /\ told' = told \cup {[now |-> now,
                                     again |-> now + RetryAfter(now) * PerSecond]}
              /\ UNCHANGED lastAllowed
         ELSE /\ lastAllowed' = IF Throttle > 0 THEN now ELSE lastAllowed
              /\ told' = {}
    /\ UNCHANGED <<serving, scheme, login, clock, nonces, issued, admitted, left>>

-----------------------------------------------------------------------------
(* Around it: time, and the ACS writing new connection request credentials, *)
(* both leaves in one batch.                                                *)

Elapse ==
    /\ Spend("ticks")
    /\ clock' = clock + 1
    /\ UNCHANGED <<serving, scheme, login, nonces, issued, lastAllowed, handler,
                   admitted, told>>

WriteLogin ==
    /\ Spend("logins")
    /\ login' \in Logins \ {login}
    /\ UNCHANGED <<serving, scheme, clock, nonces, issued, lastAllowed, handler,
                   admitted, told>>

(* A run without a bind address has no listener.                            *)
CrInit(serving_, scheme_, login_, left_) ==
    /\ serving = serving_
    /\ scheme = scheme_
    /\ login = login_
    /\ clock = 0
    /\ nonces = << >>
    /\ issued = 0
    /\ lastAllowed = NotYet
    /\ handler = [c \in Callers |-> Idle]
    /\ admitted = {}
    /\ told = {}
    /\ left = left_

Handle(c) ==
    \/ LookupUser(c) \/ LookupPass(c) \/ CheckNonce(c) \/ Verify(c)
    \/ Challenge(c) \/ ReadClock(c) \/ ThrottleStep(c)

CrStep ==
    \/ Register \/ Start \/ Shutdown \/ Elapse \/ WriteLogin
    \/ \E c \in Callers : Arrive(c) \/ Handle(c)

-----------------------------------------------------------------------------

(* Digest replay protection across concurrent handlers: no (nonce, nc) pair *)
(* authenticates twice, whatever the order of the lock sections, of the     *)
(* credential writes and of the expiry of nonces in between                 *)
(* (digestAuth.Authenticate).                                               *)
NonceCountsOnce ==
    [][\A c \in Callers :
         At(c, "verify") /\ handler'[c].at = "clock" =>
           <<handler[c].header.nonce, handler[c].header.nc>> \notin admitted]_crVars

(* A caller that comes back when Retry-After said is not sent away again    *)
(* unless another request was accepted in the meantime, also when handlers  *)
(* reach the throttle in another order than they read the clock: the        *)
(* comment's "so client retry actually clears the window" (handlerFor).     *)
RetryAfterClears == \A r, s \in told : s.now < r.again
=============================================================================
