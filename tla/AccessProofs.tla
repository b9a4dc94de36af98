---------------------------- MODULE AccessProofs ----------------------------
(***************************************************************************)
(* The safety properties of the connection request listener, the STUN      *)
(* client and the transport, for any number of callers, loops, reconciles  *)
(* and datagrams and any throttle, nonce lifetime and plan.  The three     *)
(* share little, so each has an invariant of its own.                      *)
(***************************************************************************)
EXTENDS Access, TLAPS

-----------------------------------------------------------------------------
(* The listener *)

Place == {"idle", "user", "pass", "nonce", "verify", "challenge", "clock", "throttle"}
HandlerFields == {"at", "header", "user", "pass", "stale", "now"}

\* What a handler carries from its arrival to its end.
HandlerOK(h) ==
    /\ h.at \in Place
    /\ h.at # "idle" => /\ DOMAIN h = HandlerFields
                        /\ h.header \in Headers /\ h.now \in Nat
    /\ h.at \in {"user", "pass"} => scheme # "none"
    /\ h.at \in {"nonce", "verify"} => h.header.form = "digest"

CrTypeOK ==
    /\ scheme \in {"none", "basic", "digest"}
    /\ clock \in Nat /\ issued \in Nat /\ lastAllowed \in Nat \cup {NotYet}
    /\ DOMAIN handler = Callers
    /\ \A c \in Callers : HandlerOK(handler[c])

LEMMA HeadersGrow ==
    ASSUME issued \in Nat, issued' \in Nat, issued' >= issued
    PROVE  Headers \subseteq Headers'
  BY DEF Headers

\* A digest header answers a challenge that was issued.
LEMMA DigestHeader ==
    ASSUME issued \in Nat, NEW h \in Headers, h.form = "digest"
    PROVE  h.nonce \in 1 .. issued
  BY DEF Headers

\* A step of a handler leaves the handlers of the other callers alone.
LEMMA HandlerStep ==
    ASSUME CrTypeOK, NEW c \in Callers, DOMAIN handler' = Callers,
           \A d \in Callers \ {c} : handler'[d] = handler[d],
           issued' \in Nat, issued' >= issued, UNCHANGED scheme,
           HandlerOK(handler[c])'
    PROVE  \A d \in Callers : HandlerOK(handler[d])'
  BY HeadersGrow DEF CrTypeOK, HandlerOK

LEMMA CrTypeStays == CrTypeOK /\ CrStep => CrTypeOK'
  <1> SUFFICES ASSUME CrTypeOK, CrStep
               PROVE  CrTypeOK'
    OBVIOUS
  <1>1. ASSUME UNCHANGED <<scheme, issued, lastAllowed, handler>>, clock' \in Nat
        PROVE  CrTypeOK'
    <2>1. Headers' = Headers
      BY <1>1 DEF Headers
    <2> QED BY <1>1, <2>1 DEF CrTypeOK, HandlerOK
  <1>2. CASE Register \/ Start \/ Shutdown \/ Elapse \/ WriteLogin
    BY <1>1, <1>2 DEF Register, Start, Shutdown, Elapse, WriteLogin, CrTypeOK
  <1>3. ASSUME NEW c \in Callers, Arrive(c)
        PROVE  CrTypeOK'
    <2>1. PICK h \in Headers : handler' = [handler EXCEPT ![c] =
                       [at |-> IF scheme = "none" THEN "clock" ELSE "user",
                        header |-> h, user |-> NoUser, pass |-> "", stale |-> FALSE,
                        now |-> 0]]
      BY <1>3 DEF Arrive
    <2>2. UNCHANGED <<scheme, clock, issued, lastAllowed>> /\ Headers' = Headers
      BY <1>3 DEF Arrive, Headers
    <2>3. HandlerOK(handler[c])'
      BY <2>1, <2>2 DEF CrTypeOK, HandlerOK, Place, HandlerFields
    <2>4. DOMAIN handler' = Callers /\ \A d \in Callers \ {c} : handler'[d] = handler[d]
      BY <2>1 DEF CrTypeOK
    <2> QED BY <2>2, <2>3, <2>4, HandlerStep DEF CrTypeOK
  <1>4. ASSUME NEW c \in Callers, LookupUser(c)
        PROVE  CrTypeOK'
    <2>1. UNCHANGED <<scheme, clock, issued, lastAllowed>> /\ Headers' = Headers
      BY <1>4 DEF LookupUser, Headers
    <2>2. HandlerOK(handler[c])'
      BY <1>4, <2>1 DEF LookupUser, At, CrTypeOK, HandlerOK, Place, HandlerFields
    <2> QED BY <1>4, <2>1, <2>2, HandlerStep DEF CrTypeOK, LookupUser
  <1>5. ASSUME NEW c \in Callers, LookupPass(c)
        PROVE  CrTypeOK'
    <2>1. UNCHANGED <<scheme, clock, issued, lastAllowed>> /\ Headers' = Headers
      BY <1>5 DEF LookupPass, Headers
    <2>2. HandlerOK(handler[c])'
      BY <1>5, <2>1 DEF LookupPass, Fits, At, Leave, Idle, CrTypeOK, HandlerOK, Place,
         HandlerFields
    <2> QED BY <1>5, <2>1, <2>2, HandlerStep DEF CrTypeOK, LookupPass, Leave
  <1>6. ASSUME NEW c \in Callers, CheckNonce(c)
        PROVE  CrTypeOK'
    <2>1. UNCHANGED <<scheme, clock, issued, lastAllowed>> /\ Headers' = Headers
      BY <1>6 DEF CheckNonce, Headers
    <2>2. /\ DOMAIN handler' = Callers
          /\ \A d \in Callers \ {c} : handler'[d] = handler[d]
          /\ \/ handler'[c] = [handler[c] EXCEPT !.stale = TRUE, !.at = "challenge"]
             \/ handler'[c] = [handler[c] EXCEPT !.at = "challenge"]
             \/ handler'[c] = [handler[c] EXCEPT !.at = "verify"]
      BY <1>6 DEF CheckNonce, Go, CrTypeOK
    <2>3. HandlerOK(handler[c])'
      BY <1>6, <2>1, <2>2 DEF CheckNonce, At, CrTypeOK, HandlerOK, Place, HandlerFields
    <2> QED BY <2>1, <2>2, <2>3, HandlerStep DEF CrTypeOK
  <1>7. ASSUME NEW c \in Callers, Verify(c)
        PROVE  CrTypeOK'
    <2>1. UNCHANGED <<scheme, clock, issued, lastAllowed>> /\ Headers' = Headers
      BY <1>7 DEF Verify, Headers
    <2>2. HandlerOK(handler[c])'
      BY <1>7, <2>1 DEF Verify, At, Go, CrTypeOK, HandlerOK, Place, HandlerFields
    <2> QED BY <1>7, <2>1, <2>2, HandlerStep DEF CrTypeOK, Verify, Go
  <1>8. ASSUME NEW c \in Callers, Challenge(c)
        PROVE  CrTypeOK'
    <2>1. UNCHANGED <<scheme, clock, lastAllowed>> /\ issued' \in Nat /\ issued' >= issued
      BY <1>8 DEF Challenge, CrTypeOK
    <2>2. HandlerOK(handler[c])'
      BY <1>8, <2>1 DEF Challenge, Leave, Idle, CrTypeOK, HandlerOK, Place
    <2> QED BY <1>8, <2>1, <2>2, HandlerStep DEF CrTypeOK, Challenge, Leave
  <1>9. ASSUME NEW c \in Callers, ReadClock(c)
        PROVE  CrTypeOK'
    <2>1. UNCHANGED <<scheme, clock, issued, lastAllowed>> /\ Headers' = Headers
      BY <1>9 DEF ReadClock, Headers
    <2>2. HandlerOK(handler[c])'
      BY <1>9, <2>1 DEF ReadClock, At, CrTypeOK, HandlerOK, Place, HandlerFields
    <2> QED BY <1>9, <2>1, <2>2, HandlerStep DEF CrTypeOK, ReadClock
  <1>10. ASSUME NEW c \in Callers, ThrottleStep(c)
         PROVE  CrTypeOK'
    <2>1. /\ UNCHANGED <<scheme, clock, issued>> /\ Headers' = Headers
          /\ lastAllowed' \in Nat \cup {NotYet}
      BY <1>10 DEF ThrottleStep, At, Headers, CrTypeOK, HandlerOK
    <2>2. HandlerOK(handler[c])'
      BY <1>10, <2>1 DEF ThrottleStep, Leave, Idle, CrTypeOK, HandlerOK, Place
    <2> QED BY <1>10, <2>1, <2>2, HandlerStep DEF CrTypeOK, ThrottleStep, Leave
  <1> QED BY <1>2, <1>3, <1>4, <1>5, <1>6, <1>7, <1>8, <1>9, <1>10 DEF CrStep, Handle

\* The variables of the listener that the other parts leave alone.
LEMMA CrTypeInvariant == Spec => []CrTypeOK
  <1>1. Init => CrTypeOK
    BY PlanAssumption DEF Init, CrInit, CrTypeOK, HandlerOK, Idle, Place, NotYet
  <1>2. CrTypeOK /\ UNCHANGED <<scheme, clock, issued, lastAllowed, handler>> => CrTypeOK'
    <2> SUFFICES ASSUME CrTypeOK, UNCHANGED <<scheme, clock, issued, lastAllowed, handler>>
                 PROVE  CrTypeOK'
      OBVIOUS
    <2>1. Headers' = Headers
      BY DEF Headers
    <2> QED BY <2>1 DEF CrTypeOK, HandlerOK
  <1>3. CrTypeOK /\ [Next]_vars => CrTypeOK'
    BY <1>2, CrTypeStays DEF Next, vars, crVars, StunStep, FactoryReset
  <1> QED BY <1>1, <1>3, PTL DEF Spec

-----------------------------------------------------------------------------
(* The throttle *)

LEMMA DivisionBounds ==
    ASSUME NEW a \in Nat, NEW b \in Nat \ {0}
    PROVE  /\ a \div b \in Nat
           /\ (a \div b) * b <= a /\ a < (a \div b) * b + b
  OBVIOUS

\* Rounded up to whole seconds, Retry-After covers what is left of the window.
LEMMA RetryAfterCovers ==
    ASSUME NEW now \in Nat, lastAllowed \in Nat, now - lastAllowed < Throttle
    PROVE  /\ RetryAfter(now) \in Nat
           /\ RetryAfter(now) * PerSecond >= Throttle - (now - lastAllowed)
  <1> DEFINE wait == Throttle - (now - lastAllowed)
             seconds == wait \div PerSecond
  <1>1. wait \in Nat /\ PerSecond \in Nat \ {0}
    BY ThrottleAssumption, TickAssumption
  <1> HIDE DEF wait
  <1>2. /\ seconds \in Nat
        /\ seconds * PerSecond <= wait /\ wait < seconds * PerSecond + PerSecond
    BY <1>1, DivisionBounds
  <1>3. (seconds + 1) * PerSecond = seconds * PerSecond + PerSecond
    BY <1>1, <1>2
  <1>4. seconds < 1 => seconds * PerSecond = 0
    BY <1>1, <1>2
  <1>5. RetryAfter(now) = IF seconds < 1 THEN 1
                          ELSE IF wait > seconds * PerSecond THEN seconds + 1 ELSE seconds
    BY DEF RetryAfter, wait
  <1> HIDE DEF seconds
  <1>6. RetryAfter(now) \in Nat /\ RetryAfter(now) * PerSecond >= wait
    BY <1>1, <1>2, <1>3, <1>4, <1>5
  <1> QED BY <1>6 DEF wait

\* A request sent away came inside the window, and is told to come back after it.
ToldOK ==
    told # {} =>
      /\ lastAllowed \in Nat
      /\ \A r \in told : /\ r.now \in Nat /\ r.again \in Nat
                         /\ r.now < lastAllowed + Throttle
                         /\ lastAllowed + Throttle <= r.again

LEMMA ToldStays == CrTypeOK /\ ToldOK /\ [Next]_vars => ToldOK'
  <1> SUFFICES ASSUME CrTypeOK, ToldOK, [Next]_vars
               PROVE  ToldOK'
    OBVIOUS
  <1>1. ASSUME NEW c \in Callers, ThrottleStep(c)
        PROVE  ToldOK'
    <2> DEFINE now == handler[c].now
    <2>1. now \in Nat
      BY <1>1 DEF ThrottleStep, At, CrTypeOK, HandlerOK
    <2>2. CASE Throttle > 0 /\ inWindow(now)
      <3>1. /\ told' = told \cup {[now |-> now, again |-> now + RetryAfter(now) * PerSecond]}
            /\ UNCHANGED lastAllowed
        BY <1>1, <2>2 DEF ThrottleStep
      <3>2. lastAllowed \in Nat /\ now - lastAllowed < Throttle
        BY <2>2 DEF inWindow, CrTypeOK
      <3> HIDE DEF now
      <3>3. /\ RetryAfter(now) \in Nat
            /\ RetryAfter(now) * PerSecond >= Throttle - (now - lastAllowed)
        BY <2>1, <3>2, RetryAfterCovers
      <3> DEFINE later == RetryAfter(now) * PerSecond
      <3>4. later \in Nat
        BY <3>3, TickAssumption
      <3> HIDE DEF later
      <3>5. now + later \in Nat /\ lastAllowed + Throttle <= now + later
        BY <2>1, <3>2, <3>3, <3>4, ThrottleAssumption DEF later
      <3>6. told' = told \cup {[now |-> now, again |-> now + later]}
        BY <3>1 DEF later
      <3> QED BY <2>1, <3>1, <3>2, <3>5, <3>6, ThrottleAssumption DEF ToldOK
    <2>3. CASE ~(Throttle > 0 /\ inWindow(now))
      BY <1>1, <2>3 DEF ThrottleStep, ToldOK
    <2> QED BY <2>2, <2>3
  <1>2. CASE UNCHANGED <<lastAllowed, told>>
    BY <1>2 DEF ToldOK
  <1>3. CASE CrStep
    BY <1>1, <1>2, <1>3 DEF CrStep, Handle, Register, Start, Shutdown, Elapse, WriteLogin,
       Arrive, LookupUser, LookupPass, CheckNonce, Verify, Challenge, ReadClock
  <1> QED BY <1>2, <1>3 DEF Next, StunStep, FactoryReset, vars, crVars

\* A caller that comes back when Retry-After said is not sent away again unless
\* another request was accepted in the meantime, in whatever order the handlers
\* reach the throttle (handlerFor).
THEOREM RetriesClear == Spec => []RetryAfterClears
  <1>1. Init => ToldOK
    BY DEF Init, CrInit, ToldOK
  <1>2. ToldOK => RetryAfterClears
    BY ThrottleAssumption DEF ToldOK, RetryAfterClears
  <1> QED BY <1>1, <1>2, CrTypeInvariant, ToldStays, PTL DEF Spec

-----------------------------------------------------------------------------
(* Digest replay protection *)

Pair(c) == <<handler[c].header.nonce, handler[c].header.nc>>

\* A pair that is used up was issued, and its nonce is gone or has seen its count.
Used(p) ==
    /\ p[1] \in 1 .. issued
    /\ p[1] \in DOMAIN nonces => p[2] \in nonces[p[1]].seenNC

NonceInv ==
    /\ DOMAIN nonces \subseteq 1 .. issued
    /\ \A n \in DOMAIN nonces : DOMAIN nonces[n] = {"issuedAt", "seenNC"}
    /\ \A p \in admitted : Used(p)
    /\ \A c \in Callers : At(c, "verify") => Used(Pair(c)) /\ Pair(c) \notin admitted
    /\ \A c, d \in Callers :
          At(c, "verify") /\ At(d, "verify") /\ Pair(c) = Pair(d) => c = d

\* The store after a collection: what is left keeps its counts.
LEMMA Collected ==
    ASSUME NEW store
    PROVE  /\ DOMAIN gcNonces(store) \subseteq DOMAIN store
           /\ \A n \in DOMAIN gcNonces(store) : gcNonces(store)[n] = store[n]
  BY DEF gcNonces

\* No pair that is used up comes back: counts are only added, and a new nonce
\* is one that was never issued.
LEMMA UsedStays ==
    ASSUME NEW p, Used(p), issued \in Nat, issued' \in Nat, issued' >= issued,
           \A n \in DOMAIN nonces' :
              n <= issued => n \in DOMAIN nonces /\ nonces[n].seenNC \subseteq nonces'[n].seenNC
    PROVE  Used(p)'
  BY DEF Used

\* A step that neither admits a pair nor moves a handler to the verification.
LEMMA NonceQuiet ==
    ASSUME CrTypeOK, NonceInv, issued' \in Nat, issued' >= issued, UNCHANGED admitted,
           DOMAIN nonces' \subseteq 1 .. issued',
           \A n \in DOMAIN nonces' : DOMAIN nonces'[n] = {"issuedAt", "seenNC"},
           \A n \in DOMAIN nonces' :
              n <= issued => n \in DOMAIN nonces /\ nonces[n].seenNC \subseteq nonces'[n].seenNC,
           \A c \in Callers : At(c, "verify")' => At(c, "verify") /\ UNCHANGED handler[c]
    PROVE  NonceInv'
  <1>1. \A p : Used(p) => Used(p)'
    BY UsedStays DEF CrTypeOK
  <1>2. \A c \in Callers : At(c, "verify")' => At(c, "verify") /\ Pair(c)' = Pair(c)
    BY DEF Pair
  <1> QED BY <1>1, <1>2 DEF NonceInv

LEMMA NonceStays == CrTypeOK /\ NonceInv /\ [Next]_vars => NonceInv'
  <1> SUFFICES ASSUME CrTypeOK, NonceInv, [Next]_vars
               PROVE  NonceInv'
    OBVIOUS
  <1>1. CASE UNCHANGED <<issued, nonces, admitted, handler>>
    BY <1>1 DEF NonceInv, Used, Pair, At
  <1>2. CASE Register \/ Start \/ Shutdown \/ Elapse \/ WriteLogin
    BY <1>1, <1>2 DEF Register, Start, Shutdown, Elapse, WriteLogin
  <1>3. ASSUME NEW c \in Callers, UNCHANGED <<issued, nonces, admitted>>,
               \A d \in Callers \ {c} : handler'[d] = handler[d],
               handler'[c].at # "verify"
        PROVE  NonceInv'
    <2>1. \A d \in Callers : At(d, "verify")' => At(d, "verify") /\ UNCHANGED handler[d]
      BY <1>3 DEF At
    <2> QED BY <1>3, <2>1, NonceQuiet DEF NonceInv, CrTypeOK
  <1>4. ASSUME NEW c \in Callers,
               Arrive(c) \/ LookupUser(c) \/ LookupPass(c) \/ ReadClock(c) \/ ThrottleStep(c)
        PROVE  NonceInv'
    <2>1. UNCHANGED <<issued, nonces, admitted>>
      BY <1>4 DEF Arrive, LookupUser, LookupPass, ReadClock, ThrottleStep
    <2>2. \A d \in Callers \ {c} : handler'[d] = handler[d]
      BY <1>4 DEF Arrive, LookupUser, LookupPass, ReadClock, ThrottleStep, Leave, CrTypeOK
    <2>3. handler'[c].at # "verify"
      <3>1. CASE Arrive(c)
        <4>1. PICK h \in Headers : handler' = [handler EXCEPT ![c] =
                         [at |-> IF scheme = "none" THEN "clock" ELSE "user",
                          header |-> h, user |-> NoUser, pass |-> "", stale |-> FALSE,
                          now |-> 0]]
          BY <3>1 DEF Arrive
        <4> QED BY <4>1 DEF CrTypeOK
      <3>2. CASE LookupUser(c) \/ ReadClock(c)
        BY <3>2 DEF LookupUser, ReadClock, At, CrTypeOK, HandlerOK, HandlerFields
      <3>3. CASE LookupPass(c)
        BY <3>3 DEF LookupPass, Leave, Idle, At, CrTypeOK, HandlerOK, HandlerFields
      <3>4. CASE ThrottleStep(c)
        BY <3>4 DEF ThrottleStep, Leave, Idle, CrTypeOK
      <3> QED BY <1>4, <3>1, <3>2, <3>3, <3>4
    <2> QED BY <1>3, <2>1, <2>2, <2>3
  <1>5. ASSUME NEW c \in Callers, CheckNonce(c)
        PROVE  NonceInv'
    <2> DEFINE h == handler[c]
               kept == gcNonces(nonces)
    <2>1. UNCHANGED <<issued, admitted>> /\ h.at = "nonce"
      BY <1>5 DEF CheckNonce, At
    <2>2. /\ DOMAIN kept \subseteq DOMAIN nonces
          /\ \A n \in DOMAIN kept : kept[n] = nonces[n]
      BY Collected
    <2>3. h.header.nonce \in 1 .. issued
      BY <2>1, DigestHeader DEF CrTypeOK, HandlerOK
    <2> HIDE DEF kept
    <2>4. CASE h.header.nonce \notin DOMAIN kept \/ h.header.nc \in kept[h.header.nonce].seenNC
      <3>1. /\ nonces' = kept
            /\ \A d \in Callers \ {c} : handler'[d] = handler[d]
            /\ handler'[c].at # "verify"
        BY <1>5, <2>1, <2>4 DEF CheckNonce, Go, CrTypeOK, HandlerOK, HandlerFields, kept
      <3>2. \A d \in Callers : At(d, "verify")' => At(d, "verify") /\ UNCHANGED handler[d]
        BY <3>1 DEF At
      <3> QED BY <2>1, <2>2, <3>1, <3>2, NonceQuiet DEF NonceInv, CrTypeOK
    <2>5. CASE h.header.nonce \in DOMAIN kept /\ h.header.nc \notin kept[h.header.nonce].seenNC
      <3>1. /\ nonces' = [kept EXCEPT ![h.header.nonce].seenNC = @ \cup {h.header.nc}]
            /\ handler' = [handler EXCEPT ![c].at = "verify"]
        BY <1>5, <2>5 DEF CheckNonce, Go, kept
      <3>2. /\ DOMAIN nonces' = DOMAIN kept
            /\ \A n \in DOMAIN kept : /\ DOMAIN nonces'[n] = {"issuedAt", "seenNC"}
                                      /\ nonces[n].seenNC \subseteq nonces'[n].seenNC
            /\ h.header.nc \in nonces'[h.header.nonce].seenNC
        BY <2>2, <2>5, <3>1 DEF NonceInv
      <3>3. \A p : Used(p) => Used(p)'
        BY <2>1, <2>2, <3>2, UsedStays DEF CrTypeOK
      <3>4. /\ \A d \in Callers : Pair(d)' = Pair(d)
            /\ \A d \in Callers \ {c} : At(d, "verify")' = At(d, "verify")
        BY <2>1, <3>1 DEF Pair, At, CrTypeOK, HandlerOK, HandlerFields
      <3>5. Pair(c) = <<h.header.nonce, h.header.nc>>
        BY DEF Pair
      <3>6. ~Used(Pair(c)) /\ Used(Pair(c))'
        BY <2>1, <2>2, <2>3, <2>5, <3>2, <3>4, <3>5 DEF Used
      <3> QED BY <2>1, <2>2, <3>2, <3>3, <3>4, <3>6 DEF NonceInv
    <2> QED BY <2>4, <2>5
  <1>6. ASSUME NEW c \in Callers, Verify(c)
        PROVE  NonceInv'
    <2>1. UNCHANGED <<issued, nonces>> /\ At(c, "verify")
      BY <1>6 DEF Verify
    <2>2. /\ \A d \in Callers \ {c} : handler'[d] = handler[d]
          /\ handler'[c].at # "verify"
          /\ admitted' \subseteq admitted \cup {Pair(c)}
      BY <1>6 DEF Verify, Go, At, Pair, CrTypeOK, HandlerOK, HandlerFields
    <2>3. \A d \in Callers : At(d, "verify")' =>
             d # c /\ At(d, "verify") /\ Pair(d)' = Pair(d)
      BY <2>2 DEF At, Pair
    <2>4. \A p : Used(p)' = Used(p)
      BY <2>1 DEF Used
    <2> QED BY <2>1, <2>2, <2>3, <2>4 DEF NonceInv
  <1>7. ASSUME NEW c \in Callers, Challenge(c)
        PROVE  NonceInv'
    <2>1. UNCHANGED admitted
      BY <1>7 DEF Challenge
    <2>2. \A d \in Callers : At(d, "verify")' => At(d, "verify") /\ UNCHANGED handler[d]
      BY <1>7 DEF Challenge, Leave, Idle, At, CrTypeOK
    <2>3. CASE scheme = "digest"
      <3> DEFINE store == [n \in DOMAIN nonces \cup {issued + 1} |->
                             IF n = issued + 1
                               THEN [issuedAt |-> clock, seenNC |-> {}]
                               ELSE nonces[n]]
      <3>1. issued' = issued + 1 /\ nonces' = gcNonces(store)
        BY <1>7, <2>3 DEF Challenge
      <3>2. /\ DOMAIN store = DOMAIN nonces \cup {issued + 1}
            /\ \A n \in DOMAIN store : n # issued + 1 => store[n] = nonces[n]
            /\ DOMAIN store[issued + 1] = {"issuedAt", "seenNC"}
        OBVIOUS
      <3> HIDE DEF store
      <3>3. /\ DOMAIN nonces' \subseteq DOMAIN store
            /\ \A n \in DOMAIN nonces' : nonces'[n] = store[n]
        BY <3>1, Collected
      <3>4. DOMAIN nonces' \subseteq 1 .. issued'
        BY <3>1, <3>2, <3>3 DEF NonceInv, CrTypeOK
      <3>5. \A n \in DOMAIN nonces' : DOMAIN nonces'[n] = {"issuedAt", "seenNC"}
        BY <3>2, <3>3 DEF NonceInv
      <3>6. \A n \in DOMAIN nonces' :
               n <= issued => n \in DOMAIN nonces /\ nonces[n].seenNC \subseteq nonces'[n].seenNC
        BY <3>2, <3>3 DEF NonceInv, CrTypeOK
      <3>7. issued' \in Nat /\ issued' >= issued
        BY <3>1 DEF CrTypeOK
      <3> QED BY <2>1, <2>2, <3>4, <3>5, <3>6, <3>7, NonceQuiet
    <2>4. CASE scheme # "digest"
      <3>1. UNCHANGED <<issued, nonces>>
        BY <1>7, <2>4 DEF Challenge
      <3> QED BY <2>1, <2>2, <3>1, NonceQuiet DEF NonceInv, CrTypeOK
    <2> QED BY <2>3, <2>4
  <1>8. CASE CrStep
    BY <1>2, <1>4, <1>5, <1>6, <1>7, <1>8 DEF CrStep, Handle
  <1> QED BY <1>1, <1>8 DEF Next, StunStep, FactoryReset, vars, crVars

\* No (nonce, nc) pair authenticates twice, in whatever order the handlers'
\* lock sections, credential writes and the expiry of nonces come
\* (digestAuth.Authenticate).
THEOREM ReplayRefused == Spec => NonceCountsOnce
  <1>1. Init => NonceInv
    BY DEF Init, CrInit, NonceInv, At, Idle
  <1>2. NonceInv =>
          [\A c \in Callers : At(c, "verify") /\ handler'[c].at = "clock" =>
             <<handler[c].header.nonce, handler[c].header.nc>> \notin admitted]_crVars
    BY DEF NonceInv, Pair
  <1> QED BY <1>1, <1>2, CrTypeInvariant, NonceStays, PTL DEF Spec, NonceCountsOnce

-----------------------------------------------------------------------------
(* The transport *)

AcsInv ==
    /\ DOMAIN sending = {"at", "header", "cookies"}
    /\ sending.at \in {"idle", "first", "401", "second", "failed", "refused"}
    /\ jar \subseteq {session}
    /\ sending.at \in {"first", "401", "second"} => sending.cookies \subseteq {session}

\* While nothing changed around it, a challenge is the server's current one and
\* its answer one the server has not seen.
Answerable ==
    /\ sending.at = "401" /\ ~upset =>
         /\ sending.header.kind \in {"Basic", "Digest"}
         /\ sending.header.nonce = nonce /\ counts = {}
    /\ sending.at = "second" /\ ~upset =>
         /\ sending.header.kind \in {"Basic", "Digest"} /\ sending.header.login = stored
         /\ sending.header.nonce = nonce /\ counts = {}
    /\ sending.at = "refused" => upset \/ stored # expected

LEMMA AcsStays == AcsInv /\ Answerable /\ AcsStep => AcsInv' /\ Answerable'
  <1> SUFFICES ASSUME AcsInv, Answerable, AcsStep
               PROVE  AcsInv' /\ Answerable'
    OBVIOUS
  <1> USE DEF AcsInv, Answerable
  <1>1. CASE ResetSession
    BY <1>1 DEF ResetSession
  <1>2. CASE Send
    BY <1>2 DEF Send, Do
  <1>3. CASE Answered
    BY <1>3 DEF Answered, Awaiting
  <1>4. CASE Challenged
    <2>1. sending.at = "second" /\ ~upset => stored # expected
      BY <1>4 DEF Challenged, Authorized
    <2> QED BY <1>4, <2>1 DEF Challenged, Awaiting
  <1>5. CASE SendFails
    BY <1>5 DEF SendFails
  <1>6. CASE AnswerChallenge
    BY <1>6 DEF AnswerChallenge
  <1>7. CASE SessionFails
    BY <1>7 DEF SessionFails
  <1>8. CASE Rotate
    BY <1>8 DEF Rotate
  <1> QED BY <1>1, <1>2, <1>3, <1>4, <1>5, <1>6, <1>7, <1>8 DEF AcsStep

\* Send ends in a 401 only if the two sides' credentials differ or something
\* changed while it was under way, and no request carries another session's
\* cookies (Transport.Send and resetSession).
THEOREM CredentialsGetIn == Spec => []GoodCredentialsGetIn
  <1>1. Init => AcsInv /\ Answerable
    BY DEF Init, AcsInit, AcsInv, Answerable
  <1>2. AcsInv /\ Answerable /\ [Next]_vars => AcsInv' /\ Answerable'
    BY AcsStays DEF Next, FactoryReset, vars, acsVars, AcsInv, Answerable
  <1>3. AcsInv /\ Answerable => GoodCredentialsGetIn
    BY DEF AcsInv, Answerable, GoodCredentialsGetIn, Awaiting
  <1> QED BY <1>1, <1>2, <1>3, PTL DEF Spec

-----------------------------------------------------------------------------
(* The STUN client: its loops *)

LoopPlace == {"none", "open", "select", "nat", "address", "pass", "last", "accept", "done"}
LoopFields == {"at", "live", "server", "attempts", "change", "mapped", "response", "in",
               "user", "pass"}

LoopOK(q) ==
    /\ q.at \in LoopPlace
    /\ IF q.at = "none" THEN ~q.live
       ELSE DOMAIN q = LoopFields /\ q.in \in Seq(Datagrams)
    /\ q.at \in {"pass", "last", "accept"} => q.in # << >>

LoopsOK == DOMAIN loop = Loops /\ \A l \in Loops : LoopOK(loop[l])

\* Whatever moves a loop or the network around it.
Moves(l) ==
    \/ LoopStep(l) \/ SocketFails(l) \/ ErrorResponse(l) \/ Answer(l) \/ Lose(l)
    \/ Rebind(l) \/ SendRequest(l)

\* The new state q of a loop: it is neither started nor cancelled by a step of
\* its own, and a request it is about to accept is one the check let through.
Continues(l, q) ==
    /\ LoopOK(q) /\ q.at # "none" /\ loop[l].at # "none" /\ q.live = loop[l].live
    /\ q.at = "accept" =>
         \/ loop[l].at = "accept" /\ Head(q.in) = Head(loop[l].in)
         \/ Head(q.in).ts > last.ts

LEMMA LoopMoves ==
    ASSUME LoopsOK, NEW l \in Loops, Moves(l)
    PROVE  \/ UNCHANGED loop
           \/ \E q : Continues(l, q) /\ loop' = [loop EXCEPT ![l] = q]
  <1> USE DEF Continues, LoopOK, LoopPlace, LoopFields, LoopAt
  <1> DEFINE s == loop[l]
  <1>0. LoopOK(s)
    BY DEF LoopsOK
  <1>1. CASE Open(l)
    <2>1. CASE s.server \in Resolves
      <3>1. loop' = [loop EXCEPT ![l] = [sent(s, TRUE) EXCEPT !.at = "select"]]
        BY <1>1, <2>1 DEF Open, LoopsOK
      <3>2. Continues(l, [sent(s, TRUE) EXCEPT !.at = "select"])
        BY <1>0, <1>1 DEF Open, sent
      <3> QED BY <3>1, <3>2
    <2>2. CASE s.server \notin Resolves
      <3>1. loop' = [loop EXCEPT ![l] = [s EXCEPT !.at = "done"]]
        BY <1>1, <2>2 DEF Open, LoopsOK
      <3>2. Continues(l, [s EXCEPT !.at = "done"])
        BY <1>0, <1>1 DEF Open
      <3> QED BY <3>1, <3>2
    <2> QED BY <2>1, <2>2
  <1>2. CASE Cancelled(l)
    <2>1. loop' = [loop EXCEPT ![l] = [s EXCEPT !.at = "done"]]
      BY <1>2 DEF Cancelled, LoopsOK
    <2>2. Continues(l, [s EXCEPT !.at = "done"])
      BY <1>0, <1>2 DEF Cancelled
    <2> QED BY <2>1, <2>2
  <1>3. CASE KeepAlive(l)
    <2>1. loop' = [loop EXCEPT ![l] = sent(s, FALSE)]
      BY <1>3 DEF KeepAlive, LoopsOK
    <2>2. Continues(l, sent(s, FALSE))
      BY <1>0, <1>3 DEF KeepAlive, sent
    <2> QED BY <2>1, <2>2
  <1>4. CASE Retransmit(l)
    <2>1. CASE s.attempts >= MaxAttempts
      <3>1. loop' = [loop EXCEPT ![l] = [s EXCEPT !.attempts = 0, !.response = Nowhere]]
        BY <1>4, <2>1 DEF Retransmit, LoopsOK
      <3>2. Continues(l, [s EXCEPT !.attempts = 0, !.response = Nowhere])
        BY <1>0, <1>4 DEF Retransmit
      <3> QED BY <3>1, <3>2
    <2>2. CASE ~(s.attempts >= MaxAttempts)
      <3>1. loop' = [loop EXCEPT ![l] = [s EXCEPT !.attempts = @ + 1]]
        BY <1>4, <2>2 DEF Retransmit, LoopsOK
      <3>2. Continues(l, [s EXCEPT !.attempts = @ + 1])
        BY <1>0, <1>4 DEF Retransmit
      <3> QED BY <3>1, <3>2
    <2> QED BY <2>1, <2>2
  <1>5. CASE Response(l)
    <2> DEFINE addr == s.response
               clear == [s EXCEPT !.attempts = 0, !.response = Nowhere]
               next == [IF s.mapped = Nowhere THEN clear ELSE sent(s, TRUE)
                          EXCEPT !.mapped = addr, !.at = "nat"]
    <2>1. CASE moved(l, addr)
      <3>1. loop' = [loop EXCEPT ![l] = next]
        BY <1>5, <2>1 DEF Response, LoopsOK
      <3>2. Continues(l, next)
        BY <1>0, <1>5 DEF Response, sent
      <3> QED BY <3>1, <3>2
    <2>2. CASE ~moved(l, addr)
      <3>1. loop' = [loop EXCEPT ![l] = clear]
        BY <1>5, <2>2 DEF Response, LoopsOK
      <3>2. Continues(l, clear)
        BY <1>0, <1>5 DEF Response
      <3> QED BY <3>1, <3>2
    <2> QED BY <2>1, <2>2
  <1>6. CASE ErrorResponse(l)
    <2>1. loop' = [loop EXCEPT ![l] = [s EXCEPT !.attempts = 0]]
      BY <1>6 DEF ErrorResponse, LoopsOK
    <2>2. Continues(l, [s EXCEPT !.attempts = 0])
      BY <1>0, <1>6 DEF ErrorResponse
    <2> QED BY <2>1, <2>2
  <1>7. CASE ReportNat(l)
    <2>1. loop' = [loop EXCEPT ![l] = [s EXCEPT !.at = "address"]]
      BY <1>7 DEF ReportNat, LoopsOK
    <2>2. Continues(l, [s EXCEPT !.at = "address"])
      BY <1>0, <1>7 DEF ReportNat
    <2> QED BY <2>1, <2>2
  <1>8. CASE ReportAddress(l)
    <2>1. loop' = [loop EXCEPT ![l] = [s EXCEPT !.at = "select"]]
      BY <1>8 DEF ReportAddress, LoopsOK
    <2>2. Continues(l, [s EXCEPT !.at = "select"])
      BY <1>0, <1>8 DEF ReportAddress
    <2> QED BY <2>1, <2>2
  <1>9. CASE RequestUser(l)
    <2>1. loop' = [loop EXCEPT ![l] = [s EXCEPT !.user = login.user, !.at = "pass"]]
      BY <1>9 DEF RequestUser, LoopsOK
    <2>2. Continues(l, [s EXCEPT !.user = login.user, !.at = "pass"])
      BY <1>0, <1>9 DEF RequestUser
    <2> QED BY <2>1, <2>2
  <1>10. CASE RequestPass(l)
    <2>1. loop' = [loop EXCEPT ![l] = [s EXCEPT !.pass = login.pass, !.at = "last"]]
      BY <1>10 DEF RequestPass, LoopsOK
    <2>2. Continues(l, [s EXCEPT !.pass = login.pass, !.at = "last"])
      BY <1>0, <1>10 DEF RequestPass
    <2> QED BY <2>1, <2>2
  <1>11. CASE RequestCheck(l)
    <2> DEFINE d == Head(s.in)
    <2>1. CASE fresh(d, last) /\ Signed(l, d)
      <3>1. loop' = [loop EXCEPT ![l] = [s EXCEPT !.at = "accept"]]
        BY <1>0, <1>11, <2>1 DEF RequestCheck, LoopsOK
      <3>2. Continues(l, [s EXCEPT !.at = "accept"])
        BY <1>0, <1>11, <2>1 DEF RequestCheck, fresh
      <3> QED BY <3>1, <3>2
    <2>2. CASE ~(fresh(d, last) /\ Signed(l, d))
      <3>1. loop' = [loop EXCEPT ![l] = [s EXCEPT !.at = "select", !.in = Tail(@)]]
        BY <1>11, <2>2 DEF RequestCheck, LoopsOK
      <3>2. Continues(l, [s EXCEPT !.at = "select", !.in = Tail(@)])
        BY <1>0, <1>11 DEF RequestCheck
      <3> QED BY <3>1, <3>2
    <2> QED BY <2>1, <2>2
  <1>12. CASE RequestAccept(l)
    <2>1. loop' = [loop EXCEPT ![l] = [s EXCEPT !.at = "select", !.in = Tail(@)]]
      BY <1>12 DEF RequestAccept, LoopsOK
    <2>2. Continues(l, [s EXCEPT !.at = "select", !.in = Tail(@)])
      BY <1>0, <1>12 DEF RequestAccept
    <2> QED BY <2>1, <2>2
  <1>13. CASE Answer(l)
    <2> DEFINE r == IF s.response = Nowhere /\ s.attempts > 0 THEN binding[l] ELSE s.response
    <2>1. loop' = [loop EXCEPT ![l] = [s EXCEPT !.response = r]]
      BY <1>13 DEF Answer, LoopsOK
    <2> HIDE DEF r
    <2>2. Continues(l, [s EXCEPT !.response = r])
      BY <1>0, <1>13 DEF Answer
    <2> QED BY <2>1, <2>2
  <1>14. CASE SendRequest(l)
    <2>1. PICK d \in Datagrams : loop' = [loop EXCEPT ![l].in = Append(@, d)]
      BY <1>14 DEF SendRequest
    <2>2. loop' = [loop EXCEPT ![l] = [s EXCEPT !.in = Append(@, d)]]
      BY <2>1 DEF LoopsOK
    <2>3. s.at # "none" /\ s.in \in Seq(Datagrams)
      BY <1>0, <1>14 DEF SendRequest
    <2>4. /\ Append(s.in, d) \in Seq(Datagrams) /\ Append(s.in, d) # << >>
          /\ s.in # << >> => Head(Append(s.in, d)) = Head(s.in)
      BY <2>3
    <2>5. Continues(l, [s EXCEPT !.in = Append(@, d)])
      BY <1>0, <2>3, <2>4
    <2> QED BY <2>2, <2>5
  <1>15. CASE Lose(l) \/ Rebind(l)
    BY <1>15 DEF Lose, Rebind
  <1>16. CASE SocketFails(l)
    <2>1. loop' = [loop EXCEPT ![l] = [s EXCEPT !.at = "done"]]
      BY <1>16 DEF SocketFails, LoopsOK
    <2>2. Continues(l, [s EXCEPT !.at = "done"])
      BY <1>0, <1>16 DEF SocketFails
    <2> QED BY <2>1, <2>2
  <1> QED BY <1>1, <1>2, <1>3, <1>4, <1>5, <1>6, <1>7, <1>8, <1>9, <1>10, <1>11, <1>12,
             <1>13, <1>14, <1>15, <1>16 DEF Moves, LoopStep, Busy

-----------------------------------------------------------------------------
(* The STUN client: the loop follows the tree *)

\* At most the registered loop is live; it is while the client observes; and
\* cancel is registered exactly when running, with settings that want a loop.
OneLoop ==
    /\ started \in Nat /\ cur \in 0 .. started /\ started <= MaxLoops
    /\ \A l \in Loops : l > started => loop[l].at = "none"
    /\ \A l \in Loops : loop[l].live => l = cur /\ observing
    /\ cur # 0 => loop[cur].at # "none" /\ (observing => loop[cur].live)
    /\ running <=> cur # 0
    /\ cur # 0 => wants(settings)

TasksOK == DOMAIN task = Tasks /\ \A t \in Tasks : DOMAIN task[t] = {"at", "want"}

\* The last reconcile left what the tree wants.
Applied ==
    Quiet /\ ~unseen /\ ~stale /\ observing =>
        IF wants(leaves) THEN cur # 0 /\ settings = leaves ELSE cur = 0

StunInv == LoopsOK /\ TasksOK /\ OneLoop /\ Applied

reconcileVars == <<leaves, task, running, settings, cur, started, unseen, stale, observing>>

LEMMA MoveKeeps ==
    ASSUME StunInv, NEW l \in Loops, Moves(l)
    PROVE  StunInv'
  <1>1. UNCHANGED reconcileVars
    BY DEF Moves, LoopStep, Busy, Open, Cancelled, KeepAlive, Retransmit, Response,
       ErrorResponse, ReportNat, ReportAddress, RequestUser, RequestPass, RequestCheck,
       RequestAccept, SocketFails, Answer, Lose, Rebind, SendRequest, LoopUnchanged,
       reconcileVars
  <1>2. LoopsOK'
    BY LoopMoves DEF StunInv, LoopsOK, Continues
  <1>3. \A k \in Loops : /\ loop'[k].live <=> loop[k].live
                         /\ loop'[k].at = "none" <=> loop[k].at = "none"
    BY LoopMoves DEF StunInv, LoopsOK, Continues
  <1>4. cur # 0 => cur \in Loops
    BY StunAssumption DEF StunInv, OneLoop, Loops
  <1>5. OneLoop'
    <2>1. UNCHANGED <<running, settings, cur, started, observing>>
      BY <1>1 DEF reconcileVars
    <2>2. \A k \in Loops : k > started' => loop'[k].at = "none"
      BY <1>3, <2>1 DEF StunInv, OneLoop
    <2>3. \A k \in Loops : loop'[k].live => k = cur' /\ observing'
      <3>1. \A k \in Loops : loop[k].live => k = cur /\ observing
        BY DEF StunInv, OneLoop
      <3>2. cur' = cur /\ observing' = observing
        BY <2>1
      <3> QED BY <1>3, <3>1, <3>2
    <2>4. cur' # 0 => loop'[cur'].at # "none" /\ (observing' => loop'[cur'].live)
      <3>1. cur # 0 => loop[cur].at # "none" /\ (observing => loop[cur].live)
        BY DEF StunInv, OneLoop
      <3>2. cur' = cur /\ observing' = observing
        BY <2>1
      <3> QED BY <1>3, <1>4, <3>1, <3>2
    <2>5. (running' <=> cur' # 0) /\ (cur' # 0 => wants(settings)')
      BY <2>1 DEF StunInv, OneLoop, wants
    <2> QED BY <2>1, <2>2, <2>3, <2>4, <2>5 DEF StunInv, OneLoop
  <1>6. TasksOK' /\ Applied'
    BY <1>1 DEF StunInv, TasksOK, Applied, Quiet, wants, reconcileVars
  <1> QED BY <1>2, <1>5, <1>6 DEF StunInv

\* The loops once the registered one is cancelled.
cancelled == IF cur = 0 THEN loop ELSE [loop EXCEPT ![cur].live = FALSE]

LEMMA CancelKeeps ==
    ASSUME StunInv
    PROVE  /\ DOMAIN cancelled = Loops
           /\ \A l \in Loops : LoopOK(cancelled[l]) /\ cancelled[l].at = loop[l].at
           /\ \A l \in Loops : ~cancelled[l].live
  <1>1. CASE cur = 0
    <2>1. \A l \in Loops : ~loop[l].live
      BY <1>1, StunAssumption DEF StunInv, OneLoop, Loops
    <2> QED BY <1>1, <2>1 DEF StunInv, LoopsOK, cancelled
  <1>2. CASE cur # 0
    <2>1. cur \in Loops /\ loop[cur].at # "none"
      BY <1>2, StunAssumption DEF StunInv, OneLoop, Loops
    <2>2. /\ DOMAIN cancelled = Loops /\ cancelled[cur] = [loop[cur] EXCEPT !.live = FALSE]
          /\ \A l \in Loops \ {cur} : cancelled[l] = loop[l]
      BY <1>2, <2>1 DEF StunInv, LoopsOK, cancelled
    <2>3. LoopOK(cancelled[cur]) /\ cancelled[cur].at = loop[cur].at /\ ~cancelled[cur].live
      BY <2>1, <2>2 DEF StunInv, LoopsOK, LoopOK, LoopFields
    <2> QED BY <2>1, <2>2, <2>3 DEF StunInv, LoopsOK, OneLoop
  <1> QED BY <1>1, <1>2

LEMMA ReconcileKeeps ==
    ASSUME StunInv, NEW t \in Tasks, Reconcile(t)
    PROVE  StunInv'
  <1> DEFINE want == task[t].want
  <1>1. TasksOK'
    BY DEF Reconcile, StunInv, TasksOK
  <1>2. UNCHANGED <<leaves, unseen, observing>> /\ stale' = (want # leaves)
    BY DEF Reconcile
  <1>3. CASE upToDate(want)
    <2>1. UNCHANGED <<running, settings, cur, started, loop>>
      BY <1>3 DEF Reconcile
    <2>2. LoopsOK' /\ OneLoop'
      BY <1>2, <2>1 DEF StunInv, LoopsOK, LoopOK, OneLoop, wants
    <2>3. Applied'
      BY <1>2, <1>3, <2>1 DEF StunInv, Applied, upToDate, OneLoop, wants
    <2> QED BY <1>1, <2>2, <2>3 DEF StunInv
  <1>4. CASE ~upToDate(want) /\ wants(want)
    <2> DEFINE new == [at |-> "open", live |-> observing, server |-> want.server,
                       attempts |-> 0, change |-> FALSE, mapped |-> Nowhere,
                       response |-> Nowhere, in |-> << >>, user |-> NoUser,
                       pass |-> ""]
    <2>1. /\ started' = started + 1 /\ cur' = started + 1 /\ running' = TRUE
          /\ settings' = want /\ loop' = [cancelled EXCEPT ![started + 1] = new]
          /\ started < MaxLoops
      BY <1>4 DEF Reconcile, cancelled
    <2>2. started + 1 \in Loops /\ started \in Nat
      <3>1. started \in Nat /\ started < MaxLoops
        BY <2>1 DEF StunInv, OneLoop
      <3> QED BY <3>1, StunAssumption DEF Loops
    <2>3. LoopOK(new) /\ new.at # "none" /\ new.live = observing
      BY DEF LoopOK, LoopPlace, LoopFields
    <2> HIDE DEF new
    <2>4. /\ DOMAIN loop' = Loops /\ loop'[started + 1] = new
          /\ \A l \in Loops \ {started + 1} : loop'[l] = cancelled[l]
      BY <2>1, <2>2, CancelKeeps
    <2>5. LoopsOK'
      BY <2>3, <2>4, CancelKeeps DEF LoopsOK, LoopOK
    <2>6. OneLoop'
      <3>1. \A l \in Loops : l > started' => loop'[l].at = "none"
        <4> SUFFICES ASSUME NEW l \in Loops, l > started'
                     PROVE  loop'[l].at = "none"
          OBVIOUS
        <4>1. l # started + 1 /\ l > started
          BY <2>1, <2>2 DEF Loops
        <4> QED BY <2>4, <4>1, CancelKeeps DEF StunInv, OneLoop
      <3>2. \A l \in Loops : loop'[l].live => l = cur' /\ observing'
        BY <1>2, <2>1, <2>3, <2>4, CancelKeeps
      <3>3. cur' # 0 => loop'[cur'].at # "none" /\ (observing' => loop'[cur'].live)
        BY <1>2, <2>1, <2>3, <2>4
      <3>4. (running' <=> cur' # 0) /\ wants(settings)'
        BY <1>4, <2>1, <2>2 DEF wants
      <3>5. started' \in Nat /\ cur' \in 0 .. started' /\ started' <= MaxLoops
        BY <2>1, <2>2, StunAssumption
      <3> QED BY <3>1, <3>2, <3>3, <3>4, <3>5 DEF OneLoop
    <2>7. Applied'
      <3>1. ~stale' => want = leaves'
        BY <1>2
      <3>2. cur' # 0
        BY <2>1, <2>2
      <3>3. ~stale' => wants(leaves)'
        BY <1>4, <3>1 DEF wants
      <3> QED BY <2>1, <3>1, <3>2, <3>3 DEF Applied
    <2> QED BY <1>1, <2>5, <2>6, <2>7 DEF StunInv
  <1>5. CASE ~upToDate(want) /\ ~wants(want)
    <2>1. /\ loop' = cancelled /\ cur' = 0 /\ UNCHANGED <<settings, started>>
          /\ running' = IF cur = 0 THEN running ELSE FALSE
      BY <1>5 DEF Reconcile, cancelled
    <2>2. LoopsOK'
      BY <2>1, CancelKeeps DEF LoopsOK, LoopOK
    <2>3. ~running'
      BY <2>1 DEF StunInv, OneLoop
    <2>4. OneLoop'
      BY <2>1, <2>3, CancelKeeps DEF StunInv, OneLoop
    <2>5. Applied'
      BY <1>2, <1>5, <2>1 DEF Applied, wants
    <2> QED BY <1>1, <2>2, <2>4, <2>5 DEF StunInv
  <1> QED BY <1>3, <1>4, <1>5

LEMMA StunStays == StunInv /\ [Next]_vars => StunInv'
  <1> SUFFICES ASSUME StunInv, [Next]_vars
               PROVE  StunInv'
    OBVIOUS
  <1>1. ASSUME UNCHANGED <<reconcileVars, loop>>
        PROVE  StunInv'
    BY <1>1 DEF StunInv, LoopsOK, LoopOK, TasksOK, OneLoop, Applied, Quiet, wants,
       reconcileVars
  <1>2. ASSUME UNCHANGED <<running, settings, cur, started, loop, observing>>
        PROVE  LoopsOK' /\ OneLoop'
    BY <1>2 DEF StunInv, LoopsOK, LoopOK, OneLoop, wants
  <1>3. CASE WriteLeaf
    <2>1. LoopsOK' /\ OneLoop'
      BY <1>2, <1>3 DEF WriteLeaf
    <2>2. CASE observing
      <3>1. PICK t \in Tasks : task' = [task EXCEPT ![t].at = "enable"]
        BY <1>3, <2>2 DEF WriteLeaf, Spawn
      <3>2. TasksOK' /\ task'[t].at = "enable"
        BY <3>1 DEF StunInv, TasksOK
      <3>3. ~Quiet'
        BY <3>2 DEF Quiet
      <3> QED BY <2>1, <3>2, <3>3 DEF StunInv, Applied
    <2>3. CASE ~observing
      BY <1>3, <2>1, <2>3 DEF WriteLeaf, StunInv, TasksOK, Applied
    <2> QED BY <2>2, <2>3
  <1>4. CASE SetBatch
    <2>1. LoopsOK' /\ OneLoop' /\ TasksOK'
      BY <1>2, <1>4 DEF SetBatch, StunInv, TasksOK
    <2>2. unseen'
      BY <1>4 DEF SetBatch
    <2> QED BY <2>1, <2>2 DEF StunInv, Applied
  <1>5. CASE Stop
    <2>1. /\ ~observing' /\ loop' = cancelled
          /\ UNCHANGED <<task, running, settings, cur, started>>
      BY <1>5 DEF Stop, cancelled
    <2>2. LoopsOK'
      BY <2>1, CancelKeeps DEF LoopsOK, LoopOK
    <2>3. cur # 0 => cur \in Loops
      BY StunAssumption DEF StunInv, OneLoop, Loops
    <2>4. OneLoop'
      BY <2>1, <2>3, CancelKeeps DEF StunInv, OneLoop, wants
    <2> QED BY <2>1, <2>2, <2>4 DEF StunInv, TasksOK, Applied
  <1>6. ASSUME NEW t \in Tasks, ReadEnable(t) \/ ReadServer(t)
        PROVE  StunInv'
    <2>1. LoopsOK' /\ OneLoop'
      BY <1>2, <1>6 DEF ReadEnable, ReadServer
    <2>2. TasksOK' /\ task'[t].at # "idle"
      BY <1>6 DEF ReadEnable, ReadServer, StunInv, TasksOK
    <2>3. ~Quiet'
      BY <2>2 DEF Quiet
    <2> QED BY <2>1, <2>2, <2>3 DEF StunInv, Applied
  <1>7. CASE StunStep
    BY <1>3, <1>4, <1>5, <1>6, <1>7, ReconcileKeeps, MoveKeeps DEF StunStep, Moves
  <1>8. CASE FactoryReset
    <2>1. LoopsOK' /\ OneLoop' /\ TasksOK'
      BY <1>2, <1>8 DEF FactoryReset, StunInv, TasksOK
    <2>2. CASE leaves' = leaves
      BY <1>8, <2>1, <2>2 DEF FactoryReset, StunInv, Applied, Quiet, wants
    <2>3. CASE leaves' # leaves
      <3>1. unseen'
        BY <1>8, <2>3 DEF FactoryReset
      <3> QED BY <2>1, <3>1 DEF StunInv, Applied
    <2> QED BY <2>2, <2>3
  <1> QED BY <1>1, <1>7, <1>8 DEF Next, vars, stunVars, reconcileVars

LEMMA StunInvariant == Spec => []StunInv
  <1>1. Init => StunInv
    <2> SUFFICES ASSUME NEW p \in Plans, StunInit(p.stun, p.leaves)
                 PROVE  StunInv
      BY DEF Init
    <2>1. LoopsOK /\ OneLoop /\ TasksOK
      BY StunAssumption DEF StunInit, LoopsOK, LoopOK, LoopPlace, NoLoop, OneLoop, TasksOK
    <2>2. Applied
      <3>1. CASE p.stun
        <4>1. (CHOOSE u \in Tasks : TRUE) \in Tasks
          BY StunAssumption
        <4>2. \E t \in Tasks : task[t].at = "enable"
          BY <3>1, <4>1 DEF StunInit
        <4> QED BY <4>2 DEF Applied, Quiet
      <3>2. CASE ~p.stun
        BY <3>2, PlanAssumption DEF StunInit, Applied
      <3> QED BY <3>1, <3>2
    <2> QED BY <2>1, <2>2 DEF StunInv
  <1> QED BY <1>1, StunStays, PTL DEF Spec

\* Once its reconciles have run, the client runs one loop with the tree's
\* settings or none, but for what the property excepts: writes that tell no
\* observer, a reconcile with leaves read too early, and a loop that ended by
\* itself (Client.reconcile).
THEOREM LoopFollowsTree == Spec => []StunFollowsTree
  <1>1. StunInv => StunFollowsTree
    <2> SUFFICES ASSUME StunInv, Quiet, ~unseen, ~stale
                 PROVE  FollowsTree /\ (observing /\ cur # 0 => settings = leaves)
      BY DEF StunFollowsTree
    <2>1. cur # 0 => cur \in Loops
      BY StunAssumption DEF StunInv, OneLoop, Loops
    <2>2. observing => IF wants(leaves) THEN cur # 0 /\ settings = leaves ELSE cur = 0
      BY DEF StunInv, Applied
    <2>3. \A l \in Loops : l # 0
      BY DEF Loops
    <2>4. FollowsTree
      BY <2>1, <2>2, <2>3 DEF StunInv, OneLoop, FollowsTree, Running, Ended
    <2> QED BY <2>2, <2>4
  <1> QED BY <1>1, StunInvariant, PTL

-----------------------------------------------------------------------------
(* The STUN client: each UDP connection request once *)

\* Until two loops validated at once, what was accepted is no later than the
\* record and what is about to be accepted is later than it.
AcceptInv ==
    /\ taken \in [Datagrams -> Nat] /\ last.ts \in Nat
    /\ ~mixed =>
         /\ \A d \in Datagrams : taken[d] <= 1 /\ (taken[d] = 1 => d.ts <= last.ts)
         /\ \A l \in Loops : loop[l].at = "accept" => Head(loop[l].in).ts > last.ts

LEMMA AcceptStays == StunInv /\ AcceptInv /\ [Next]_vars => AcceptInv'
  <1> SUFFICES ASSUME StunInv, AcceptInv, [Next]_vars
               PROVE  AcceptInv'
    OBVIOUS
  <1>1. CASE UNCHANGED <<last, taken, mixed, loop>>
    BY <1>1 DEF AcceptInv
  <1>2. ASSUME NEW l \in Loops, RequestAccept(l)
        PROVE  AcceptInv'
    <2> DEFINE d == Head(loop[l].in)
    <2>1. LoopOK(loop[l]) /\ loop[l].at = "accept"
      BY <1>2 DEF RequestAccept, LoopAt, StunInv, LoopsOK
    <2>2. d \in Datagrams /\ d.ts \in Nat
      BY <2>1, StunAssumption DEF LoopOK
    <2>3. /\ taken' = [taken EXCEPT ![d] = @ + 1] /\ last'.ts = d.ts
          /\ mixed' = (mixed \/ \E k \in Loops \ {l} : loop[k].at = "accept")
          /\ loop' = [loop EXCEPT ![l].at = "select", ![l].in = Tail(@)]
      BY <1>2 DEF RequestAccept
    <2>4. loop'[l].at = "select" /\ \A k \in Loops \ {l} : loop'[k] = loop[k]
      BY <2>1, <2>3 DEF StunInv, LoopsOK, LoopOK, LoopFields
    <2>5. taken' \in [Datagrams -> Nat] /\ last'.ts \in Nat
      BY <2>2, <2>3 DEF AcceptInv
    <2>6. ASSUME ~mixed'
          PROVE  /\ \A e \in Datagrams : taken'[e] <= 1 /\ (taken'[e] = 1 => e.ts <= last'.ts)
                 /\ \A k \in Loops : loop'[k].at # "accept"
      <3>1. ~mixed /\ \A k \in Loops \ {l} : loop[k].at # "accept"
        BY <2>3, <2>6
      <3>2. \A k \in Loops : loop'[k].at # "accept"
        BY <2>4, <3>1
      <3>3. d.ts > last.ts
        BY <2>1, <3>1 DEF AcceptInv
      <3>4. taken[d] = 0
        BY <2>2, <3>1, <3>3 DEF AcceptInv
      <3>5. ASSUME NEW e \in Datagrams
            PROVE  taken'[e] <= 1 /\ (taken'[e] = 1 => e.ts <= last'.ts)
        <4>1. CASE e = d
          BY <2>2, <2>3, <3>4, <4>1 DEF AcceptInv
        <4>2. CASE e # d
          <5>1. taken'[e] = taken[e] /\ e.ts \in Nat
            BY <2>3, <4>2, StunAssumption DEF AcceptInv
          <5> QED BY <2>2, <2>3, <3>1, <3>3, <5>1 DEF AcceptInv
        <4> QED BY <4>1, <4>2
      <3> QED BY <3>2, <3>5
    <2> QED BY <2>5, <2>6 DEF AcceptInv
  <1>3. ASSUME NEW l \in Loops, Moves(l), ~RequestAccept(l)
        PROVE  AcceptInv'
    <2>1. UNCHANGED <<last, taken, mixed>>
      BY <1>3 DEF Moves, LoopStep, Busy, Open, Cancelled, KeepAlive, Retransmit, Response,
         ErrorResponse, ReportNat, ReportAddress, RequestUser, RequestPass, RequestCheck,
         SocketFails, Answer, Lose, Rebind, SendRequest, LoopUnchanged
    <2>2. CASE UNCHANGED loop
      BY <2>1, <2>2 DEF AcceptInv
    <2>3. ASSUME NEW q, Continues(l, q), loop' = [loop EXCEPT ![l] = q]
          PROVE  AcceptInv'
      BY <2>1, <2>3 DEF StunInv, LoopsOK, Continues, AcceptInv
    <2> QED BY <1>3, <2>2, <2>3, LoopMoves DEF StunInv
  <1>4. ASSUME NEW t \in Tasks, Reconcile(t)
        PROVE  AcceptInv'
    <2>1. UNCHANGED <<last, taken, mixed>>
      BY <1>4 DEF Reconcile
    <2>2. \A l \in Loops : loop'[l].at = "accept" =>
             loop[l].at = "accept" /\ loop'[l].in = loop[l].in
      <3>1. \A l \in Loops : cancelled[l].at = "accept" =>
               loop[l].at = "accept" /\ cancelled[l].in = loop[l].in
        BY <1>4, CancelKeeps DEF cancelled, StunInv, LoopsOK, LoopOK, LoopFields
      <3>2. CASE upToDate(task[t].want)
        BY <1>4, <3>2 DEF Reconcile
      <3>3. CASE ~upToDate(task[t].want) /\ wants(task[t].want)
        <4>1. PICK new : new.at = "open" /\ loop' = [cancelled EXCEPT ![started + 1] = new]
          BY <1>4, <3>3 DEF Reconcile, cancelled
        <4> QED BY <3>1, <4>1, CancelKeeps
      <3>4. CASE ~upToDate(task[t].want) /\ ~wants(task[t].want)
        <4>1. loop' = cancelled
          BY <1>4, <3>4 DEF Reconcile, cancelled
        <4> QED BY <3>1, <4>1
      <3> QED BY <3>2, <3>3, <3>4
    <2> QED BY <2>1, <2>2 DEF AcceptInv
  <1>5. CASE Stop
    <2>1. UNCHANGED <<last, taken, mixed>> /\ loop' = cancelled
      BY <1>5 DEF Stop, cancelled
    <2>2. \A l \in Loops : cancelled[l].at = "accept" =>
             loop[l].at = "accept" /\ cancelled[l].in = loop[l].in
      BY CancelKeeps DEF cancelled, StunInv, LoopsOK, LoopOK, LoopFields
    <2> QED BY <2>1, <2>2 DEF AcceptInv
  <1>6. ASSUME NEW t \in Tasks, ReadEnable(t) \/ ReadServer(t)
        PROVE  AcceptInv'
    BY <1>1, <1>6 DEF ReadEnable, ReadServer
  <1>7. CASE WriteLeaf \/ SetBatch \/ FactoryReset
    BY <1>1, <1>7 DEF WriteLeaf, SetBatch, FactoryReset
  <1>8. CASE StunStep
    BY <1>2, <1>3, <1>4, <1>5, <1>6, <1>7, <1>8 DEF StunStep, Moves
  <1> QED BY <1>1, <1>7, <1>8 DEF Next, vars, stunVars

\* Each UDP connection request triggers one session, however many copies of it
\* arrive and however often the loop is restarted in between, unless two loops
\* validated at once (Client.connectionRequest).
THEOREM RequestsAcceptedOnce == Spec => []AcceptedOnce
  <1>1. Init => AcceptInv
    BY DEF Init, StunInit, AcceptInv, NoLoop
  <1>2. AcceptInv => AcceptedOnce
    BY DEF AcceptInv, AcceptedOnce
  <1> QED BY <1>1, <1>2, StunInvariant, AcceptStays, PTL DEF Spec

=============================================================================
