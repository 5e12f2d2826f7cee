-------------------------------- MODULE Gate --------------------------------
(***************************************************************************)
(* The agent's front door: auth_middleware and verify_handler              *)
(* (chronos-agent/src/main.rs), the request MAC (crypto.rs) and the nonce  *)
(* cache (tls.rs).  Connections are served concurrently and give way to    *)
(* each other wherever a handler awaits a lock or a body.                  *)
(*                                                                         *)
(* The MAC is ideal: a MAC that verifies over a request was made, with the *)
(* operator's key, over exactly that request.  The canonical encoding is   *)
(* length prefixed, hence injective, and is represented by the request.    *)
(*                                                                         *)
(* The process starts with any configuration it accepts, ends at any time, *)
(* and starts again with none of its memory.                               *)
(***************************************************************************)
EXTENDS Naturals, SequencesExt, Startup

CONSTANTS
    Connection,
    Nonce,          \* nonces clients use
    Body,           \* "valid" is a proof that verifies, any other body is not
    CacheCapacity,  \* 1024 in the code
    MaxFailures,    \* MAX_FAILURES, 5 in the code
    MaxSigned,      \* bounds of the model on the requests an operator signs
    MaxAccepted     \* and on those let through to a handler

ASSUME GateAssumption ==
    /\ IsFiniteSet(Connection)
    /\ {CacheCapacity, MaxSigned, MaxAccepted} \subseteq Nat
    /\ MaxFailures \in Nat \ {0}
    /\ "none" \notin Nonce

VARIABLES
    process,            \* down, keyed, or without a key: local or open to the network
    signed,             \* the requests an operator has put a MAC on
    seen, order,        \* NonceCache: the set and the order of insertion
    conn,               \* what each connection's handler is doing
    attested,           \* whether there is an attestation to verify against
    verifying,          \* who holds the attestation lock
    verify_failures,
    accepted            \* history: the requests let through, oldest first
vars == << process, signed, seen, order, conn, attested, verifying, verify_failures, accepted >>

HttpRequest == [nonce : Nonce, body : Body]

\* A request as it arrives, with what its MAC was computed over: a MAC that nobody
\* made is as good as none.
NoMac == [nonce |-> "none", body |-> "none"]

Idle == [at |-> "idle"]
Nobody == "nobody"

Init ==
    /\ process = "down"
    /\ signed = {}
    /\ seen = {}
    /\ order = << >>
    /\ conn = [c \in Connection |-> Idle]
    /\ attested = FALSE
    /\ verifying = Nobody
    /\ verify_failures = 0
    /\ accepted = << >>

SetConn(c, value) == conn' = [conn EXCEPT ![c] = value]
cache == << seen, order >>
lockout == << attested, verifying, verify_failures >>

\* main: a configuration that is refused leaves the agent down.
Start(cfg) ==
    /\ process = "down"
    /\ Starts(cfg)
    /\ process' = IF cfg.enabled THEN "keyed"
                  ELSE IF Reach(cfg.api_addr) = "host" THEN "local" ELSE "open"
    /\ UNCHANGED << signed, seen, order, conn, attested, verifying, verify_failures, accepted >>

\* The process ends, however it does, and its memory with it.
Stop ==
    /\ process # "down"
    /\ process' = "down"
    /\ seen' = {} /\ order' = << >>
    /\ conn' = [c \in Connection |-> Idle]
    /\ attested' = FALSE /\ verifying' = Nobody /\ verify_failures' = 0
    /\ accepted' = << >>
    /\ UNCHANGED signed

---------------------------------------------------------------------------
(* auth_middleware.                                                        *)

\* The operator signs a request with request_mac.
Sign(request) ==
    /\ Cardinality(signed) < MaxSigned
    /\ signed' = signed \cup {request}
    /\ UNCHANGED << process, cache, conn, lockout, accepted >>

\* verify_request_mac.
VerifyRequestMac(d) == d.mac = d.request

\* Anything may be delivered, as often as it likes.  The body is read, then the
\* MAC checked: a request without a good one goes no further.
Authenticate(c, d) ==
    /\ process # "down"
    /\ conn[c] = Idle
    /\ process = "keyed" => VerifyRequestMac(d)
    /\ SetConn(c, [at |-> "nonce", request |-> d.request])
    /\ UNCHANGED << process, signed, cache, lockout, accepted >>

\* Mutant: the newest nonce is evicted.
CheckAndInsertEvictsNewest(nonce) ==
    /\ nonce \notin seen
    /\ LET full == Len(order) >= CacheCapacity /\ order # << >>
       IN  /\ order' = Append(IF full THEN Front(order) ELSE order, nonce)
           /\ seen' = (IF full THEN seen \ {Last(order)} ELSE seen) \cup {nonce}

\* NonceCache::check_and_insert of a fresh nonce: evict when full, then insert.
CheckAndInsert(nonce) ==
    /\ nonce \notin seen
    /\ LET full == Len(order) >= CacheCapacity /\ order # << >>
       IN  /\ order' = Append(IF full THEN Tail(order) ELSE order, nonce)
           /\ seen' = (IF full THEN seen \ {Head(order)} ELSE seen) \cup {nonce}

\* The replay check, under the cache lock, and on to verify_handler or to one of
\* the other handlers, which Mission models.
PassNonce(c) ==
    /\ conn[c].at = "nonce"
    /\ Len(accepted) < MaxAccepted
    /\ CheckAndInsert(conn[c].request.nonce)
    /\ \/ SetConn(c, [conn[c] EXCEPT !.at = "check"])
       \/ SetConn(c, Idle)
    /\ accepted' = Append(accepted, conn[c].request)
    /\ UNCHANGED << process, signed, lockout >>

RejectReplay(c) ==
    /\ conn[c].at = "nonce"
    /\ conn[c].request.nonce \in seen
    /\ SetConn(c, Idle)
    /\ UNCHANGED << process, signed, cache, lockout, accepted >>

---------------------------------------------------------------------------
(* verify_handler.                                                         *)

\* Mutant: off by one.
CheckLockoutLate(c) ==
    /\ conn[c].at = "check"
    /\ SetConn(c, IF verify_failures > MaxFailures THEN Idle ELSE [conn[c] EXCEPT !.at = "wait"])
    /\ UNCHANGED << process, signed, cache, lockout, accepted >>

\* The failure count is read and its lock released.
CheckLockout(c) ==
    /\ conn[c].at = "check"
    /\ SetConn(c, IF verify_failures >= MaxFailures THEN Idle ELSE [conn[c] EXCEPT !.at = "wait"])
    /\ UNCHANGED << process, signed, cache, lockout, accepted >>

\* The attestation lock is taken and held for the rest of the handler.
LockAttestation(c) ==
    /\ conn[c].at = "wait"
    /\ verifying = Nobody
    /\ \/ /\ ~attested
          /\ SetConn(c, Idle)
          /\ UNCHANGED verifying
       \/ /\ attested
          /\ SetConn(c, [conn[c] EXCEPT !.at = "verify"])
          /\ verifying' = c
    /\ UNCHANGED << process, signed, cache, attested, verify_failures, accepted >>

\* The proving key does not load: no verdict, and the count is left alone.
LoadFails(c) ==
    /\ conn[c].at = "verify"
    /\ verifying' = Nobody
    /\ SetConn(c, Idle)
    /\ UNCHANGED << process, signed, cache, attested, verify_failures, accepted >>

\* Mutant: a failure is counted twice.
VerifyProofCountsTwice(c) ==
    /\ conn[c].at = "verify"
    /\ verify_failures' = IF conn[c].request.body = "valid" THEN 0 ELSE verify_failures + 2
    /\ verifying' = Nobody
    /\ SetConn(c, Idle)
    /\ UNCHANGED << process, signed, cache, attested, accepted >>

\* A good proof clears the count; a bad one, or an error, adds to it.
VerifyProof(c) ==
    /\ conn[c].at = "verify"
    /\ verify_failures' = IF conn[c].request.body = "valid" THEN 0 ELSE verify_failures + 1
    /\ verifying' = Nobody
    /\ SetConn(c, Idle)
    /\ UNCHANGED << process, signed, cache, attested, accepted >>

\* run_mission publishes its attestation, under the same lock.
Publish ==
    /\ process # "down"
    /\ ~attested /\ verifying = Nobody
    /\ attested' = TRUE
    /\ UNCHANGED << process, signed, cache, conn, verifying, verify_failures, accepted >>

Delivered == [request : HttpRequest, mac : signed \cup {NoMac}]

Serve(c) ==
    \/ PassNonce(c) \/ RejectReplay(c) \/ CheckLockout(c)
    \/ LockAttestation(c) \/ LoadFails(c) \/ VerifyProof(c)

Next ==
    \/ \E cfg \in Config : Start(cfg)
    \/ Stop
    \/ \E request \in HttpRequest : Sign(request)
    \/ \E c \in Connection, d \in Delivered : Authenticate(c, d)
    \/ \E c \in Connection : Serve(c)
    \/ Publish

Spec == Init /\ [][Next]_vars

---------------------------------------------------------------------------
(* Properties.                                                             *)

Window == IF CacheCapacity > 1 THEN CacheCapacity ELSE 1

\* "Any nonce seen within the window is rejected as a replay": of the requests
\* let through, none has the nonce of one of the `capacity' before it, whatever
\* connections raced and whatever was evicted in between.
ReplayWindow ==
    \A i, j \in 1 .. Len(accepted) :
        i < j /\ j - i <= Window => accepted[i].nonce # accepted[j].nonce

\* config.rs: "an unauthenticated API on a routable address" is refused.  Whatever is
\* configured, a request that reaches a handler was signed by the operator, body
\* included, or no other host can send one.
UnauthenticatedIsLocal ==
    ToSet(accepted) \subseteq signed \/ process = "local"

\* The lockout counts what the checks could not stop: one handler per connection
\* may be past its check when the last permitted failure is counted.
FailuresAreBounded == verify_failures < MaxFailures + Cardinality(Connection)

\* Once locked, and with no handler past its check, the lockout is for good: nothing
\* but the end of the process resets the count, a good proof included.
PastCheck == {c \in Connection : conn[c].at \in {"wait", "verify"}}
LockoutIsFinal ==
    [][process # "down" /\ verify_failures >= MaxFailures /\ PastCheck = {} /\ process' # "down"
         => verify_failures' = verify_failures /\ PastCheck' = {}]_vars
===========================================================================
