----------------------------- MODULE GateProofs -----------------------------
(***************************************************************************)
(* The front door, for any number of connections, any capacity of the      *)
(* nonce cache, any configuration and any history of restarts.             *)
(***************************************************************************)
EXTENDS Gate, FiniteSetTheorems, SequenceTheorems, TLAPS

Handler ==
    [at : {"idle"}] \cup [at : {"nonce", "check", "wait", "verify"}, request : HttpRequest]

GateType ==
    /\ process \in {"down", "keyed", "local", "open"}
    /\ signed \subseteq HttpRequest
    /\ order \in Seq(Nonce)
    /\ conn \in [Connection -> Handler]
    /\ verify_failures \in Nat
    /\ accepted \in Seq(HttpRequest)

\* The cache holds the nonces of the newest requests let through, each once, and
\* the set and the queue agree.
CacheIsWindow ==
    LET n == Len(accepted)
    IN  /\ Len(order) = IF n < Window THEN n ELSE Window
        /\ \A i \in 1 .. Len(order) : order[i] = accepted[n - Len(order) + i].nonce
        /\ seen = {order[i] : i \in 1 .. Len(order)}

\* With a key, whatever got past the MAC is signed; without one, the listener is
\* local; and a process that is down has no memory.
MacHolds ==
    /\ process # "open"
    /\ process = "keyed" =>
          /\ \A i \in 1 .. Len(accepted) : accepted[i] \in signed
          /\ \A c \in Connection : conn[c] # Idle => conn[c].request \in signed
    /\ process = "down" => accepted = << >> /\ \A c \in Connection : conn[c] = Idle

\* A handler past the lockout's check may still add a failure, one for its connection.
FailuresCounted ==
    verify_failures + Cardinality(PastCheck) < MaxFailures + Cardinality(Connection)

GInv ==
    /\ GateType
    /\ CacheIsWindow /\ ReplayWindow
    /\ MacHolds
    /\ FailuresCounted

-----------------------------------------------------------------------------
(* The handlers' states.                                                   *)

\* Changing one handler's state leaves a handler's state.
LEMMA ConnType ==
    ASSUME GateType, NEW c \in Connection, NEW value \in Handler, SetConn(c, value)
    PROVE  /\ conn' \in [Connection -> Handler]
           /\ conn'[c] = value
           /\ \A d \in Connection \ {c} : conn'[d] = conn[d]
  BY DEF GateType, SetConn

\* A handler that is not idle has a request, and keeps it when it goes on.
LEMMA HandlerGoesOn ==
    ASSUME GateType, NEW c \in Connection, conn[c].at # "idle",
           NEW at \in {"nonce", "check", "wait", "verify"}
    PROVE  /\ conn[c].request \in HttpRequest
           /\ [conn[c] EXCEPT !.at = at] \in Handler
           /\ [conn[c] EXCEPT !.at = at].at = at
           /\ [conn[c] EXCEPT !.at = at].request = conn[c].request
PROOF
  <1>1. conn[c] \in [at : {"nonce", "check", "wait", "verify"}, request : HttpRequest]
    BY DEF GateType, Handler
  <1> QED BY <1>1 DEF Handler

\* A connection without a request is one, too.
LEMMA IdleHandler == Idle \in Handler /\ Idle.at = "idle"
  BY DEF Idle, Handler

\* Those past the check are connections, hence finitely many.
LEMMA PastCheckCounted ==
    ASSUME GateType
    PROVE  /\ IsFiniteSet(PastCheck)
           /\ Cardinality(PastCheck) \in Nat /\ Cardinality(Connection) \in Nat
           /\ Cardinality(PastCheck) <= Cardinality(Connection)
PROOF
  <1>1. PastCheck \subseteq Connection /\ IsFiniteSet(Connection)
    BY GateAssumption DEF PastCheck
  <1> QED BY <1>1, FS_Subset, FS_CardinalityType

\* A capacity of zero still keeps one nonce: the code evicts before it inserts.
LEMMA WindowIsPositive == Window \in Nat /\ Window >= 1
  BY GateAssumption DEF Window

-----------------------------------------------------------------------------
(* The nonce cache.                                                        *)

\* check_and_insert of a request let through: what is in the cache still is the
\* newest requests' nonces, so none of those has the new one.
LEMMA PassNonceWindow ==
    ASSUME GateType, CacheIsWindow, ReplayWindow,
           NEW request \in HttpRequest, CheckAndInsert(request.nonce),
           accepted' = Append(accepted, request)
    PROVE  order' \in Seq(Nonce) /\ CacheIsWindow' /\ ReplayWindow'
PROOF
  <1> DEFINE n == Len(accepted)
             full == Len(order) >= CacheCapacity /\ order # << >>
             kept == IF full THEN Tail(order) ELSE order
             drop == IF full THEN 1 ELSE 0
  <1>1. /\ accepted \in Seq(HttpRequest) /\ order \in Seq(Nonce) /\ request.nonce \in Nonce
        /\ n \in Nat /\ Len(order) \in Nat
        /\ Window \in Nat /\ Window >= 1 /\ CacheCapacity \in Nat
    BY WindowIsPositive, GateAssumption DEF GateType, HttpRequest
  <1>2. /\ Len(order) = IF n < Window THEN n ELSE Window
        /\ \A i \in 1 .. Len(order) : order[i] = accepted[n - Len(order) + i].nonce
        /\ seen = {order[i] : i \in 1 .. Len(order)}
    BY DEF CacheIsWindow
  <1>2a. /\ n < Window => Len(order) = n
         /\ n >= Window => Len(order) = Window
    BY <1>1, <1>2
  <1>3. /\ Len(accepted') = n + 1
        /\ \A i \in 1 .. n : accepted'[i] = accepted[i]
        /\ accepted'[n + 1] = request
    BY <1>1
  <1>4. /\ request.nonce \notin seen
        /\ order' = Append(kept, request.nonce)
        /\ seen' = (IF full THEN seen \ {Head(order)} ELSE seen) \cup {request.nonce}
    BY DEF CheckAndInsert
  <1>5. full <=> Len(order) = Window
    <2>1. order # << >> <=> Len(order) # 0
      BY <1>1
    <2> QED BY <1>1, <1>2, <2>1 DEF Window
  <1>6. /\ kept \in Seq(Nonce)
        /\ Len(kept) = Len(order) - drop
        /\ \A i \in 1 .. Len(kept) : kept[i] = order[i + drop]
    <2>1. CASE full
      <3>1. order # << >>
        BY <2>1
      <3> QED BY <1>1, <2>1, <3>1, HeadTailProperties
    <2>2. CASE ~full
      BY <1>1, <2>2
    <2> QED BY <2>1, <2>2
  <1>7. drop \in {0, 1} /\ (drop = 1 <=> Len(order) = Window)
    BY <1>5
  <1> HIDE DEF kept, drop
  <1>8. /\ order' \in Seq(Nonce)
        /\ Len(order') = Len(kept) + 1
        /\ \A i \in 1 .. Len(kept) : order'[i] = order[i + drop]
        /\ order'[Len(kept) + 1] = request.nonce
    BY <1>1, <1>4, <1>6
  <1>9. Len(order') = IF n + 1 < Window THEN n + 1 ELSE Window
    BY <1>1, <1>2, <1>6, <1>7, <1>8
  <1>10. \A i \in 1 .. Len(order') : order'[i] = accepted'[n + 1 - Len(order') + i].nonce
    <2>1. TAKE i \in 1 .. Len(order')
    <2>2. Len(order') = Len(order) - drop + 1 /\ Len(order) <= n /\ drop <= Len(order)
      BY <1>1, <1>2, <1>6, <1>7, <1>8
    <2>3. CASE i = Len(kept) + 1
      <3>1. n + 1 - Len(order') + i = n + 1
        BY <1>1, <1>6, <1>7, <1>8, <2>3
      <3> QED BY <1>3, <1>8, <2>3, <3>1
    <2>4. CASE i \in 1 .. Len(kept)
      <3>1. /\ i + drop \in 1 .. Len(order)
            /\ n - Len(order) + (i + drop) = n + 1 - Len(order') + i
            /\ n - Len(order) + (i + drop) \in 1 .. n
        BY <1>1, <1>6, <1>7, <2>2, <2>4
      <3>2. order[i + drop] = accepted[n - Len(order) + (i + drop)].nonce
        BY <1>2, <3>1
      <3> QED BY <1>3, <1>8, <2>4, <3>1, <3>2
    <2>5. Len(kept) \in Nat /\ i \in 1 .. Len(kept) + 1
      BY <1>1, <1>6, <1>8, <2>1
    <2>6. i \in 1 .. Len(kept) \/ i = Len(kept) + 1
      BY <2>5
    <2> QED BY <2>3, <2>4, <2>6
  <1>11. seen' = {order'[i] : i \in 1 .. Len(order')}
    <2>1. {order'[i] : i \in 1 .. Len(order')}
              = {order[i + drop] : i \in 1 .. Len(kept)} \cup {request.nonce}
      <3>1. Len(kept) \in Nat /\ 1 .. Len(order') = (1 .. Len(kept)) \cup {Len(kept) + 1}
        BY <1>1, <1>6, <1>8
      <3> QED BY <1>8, <3>1
    <2>2. CASE ~full
      <3>1. drop = 0 /\ Len(kept) = Len(order)
        BY <1>1, <1>6, <2>2 DEF drop
      <3>2. \A i \in 1 .. Len(kept) : i + drop = i
        BY <1>1, <3>1
      <3>3. {order[i + drop] : i \in 1 .. Len(kept)} = seen
        BY <1>2, <3>1, <3>2
      <3> QED BY <1>4, <2>1, <2>2, <3>3
    <2>3. CASE full
      <3>1. drop = 1 /\ Len(kept) = Len(order) - 1 /\ Len(order) = Window
        BY <1>1, <1>5, <1>6, <2>3 DEF drop
      <3>2. Head(order) = order[1]
        BY <1>1
      <3>3. \A i \in 2 .. Len(order) : order[i] # order[1]
        <4>1. TAKE i \in 2 .. Len(order)
        <4> DEFINE a == n - Len(order) + 1
                   b == n - Len(order) + i
        <4>2. /\ a \in 1 .. n /\ b \in 1 .. n /\ a < b /\ b - a <= Window
              /\ 1 \in 1 .. Len(order) /\ i \in 1 .. Len(order)
          BY <1>1, <1>2a, <4>1
        <4>3. order[1] = accepted[a].nonce /\ order[i] = accepted[b].nonce
          BY <1>2, <4>2
        <4> HIDE DEF a, b
        <4> QED BY <4>2, <4>3 DEF ReplayWindow
      <3>5. seen = {order[1]} \cup {order[i + 1] : i \in 1 .. Len(order) - 1}
        <4>1. ASSUME NEW x \in seen
              PROVE  x = order[1] \/ \E i \in 1 .. Len(order) - 1 : x = order[i + 1]
          <5>1. PICK j \in 1 .. Len(order) : x = order[j]
            BY <1>2, <4>1
          <5>2. CASE j # 1
            <6>1. j - 1 \in 1 .. Len(order) - 1 /\ j = (j - 1) + 1
              BY <1>1, <5>1, <5>2
            <6> QED BY <5>1, <6>1
          <5> QED BY <5>1, <5>2
        <4>2. order[1] \in seen
          BY <1>1, <1>2, <3>1
        <4>3. ASSUME NEW i \in 1 .. Len(order) - 1
              PROVE  order[i + 1] \in seen
          <5>1. i + 1 \in 1 .. Len(order)
            BY <1>1, <4>3
          <5> QED BY <1>2, <5>1
        <4> QED BY <4>1, <4>2, <4>3
      <3>6. order[1] \notin {order[i + 1] : i \in 1 .. Len(order) - 1}
        <4>1. \A i \in 1 .. Len(order) - 1 : i + 1 \in 2 .. Len(order)
          BY <1>1
        <4> QED BY <3>3, <4>1
      <3>7. {order[i + drop] : i \in 1 .. Len(kept)}
                = {order[i + 1] : i \in 1 .. Len(order) - 1}
        BY <3>1
      <3> QED BY <1>4, <2>1, <2>3, <3>2, <3>5, <3>6, <3>7
    <2> QED BY <2>2, <2>3
  <1>12. CacheIsWindow'
    <2>1. Len(order') = IF Len(accepted') < Window THEN Len(accepted') ELSE Window
      BY <1>3, <1>9
    <2>2. \A i \in 1 .. Len(order') :
              order'[i] = accepted'[Len(accepted') - Len(order') + i].nonce
      <3>1. Len(accepted') = n + 1
        BY <1>3
      <3> QED BY ONLY <3>1, <1>10
    <2>3. Window' = Window
      BY DEF Window
    <2> QED BY <1>11, <2>1, <2>2, <2>3 DEF CacheIsWindow
  <1>13. ReplayWindow'
    <2> SUFFICES \A i, j \in 1 .. n + 1 :
                     i < j /\ j - i <= Window => accepted'[i].nonce # accepted'[j].nonce
      <3>1. 1 .. Len(accepted') = 1 .. n + 1
        BY <1>3
      <3> HIDE DEF n
      <3> QED BY <3>1, Zenon DEF ReplayWindow
    <2>1. SUFFICES ASSUME NEW i \in 1 .. n + 1, NEW j \in 1 .. n + 1, i < j, j - i <= Window
                   PROVE  accepted'[i].nonce # accepted'[j].nonce
      OBVIOUS
    <2>2. CASE j \in 1 .. n
      <3>1. i \in 1 .. n
        BY <1>1, <2>1, <2>2
      <3> QED BY <1>3, <2>1, <2>2, <3>1 DEF ReplayWindow
    <2>3. CASE j = n + 1
      <3> DEFINE k == i - (n - Len(order))
      <3>1. k \in 1 .. Len(order) /\ n - Len(order) + k = i /\ i \in 1 .. n
        BY <1>1, <1>2a, <2>1, <2>3
      <3>2. order[k] = accepted[i].nonce /\ order[k] \in seen
        BY <1>2, <3>1
      <3> QED BY <1>3, <1>4, <2>3, <3>1, <3>2
    <2> QED BY <1>1, <2>1, <2>2, <2>3
  <1> QED BY <1>8, <1>12, <1>13

\* Whatever leaves the cache and the history alone leaves what relates them.
LEMMA CacheUntouched ==
    ASSUME CacheIsWindow, ReplayWindow, UNCHANGED << seen, order, accepted >>
    PROVE  CacheIsWindow' /\ ReplayWindow'
  BY DEF CacheIsWindow, ReplayWindow, Window

-----------------------------------------------------------------------------
(* The MAC, and the lockout.                                               *)

\* A handler that goes on with the request it has, or ends, needs no other MAC.
LEMMA MacStillHolds ==
    ASSUME GateType, MacHolds, NEW c \in Connection, NEW value \in Handler,
           SetConn(c, value), UNCHANGED << process, signed, accepted >>,
           value = Idle \/ (conn[c] # Idle /\ value.request = conn[c].request)
    PROVE  MacHolds'
PROOF
  <1>1. /\ conn'[c] = value
        /\ \A d \in Connection \ {c} : conn'[d] = conn[d]
    BY ConnType
  <1>2. \A d \in Connection : conn'[d] # Idle
            => conn[d] # Idle /\ conn'[d].request = conn[d].request
    BY <1>1
  <1> QED BY <1>2 DEF MacHolds

Past(handler) == handler.at \in {"wait", "verify"}

\* How one handler's move changes the number of those past the check.
LEMMA PastCheckMoves ==
    ASSUME GateType, NEW c \in Connection, NEW value \in Handler, SetConn(c, value)
    PROVE  /\ (Past(conn[c]) <=> Past(value))
                => Cardinality(PastCheck') = Cardinality(PastCheck)
           /\ Past(conn[c]) /\ ~Past(value)
                => Cardinality(PastCheck') = Cardinality(PastCheck) - 1
           /\ ~Past(conn[c]) /\ Past(value)
                => /\ Cardinality(PastCheck') = Cardinality(PastCheck) + 1
                   /\ Cardinality(PastCheck) + 1 <= Cardinality(Connection)
PROOF
  <1>1. /\ conn'[c] = value
        /\ \A d \in Connection \ {c} : conn'[d] = conn[d]
    BY ConnType
  <1>2. IsFiniteSet(PastCheck) /\ IsFiniteSet(Connection)
    BY PastCheckCounted, GateAssumption
  <1>3. ASSUME Past(conn[c]) <=> Past(value)
        PROVE  PastCheck' = PastCheck
    BY <1>1, <1>3 DEF PastCheck, Past
  <1>4. ASSUME Past(conn[c]), ~Past(value)
        PROVE  PastCheck' = PastCheck \ {c} /\ c \in PastCheck
    BY <1>1, <1>4 DEF PastCheck, Past
  <1>5. ASSUME ~Past(conn[c]), Past(value)
        PROVE  PastCheck' = PastCheck \cup {c} /\ c \notin PastCheck
    BY <1>1, <1>5 DEF PastCheck, Past
  <1>6. ASSUME Past(conn[c]), ~Past(value)
        PROVE  Cardinality(PastCheck') = Cardinality(PastCheck) - 1
    BY <1>2, <1>4, <1>6, FS_RemoveElement
  <1>7. ASSUME ~Past(conn[c]), Past(value)
        PROVE  /\ Cardinality(PastCheck') = Cardinality(PastCheck) + 1
               /\ Cardinality(PastCheck) + 1 <= Cardinality(Connection)
    <2>1. Cardinality(PastCheck \cup {c}) = Cardinality(PastCheck) + 1
      BY <1>2, <1>5, <1>7, FS_AddElement
    <2>2. PastCheck \cup {c} \subseteq Connection
      BY DEF PastCheck
    <2>3. Cardinality(PastCheck \cup {c}) <= Cardinality(Connection)
      BY <1>2, <2>2, FS_Subset
    <2> QED BY <1>5, <1>7, <2>1, <2>3
  <1> QED BY <1>3, <1>6, <1>7

-----------------------------------------------------------------------------
(* The invariant.                                                          *)

\* The agent is down, and nobody is connected.
LEMMA InitGInv == Init => GInv
PROOF
  <1> SUFFICES ASSUME Init
               PROVE  GInv
    OBVIOUS
  <1>1. \A c \in Connection : conn[c] = Idle
    BY DEF Init
  <1>2. GateType
    BY IdleHandler DEF Init, GateType
  <1>3. CacheIsWindow /\ ReplayWindow
    BY WindowIsPositive DEF Init, CacheIsWindow, ReplayWindow
  <1>4. MacHolds
    BY <1>1 DEF Init, MacHolds
  <1>5. FailuresCounted
    <2>1. PastCheck = {}
      BY <1>1, IdleHandler DEF PastCheck
    <2>2. Cardinality(Connection) \in Nat
      BY <1>2, PastCheckCounted
    <2> QED BY <2>1, <2>2, FS_EmptySet, GateAssumption DEF Init, FailuresCounted
  <1> QED BY <1>2, <1>3, <1>4, <1>5 DEF GInv

\* A configuration that starts without a key cannot be reached from outside.
LEMMA StartPreserves ==
    ASSUME GInv, NEW cfg \in Config, Start(cfg)
    PROVE  GInv'
PROOF
  <1>1. process = "down" /\ process' \in {"keyed", "local", "open"}
    BY DEF Start
  <1>2. process' # "open"
    <2>1. CASE cfg.enabled
      BY <2>1 DEF Start
    <2>2. CASE ~cfg.enabled
      <3>1. cfg.api_addr.host \in Loopback
        BY <2>2 DEF Start, Starts, Validate, IsLoopbackOnly
      <3>2. Reach(cfg.api_addr) = "host"
        BY <3>1 DEF Reach
      <3> QED BY <2>2, <3>2 DEF Start
    <2> QED BY <2>1, <2>2
  <1>3. GateType' /\ FailuresCounted'
    BY <1>1 DEF GInv, Start, GateType, FailuresCounted, PastCheck
  <1>4. CacheIsWindow' /\ ReplayWindow'
    BY CacheUntouched DEF GInv, Start
  <1>5. MacHolds'
    <2>1. accepted' = << >> /\ \A c \in Connection : conn'[c] = Idle
      BY <1>1 DEF GInv, MacHolds, Start
    <2> QED BY <1>1, <1>2, <2>1 DEF MacHolds
  <1> QED BY <1>3, <1>4, <1>5 DEF GInv

\* The process takes the cache and the history with it.
LEMMA StopPreserves ==
    ASSUME GInv, Stop
    PROVE  GInv'
PROOF
  <1>1. \A c \in Connection : conn'[c] = Idle
    BY DEF Stop
  <1>2. GateType'
    BY IdleHandler DEF GInv, Stop, GateType
  <1>3. CacheIsWindow' /\ ReplayWindow'
    BY WindowIsPositive DEF Stop, CacheIsWindow, ReplayWindow, Window
  <1>4. MacHolds'
    BY <1>1 DEF Stop, MacHolds
  <1>5. FailuresCounted'
    <2>1. PastCheck' = {}
      BY <1>1, IdleHandler DEF PastCheck
    <2>2. Cardinality(Connection) \in Nat /\ verify_failures' = 0
      BY PastCheckCounted DEF GInv, Stop
    <2> QED BY <2>1, <2>2, FS_EmptySet, GateAssumption DEF FailuresCounted
  <1> QED BY <1>2, <1>3, <1>4, <1>5 DEF GInv

\* A request that gets past verify_request_mac is one that was signed: a MAC that
\* nobody made is over no request.
LEMMA AuthenticatePreserves ==
    ASSUME GInv, NEW c \in Connection, NEW d \in Delivered, Authenticate(c, d)
    PROVE  GInv'
PROOF
  <1> DEFINE value == [at |-> "nonce", request |-> d.request]
  <1>1. d.request \in HttpRequest /\ d.mac \in signed \cup {NoMac}
    BY DEF Delivered
  <1>2. value \in Handler /\ value.request = d.request /\ ~Past(value) /\ SetConn(c, value)
    BY <1>1 DEF Handler, Past, Authenticate
  <1>3. /\ GateType /\ MacHolds /\ process # "down" /\ ~Past(conn[c])
        /\ UNCHANGED << process, signed, seen, order, verify_failures, accepted >>
    BY IdleHandler DEF GInv, Authenticate, Past, cache, lockout
  <1> HIDE DEF value
  <1>4. /\ conn' \in [Connection -> Handler]
        /\ conn'[c] = value
        /\ \A e \in Connection \ {c} : conn'[e] = conn[e]
    BY <1>2, <1>3, ConnType
  <1>5. GateType'
    BY <1>3, <1>4 DEF GateType
  <1>6. CacheIsWindow' /\ ReplayWindow'
    BY <1>3, CacheUntouched DEF GInv
  <1>7. MacHolds'
    <2>1. process = "keyed" => value.request \in signed
      <3>1. NoMac \notin HttpRequest
        BY GateAssumption DEF NoMac, HttpRequest
      <3> QED BY <1>1, <1>2, <3>1 DEF Authenticate, VerifyRequestMac
    <2> QED BY <1>3, <1>4, <2>1 DEF MacHolds
  <1>8. FailuresCounted'
    <2>1. Cardinality(PastCheck') = Cardinality(PastCheck)
      BY <1>2, <1>3, PastCheckMoves
    <2> QED BY <1>3, <2>1 DEF GInv, FailuresCounted
  <1> QED BY <1>5, <1>6, <1>7, <1>8 DEF GInv

\* A handler that moves on or ends without letting a request through: it must not
\* raise the count and the number past the check together.
LEMMA MovePreserves ==
    ASSUME GInv, NEW c \in Connection, NEW value \in Handler, SetConn(c, value),
           UNCHANGED << process, signed, seen, order, accepted >>,
           value = Idle \/ (conn[c] # Idle /\ value.request = conn[c].request),
           verify_failures' \in Nat,
           \/ verify_failures' <= verify_failures /\ (Past(value) => Past(conn[c]))
           \/ verify_failures' < MaxFailures
           \/ /\ verify_failures' <= verify_failures + 1
              /\ Past(conn[c]) /\ ~Past(value)
    PROVE  GInv'
PROOF
  <1>1. GateType'
    BY ConnType DEF GInv, GateType
  <1>2. CacheIsWindow' /\ ReplayWindow'
    BY CacheUntouched DEF GInv
  <1>3. MacHolds'
    BY MacStillHolds DEF GInv
  <1>4. FailuresCounted'
    <2> DEFINE past == Cardinality(PastCheck)
               all == Cardinality(Connection)
    <2>1. /\ past \in Nat /\ all \in Nat /\ past <= all
          /\ verify_failures \in Nat /\ MaxFailures \in Nat
          /\ verify_failures + past < MaxFailures + all
      BY PastCheckCounted, GateAssumption DEF GInv, GateType, FailuresCounted
    <2>2. CASE Past(conn[c]) <=> Past(value)
      <3>1. Cardinality(PastCheck') = past
        BY <2>2, PastCheckMoves DEF GInv
      <3>2. verify_failures' <= verify_failures \/ verify_failures' < MaxFailures
        BY <2>2
      <3> QED BY <2>1, <3>1, <3>2 DEF FailuresCounted
    <2>3. CASE Past(conn[c]) /\ ~Past(value)
      <3>1. Cardinality(PastCheck') = past - 1
        BY <2>3, PastCheckMoves DEF GInv
      <3>2. verify_failures' <= verify_failures + 1 \/ verify_failures' < MaxFailures
        BY <2>1, <2>3
      <3> QED BY <2>1, <3>1, <3>2 DEF FailuresCounted
    <2>4. CASE ~Past(conn[c]) /\ Past(value)
      <3>1. Cardinality(PastCheck') = past + 1 /\ past + 1 <= all
        BY <2>4, PastCheckMoves DEF GInv
      <3>2. verify_failures' < MaxFailures
        BY <2>4
      <3> QED BY <2>1, <3>1, <3>2 DEF FailuresCounted
    <2> QED BY <2>2, <2>3, <2>4
  <1> QED BY <1>1, <1>2, <1>3, <1>4 DEF GInv

\* The replay check, and on to a handler: the one step that lets a request through.
LEMMA PassNoncePreserves ==
    ASSUME GInv, NEW c \in Connection, PassNonce(c)
    PROVE  GInv'
PROOF
  <1>1. PICK value \in {[conn[c] EXCEPT !.at = "check"], Idle} : SetConn(c, value)
    BY DEF PassNonce
  <1>2. /\ GateType /\ MacHolds /\ conn[c].at = "nonce" /\ conn[c] # Idle /\ ~Past(conn[c])
        /\ UNCHANGED << process, signed, verify_failures >>
        /\ accepted' = Append(accepted, conn[c].request)
        /\ CheckAndInsert(conn[c].request.nonce)
    BY IdleHandler DEF GInv, PassNonce, Past, lockout
  <1>3. /\ value \in Handler /\ ~Past(value) /\ conn[c].request \in HttpRequest
        /\ value = Idle \/ value.request = conn[c].request
    <2> DEFINE on == [conn[c] EXCEPT !.at = "check"]
    <2>1. /\ conn[c].request \in HttpRequest
          /\ on \in Handler /\ on.at = "check" /\ on.request = conn[c].request
      BY <1>2, HandlerGoesOn
    <2>2. value = on \/ value = Idle
      BY <1>1
    <2> HIDE DEF on
    <2>3. ~Past(value)
      BY <2>1, <2>2, IdleHandler DEF Past
    <2> QED BY <2>1, <2>2, <2>3, IdleHandler
  <1>4. order' \in Seq(Nonce) /\ CacheIsWindow' /\ ReplayWindow'
    BY <1>2, <1>3, PassNonceWindow DEF GInv
  <1>5. /\ conn' \in [Connection -> Handler]
        /\ conn'[c] = value
        /\ \A d \in Connection \ {c} : conn'[d] = conn[d]
    BY <1>1, <1>2, <1>3, ConnType
  <1>6. accepted \in Seq(HttpRequest)
    BY <1>2 DEF GateType
  <1>7. GateType'
    BY <1>2, <1>3, <1>4, <1>5, <1>6 DEF GateType
  <1>8. MacHolds'
    <2>1. process # "down"
      BY <1>2 DEF MacHolds
    <2>2. process = "keyed" => conn[c].request \in signed
      BY <1>2 DEF MacHolds
    <2>3. process = "keyed" => \A i \in 1 .. Len(accepted') : accepted'[i] \in signed
      BY <1>2, <1>3, <1>6, <2>2 DEF MacHolds
    <2>4. \A d \in Connection : conn'[d] # Idle
              => conn[d] # Idle /\ conn'[d].request = conn[d].request
      BY <1>2, <1>3, <1>5
    <2> QED BY <1>2, <2>1, <2>3, <2>4 DEF MacHolds
  <1>9. FailuresCounted'
    <2>1. Cardinality(PastCheck') = Cardinality(PastCheck)
      BY <1>1, <1>2, <1>3, PastCheckMoves
    <2> QED BY <1>2, <2>1 DEF GInv, FailuresCounted
  <1> QED BY <1>4, <1>7, <1>8, <1>9 DEF GInv

\* The other steps of a handler.
LEMMA ServePreserves ==
    ASSUME GInv, NEW c \in Connection, Serve(c)
    PROVE  GInv'
PROOF
  <1>0. /\ GateType /\ verify_failures \in Nat /\ MaxFailures \in Nat \ {0}
        /\ Idle \in Handler /\ ~Past(Idle) /\ Idle.at = "idle"
    BY IdleHandler, GateAssumption DEF GInv, GateType, Past
  <1>1. CASE PassNonce(c)
    BY <1>1, PassNoncePreserves
  <1>2. CASE RejectReplay(c)
    <2>1. /\ SetConn(c, Idle)
          /\ UNCHANGED << process, signed, seen, order, accepted, verify_failures >>
      BY <1>2 DEF RejectReplay, cache, lockout
    <2> QED BY <1>0, <2>1, MovePreserves
  <1>3. CASE CheckLockout(c)
    <2> DEFINE on == [conn[c] EXCEPT !.at = "wait"]
    <2>1. /\ conn[c].at = "check" /\ conn[c] # Idle
          /\ UNCHANGED << process, signed, seen, order, accepted, verify_failures >>
      BY <1>0, <1>3 DEF CheckLockout, cache, lockout
    <2>2. on \in Handler /\ on.request = conn[c].request
      BY <1>0, <2>1, HandlerGoesOn
    <2>3. CASE verify_failures >= MaxFailures
      <3>1. SetConn(c, Idle)
        BY <1>3, <2>3 DEF CheckLockout
      <3> QED BY <1>0, <2>1, <3>1, MovePreserves
    <2>4. CASE verify_failures < MaxFailures
      <3>1. SetConn(c, on)
        BY <1>0, <1>3, <2>4 DEF CheckLockout
      <3> HIDE DEF on
      <3> QED BY <1>0, <2>1, <2>2, <2>4, <3>1, MovePreserves
    <2> QED BY <1>0, <2>3, <2>4
  <1>4. CASE LockAttestation(c)
    <2> DEFINE on == [conn[c] EXCEPT !.at = "verify"]
    <2>1. /\ conn[c].at = "wait" /\ conn[c] # Idle /\ Past(conn[c])
          /\ UNCHANGED << process, signed, seen, order, accepted, verify_failures >>
          /\ SetConn(c, Idle) \/ SetConn(c, on)
      BY <1>0, <1>4 DEF LockAttestation, cache, Past
    <2>2. on \in Handler /\ on.request = conn[c].request
      BY <1>0, <2>1, HandlerGoesOn
    <2> HIDE DEF on
    <2> QED BY <1>0, <2>1, <2>2, MovePreserves
  <1>5. CASE LoadFails(c)
    <2>1. /\ SetConn(c, Idle)
          /\ UNCHANGED << process, signed, seen, order, accepted, verify_failures >>
      BY <1>5 DEF LoadFails, cache
    <2> QED BY <1>0, <2>1, MovePreserves
  <1>6. CASE VerifyProof(c)
    <2>1. /\ SetConn(c, Idle) /\ Past(conn[c])
          /\ UNCHANGED << process, signed, seen, order, accepted >>
          /\ verify_failures' \in Nat /\ verify_failures' <= verify_failures + 1
      BY <1>0, <1>6 DEF VerifyProof, cache, Past
    <2> QED BY <1>0, <2>1, MovePreserves
  <1> QED BY <1>1, <1>2, <1>3, <1>4, <1>5, <1>6 DEF Serve

\* The operator signs more, never less.
LEMMA SignPreserves ==
    ASSUME GInv, NEW request \in HttpRequest, Sign(request)
    PROVE  GInv'
PROOF
  <1>1. UNCHANGED << process, seen, order, conn, verify_failures, accepted >>
        /\ signed' = signed \cup {request}
    BY DEF Sign, cache, lockout
  <1>2. GateType' /\ MacHolds' /\ FailuresCounted'
    BY <1>1 DEF GInv, GateType, MacHolds, FailuresCounted, PastCheck
  <1>3. CacheIsWindow' /\ ReplayWindow'
    BY <1>1, CacheUntouched DEF GInv
  <1> QED BY <1>2, <1>3 DEF GInv

\* Publication and stuttering touch nothing the invariant is about.
LEMMA IdleStepPreserves ==
    ASSUME GInv, UNCHANGED << process, signed, seen, order, conn, verify_failures, accepted >>
    PROVE  GInv'
PROOF
  <1>1. GateType' /\ MacHolds' /\ FailuresCounted'
    BY DEF GInv, GateType, MacHolds, FailuresCounted, PastCheck
  <1>2. CacheIsWindow' /\ ReplayWindow'
    BY CacheUntouched DEF GInv
  <1> QED BY <1>1, <1>2 DEF GInv

\* The invariant holds in every reachable state, across restarts.
THEOREM GateInvariant == Spec => []GInv
PROOF
  <1>1. ASSUME GInv, [Next]_vars
        PROVE  GInv'
    <2>1. CASE \E cfg \in Config : Start(cfg)
      BY <1>1, <2>1, StartPreserves
    <2>2. CASE Stop
      BY <1>1, <2>2, StopPreserves
    <2>3. CASE \E request \in HttpRequest : Sign(request)
      BY <1>1, <2>3, SignPreserves
    <2>4. CASE \E c \in Connection, d \in Delivered : Authenticate(c, d)
      BY <1>1, <2>4, AuthenticatePreserves
    <2>5. CASE \E c \in Connection : Serve(c)
      BY <1>1, <2>5, ServePreserves
    <2>6. CASE Publish
      BY <1>1, <2>6, IdleStepPreserves DEF Publish, cache
    <2>7. CASE UNCHANGED vars
      BY <1>1, <2>7, IdleStepPreserves DEF vars
    <2> QED BY <1>1, <2>1, <2>2, <2>3, <2>4, <2>5, <2>6, <2>7 DEF Next
  <1> QED BY <1>1, InitGInv, PTL DEF Spec

-----------------------------------------------------------------------------
(* The properties.                                                         *)

\* NonceCache: no nonce comes twice within the window, for any capacity.
THEOREM NoReplay == Spec => []ReplayWindow
PROOF
  <1>1. GInv => ReplayWindow
    BY DEF GInv
  <1> QED BY <1>1, GateInvariant, PTL

\* auth_middleware behind ChronosConfig::validate: what reaches a handler is signed, or
\* the listener is local, for any configuration of these classes.
THEOREM OnlyLocalWithoutKey == Spec => []UnauthenticatedIsLocal
PROOF
  <1>1. ASSUME GInv
        PROVE  UnauthenticatedIsLocal
    <2>1. ToSet(accepted) = {accepted[i] : i \in 1 .. Len(accepted)}
      BY <1>1 DEF GInv, GateType, ToSet
    <2>2. process # "local" => \A i \in 1 .. Len(accepted) : accepted[i] \in signed
      BY <1>1 DEF GInv, GateType, MacHolds
    <2> QED BY <2>1, <2>2 DEF UnauthenticatedIsLocal
  <1> QED BY <1>1, GateInvariant, PTL

\* verify_handler: the count overshoots the limit by less than the number of
\* connections, however many handlers pass the check together.
THEOREM FailuresBounded == Spec => []FailuresAreBounded
PROOF
  <1>1. ASSUME GInv
        PROVE  FailuresAreBounded
    <2>1. Cardinality(PastCheck) \in Nat /\ Cardinality(Connection) \in Nat
      BY <1>1, PastCheckCounted DEF GInv
    <2>2. verify_failures \in Nat /\ MaxFailures \in Nat
      BY <1>1, GateAssumption DEF GInv, GateType
    <2> QED BY <1>1, <2>1, <2>2 DEF GInv, FailuresCounted, FailuresAreBounded
  <1> QED BY <1>1, GateInvariant, PTL

\* verify_handler: with nobody past the check, nobody gets past it again.
THEOREM LockoutFinal == Spec => LockoutIsFinal
PROOF
  <1> DEFINE Locked == process # "down" /\ verify_failures >= MaxFailures /\ PastCheck = {}
             StaysLocked == verify_failures' = verify_failures /\ PastCheck' = {}
  <1>1. ASSUME GInv, [Next]_vars, Locked, process' # "down"
        PROVE  StaysLocked
    <2>1. \A c \in Connection : ~Past(conn[c])
      BY <1>1 DEF PastCheck, Past
    <2>2. ASSUME NEW c \in Connection, NEW value, SetConn(c, value), ~Past(value)
          PROVE  PastCheck' = {}
      <3>1. \A d \in Connection : conn'[d] = IF d = c THEN value ELSE conn[d]
        BY <1>1, <2>2 DEF GInv, GateType, SetConn
      <3> QED BY <2>1, <2>2, <3>1 DEF PastCheck, Past
    <2>3. CASE \E cfg \in Config : Start(cfg)
      BY <1>1, <2>3 DEF Start
    <2>4. CASE Stop
      BY <1>1, <2>4 DEF Stop
    <2>5. CASE \/ \E request \in HttpRequest : Sign(request)
               \/ Publish
               \/ UNCHANGED vars
      BY <1>1, <2>5 DEF Sign, Publish, vars, lockout, PastCheck
    <2>6. CASE \E c \in Connection, d \in Delivered : Authenticate(c, d)
      <3>1. PICK c \in Connection, d \in Delivered : Authenticate(c, d)
        BY <2>6
      <3> DEFINE value == [at |-> "nonce", request |-> d.request]
      <3>2. SetConn(c, value) /\ ~Past(value) /\ verify_failures' = verify_failures
        BY <3>1 DEF Authenticate, lockout, Past
      <3> QED BY <2>2, <3>2
    <2>7. CASE \E c \in Connection : Serve(c)
      <3>1. PICK c \in Connection : Serve(c)
        BY <2>7
      <3>2. conn[c].at \notin {"wait", "verify"} /\ ~Past(Idle)
        BY <2>1, IdleHandler DEF Past
      <3>3. CASE PassNonce(c)
        <4>1. ~Past([conn[c] EXCEPT !.at = "check"])
          BY <1>1, <3>3, HandlerGoesOn DEF GInv, PassNonce, Past
        <4> QED BY <2>2, <3>2, <3>3, <4>1 DEF PassNonce, lockout
      <3>4. CASE RejectReplay(c)
        BY <2>2, <3>2, <3>4 DEF RejectReplay, lockout
      <3>5. CASE CheckLockout(c)
        BY <1>1, <2>2, <3>2, <3>5 DEF CheckLockout, lockout
      <3> QED BY <3>1, <3>2, <3>3, <3>4, <3>5
              DEF Serve, LockAttestation, LoadFails, VerifyProof
    <2> QED BY <1>1, <2>3, <2>4, <2>5, <2>6, <2>7 DEF Next
  <1>2. GInv /\ [Next]_vars => [Locked /\ process' # "down" => StaysLocked]_vars
    BY <1>1
  <1> QED BY <1>2, GateInvariant, PTL DEF Spec, LockoutIsFinal
=============================================================================
