---------------------------- MODULE NonceStore ----------------------------
(***************************************************************************)
(* SignatureVerifier and NonceStore, which all three workers carry: a      *)
(* signed request has a timestamp and a nonce, is accepted only near its   *)
(* timestamp, and its nonce is remembered for a limited time.  The network *)
(* and a client that retries may deliver the same request any number of    *)
(* times, at any later moment.                                             *)
(*                                                                         *)
(* The middleware verifies on the event loop, so a verification is one     *)
(* step.  Time is counted in ticks of the process's clock, which does not  *)
(* go back.  The store is in memory: a restart empties it.                 *)
(***************************************************************************)
EXTENDS Integers

CONSTANTS
  Nonces,      \* every signer draws a fresh one (uuid4) for each request
  MaxSkew,     \* hmac_max_skew_seconds
  Ttl,         \* hmac_nonce_ttl_seconds
  MaxTime,     \* bound on the clock
  MaxRestarts, \* bound on restarts
  Never        \* no entry for a nonce

ASSUME SkewAssumption == MaxSkew \in Nat /\ MaxTime \in Nat /\ MaxRestarts \in Nat
ASSUME TtlAssumption == Ttl \in Nat /\ 2 * MaxSkew <= Ttl
ASSUME NeverAssumption == Never \notin Int

VARIABLES
  now,       \* time.time() of the worker
  signed,    \* the requests that have been signed
  seen,      \* NonceStore._seen: when a nonce was recorded, or Never
  accepted,  \* history: how often this process let a nonce in
  restarts   \* how often the process has started again

vars == <<now, signed, seen, accepted, restarts>>

Request == [nonce: Nonces, time: 0..MaxTime]

Init ==
  /\ now = 0
  /\ signed = {}
  /\ seen = [n \in Nonces |-> Never]
  /\ accepted = [n \in Nonces |-> 0]
  /\ restarts = 0

\* The caller's clock may be off by any amount.
Sign(r) ==
  /\ \A s \in signed : s.nonce # r.nonce
  /\ signed' = signed \cup {r}
  /\ UNCHANGED <<now, seen, accepted, restarts>>

Tick ==
  /\ now < MaxTime
  /\ now' = now + 1
  /\ UNCHANGED <<signed, seen, accepted, restarts>>

\* abs(current_time - request_time) > max_skew is refused.  (An operator that is
\* not part of Next and stands before the one it resembles, here and below, is a
\* mutant of it: a plausible bug that the properties have to notice.)
InSkew(r) == now - r.time <= MaxSkew /\ r.time - now <= MaxSkew

\* _evict: entries older than the TTL go, one exactly as old stays.
EvictedEarly == [n \in Nonces |->
                   IF seen[n] # Never /\ seen[n] <= now - MaxSkew THEN Never
                   ELSE seen[n]]
Evicted == [n \in Nonces |->
              IF seen[n] # Never /\ seen[n] < now - Ttl THEN Never ELSE seen[n]]

\* check_and_record, which runs only after the signature proved valid.
RecordExpiry(r) ==
  IF Evicted[r.nonce] = Never
    THEN /\ seen' = [Evicted EXCEPT ![r.nonce] = now + Ttl]
         /\ accepted' = [accepted EXCEPT ![r.nonce] = @ + 1]
    ELSE seen' = Evicted /\ UNCHANGED accepted

Record(r) ==
  IF Evicted[r.nonce] = Never
    THEN /\ seen' = [Evicted EXCEPT ![r.nonce] = now]
         /\ accepted' = [accepted EXCEPT ![r.nonce] = @ + 1]
    ELSE seen' = Evicted /\ UNCHANGED accepted

\* verify.  A request whose key, body hash or signature is wrong (~valid) is
\* refused before the store is asked, and leaves no trace.
VerifyRecordsFirst(r, valid) ==
  /\ InSkew(r)
  /\ IF valid THEN Record(r)
              ELSE seen' = [Evicted EXCEPT ![r.nonce] = now] /\ UNCHANGED accepted
  /\ UNCHANGED <<now, signed, restarts>>

Verify(r, valid) ==
  /\ InSkew(r)
  /\ valid
  /\ Record(r)
  /\ UNCHANGED <<now, signed, restarts>>

Restart ==
  /\ restarts < MaxRestarts
  /\ restarts' = restarts + 1
  /\ seen' = [n \in Nonces |-> Never]
  /\ accepted' = [n \in Nonces |-> 0]
  /\ UNCHANGED <<now, signed>>

Next ==
  \/ \E r \in Request : Sign(r)
  \/ \E r \in signed, valid \in BOOLEAN : Verify(r, valid)
  \/ Tick
  \/ Restart

Spec == Init /\ [][Next]_vars

----------------------------------------------------------------------------
(* Properties *)

\* Every variable keeps the shape the code gives it.
TypeOK ==
  /\ now \in 0..MaxTime
  /\ signed \subseteq Request
  /\ seen \in [Nonces -> (0..MaxTime) \cup {Never}]
  /\ accepted \in [Nonces -> Nat]
  /\ restarts \in 0..MaxRestarts

\* A process lets a request in at most once, however often and whenever it is
\* delivered: the nonce outlives the interval in which the timestamp is good.
AcceptedOnce == \A n \in Nonces : accepted[n] <= 1

\* Only a request that was let in can get a later copy refused: a request that
\* failed its signature does not use up the nonce.
OnlyAcceptedBlocks == \A n \in Nonces : seen[n] # Never => accepted[n] > 0
=============================================================================
