------------------------- MODULE NonceStoreProofs -------------------------
(***************************************************************************)
(* Proofs that the signature check lets a request in at most once in the   *)
(* life of a process, for every number of requests, skew and TTL with      *)
(* 2 * MaxSkew <= Ttl.                                                     *)
(***************************************************************************)
EXTENDS NonceStore, TLAPS

\* A nonce belongs to one signed request.
FreshNonces == \A r, s \in signed : r.nonce = s.nonce => r = s

Near(a, r) == a - r.time <= MaxSkew /\ r.time - a <= MaxSkew

\* A request that was let in is still remembered, since a moment near its
\* timestamp, or its timestamp has gone stale.
RememberedOrStale ==
  \A n \in Nonces : accepted[n] > 0 =>
    \E r \in signed :
      /\ r.nonce = n
      /\ \/ seen[n] # Never /\ Near(seen[n], r)
         \/ now - r.time > MaxSkew

Inv == TypeOK /\ FreshNonces /\ AcceptedOnce /\ OnlyAcceptedBlocks /\ RememberedOrStale

----------------------------------------------------------------------------

\* Eviction only forgets requests whose timestamp can no longer be good.
LEMMA EvictedType ==
  ASSUME TypeOK
  PROVE  /\ Evicted \in [Nonces -> (0..MaxTime) \cup {Never}]
         /\ \A n \in Nonces : Evicted[n] # Never => Evicted[n] = seen[n]
         /\ \A n \in Nonces : Evicted[n] = Never /\ seen[n] # Never =>
                                seen[n] \in 0..MaxTime /\ seen[n] < now - Ttl
  BY DEF TypeOK, Evicted

\* The inductive invariant without the remembered part moves over an eviction.
LEMMA EvictedIsStale ==
  ASSUME TypeOK, RememberedOrStale,
         NEW n \in Nonces, accepted[n] > 0
  PROVE  \E r \in signed :
           /\ r.nonce = n
           /\ \/ Evicted[n] # Never /\ Evicted[n] = seen[n] /\ Near(Evicted[n], r)
              \/ now - r.time > MaxSkew
<1>1. PICK r \in signed :
        /\ r.nonce = n
        /\ \/ seen[n] # Never /\ Near(seen[n], r)
           \/ now - r.time > MaxSkew
  BY DEF RememberedOrStale
<1>2. r.time \in Int /\ now \in Int /\ MaxSkew \in Int /\ Ttl \in Int
  BY SkewAssumption, TtlAssumption DEF TypeOK, Request
<1>3. CASE seen[n] # Never /\ Evicted[n] = Never /\ Near(seen[n], r)
  <2>1. seen[n] \in Int /\ seen[n] < now - Ttl
    BY <1>3, EvictedType
  <2>2. now - r.time > MaxSkew
    BY <1>2, <1>3, <2>1, TtlAssumption DEF Near
  <2> QED BY <1>1, <2>2
<1>4. CASE seen[n] # Never /\ Evicted[n] # Never /\ Near(seen[n], r)
  BY <1>1, <1>4, EvictedType
<1>5. CASE now - r.time > MaxSkew
  BY <1>1, <1>5
<1> QED BY <1>1, <1>3, <1>4, <1>5

\* The heart of the check: a request that is inside the skew and whose nonce is
\* not remembered has never been let in.
LEMMA FirstTime ==
  ASSUME Inv, NEW r \in signed, InSkew(r), Evicted[r.nonce] = Never
  PROVE  accepted[r.nonce] = 0
<1>1. r.nonce \in Nonces /\ r.time \in Int /\ now \in Int /\ MaxSkew \in Int
  BY SkewAssumption DEF Inv, TypeOK, Request
<1>2. SUFFICES ASSUME accepted[r.nonce] > 0 PROVE FALSE
  BY <1>1 DEF Inv, TypeOK
<1>3. PICK s \in signed :
        /\ s.nonce = r.nonce
        /\ \/ Evicted[r.nonce] # Never
           \/ now - s.time > MaxSkew
  BY <1>1, <1>2, EvictedIsStale DEF Inv
<1>4. s = r
  BY <1>3 DEF Inv, FreshNonces
<1> QED BY <1>1, <1>3, <1>4 DEF InSkew

----------------------------------------------------------------------------

\* A new process starts with the invariant.
LEMMA InitInv == Init => Inv
<1> SUFFICES ASSUME Init PROVE Inv
  OBVIOUS
<1>1. TypeOK BY SkewAssumption DEF TypeOK, Init
<1>2. FreshNonces BY DEF FreshNonces, Init
<1>3. \A n \in Nonces : accepted[n] = 0 BY DEF Init
<1>4. AcceptedOnce
  <2> SUFFICES ASSUME NEW n \in Nonces PROVE accepted[n] <= 1
    BY DEF AcceptedOnce
  <2>1. accepted[n] = 0 BY <1>3
  <2> QED BY <2>1
<1>5. OnlyAcceptedBlocks BY DEF OnlyAcceptedBlocks, Init
<1>6. RememberedOrStale BY <1>1, <1>3 DEF RememberedOrStale, TypeOK
<1> QED BY <1>1, <1>2, <1>4, <1>5, <1>6 DEF Inv

\* Signing a request touches nothing of the worker.
LEMMA SignInv ==
  ASSUME Inv, NEW r \in Request, Sign(r)
  PROVE  Inv'
<1> USE DEF Inv, Sign
<1>1. TypeOK' BY DEF TypeOK
<1>2. FreshNonces' BY DEF FreshNonces
<1>3. AcceptedOnce' BY DEF AcceptedOnce
<1>4. OnlyAcceptedBlocks' BY DEF OnlyAcceptedBlocks
<1>5. RememberedOrStale' BY DEF RememberedOrStale, Near
<1> QED BY <1>1, <1>2, <1>3, <1>4, <1>5

\* A delivery lets in only a nonce that is not remembered, and by FirstTime
\* that is one never let in.
LEMMA VerifyInv ==
  ASSUME Inv, NEW r \in signed, NEW valid \in BOOLEAN, Verify(r, valid)
  PROVE  Inv'
<1> DEFINE n == r.nonce
<1> USE DEF Inv
<1>0. n \in Nonces /\ r.time \in Int /\ now \in 0..MaxTime /\ now \in Int
      /\ UNCHANGED <<now, signed, restarts>> /\ MaxSkew \in Int
  BY SkewAssumption DEF TypeOK, Request, Verify
<1>1. CASE Evicted[n] = Never
  <2>1. accepted[n] = 0
    BY <1>1, FirstTime DEF Verify
  <2>2. seen' = [Evicted EXCEPT ![n] = now] /\ accepted' = [accepted EXCEPT ![n] = 1]
    BY <1>1, <2>1 DEF Verify, Record
  <2>3. TypeOK'
    BY <1>0, <2>2, EvictedType DEF TypeOK
  <2>4. FreshNonces'
    BY <1>0 DEF FreshNonces
  <2>5. AcceptedOnce'
    BY <1>0, <2>2 DEF AcceptedOnce, TypeOK
  <2>6. OnlyAcceptedBlocks'
    BY <1>0, <2>2, EvictedType DEF OnlyAcceptedBlocks, TypeOK
  <2>7. RememberedOrStale'
    <3> SUFFICES ASSUME NEW m \in Nonces, accepted'[m] > 0
                 PROVE  \E s \in signed :
                          /\ s.nonce = m
                          /\ \/ seen'[m] # Never /\ Near(seen'[m], s)
                             \/ now - s.time > MaxSkew
      BY <1>0 DEF RememberedOrStale, Near
    <3>1. CASE m = n
      <4>1. seen'[m] = now /\ now # Never
        BY <1>0, <2>2, <3>1, EvictedType, NeverAssumption DEF TypeOK
      <4>2. Near(now, r)
        BY DEF Verify, InSkew, Near
      <4> QED BY <3>1, <4>1, <4>2
    <3>2. CASE m # n
      <4>1. seen'[m] = Evicted[m] /\ accepted[m] > 0
        BY <2>2, <3>2, EvictedType DEF TypeOK
      <4> QED BY <4>1, EvictedIsStale
    <3> QED BY <3>1, <3>2
  <2> QED BY <2>3, <2>4, <2>5, <2>6, <2>7
<1>2. CASE Evicted[n] # Never
  <2>1. seen' = Evicted /\ accepted' = accepted
    BY <1>2 DEF Verify, Record
  <2>2. TypeOK'
    BY <1>0, <2>1, EvictedType DEF TypeOK
  <2>3. FreshNonces'
    BY <1>0 DEF FreshNonces
  <2>4. AcceptedOnce'
    BY <2>1 DEF AcceptedOnce
  <2>5. OnlyAcceptedBlocks'
    BY <2>1, EvictedType DEF OnlyAcceptedBlocks
  <2>6. RememberedOrStale'
    BY <1>0, <2>1, EvictedIsStale DEF RememberedOrStale, Near
  <2> QED BY <2>2, <2>3, <2>4, <2>5, <2>6
<1> QED BY <1>1, <1>2

\* Time only makes remembered nonces older.
LEMMA TickInv ==
  ASSUME Inv, Tick
  PROVE  Inv'
<1> USE DEF Inv, Tick
<1>1. TypeOK' BY SkewAssumption DEF TypeOK
<1>2. FreshNonces' BY DEF FreshNonces
<1>3. AcceptedOnce' BY DEF AcceptedOnce
<1>4. OnlyAcceptedBlocks' BY DEF OnlyAcceptedBlocks
<1>5. RememberedOrStale'
  BY SkewAssumption DEF RememberedOrStale, Near, TypeOK, Request
<1> QED BY <1>1, <1>2, <1>3, <1>4, <1>5

\* A restart forgets the nonces together with what they stood for.
LEMMA RestartInv ==
  ASSUME Inv, Restart
  PROVE  Inv'
<1> USE DEF Inv, Restart
<1>1. TypeOK' BY SkewAssumption DEF TypeOK
<1>2. FreshNonces' BY DEF FreshNonces
<1>3. AcceptedOnce' BY DEF AcceptedOnce
<1>4. OnlyAcceptedBlocks' BY DEF OnlyAcceptedBlocks
<1>5. RememberedOrStale' BY DEF RememberedOrStale
<1> QED BY <1>1, <1>2, <1>3, <1>4, <1>5

\* Inv is inductive.
LEMMA NextInv == Inv /\ [Next]_vars => Inv'
<1> SUFFICES ASSUME Inv, [Next]_vars PROVE Inv'
  OBVIOUS
<1>1. ASSUME NEW r \in Request, Sign(r) PROVE Inv'
  BY <1>1, SignInv
<1>2. ASSUME NEW r \in signed, NEW valid \in BOOLEAN, Verify(r, valid) PROVE Inv'
  BY <1>2, VerifyInv
<1>3. CASE Tick
  BY <1>3, TickInv
<1>4. CASE Restart
  BY <1>4, RestartInv
<1>5. CASE UNCHANGED vars
  BY <1>5 DEF vars, Inv, TypeOK, FreshNonces, AcceptedOnce, OnlyAcceptedBlocks,
              RememberedOrStale, Near
<1> QED BY <1>1, <1>2, <1>3, <1>4, <1>5 DEF Next

\* The invariant holds throughout.
LEMMA InvHolds == Spec => []Inv
  BY InitInv, NextInv, PTL DEF Spec

----------------------------------------------------------------------------

\* Every variable keeps its shape.
THEOREM TypeCorrect == Spec => []TypeOK
  BY InvHolds, PTL DEF Inv

\* security.py: a process lets a request in at most once, however often and
\* whenever copies of it are delivered.
THEOREM AtMostOnceAccepted == Spec => []AcceptedOnce
  BY InvHolds, PTL DEF Inv

\* security.py: an entry of the store stands for a request that was let in.
THEOREM OnlyAcceptedRemembered == Spec => []OnlyAcceptedBlocks
  BY InvHolds, PTL DEF Inv
=============================================================================
