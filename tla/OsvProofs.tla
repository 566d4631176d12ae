------------------------------ MODULE OsvProofs ------------------------------
(***************************************************************************)
(* What the advisory lookups guarantee.  QueryBatch: for every number of   *)
(* refs, every chunk size, every pool size and every listing.              *)
(* VersionOrders: of all versions of Debian, rpm, PyPI and apk.            *)
(* RangeSweep: of every listing.                                           *)
(***************************************************************************)
EXTENDS QueryBatch, VersionOrders, RangeSweep, FiniteSetTheorems, SequenceTheorems, WellFoundedInduction, NaturalsInduction, TLAPS

-----------------------------------------------------------------------------
(* QueryBatch                                                              *)

\* Facts about the constants every step below needs.
LEMMA Constants ==
  /\ NRefs \in Nat /\ BatchLimit \in Nat \ {0} /\ Concurrency \in Nat \ {0}
  /\ IsFiniteSet(Ids) /\ Matches \in [Refs -> SUBSET Ids]
  /\ Poster \notin Ids /\ None \notin Ids /\ Poster \in Callers
  /\ Ids \subseteq Callers
  /\ Refs \subseteq Int
BY SizesAssumption, IdsAssumption DEF Callers, Refs

\* The set of token holders is finite, so its size is a number.
LEMMA HoldersFinite == IsFiniteSet(Holders) /\ Cardinality(Holders) \in Nat
<1>1. Holders \in SUBSET Ids
  BY DEF Holders
<1>2. IsFiniteSet(Holders)
  BY <1>1, Constants, FS_Subset
<1> QED
  BY <1>2, FS_CardinalityType

\* A step of one caller that neither takes nor gives back a token leaves the
\* set of holders as it was.
LEMMA HoldersKept ==
  ASSUME TypeOK, NEW c \in Callers, NEW s,
         at' = [at EXCEPT ![c] = s],
         at[c] \in HoldingStates <=> s \in HoldingStates
  PROVE  Holders' = Holders
BY DEF Holders, TypeOK

\* The initial state satisfies the inductive invariant.
LEMMA InitIInv == Init => IInv
<1> SUFFICES ASSUME Init PROVE IInv
  OBVIOUS
<1> USE Constants DEF Init
<1>1. TypeOK
  <2>1. at \in [Callers -> CallerStates]
    BY DEF CallerStates, HoldingStates
  <2>2. tries \in [Callers -> 0 .. MaxAttempts] /\ sem \in 0 .. Concurrency
    BY DEF MaxAttempts
  <2>3. perRef \in [Refs -> SUBSET Ids]
    OBVIOUS
  <2> QED
    BY <2>1, <2>2, <2>3 DEF TypeOK
<1>2. TokensHeld
  <2>1. Holders = {}
    BY DEF Holders, HoldingStates, Callers
  <2> QED
    BY <2>1, FS_EmptySet DEF TokensHeld
<1>3. ListedPrefix
  <2>1. \A r \in Refs : ~(r <= start)
    BY DEF Refs
  <2> QED
    BY <2>1 DEF ListedPrefix, Callers
<1>4. SettledIsStored
  BY DEF SettledIsStored, Callers
<1>5. CancelFollowsFailure
  BY DEF CancelFollowsFailure, Callers
<1>6. AttemptsLeft
  BY DEF AttemptsLeft, MaxAttempts
<1>7. AllOrNothing /\ BlameIsGenuine
  BY DEF AllOrNothing, BlameIsGenuine, Pending
<1> QED
  BY <1>1, <1>2, <1>3, <1>4, <1>5, <1>6, <1>7 DEF IInv

\* Every step of Client.retry preserves the inductive invariant.
LEMMA RetryKeepsIInv ==
  ASSUME IInv, NEW c \in Callers, RetryStep(c)
  PROVE  IInv'
<1> USE Constants DEF IInv
<1>1. PICK s \in {"inflight", "failed", "ok", "backoff", "ready"} :
        /\ at[c] \in {"ready", "inflight", "backoff"}
        /\ at' = [at EXCEPT ![c] = s]
        /\ at[c] = "ready" => s \in {"inflight", "failed"}
        /\ s \in {"backoff", "ready"} => tries[c] < MaxAttempts
        /\ \/ tries' = tries /\ s # "inflight"
           \/ at[c] = "ready" /\ tries' = [tries EXCEPT ![c] = @ + 1]
              /\ s = "inflight"
        /\ \/ cause' = cause /\ s # "failed"
           \/ \E why \in {"context", "refused", "exhausted"} :
                /\ cause' = [cause EXCEPT ![c] = why]
                /\ s = "failed"
                /\ why = "context" => CtxDone(c)
  <2>1. CASE Attempt(c)
    BY <2>1 DEF Attempt, Fails, TypeOK
  <2>2. CASE Reply(c)
    BY <2>2 DEF Reply, Fails, TypeOK
  <2>3. CASE Backoff(c)
    BY <2>3 DEF Backoff, Fails, TypeOK, AttemptsLeft
  <2> QED
    BY <2>1, <2>2, <2>3 DEF RetryStep
<1>2. UNCHANGED <<start, perRef, sem, out, firstEr, cancelled, interrupted, result>>
  BY DEF RetryStep, Attempt, Reply, Backoff
<1>3. TypeOK'
  <2>1. at' \in [Callers -> CallerStates]
    BY <1>1 DEF TypeOK, CallerStates, HoldingStates
  <2>2. tries' \in [Callers -> 0 .. MaxAttempts]
    BY <1>1 DEF TypeOK, AttemptsLeft, MaxAttempts
  <2>3. cause' \in [Callers -> {"none", "context", "refused", "exhausted"}]
    BY <1>1 DEF TypeOK
  <2> QED
    BY <2>1, <2>2, <2>3, <1>2 DEF TypeOK
<1>4. TokensHeld'
  <2>1. Holders' = Holders
    BY <1>1, HoldersKept DEF HoldingStates
  <2> QED
    BY <2>1, <1>2 DEF TokensHeld
<1>5. ListedPrefix'
  <2>1. at'[Poster] \notin {"joining", "done"} => at[Poster] \notin {"joining", "done"}
    BY <1>1 DEF TypeOK
  <2>2. at'[Poster] = "joining" => at[Poster] = "joining"
    BY <1>1 DEF TypeOK
  <2>3. at'[Poster] \notin {"queued", "idle", "recorded"}
    BY <1>1 DEF TypeOK, ListedPrefix
  <2>4. c \in Ids => at[Poster] \in {"joining", "done"}
    BY <1>1 DEF ListedPrefix
  <2>5. c \notin Ids => \A i \in Ids : at'[i] = at[i]
    BY <1>1 DEF TypeOK
  <2> QED
    BY <1>2, <2>1, <2>2, <2>3, <2>4, <2>5 DEF ListedPrefix
<1>6. SettledIsStored'
  BY <1>1, <1>2 DEF SettledIsStored, TypeOK
<1>7. CancelFollowsFailure'
  <2>1. \A i \in Ids : cause'[i] = "context" => cancelled \/ interrupted
    BY <1>1 DEF CancelFollowsFailure, TypeOK, CtxDone
  <2>2. \A i \in Ids : at'[i] = "failed" => cause'[i] # "none"
    BY <1>1 DEF CancelFollowsFailure, TypeOK
  <2>3. firstEr # None => at'[firstEr] \in {"recorded", "done"}
    BY <1>1 DEF CancelFollowsFailure, TypeOK
  <2> QED
    BY <1>2, <2>1, <2>2, <2>3 DEF CancelFollowsFailure
<1>8. AttemptsLeft'
  BY <1>1 DEF AttemptsLeft, TypeOK, MaxAttempts
<1>9. AllOrNothing'
  BY <1>2 DEF AllOrNothing
<1>10. BlameIsGenuine'
  <2>1. firstEr # None => cause'[firstEr] = cause[firstEr]
    BY <1>1 DEF CancelFollowsFailure, TypeOK
  <2> QED
    BY <2>1, <1>2 DEF BlameIsGenuine
<1> QED
  BY <1>3, <1>4, <1>5, <1>6, <1>7, <1>8, <1>9, <1>10

\* Every step of the chunk loop, of the spawn and of the join preserves it.
LEMMA PostKeepsIInv ==
  ASSUME IInv, PostStep
  PROVE  IInv'
<1> USE Constants DEF IInv
<1>1. CASE ChunkListed
  <2> USE <1>1 DEF ChunkListed
  <2>1. Holders' = Holders
    BY HoldersKept DEF TypeOK, HoldingStates
  <2>2. TypeOK'
    <3>1. perRef' \in [Refs -> SUBSET Ids]
      BY DEF TypeOK
    <3>2. at' \in [Callers -> CallerStates]
      BY DEF TypeOK, CallerStates, HoldingStates
    <3>3. tries' \in [Callers -> 0 .. MaxAttempts] /\ start' \in Nat
      BY DEF TypeOK, MaxAttempts
    <3> QED
      BY <3>1, <3>2, <3>3 DEF TypeOK
  <2>3. ListedPrefix'
    <3>1. \A r \in Refs : perRef'[r] = IF r <= start' THEN Matches[r] ELSE {}
      <4> SUFFICES ASSUME NEW r \in Refs
                   PROVE perRef'[r] = IF r <= start' THEN Matches[r] ELSE {}
        OBVIOUS
      <4>1. start \in Nat /\ start' = start + BatchLimit /\ r \in Int
        BY DEF TypeOK
      <4>2. r \in Chunk <=> start < r /\ r <= start'
        BY <4>1 DEF Chunk
      <4>3. perRef[r] = IF r <= start THEN Matches[r] ELSE {}
        BY DEF ListedPrefix
      <4> QED
        BY <4>1, <4>2, <4>3
    <3>2. at'[Poster] = "ready" /\ \A i \in Ids : at'[i] = at[i]
      BY DEF TypeOK
    <3> QED
      BY <3>1, <3>2 DEF ListedPrefix
  <2>4. \A i \in Ids : at'[i] = at[i]
    BY DEF TypeOK
  <2>5. SettledIsStored' /\ CancelFollowsFailure'
    BY <2>4 DEF SettledIsStored, CancelFollowsFailure, TypeOK
  <2>6. AttemptsLeft'
    BY DEF AttemptsLeft, TypeOK, MaxAttempts
  <2> QED
    BY <2>1, <2>2, <2>3, <2>5, <2>6 DEF TokensHeld, AllOrNothing, BlameIsGenuine
<1>2. CASE ChunkFailed
  <2> USE <1>2 DEF ChunkFailed
  <2>1. Holders' = Holders
    <3>1. \A i \in Ids : at'[i] = at[i]
      BY DEF TypeOK
    <3> QED
      BY <3>1 DEF Holders
  <2>2. TypeOK'
    <3>1. at' \in [Callers -> CallerStates]
      BY DEF TypeOK, CallerStates, HoldingStates
    <3> QED
      BY <3>1 DEF TypeOK
  <2>3. at'[Poster] = "done" /\ \A i \in Ids : at'[i] = at[i]
    BY DEF TypeOK
  <2>4. ListedPrefix'
    BY <2>3 DEF ListedPrefix, Failed, Pending
  <2>5. SettledIsStored' /\ CancelFollowsFailure'
    BY <2>3 DEF SettledIsStored, CancelFollowsFailure, TypeOK
  <2>6. AttemptsLeft'
    BY <2>3 DEF AttemptsLeft, Callers
  <2>7. AllOrNothing'
    BY DEF AllOrNothing, Failed
  <2> QED
    BY <2>1, <2>2, <2>4, <2>5, <2>6, <2>7 DEF TokensHeld, BlameIsGenuine
<1>3. CASE Spawn
  <2> USE <1>3 DEF Spawn
  <2>1. at'[Poster] = "joining" /\ \A i \in Ids : at'[i] \in {"queued", at[i]}
    BY DEF Callers
  <2>2. \A i \in Ids : at[i] = "idle"
    BY DEF ListedPrefix
  <2>3. Holders' = Holders
    BY <2>1, <2>2 DEF Holders, HoldingStates
  <2>4. TypeOK'
    <3>1. at' \in [Callers -> CallerStates]
      BY DEF TypeOK, CallerStates, HoldingStates
    <3> QED
      BY <3>1 DEF TypeOK
  <2>5. ListedPrefix'
    BY <2>1 DEF ListedPrefix
  <2>6. SettledIsStored' /\ CancelFollowsFailure'
    BY <2>1, <2>2 DEF SettledIsStored, CancelFollowsFailure, TypeOK
  <2>7. AttemptsLeft'
    BY <2>1, <2>2 DEF AttemptsLeft, Callers
  <2> QED
    BY <2>3, <2>4, <2>5, <2>6, <2>7 DEF TokensHeld, AllOrNothing, BlameIsGenuine
<1>4. CASE Assemble
  <2> USE <1>4 DEF Assemble, HydrateFailed
  <2>1. at'[Poster] = "done" /\ \A i \in Ids : at'[i] = at[i]
    BY DEF TypeOK
  <2>2. Holders' = Holders
    BY <2>1 DEF Holders
  <2>3. firstEr = None => [r \in Refs |-> perRef[r] \cap out] = Matches
    <3>1. SUFFICES ASSUME firstEr = None, NEW r \in Refs
                   PROVE  perRef[r] \cap out = Matches[r]
      BY <3>1
    <3>2. perRef[r] = Matches[r]
      BY DEF HydrateDone, ListedPrefix, TypeOK, Refs
    <3>3. perRef[r] \subseteq Ids /\ perRef[r] \subseteq Unique
      BY DEF TypeOK, Unique
    <3>4. perRef[r] \subseteq out
      BY <3>1, <3>3 DEF HydrateDone, SettledIsStored
    <3> QED
      BY <3>2, <3>4
  <2>4. TypeOK'
    <3>1. at' \in [Callers -> CallerStates]
      BY DEF TypeOK, CallerStates
    <3>2. [r \in Refs |-> perRef[r] \cap out] \in [Refs -> SUBSET Ids]
      BY DEF TypeOK
    <3> QED
      BY <3>1, <3>2 DEF TypeOK
  <2>5. ListedPrefix'
    BY <2>1 DEF ListedPrefix
  <2>6. SettledIsStored' /\ CancelFollowsFailure'
    BY <2>1 DEF SettledIsStored, CancelFollowsFailure, TypeOK
  <2>7. AttemptsLeft'
    BY <2>1 DEF AttemptsLeft, Callers
  <2>8. AllOrNothing'
    BY <2>3 DEF AllOrNothing, Failed
  <2> QED
    BY <2>2, <2>4, <2>5, <2>6, <2>7, <2>8 DEF TokensHeld, BlameIsGenuine
<1> QED
  BY <1>1, <1>2, <1>3, <1>4 DEF PostStep

\* Every step of a hydrating goroutine preserves it.
LEMMA FetchKeepsIInv ==
  ASSUME IInv, NEW i \in Ids, FetchStep(i)
  PROVE  IInv'
<1> USE Constants, HoldersFinite DEF IInv
<1>0. i \in Callers /\ i # Poster
  OBVIOUS
<1>1. CASE Acquire(i)
  <2> USE <1>0, <1>1 DEF Acquire, TokenFree
  <2>1. Holders' = Holders \cup {i} /\ i \notin Holders
    BY DEF Holders, HoldingStates, TypeOK
  <2>2. TokensHeld'
    <3>1. Cardinality(Holders \cup {i}) = Cardinality(Holders) + 1
      BY <2>1, FS_AddElement
    <3>2. sem = Cardinality(Holders)
      BY DEF TokensHeld
    <3>3. sem' = Cardinality(Holders')
      BY <2>1, <3>1, <3>2
    <3> QED
      BY <3>3 DEF TokensHeld
  <2>3. TypeOK'
    <3>1. at' \in [Callers -> CallerStates]
      BY DEF TypeOK, CallerStates, HoldingStates
    <3>2. sem' \in 0 .. Concurrency
      BY DEF TypeOK
    <3> QED
      BY <3>1, <3>2 DEF TypeOK
  <2>4. ListedPrefix'
    BY DEF ListedPrefix, TypeOK
  <2>5. SettledIsStored' /\ CancelFollowsFailure'
    BY DEF SettledIsStored, CancelFollowsFailure, TypeOK
  <2>6. AttemptsLeft'
    BY DEF AttemptsLeft, TypeOK
  <2> QED
    BY <2>2, <2>3, <2>4, <2>5, <2>6 DEF AllOrNothing, BlameIsGenuine
<1>2. CASE Record(i)
  <2> USE <1>0, <1>2 DEF Record, Blame
  <2>1. Holders' = Holders
    BY HoldersKept DEF HoldingStates
  <2>2. TypeOK'
    <3>1. at' \in [Callers -> CallerStates]
      BY DEF TypeOK, CallerStates, HoldingStates
    <3> QED
      BY <3>1 DEF TypeOK
  <2>3. ListedPrefix'
    BY DEF ListedPrefix, TypeOK
  <2>4. SettledIsStored'
    BY DEF SettledIsStored, TypeOK
  <2>5. CancelFollowsFailure'
    BY DEF CancelFollowsFailure, TypeOK
  <2>6. AttemptsLeft'
    BY DEF AttemptsLeft, TypeOK
  <2>7. BlameIsGenuine'
    BY DEF BlameIsGenuine, CancelFollowsFailure, TypeOK
  <2> QED
    BY <2>1, <2>2, <2>3, <2>4, <2>5, <2>6, <2>7 DEF TokensHeld, AllOrNothing
<1>3. CASE Release(i)
  <2> USE <1>0, <1>3 DEF Release
  <2>1. Holders' = Holders \ {i} /\ i \in Holders
    BY DEF Holders, HoldingStates, TypeOK
  <2>2. sem = Cardinality(Holders) /\ sem # 0
    BY <2>1, FS_EmptySet DEF TokensHeld
  <2>3. TokensHeld'
    <3>1. Cardinality(Holders \ {i}) = Cardinality(Holders) - 1
      BY <2>1, FS_RemoveElement
    <3>2. sem' = Cardinality(Holders')
      BY <2>1, <2>2, <3>1
    <3> QED
      BY <3>2 DEF TokensHeld
  <2>4. TypeOK'
    <3>1. at' \in [Callers -> CallerStates]
      BY DEF TypeOK, CallerStates
    <3>2. sem' \in 0 .. Concurrency
      BY <2>2 DEF TypeOK
    <3> QED
      BY <3>1, <3>2 DEF TypeOK
  <2>5. ListedPrefix'
    BY DEF ListedPrefix, TypeOK
  <2>6. SettledIsStored' /\ CancelFollowsFailure'
    BY DEF SettledIsStored, CancelFollowsFailure, TypeOK
  <2>7. AttemptsLeft'
    BY DEF AttemptsLeft, TypeOK
  <2> QED
    BY <2>3, <2>4, <2>5, <2>6, <2>7 DEF AllOrNothing, BlameIsGenuine
<1> QED
  BY <1>1, <1>2, <1>3 DEF FetchStep

\* The invariant is inductive: no step of the specification, nor a stutter,
\* leaves it.
LEMMA NextKeepsIInv == IInv /\ [Next]_vars => IInv'
<1> SUFFICES ASSUME IInv, [Next]_vars PROVE IInv'
  OBVIOUS
<1>1. CASE \E c \in Callers : RetryStep(c)
  BY <1>1, RetryKeepsIInv
<1>2. CASE PostStep
  BY <1>2, PostKeepsIInv
<1>3. CASE \E i \in Ids : FetchStep(i)
  BY <1>3, FetchKeepsIInv
<1>4. CASE Interrupt
  <2> USE <1>4 DEF Interrupt, IInv
  <2>1. TypeOK' /\ TokensHeld' /\ ListedPrefix' /\ SettledIsStored'
    BY DEF TypeOK, TokensHeld, Holders, ListedPrefix, SettledIsStored
  <2>2. CancelFollowsFailure' /\ AttemptsLeft' /\ AllOrNothing' /\ BlameIsGenuine'
    BY DEF CancelFollowsFailure, AttemptsLeft, AllOrNothing, BlameIsGenuine
  <2> QED
    BY <2>1, <2>2
<1>5. CASE UNCHANGED vars
  BY <1>5 DEF vars, IInv, TypeOK, TokensHeld, Holders, ListedPrefix,
     SettledIsStored, CancelFollowsFailure, AttemptsLeft, AllOrNothing,
     BlameIsGenuine
<1> QED
  BY <1>1, <1>2, <1>3, <1>4, <1>5 DEF Next, Returned

\* Type correctness and the whole inductive invariant of the pool.
THEOREM InductiveInvariant == Spec => []IInv
<1>1. Init => IInv
  BY InitIInv
<1>2. IInv /\ [Next]_vars => IInv'
  BY NextKeepsIInv
<1> QED
  BY <1>1, <1>2, PTL DEF Spec

\* Every variable of the pool keeps its type, the token count among them.
THEOREM TypeCorrect == Spec => []TypeOK
<1>1. IInv => TypeOK
  BY DEF IInv
<1> QED
  BY <1>1, InductiveInvariant, PTL

\* No partially hydrated batch is ever returned, whatever the pool size, the
\* chunk size and the listing (hydrate's comment, osv.go:494-497).
THEOREM NoPartialAnswer == Spec => []AllOrNothing
<1>1. IInv => AllOrNothing
  BY DEF IInv
<1> QED
  BY <1>1, InductiveInvariant, PTL

\* The reported failure is the service's or the user's, never an echo of the
\* cancellation it caused.
THEOREM BlameCorrect == Spec => []BlameIsGenuine
<1>1. IInv => BlameIsGenuine
  BY DEF IInv
<1> QED
  BY <1>1, InductiveInvariant, PTL

\* At most Concurrency record requests are in flight at any moment.
THEOREM PoolBounded == Spec => []InFlightBounded
<1>1. IInv => InFlightBounded
  <2> SUFFICES ASSUME IInv PROVE InFlightBounded
    OBVIOUS
  <2> DEFINE F == {i \in Ids : at[i] = "inflight"}
  <2>1. F \in SUBSET Holders
    BY DEF Holders, HoldingStates
  <2>2. Cardinality(F) <= Cardinality(Holders) /\ Cardinality(F) \in Nat
    BY <2>1, HoldersFinite, FS_Subset, FS_CardinalityType
  <2>3. Cardinality(Holders) <= Concurrency
    BY Constants DEF IInv, TokensHeld, TypeOK
  <2> QED
    BY <2>2, <2>3, HoldersFinite, Constants DEF InFlightBounded
<1> QED
  BY <1>1, InductiveInvariant, PTL

\* After the first recorded failure no goroutine sends a new request.
THEOREM FailureStopsRequests == Spec => NoRequestAfterFailure
<1> DEFINE A == firstEr # None =>
                  \A i \in Ids : at'[i] = "inflight" => at[i] = "inflight"
<1>1. IInv /\ [Next]_vars => A
  <2> SUFFICES ASSUME IInv, [Next]_vars, firstEr # None, NEW i \in Ids,
                      at'[i] = "inflight"
               PROVE  at[i] = "inflight"
    OBVIOUS
  <2> USE Constants DEF IInv
  <2>1. CASE \E c \in Callers : RetryStep(c)
    <3> PICK c \in Callers : RetryStep(c)
      BY <2>1
    <3>1. ~(c = i /\ Attempt(c))
      BY DEF Attempt, Fails, CtxDone, CancelFollowsFailure, TypeOK
    <3> QED
      BY <3>1 DEF RetryStep, Attempt, Reply, Backoff, Fails, TypeOK
  <2>2. CASE PostStep
    BY <2>2 DEF PostStep, ChunkListed, ChunkFailed, Spawn, Assemble, TypeOK, Callers
  <2>3. CASE \E k \in Ids : FetchStep(k)
    BY <2>3 DEF FetchStep, Acquire, Record, Release, TypeOK
  <2>4. CASE Interrupt \/ UNCHANGED vars
    BY <2>4 DEF Interrupt, vars
  <2> QED
    BY <2>1, <2>2, <2>3, <2>4 DEF Next, Returned
<1>2. Spec => [][IInv /\ [Next]_vars]_vars
  BY InductiveInvariant, PTL DEF Spec
<1> QED
  BY <1>1, <1>2, PTL DEF NoRequestAfterFailure

\* The pool refines the batch that is answered whole or not at all: its first
\* state is pending, and every step delivers the whole answer, gives up, or
\* leaves the answer alone.
THEOREM ImplementsSafety == Spec => Answer!SafetySpec
<1>1. Init => Answer!Init
  BY DEF Init, Answer!Init, Pending, Answer!Pending
<1>2. IInv /\ IInv' /\ [Next]_vars => [Answer!Next]_result
  <2> SUFFICES ASSUME IInv, IInv', [Next]_vars, result' # result
               PROVE  Answer!Next
    OBVIOUS
  <2>1. CASE ChunkFailed \/ Assemble
    <3>1. result = Pending
      BY <2>1 DEF ChunkFailed, Assemble, HydrateDone, IInv, TypeOK, ListedPrefix
    <3>2. result' = Failed \/ result' = [tag |-> "answer", per |-> Matches]
      BY <2>1, <3>1 DEF ChunkFailed, Assemble, IInv, AllOrNothing
    <3> QED
      BY <3>1, <3>2 DEF Answer!Next, Answer!Deliver, Answer!GiveUp,
         Answer!Pending, Answer!Failed, Answer!Whole, Pending, Failed
  <2>2. CASE ~(ChunkFailed \/ Assemble)
    BY <2>2 DEF Next, RetryStep, PostStep, FetchStep, Attempt, Reply, Backoff,
       ChunkListed, Spawn, Acquire, Record, Release, Interrupt, Returned, vars
  <2> QED
    BY <2>1, <2>2
<1> QED
  BY <1>1, <1>2, InductiveInvariant, PTL DEF Spec, Answer!SafetySpec
-----------------------------------------------------------------------------
(* Sets of numbers                                                         *)

\* A property of 0 that every number passes on to the next holds of them all.
LEMMA CountUp ==
  ASSUME NEW G, 0 \in G, \A n \in Nat : n \in G => n + 1 \in G
  PROVE  \A n \in Nat : n \in G
<1> DEFINE R == {ss \in Nat \X Nat : ss[1] < ss[2]}
           T == {n \in Nat : n \notin G}
<1>1. SUFFICES ASSUME T # {} PROVE FALSE
  OBVIOUS
<1>2. IsWellFoundedOn(R, Nat)
  BY NatLessThanWellFounded DEF OpToRel
<1> HIDE DEF R
<1>3. PICK x \in T : \A y \in T : <<y, x>> \notin R
  BY <1>1, <1>2, WFMin
<1> USE DEF R
<1>4. x \in Nat /\ x # 0
  OBVIOUS
<1>5. x - 1 \in Nat /\ x - 1 < x /\ (x - 1) + 1 = x
  BY <1>4
<1>6. x - 1 \notin T
  BY <1>3, <1>4, <1>5
<1> QED
  BY <1>4, <1>5, <1>6

\* A set of numbers up to N that holds one holds a largest.
LEMMA LargestOne ==
  ASSUME NEW N \in Nat, NEW S \in SUBSET (1..N), S # {}
  PROVE  \E m \in S : \A j \in S : j <= m
<1> DEFINE G == {n \in Nat : (\A j \in S : j <= n) => \E m \in S : \A j \in S : j <= m}
<1>1. 0 \in G
  <2>1. PICK j \in S : TRUE
    OBVIOUS
  <2>2. ~(j <= 0)
    OBVIOUS
  <2> QED
    BY <2>2
<1>2. ASSUME NEW n \in Nat, n \in G PROVE n + 1 \in G
  <2> SUFFICES ASSUME \A j \in S : j <= n + 1 PROVE \E m \in S : \A j \in S : j <= m
    OBVIOUS
  <2>1. CASE n + 1 \in S
    BY <2>1
  <2>2. CASE n + 1 \notin S
    <3>1. \A j \in S : j <= n
      BY <2>2
    <3> QED
      BY <1>2, <3>1
  <2> QED
    BY <2>1, <2>2
<1> HIDE DEF G
<1>3. N \in G
  BY <1>1, <1>2, CountUp
<1> QED
  BY <1>3 DEF G

\* A set of numbers that holds one holds a least.
LEMMA LeastOne ==
  ASSUME NEW S \in SUBSET Nat, S # {}
  PROVE  \E m \in S : \A j \in S : m <= j
<1> DEFINE R == {ss \in Nat \X Nat : ss[1] < ss[2]}
<1>1. IsWellFoundedOn(R, Nat)
  BY NatLessThanWellFounded DEF OpToRel
<1> HIDE DEF R
<1>2. PICK x \in S : \A y \in S : <<y, x>> \notin R
  BY <1>1, WFMin
<1>3. \A y \in S : y \in Nat /\ x \in Nat /\ ~(y < x)
  BY <1>2 DEF R
<1>4. \A y \in S : x <= y
  BY <1>3
<1> QED
  BY <1>4
-----------------------------------------------------------------------------
(* VersionOrders: decisions place by place                                 *)

\* Of three comparisons, what the first two say the third says.
Agree(p, q, r) ==
  /\ p \in Int /\ q \in Int /\ r \in Int
  /\ p = 0 /\ q = 0 => r = 0
  /\ p <= 0 /\ q <= 0 /\ (p < 0 \/ q < 0) => r < 0
  /\ p >= 0 /\ q >= 0 /\ (p > 0 \/ q > 0) => r > 0

\* What is not above a second that is not above a third is not above it.
LEMMA AgreeChains ==
  ASSUME NEW p, NEW q, NEW r, Agree(p, q, r), p <= 0, q <= 0
  PROVE  r <= 0
<1>1. p \in Int /\ q \in Int /\ r \in Int
  BY DEF Agree
<1>2. CASE p = 0 /\ q = 0
  BY <1>2 DEF Agree
<1>3. CASE p < 0 \/ q < 0
  BY <1>1, <1>3 DEF Agree
<1> QED
  BY <1>1, <1>2, <1>3

\* d is the first of the n places that decides, 0 if none does.
Decides(places, n, d) ==
  \/ d = 0 /\ \A i \in 1..n : places[i] = 0
  \/ \E i \in 1..n : /\ d = places[i] /\ places[i] # 0
                     /\ \A j \in 1..n : j < i => places[j] = 0

\* Decision is the first place that decides.
LEMMA DecisionDecides ==
  ASSUME NEW n \in Nat, NEW p \in [1..n -> Int]
  PROVE  Decides(p, n, Decision(p)) /\ Decision(p) \in Int
<1> DEFINE I == {i \in 1..Len(p) : p[i] # 0}
<1>1. p \in Seq(Int) /\ Len(p) = n
  OBVIOUS
<1>2. SelectInSeq(p, LAMBDA c : c # 0) = IF I # {} THEN Min(I) ELSE 0
  BY DEF SelectInSeq
<1>3. I \in SUBSET (1..n)
  BY <1>1
<1>4. I # {} => Min(I) \in I /\ \A j \in I : Min(I) <= j
  <2> SUFFICES ASSUME I # {} PROVE Min(I) \in I /\ \A j \in I : Min(I) <= j
    OBVIOUS
  <2>1. I \in SUBSET Nat
    BY <1>3
  <2> HIDE DEF I
  <2>2. \E m \in I : \A j \in I : m <= j
    BY <2>1, LeastOne
  <2> QED
    BY <2>2 DEF Min
<1>5. Decision(p) = IF I # {} THEN p[Min(I)] ELSE 0
  BY <1>2, <1>3, <1>4 DEF Decision
<1>6. CASE I = {}
  BY <1>1, <1>5, <1>6 DEF Decides
<1>7. CASE I # {}
  <2> DEFINE m == Min(I)
  <2>1. m \in I /\ \A j \in I : m <= j
    BY <1>4, <1>7
  <2>2. Decision(p) = p[m]
    BY <1>5, <1>7
  <2> HIDE DEF m
  <2>3. \A j \in 1..n : j < m => p[j] = 0
    BY <1>1, <2>1
  <2> QED
    BY <1>1, <2>1, <2>2, <2>3 DEF Decides
<1> QED
  BY <1>6, <1>7

\* Only one number is what the places decide.
LEMMA DecidesOnce ==
  ASSUME NEW n \in Nat, NEW p \in [1..n -> Int], NEW d, NEW e, Decides(p, n, d), Decides(p, n, e)
  PROVE  d = e
BY DEF Decides

\* Places the other way round decide the other way round.
LEMMA DecisionTurned ==
  ASSUME NEW n \in Nat, NEW p \in [1..n -> Int], NEW q \in [1..n -> Int], \A i \in 1..n : q[i] = -p[i]
  PROVE  Decision(q) = -Decision(p)
<1>1. Decides(p, n, Decision(p)) /\ Decides(q, n, Decision(q)) /\ Decision(p) \in Int
  BY DecisionDecides
<1>2. Decides(q, n, -Decision(p))
  BY <1>1 DEF Decides
<1> QED
  BY <1>1, <1>2, DecidesOnce

\* q goes on from p's n places to m with places that decide nothing.
GoesOn(p, n, q, m) ==
  /\ n <= m /\ p \in [1..n -> Int] /\ q \in [1..m -> Int]
  /\ \A i \in 1..n : q[i] = p[i]
  /\ \A i \in 1..m : i > n => q[i] = 0

\* Places that decide nothing may be added at the end.
LEMMA DecisionPadded ==
  ASSUME NEW n \in Nat, NEW m \in Nat, NEW p, NEW q, GoesOn(p, n, q, m)
  PROVE  Decision(q) = Decision(p)
<1>1. /\ n <= m /\ p \in [1..n -> Int] /\ q \in [1..m -> Int]
      /\ \A i \in 1..n : q[i] = p[i]
      /\ \A i \in 1..m : i > n => q[i] = 0
  BY DEF GoesOn
<1>2. Decides(p, n, Decision(p)) /\ Decides(q, m, Decision(q))
  BY <1>1, DecisionDecides
<1>3. Decides(q, m, Decision(p))
  BY <1>1, <1>2 DEF Decides
<1> QED
  BY <1>1, <1>2, <1>3, DecidesOnce

\* What agrees place by place agrees in what it decides.
LEMMA DecisionAgrees ==
  ASSUME NEW n \in Nat, NEW p \in [1..n -> Int], NEW q \in [1..n -> Int], NEW r \in [1..n -> Int],
         \A i \in 1..n : Agree(p[i], q[i], r[i])
  PROVE  Agree(Decision(p), Decision(q), Decision(r))
<1> DEFINE I == {i \in 1..n : p[i] # 0 \/ q[i] # 0}
<1>1. /\ Decides(p, n, Decision(p)) /\ Decides(q, n, Decision(q)) /\ Decides(r, n, Decision(r))
      /\ Decision(p) \in Int /\ Decision(q) \in Int /\ Decision(r) \in Int
  BY DecisionDecides
<1>2. CASE I = {}
  <2>1. \A i \in 1..n : p[i] = 0 /\ q[i] = 0
    BY <1>2
  <2>2. \A i \in 1..n : r[i] = 0
    BY <2>1 DEF Agree
  <2>3. Decision(p) = 0 /\ Decision(q) = 0 /\ Decision(r) = 0
    BY <1>1, <2>1, <2>2 DEF Decides
  <2> QED
    BY <2>3 DEF Agree
<1>3. CASE I # {}
  <2>0. I \in SUBSET Nat
    OBVIOUS
  <2> HIDE DEF I
  <2>1. PICK m \in I : \A j \in I : m <= j
    BY <1>3, <2>0, LeastOne
  <2> USE DEF I
  <2>2. \A j \in 1..n : j < m => p[j] = 0 /\ q[j] = 0
    BY <2>1
  <2>3. \A j \in 1..n : j < m => r[j] = 0
    BY <2>2 DEF Agree
  <2>4. m \in 1..n /\ p[m] \in Int /\ q[m] \in Int /\ r[m] \in Int /\ Agree(p[m], q[m], r[m])
    BY <2>1
  <2>5. p[m] # 0 => Decision(p) = p[m]
    BY <1>1, <2>2, <2>4 DEF Decides
  <2>6. q[m] # 0 => Decision(q) = q[m]
    BY <1>1, <2>2, <2>4 DEF Decides
  <2>7. r[m] # 0 => Decision(r) = r[m]
    BY <1>1, <2>3, <2>4 DEF Decides
  <2>8. CASE p[m] # 0 /\ q[m] # 0
    BY <1>1, <2>4, <2>5, <2>6, <2>7, <2>8 DEF Agree
  <2>9. CASE p[m] # 0 /\ q[m] = 0
    BY <1>1, <2>4, <2>5, <2>7, <2>9 DEF Agree
  <2>10. CASE p[m] = 0 /\ q[m] # 0
    BY <1>1, <2>4, <2>6, <2>7, <2>10 DEF Agree
  <2> QED
    BY <2>1, <2>8, <2>9, <2>10
<1> QED
  BY <1>2, <1>3

\* A sign is one, whichever way round.
LEMMA SignIs ==
  ASSUME NEW n \in Int
  PROVE  Sign(n) \in {-1, 0, 1} /\ (Sign(n) < 0 <=> n < 0) /\ (Sign(n) = 0 <=> n = 0) /\ (Sign(n) > 0 <=> n > 0)
BY DEF Sign

\* The sign of a difference is turned round with it.
LEMMA SignOfDifference ==
  ASSUME NEW a \in Int, NEW b \in Int
  PROVE  Sign(a - b) \in Int /\ Sign(b - a) = -Sign(a - b)
BY DEF Sign

\* Differences of numbers agree.
LEMMA DifferencesAgree ==
  ASSUME NEW a \in Int, NEW b \in Int, NEW c \in Int
  PROVE  Agree(Sign(a - b), Sign(b - c), Sign(a - c)) /\ Sign(b - a) = -Sign(a - b)
BY DEF Agree, Sign

\* turn compares the members of U, the answers of which agree; nothing is what a
\* shorter sequence goes on with.
Turns(U, nothing, turn) ==
  /\ nothing \in U /\ turn \in [U \X U -> Int] /\ turn[<<nothing, nothing>>] = 0
  /\ \A x, y \in U : turn[<<y, x>>] = -turn[<<x, y>>]
  /\ \A x, y, z \in U : Agree(turn[<<x, y>>], turn[<<y, z>>], turn[<<x, z>>])

\* Two sequences place by place, over n places.
ItemOr(s, i, nothing) == IF i <= Len(s) THEN s[i] ELSE nothing
Places(s, t, n, nothing, turn) == [i \in 1..n |-> turn[<<ItemOr(s, i, nothing), ItemOr(t, i, nothing)>>]]

\* Over as many places as either sequence has, or more, they decide the same.
LEMMA PlacesDecide ==
  ASSUME NEW U, NEW nothing, NEW turn, Turns(U, nothing, turn), NEW s \in Seq(U), NEW t \in Seq(U),
         NEW n \in Nat, Len(s) <= n, Len(t) <= n
  PROVE  /\ Places(s, t, n, nothing, turn) \in [1..n -> Int]
         /\ Decision(Places(s, t, n, nothing, turn)) = Decision(Places(s, t, Longer(s, t), nothing, turn))
<1> DEFINE m == Longer(s, t)
           p == Places(s, t, m, nothing, turn)
           q == Places(s, t, n, nothing, turn)
<1>1. m \in Nat /\ m <= n /\ Len(s) \in Nat /\ Len(t) \in Nat /\ Len(s) <= m /\ Len(t) <= m
  BY DEF Longer
<1> HIDE DEF m
<1>2. \A i \in 1..n : ItemOr(s, i, nothing) \in U /\ ItemOr(t, i, nothing) \in U
  BY <1>1 DEF ItemOr, Turns
<1>3. \A i \in 1..n : i > m => ItemOr(s, i, nothing) = nothing /\ ItemOr(t, i, nothing) = nothing
  BY <1>1 DEF ItemOr
<1>4. q \in [1..n -> Int]
  BY <1>2 DEF Places, Turns
<1>5. p \in [1..m -> Int] /\ \A i \in 1..m : q[i] = p[i]
  BY <1>1, <1>2 DEF Places, Turns
<1>6. \A i \in 1..n : i > m => q[i] = 0
  BY <1>1, <1>3 DEF Places, Turns
<1> HIDE DEF p, q
<1>7. GoesOn(p, m, q, n)
  BY <1>1, <1>4, <1>5, <1>6 DEF GoesOn
<1>8. Decision(q) = Decision(p)
  BY <1>1, <1>7, DecisionPadded
<1> QED
  BY <1>4, <1>8 DEF p, q, m

\* What the places of two sequences decide, whichever way round, and of three.
Decided(s, t, nothing, turn) == Decision(Places(s, t, Longer(s, t), nothing, turn))
LEMMA SequencesAgree ==
  ASSUME NEW U, NEW nothing, NEW turn, Turns(U, nothing, turn), NEW s \in Seq(U), NEW t \in Seq(U), NEW u \in Seq(U)
  PROVE  /\ Decided(t, s, nothing, turn) = -Decided(s, t, nothing, turn)
         /\ Agree(Decided(s, t, nothing, turn), Decided(t, u, nothing, turn), Decided(s, u, nothing, turn))
<1>1. PICK n \in Nat : Len(s) <= n /\ Len(t) <= n /\ Len(u) <= n
  <2>1. Len(s) \in Nat /\ Len(t) \in Nat /\ Len(u) \in Nat
    OBVIOUS
  <2>2. Len(s) + Len(t) + Len(u) \in Nat
    BY <2>1
  <2> QED
    BY <2>1, <2>2
<1> DEFINE st == Places(s, t, n, nothing, turn)
           ts == Places(t, s, n, nothing, turn)
           tu == Places(t, u, n, nothing, turn)
           su == Places(s, u, n, nothing, turn)
<1>2. /\ st \in [1..n -> Int] /\ Decision(st) = Decided(s, t, nothing, turn)
      /\ ts \in [1..n -> Int] /\ Decision(ts) = Decided(t, s, nothing, turn)
      /\ tu \in [1..n -> Int] /\ Decision(tu) = Decided(t, u, nothing, turn)
      /\ su \in [1..n -> Int] /\ Decision(su) = Decided(s, u, nothing, turn)
  BY <1>1, PlacesDecide DEF Decided
<1>3. \A i \in 1..n : ItemOr(s, i, nothing) \in U /\ ItemOr(t, i, nothing) \in U /\ ItemOr(u, i, nothing) \in U
  BY DEF ItemOr, Turns
<1>4. \A i \in 1..n : ts[i] = -st[i]
  BY <1>3 DEF Places, Turns
<1>5. \A i \in 1..n : Agree(st[i], tu[i], su[i])
  BY <1>3 DEF Places, Turns
<1> HIDE DEF st, ts, tu, su
<1>6. Decision(ts) = -Decision(st)
  BY <1>2, <1>4, DecisionTurned
<1>7. Agree(Decision(st), Decision(tu), Decision(su))
  BY <1>2, <1>5, DecisionAgrees
<1> QED
  BY <1>2, <1>6, <1>7

-----------------------------------------------------------------------------
(* VersionOrders: dpkg                                                     *)

DebTokens == [k : {"num"}, n : Nat] \cup [k : {"char"}, n : Int \ {0}]
DebVersion == [epoch : Nat, upstream : Seq(DebTokens), revision : Seq(DebTokens)]

\* A tilde, nothing, digits and the characters come in that order.
LEMMA DebTurns ==
  Turns(DebTokens \cup {End}, End, [xy \in (DebTokens \cup {End}) \X (DebTokens \cup {End}) |-> DebTurn(xy[1], xy[2])])
<1> DEFINE U == DebTokens \cup {End}
           turn == [xy \in U \X U |-> DebTurn(xy[1], xy[2])]
           low(x) == DebOrder(x)
<1>1. \A x \in U : \/ x.k = "char" /\ x.n \in Int /\ x.n # 0 /\ DebOrder(x) = x.n
                   \/ x.k # "char" /\ x.n \in Nat /\ DebOrder(x) = 0
  BY DEF DebTokens, End, Mark, DebOrder
<1>2. \A x, y \in U : /\ (x.k = "char" \/ y.k = "char") => DebTurn(x, y) = Sign(DebOrder(x) - DebOrder(y))
                      /\ ~(x.k = "char" \/ y.k = "char") => DebTurn(x, y) = Sign(x.n - y.n)
  BY DEF DebTurn
<1>3. \A x, y \in U : turn[<<x, y>>] = DebTurn(x, y)
  OBVIOUS
<1>4. End \in U /\ DebTurn(End, End) = 0
  BY DEF DebTurn, End, Mark, Sign
<1> HIDE DEF U
<1>5. \A x, y \in U : DebTurn(x, y) \in Int /\ DebTurn(y, x) = -DebTurn(x, y)
  <2> SUFFICES ASSUME NEW x \in U, NEW y \in U PROVE DebTurn(x, y) \in Int /\ DebTurn(y, x) = -DebTurn(x, y)
    OBVIOUS
  <2>1. x.n \in Int /\ y.n \in Int /\ DebOrder(x) \in Int /\ DebOrder(y) \in Int
    BY <1>1
  <2>2. /\ Sign(DebOrder(x) - DebOrder(y)) \in Int /\ Sign(DebOrder(y) - DebOrder(x)) = -Sign(DebOrder(x) - DebOrder(y))
        /\ Sign(x.n - y.n) \in Int /\ Sign(y.n - x.n) = -Sign(x.n - y.n)
    BY <2>1, SignOfDifference
  <2> QED
    BY <1>2, <2>2
<1>6. \A x, y, z \in U : Agree(DebTurn(x, y), DebTurn(y, z), DebTurn(x, z))
  <2> SUFFICES ASSUME NEW x \in U, NEW y \in U, NEW z \in U PROVE Agree(DebTurn(x, y), DebTurn(y, z), DebTurn(x, z))
    OBVIOUS
  <2> DEFINE ox == DebOrder(x)
             oy == DebOrder(y)
             oz == DebOrder(z)
  <2>1. /\ x.n \in Int /\ y.n \in Int /\ z.n \in Int /\ ox \in Int /\ oy \in Int /\ oz \in Int
        /\ IF x.k = "char" THEN ox = x.n /\ ox # 0 ELSE ox = 0 /\ x.n >= 0
        /\ IF y.k = "char" THEN oy = y.n /\ oy # 0 ELSE oy = 0 /\ y.n >= 0
        /\ IF z.k = "char" THEN oz = z.n /\ oz # 0 ELSE oz = 0 /\ z.n >= 0
    BY <1>1
  <2>2. /\ DebTurn(x, y) = IF x.k = "char" \/ y.k = "char" THEN Sign(ox - oy) ELSE Sign(x.n - y.n)
        /\ DebTurn(y, z) = IF y.k = "char" \/ z.k = "char" THEN Sign(oy - oz) ELSE Sign(y.n - z.n)
        /\ DebTurn(x, z) = IF x.k = "char" \/ z.k = "char" THEN Sign(ox - oz) ELSE Sign(x.n - z.n)
    BY <1>2
  <2> HIDE DEF ox, oy, oz
  <2>3. /\ ox - oy \in Int /\ oy - oz \in Int /\ ox - oz \in Int
        /\ x.n - y.n \in Int /\ y.n - z.n \in Int /\ x.n - z.n \in Int
    BY <2>1
  <2>4. \A n \in Int : Sign(n) \in {-1, 0, 1} /\ (Sign(n) < 0 <=> n < 0) /\ (Sign(n) = 0 <=> n = 0) /\ (Sign(n) > 0 <=> n > 0)
    BY SignIs
  <2> QED
    BY <2>1, <2>2, <2>3, <2>4 DEF Agree
<1>7. turn \in [U \X U -> Int]
  BY <1>5
<1> HIDE DEF turn
<1>8. Turns(U, End, turn)
  BY <1>3, <1>4, <1>5, <1>6, <1>7 DEF Turns
<1> QED
  BY <1>8 DEF turn, U

\* Parts of Debian versions are ordered.
LEMMA VerrevcmpAgrees ==
  ASSUME NEW s \in Seq(DebTokens), NEW t \in Seq(DebTokens), NEW u \in Seq(DebTokens)
  PROVE  Verrevcmp(t, s) = -Verrevcmp(s, t) /\ Agree(Verrevcmp(s, t), Verrevcmp(t, u), Verrevcmp(s, u))
<1> DEFINE U == DebTokens \cup {End}
           turn == [xy \in U \X U |-> DebTurn(xy[1], xy[2])]
<1>1. Turns(U, End, turn)
  BY DebTurns
<1>2. ASSUME NEW a \in Seq(DebTokens), NEW b \in Seq(DebTokens)
      PROVE  a \in Seq(U) /\ Verrevcmp(a, b) = Decided(a, b, End, turn)
  <2>1. \A i \in 1..Longer(a, b) : /\ ItemOr(a, i, End) = TokenAt(a, i) /\ ItemOr(b, i, End) = TokenAt(b, i)
                                   /\ TokenAt(a, i) \in U /\ TokenAt(b, i) \in U
    BY DEF ItemOr, TokenAt, Longer
  <2>2. Places(a, b, Longer(a, b), End, turn) = [i \in 1..Longer(a, b) |-> DebTurn(TokenAt(a, i), TokenAt(b, i))]
    BY <2>1 DEF Places
  <2> QED
    BY <2>2 DEF Decided, Verrevcmp
<1> HIDE DEF U, turn
<1> QED
  BY <1>1, <1>2, SequencesAgree

\* Three places agree where each of them does.
LEMMA ThreeAgree ==
  ASSUME NEW p1, NEW p2, NEW p3, NEW q1, NEW q2, NEW q3, NEW r1, NEW r2, NEW r3,
         Agree(p1, q1, r1), Agree(p2, q2, r2), Agree(p3, q3, r3)
  PROVE  Agree(Decision(<<p1, p2, p3>>), Decision(<<q1, q2, q3>>), Decision(<<r1, r2, r3>>))
<1> DEFINE p == <<p1, p2, p3>>
           q == <<q1, q2, q3>>
           r == <<r1, r2, r3>>
           n == 3
<1>1. p \in [1..n -> Int] /\ q \in [1..n -> Int] /\ r \in [1..n -> Int] /\ n \in Nat
  BY DEF Agree
<1>2. \A i \in 1..n : Agree(p[i], q[i], r[i])
  <2>1. \A i \in 1..n : i = 1 \/ i = 2 \/ i = 3
    OBVIOUS
  <2> QED
    BY <2>1
<1> HIDE DEF p, q, r, n
<1>3. Agree(Decision(p), Decision(q), Decision(r))
  BY <1>1, <1>2, DecisionAgrees
<1> QED
  BY <1>3 DEF p, q, r

\* Three places the other way round decide the other way round.
LEMMA ThreeTurned ==
  ASSUME NEW p1 \in Int, NEW p2 \in Int, NEW p3 \in Int
  PROVE  Decision(<<-p1, -p2, -p3>>) = -Decision(<<p1, p2, p3>>)
<1> DEFINE p == <<p1, p2, p3>>
           q == <<-p1, -p2, -p3>>
           n == 3
<1>1. p \in [1..n -> Int] /\ q \in [1..n -> Int] /\ n \in Nat
  OBVIOUS
<1>2. \A i \in 1..n : q[i] = -p[i]
  OBVIOUS
<1> HIDE DEF p, q, n
<1>3. Decision(q) = -Decision(p)
  BY <1>1, <1>2, DecisionTurned
<1> QED
  BY <1>3 DEF p, q

\* What a comparator that orders three versions answers of them.
Consistent(ab, ba, bc, ac) == ba = -ab /\ Agree(ab, bc, ac)

\* Debian's comparator orders its versions.
LEMMA DebOrders ==
  ASSUME NEW a \in DebVersion, NEW b \in DebVersion, NEW c \in DebVersion
  PROVE  Consistent(DebCompare(a, b), DebCompare(b, a), DebCompare(b, c), DebCompare(a, c))
<1>1. /\ a.epoch \in Int /\ a.upstream \in Seq(DebTokens) /\ a.revision \in Seq(DebTokens)
      /\ b.epoch \in Int /\ b.upstream \in Seq(DebTokens) /\ b.revision \in Seq(DebTokens)
      /\ c.epoch \in Int /\ c.upstream \in Seq(DebTokens) /\ c.revision \in Seq(DebTokens)
  BY DEF DebVersion
<1>2. /\ Agree(Sign(a.epoch - b.epoch), Sign(b.epoch - c.epoch), Sign(a.epoch - c.epoch))
      /\ Sign(b.epoch - a.epoch) = -Sign(a.epoch - b.epoch)
  BY <1>1, DifferencesAgree
<1>3. /\ Agree(Verrevcmp(a.upstream, b.upstream), Verrevcmp(b.upstream, c.upstream), Verrevcmp(a.upstream, c.upstream))
      /\ Verrevcmp(b.upstream, a.upstream) = -Verrevcmp(a.upstream, b.upstream)
  BY <1>1, VerrevcmpAgrees
<1>4. /\ Agree(Verrevcmp(a.revision, b.revision), Verrevcmp(b.revision, c.revision), Verrevcmp(a.revision, c.revision))
      /\ Verrevcmp(b.revision, a.revision) = -Verrevcmp(a.revision, b.revision)
  BY <1>1, VerrevcmpAgrees
<1>5. Agree(DebCompare(a, b), DebCompare(b, c), DebCompare(a, c))
  BY <1>2, <1>3, <1>4, ThreeAgree DEF DebCompare
<1>6. Sign(a.epoch - b.epoch) \in Int /\ Verrevcmp(a.upstream, b.upstream) \in Int /\ Verrevcmp(a.revision, b.revision) \in Int
  BY <1>2, <1>3, <1>4 DEF Agree
<1>7. DebCompare(b, a) = -DebCompare(a, b)
  BY <1>2, <1>3, <1>4, <1>6, ThreeTurned DEF DebCompare
<1> QED
  BY <1>5, <1>7 DEF Consistent
-----------------------------------------------------------------------------
(* VersionOrders: rpm                                                      *)

RpmTokens == [k : {"num", "word"}, n : Nat] \cup {Mark("tilde"), Mark("caret")}
RpmVersion == [epoch : Nat \cup {NoEpoch}, version : Seq(RpmTokens), release : Seq(RpmTokens)]

\* The order of what rpmvercmp may meet.
RpmRank(x) == IF x.k = "tilde" THEN 0 ELSE IF x.k = "end" THEN 1 ELSE IF x.k = "caret" THEN 2 ELSE IF x.k = "word" THEN 3 ELSE 4

\* A tilde, nothing, a caret, words and numbers come in that order.
LEMMA RpmTurns ==
  Turns(RpmTokens \cup {End}, End, [xy \in (RpmTokens \cup {End}) \X (RpmTokens \cup {End}) |-> RpmTurn(xy[1], xy[2])])
<1> DEFINE U == RpmTokens \cup {End}
           turn == [xy \in U \X U |-> RpmTurn(xy[1], xy[2])]
<1>1. \A x \in U : /\ x.k \in {"tilde", "end", "caret", "word", "num"} /\ x.n \in Nat /\ (x.k \in {"tilde", "end", "caret"} => x.n = 0)
                   /\ x = End <=> x.k = "end"
  BY DEF RpmTokens, End, Mark
<1>2. \A x, y \in U : turn[<<x, y>>] = RpmTurn(x, y)
  OBVIOUS
<1>3. End \in U
  OBVIOUS
<1> HIDE DEF U
<1>4. \A n \in Int : Sign(n) \in {-1, 0, 1} /\ (Sign(n) < 0 <=> n < 0) /\ (Sign(n) = 0 <=> n = 0) /\ (Sign(n) > 0 <=> n > 0)
  BY SignIs
<1>5. ASSUME NEW x \in U, NEW y \in U
      PROVE  RpmTurn(x, y) = IF RpmRank(x) # RpmRank(y) THEN (IF RpmRank(x) < RpmRank(y) THEN -1 ELSE 1) ELSE Sign(x.n - y.n)
  <2>1. Sign(0 - 0) = 0
    BY <1>4
  <2>2. /\ x.k \in {"tilde", "end", "caret", "word", "num"} /\ (x.k \in {"tilde", "end", "caret"} => x.n = 0)
        /\ y.k \in {"tilde", "end", "caret", "word", "num"} /\ (y.k \in {"tilde", "end", "caret"} => y.n = 0)
        /\ (x = End <=> x.k = "end") /\ (y = End <=> y.k = "end")
    BY <1>1
  <2>3. CASE x.k = "tilde" \/ y.k = "tilde"
    <3>1. RpmTurn(x, y) = IF x.k # "tilde" THEN 1 ELSE IF y.k # "tilde" THEN -1 ELSE 0
      <4>1. "tilde" \in {x.k, y.k}
        BY <2>3
      <4> QED
        BY <4>1 DEF RpmTurn
    <3> QED
      BY <2>1, <2>2, <2>3, <3>1 DEF RpmRank
  <2>4. CASE x.k # "tilde" /\ y.k # "tilde" /\ (x.k = "caret" \/ y.k = "caret")
    BY <2>1, <2>2, <2>4 DEF RpmTurn, RpmRank
  <2>5. CASE x.k \notin {"tilde", "caret"} /\ y.k \notin {"tilde", "caret"} /\ (x = End \/ y = End)
    BY <2>1, <2>2, <2>5 DEF RpmTurn, RpmRank
  <2>6. CASE x.k \in {"word", "num"} /\ y.k \in {"word", "num"}
    <3>1. ~("tilde" \in {x.k, y.k}) /\ ~("caret" \in {x.k, y.k}) /\ ~(End \in {x, y})
      BY <2>2, <2>6
    <3>2. RpmTurn(x, y) = IF x.k # y.k THEN (IF x.k = "num" THEN 1 ELSE -1) ELSE Sign(x.n - y.n)
      BY <3>1 DEF RpmTurn
    <3> QED
      BY <2>6, <3>2 DEF RpmRank
  <2> QED
    BY <2>2, <2>3, <2>4, <2>5, <2>6
<1>6. \A x \in U : RpmRank(x) \in Int /\ x.n \in Int
  BY <1>1 DEF RpmRank
<1>7. ASSUME NEW x \in U, NEW y \in U PROVE RpmTurn(x, y) \in Int /\ RpmTurn(y, x) = -RpmTurn(x, y)
  <2>1. Sign(x.n - y.n) \in Int /\ Sign(y.n - x.n) = -Sign(x.n - y.n)
    BY <1>6, SignOfDifference
  <2> QED
    BY <1>5, <1>6, <2>1
<1>8. ASSUME NEW x \in U, NEW y \in U, NEW z \in U PROVE Agree(RpmTurn(x, y), RpmTurn(y, z), RpmTurn(x, z))
  <2>1. Agree(Sign(x.n - y.n), Sign(y.n - z.n), Sign(x.n - z.n))
    BY <1>6, DifferencesAgree
  <2>2. /\ Sign(x.n - y.n) \in {-1, 0, 1} /\ Sign(y.n - z.n) \in {-1, 0, 1} /\ Sign(x.n - z.n) \in {-1, 0, 1}
    BY <1>4, <1>6
  <2> QED
    BY <1>5, <1>6, <2>1, <2>2 DEF Agree
<1>9. turn \in [U \X U -> Int]
  BY <1>7
<1>10. turn[<<End, End>>] = 0
  <2>1. End.n = 0 /\ RpmTurn(End, End) = Sign(End.n - End.n)
    BY <1>3, <1>5 DEF End, Mark
  <2> QED
    BY <1>2, <1>3, <1>4, <2>1
<1> HIDE DEF turn
<1>11. Turns(U, End, turn)
  BY <1>2, <1>3, <1>7, <1>8, <1>9, <1>10 DEF Turns
<1> QED
  BY <1>11 DEF turn, U

\* Parts of rpm versions are ordered.
LEMMA RpmvercmpAgrees ==
  ASSUME NEW s \in Seq(RpmTokens), NEW t \in Seq(RpmTokens), NEW u \in Seq(RpmTokens)
  PROVE  Rpmvercmp(t, s) = -Rpmvercmp(s, t) /\ Agree(Rpmvercmp(s, t), Rpmvercmp(t, u), Rpmvercmp(s, u))
<1> DEFINE U == RpmTokens \cup {End}
           turn == [xy \in U \X U |-> RpmTurn(xy[1], xy[2])]
<1>1. Turns(U, End, turn)
  BY RpmTurns
<1>2. ASSUME NEW a \in Seq(RpmTokens), NEW b \in Seq(RpmTokens)
      PROVE  a \in Seq(U) /\ Rpmvercmp(a, b) = Decided(a, b, End, turn)
  <2>1. \A i \in 1..Longer(a, b) : /\ ItemOr(a, i, End) = TokenAt(a, i) /\ ItemOr(b, i, End) = TokenAt(b, i)
                                   /\ TokenAt(a, i) \in U /\ TokenAt(b, i) \in U
    BY DEF ItemOr, TokenAt, Longer
  <2>2. Places(a, b, Longer(a, b), End, turn) = [i \in 1..Longer(a, b) |-> RpmTurn(TokenAt(a, i), TokenAt(b, i))]
    BY <2>1 DEF Places
  <2> QED
    BY <2>2 DEF Decided, Rpmvercmp
<1> HIDE DEF U, turn
<1> QED
  BY <1>1, <1>2, SequencesAgree

\* Versions that state the same of an epoch and a release.
StateTheSame(a, b) == (a.epoch = NoEpoch <=> b.epoch = NoEpoch) /\ (a.release = <<>> <=> b.release = <<>>)

\* rpm's comparator orders versions that state the same parts.
LEMMA RpmOrders ==
  ASSUME NEW a \in RpmVersion, NEW b \in RpmVersion, NEW c \in RpmVersion, StateTheSame(a, b), StateTheSame(b, c)
  PROVE  Consistent(RpmCompare(a, b), RpmCompare(b, a), RpmCompare(b, c), RpmCompare(a, c))
<1> DEFINE rel(x, y) == IF x.release = <<>> \/ y.release = <<>> THEN 0 ELSE Rpmvercmp(x.release, y.release)
<1>1. /\ a.epoch \in Int /\ a.version \in Seq(RpmTokens) /\ a.release \in Seq(RpmTokens)
      /\ b.epoch \in Int /\ b.version \in Seq(RpmTokens) /\ b.release \in Seq(RpmTokens)
      /\ c.epoch \in Int /\ c.version \in Seq(RpmTokens) /\ c.release \in Seq(RpmTokens)
  BY DEF RpmVersion, NoEpoch
<1>2. /\ RpmEpochs(a, b) = Sign(a.epoch - b.epoch) /\ RpmEpochs(b, c) = Sign(b.epoch - c.epoch)
      /\ RpmEpochs(a, c) = Sign(a.epoch - c.epoch) /\ RpmEpochs(b, a) = Sign(b.epoch - a.epoch)
  <2>1. Sign(NoEpoch - NoEpoch) = 0
    BY DEF Sign, NoEpoch
  <2>2. CASE a.epoch = NoEpoch
    <3>1. b.epoch = NoEpoch /\ c.epoch = NoEpoch
      BY <2>2 DEF StateTheSame
    <3> QED
      BY <2>1, <2>2, <3>1 DEF RpmEpochs
  <2>3. CASE a.epoch # NoEpoch
    <3>1. b.epoch # NoEpoch /\ c.epoch # NoEpoch
      BY <2>3 DEF StateTheSame
    <3> QED
      BY <2>3, <3>1 DEF RpmEpochs
  <2> QED
    BY <2>2, <2>3
<1>3. /\ Agree(RpmEpochs(a, b), RpmEpochs(b, c), RpmEpochs(a, c)) /\ RpmEpochs(b, a) = -RpmEpochs(a, b)
  BY <1>1, <1>2, DifferencesAgree
<1>4. /\ Agree(Rpmvercmp(a.version, b.version), Rpmvercmp(b.version, c.version), Rpmvercmp(a.version, c.version))
      /\ Rpmvercmp(b.version, a.version) = -Rpmvercmp(a.version, b.version)
  BY <1>1, RpmvercmpAgrees
<1>5. Agree(rel(a, b), rel(b, c), rel(a, c)) /\ rel(b, a) = -rel(a, b)
  <2>1. CASE a.release = <<>>
    <3>1. b.release = <<>> /\ c.release = <<>>
      BY <2>1 DEF StateTheSame
    <3>2. rel(a, b) = 0 /\ rel(b, a) = 0 /\ rel(b, c) = 0 /\ rel(a, c) = 0
      BY <2>1, <3>1
    <3>3. Agree(0, 0, 0)
      BY DEF Agree
    <3>4. 0 = -0
      <4> DEFINE z == a.epoch
      <4>1. z \in Int
        BY <1>1
      <4> HIDE DEF z
      <4>2. Sign(z - z) = -Sign(z - z)
        BY <4>1, SignOfDifference
      <4>3. Sign(z - z) = 0
        BY <4>1 DEF Sign
      <4> QED
        BY <4>2, <4>3, Zenon
    <3> HIDE DEF rel
    <3> QED
      BY <3>2, <3>3, <3>4, Zenon
  <2>2. CASE a.release # <<>>
    <3>1. b.release # <<>> /\ c.release # <<>>
      BY <2>2 DEF StateTheSame
    <3>2. /\ Agree(Rpmvercmp(a.release, b.release), Rpmvercmp(b.release, c.release), Rpmvercmp(a.release, c.release))
          /\ Rpmvercmp(b.release, a.release) = -Rpmvercmp(a.release, b.release)
      BY <1>1, RpmvercmpAgrees
    <3> QED
      BY <2>2, <3>1, <3>2
  <2> QED
    BY <2>1, <2>2
<1>6. /\ RpmCompare(a, b) = Decision(<<RpmEpochs(a, b), Rpmvercmp(a.version, b.version), rel(a, b)>>)
      /\ RpmCompare(b, a) = Decision(<<RpmEpochs(b, a), Rpmvercmp(b.version, a.version), rel(b, a)>>)
      /\ RpmCompare(b, c) = Decision(<<RpmEpochs(b, c), Rpmvercmp(b.version, c.version), rel(b, c)>>)
      /\ RpmCompare(a, c) = Decision(<<RpmEpochs(a, c), Rpmvercmp(a.version, c.version), rel(a, c)>>)
  BY DEF RpmCompare
<1> HIDE DEF rel
<1>7. Agree(RpmCompare(a, b), RpmCompare(b, c), RpmCompare(a, c))
  BY <1>3, <1>4, <1>5, <1>6, ThreeAgree
<1>8. RpmEpochs(a, b) \in Int /\ Rpmvercmp(a.version, b.version) \in Int /\ rel(a, b) \in Int
  BY <1>3, <1>4, <1>5 DEF Agree
<1>9. RpmCompare(b, a) = -RpmCompare(a, b)
  BY <1>3, <1>4, <1>5, <1>6, <1>8, ThreeTurned
<1> QED
  BY <1>7, <1>9 DEF Consistent
-----------------------------------------------------------------------------
(* VersionOrders: PEP 440                                                  *)

Segments == [k : {"num", "word"}, n : Nat]
OneOrNone == {<<>>} \cup {<<n>> : n \in Nat}
PepVersion == [epoch : Nat, release : Seq(Nat) \ {<<>>}, pre : {<<>>} \cup (Nat \X Nat), post : OneOrNone, dev : OneOrNone, local : Seq(Segments)]

\* A number is kept within what the machine holds.
LEMMA SaturatingIs == ASSUME NEW n \in Nat PROVE Saturating(n) \in Nat
BY MaxIntAssumption DEF Saturating

\* Components of releases come in the order of the numbers the machine holds.
LEMMA ReleaseTurns == Turns(Nat, 0, [xy \in Nat \X Nat |-> Sign(Saturating(xy[1]) - Saturating(xy[2]))])
<1> DEFINE turn == [xy \in Nat \X Nat |-> Sign(Saturating(xy[1]) - Saturating(xy[2]))]
           nothing == 0
<1>1. \A x, y \in Nat : turn[<<x, y>>] = Sign(Saturating(x) - Saturating(y))
  OBVIOUS
<1>2. \A x \in Nat : Saturating(x) \in Int
  BY SaturatingIs
<1>3. nothing \in Nat
  OBVIOUS
<1> HIDE DEF nothing
<1>4. \A x, y \in Nat : Sign(Saturating(x) - Saturating(y)) \in Int /\ Sign(Saturating(y) - Saturating(x)) = -Sign(Saturating(x) - Saturating(y))
  BY <1>2, SignOfDifference
<1>5. \A x, y, z \in Nat : Agree(Sign(Saturating(x) - Saturating(y)), Sign(Saturating(y) - Saturating(z)), Sign(Saturating(x) - Saturating(z)))
  BY <1>2, DifferencesAgree
<1>6. turn[<<nothing, nothing>>] = 0
  <2>1. Sign(Saturating(nothing) - Saturating(nothing)) = 0
    BY <1>2, <1>3 DEF Sign
  <2> QED
    BY <1>1, <1>3, <2>1
<1>7. turn \in [Nat \X Nat -> Int]
  BY <1>4
<1> HIDE DEF turn
<1>8. Turns(Nat, nothing, turn)
  BY <1>1, <1>3, <1>4, <1>5, <1>6, <1>7 DEF Turns
<1> QED
  BY <1>8 DEF turn, nothing

\* A release without its trailing zeros is one.
LEMMA TrimmedIs ==
  ASSUME NEW r \in Seq(Nat), r # <<>>
  PROVE  Trimmed(r) \in Seq(Nat)
<1> DEFINE kept == {i \in DOMAIN r : i = 1 \/ r[i] # 0}
<1>1. Len(r) \in Nat /\ DOMAIN r = 1..Len(r) /\ 1 \in DOMAIN r
  OBVIOUS
<1>2. kept \in SUBSET (1..Len(r)) /\ kept # {}
  BY <1>1
<1>3. \E m \in kept : \A j \in kept : j <= m
  <2> HIDE DEF kept
  <2> QED
    BY <1>1, <1>2, LargestOne
<1> DEFINE last == CHOOSE i \in kept : \A j \in kept : j <= i
<1>4. last \in 1..Len(r)
  BY <1>2, <1>3
<1>5. Trimmed(r) = SubSeq(r, 1, last)
  BY DEF Trimmed
<1> HIDE DEF last
<1>6. SubSeq(r, 1, last) \in Seq(Nat)
  BY <1>1, <1>4
<1> QED
  BY <1>5, <1>6, Zenon

\* Releases are ordered.
LEMMA CompareReleaseAgrees ==
  ASSUME NEW s \in Seq(Nat), NEW t \in Seq(Nat), NEW u \in Seq(Nat)
  PROVE  CompareRelease(t, s) = -CompareRelease(s, t) /\ Agree(CompareRelease(s, t), CompareRelease(t, u), CompareRelease(s, u))
<1> DEFINE nothing == 0
           turn == [xy \in Nat \X Nat |-> Sign(Saturating(xy[1]) - Saturating(xy[2]))]
<1>1. Turns(Nat, nothing, turn)
  BY ReleaseTurns
<1>2. ASSUME NEW a \in Seq(Nat), NEW b \in Seq(Nat)
      PROVE  CompareRelease(a, b) = Decided(a, b, nothing, turn)
  <2>1. \A i \in 1..Longer(a, b) : /\ ItemOr(a, i, nothing) = (IF i <= Len(a) THEN a[i] ELSE 0)
                                   /\ ItemOr(b, i, nothing) = (IF i <= Len(b) THEN b[i] ELSE 0)
                                   /\ ItemOr(a, i, nothing) \in Nat /\ ItemOr(b, i, nothing) \in Nat
    BY DEF ItemOr, Longer
  <2>2. Places(a, b, Longer(a, b), nothing, turn) =
          [i \in 1..Longer(a, b) |-> Sign(Saturating(IF i <= Len(a) THEN a[i] ELSE 0) - Saturating(IF i <= Len(b) THEN b[i] ELSE 0))]
    BY <2>1 DEF Places
  <2> QED
    BY <2>2 DEF Decided, CompareRelease
<1> HIDE DEF nothing, turn
<1> QED
  BY <1>1, <1>2, SequencesAgree

\* Two places decide as the first of them that does.
LEMMA TwoPlaces ==
  ASSUME NEW p1 \in Int, NEW p2 \in Int
  PROVE  Decision(<<p1, p2>>) = IF p1 # 0 THEN p1 ELSE p2
<1> DEFINE p == <<p1, p2>>
           n == 2
<1>1. p \in [1..n -> Int] /\ n \in Nat /\ p[1] = p1 /\ p[2] = p2
  OBVIOUS
<1> HIDE DEF p
<1>2. Decides(p, n, Decision(p)) /\ Decision(p) \in Int
  <2> HIDE DEF n
  <2> QED
    BY <1>1, DecisionDecides
<1> QED
  BY <1>1, <1>2 DEF Decides, p

\* Pre-releases are ordered: below, among and above those that state one.
LEMMA ComparePreAgrees ==
  ASSUME NEW a \in PepVersion, NEW b \in PepVersion, NEW c \in PepVersion
  PROVE  ComparePre(b, a) = -ComparePre(a, b) /\ Agree(ComparePre(a, b), ComparePre(b, c), ComparePre(a, c))
<1> DEFINE d(x, y) == Decision(<<Sign(x.pre[1] - y.pre[1]), Sign(Saturating(x.pre[2]) - Saturating(y.pre[2]))>>)
<1>1. \A x \in PepVersion : PreRank(x) \in {-1, 0, 1}
  BY DEF PreRank
<1>2. \A x \in PepVersion : PreRank(x) = 0 => x.pre[1] \in Int /\ Saturating(x.pre[2]) \in Int
  <2> SUFFICES ASSUME NEW x \in PepVersion, PreRank(x) = 0 PROVE x.pre[1] \in Int /\ Saturating(x.pre[2]) \in Int
    OBVIOUS
  <2>1. x.pre \in Nat \X Nat
    BY DEF PreRank, PepVersion, Absent
  <2> QED
    BY <2>1, SaturatingIs
<1>3. \A x, y \in PepVersion : ComparePre(x, y) =
        IF PreRank(x) # PreRank(y) THEN Sign(PreRank(x) - PreRank(y)) ELSE IF PreRank(x) # 0 THEN 0 ELSE d(x, y)
  BY DEF ComparePre
<1>4. ASSUME NEW x \in PepVersion, NEW y \in PepVersion, PreRank(x) = 0, PreRank(y) = 0
      PROVE  /\ d(x, y) = IF Sign(x.pre[1] - y.pre[1]) # 0 THEN Sign(x.pre[1] - y.pre[1])
                          ELSE Sign(Saturating(x.pre[2]) - Saturating(y.pre[2]))
             /\ Sign(x.pre[1] - y.pre[1]) \in Int /\ Sign(Saturating(x.pre[2]) - Saturating(y.pre[2])) \in Int
  <2>1. Sign(x.pre[1] - y.pre[1]) \in Int /\ Sign(Saturating(x.pre[2]) - Saturating(y.pre[2])) \in Int
    BY <1>2, <1>4, SignOfDifference
  <2> QED
    BY <2>1, TwoPlaces
<1> HIDE DEF d
<1>5. ASSUME NEW x \in PepVersion, NEW y \in PepVersion, PreRank(x) = 0, PreRank(y) = 0
      PROVE  d(x, y) \in Int /\ d(y, x) = -d(x, y)
  <2>1. /\ Sign(y.pre[1] - x.pre[1]) = -Sign(x.pre[1] - y.pre[1])
        /\ Sign(Saturating(y.pre[2]) - Saturating(x.pre[2])) = -Sign(Saturating(x.pre[2]) - Saturating(y.pre[2]))
    BY <1>2, <1>5, SignOfDifference
  <2> QED
    BY <1>4, <1>5, <2>1
<1>6. ASSUME NEW x \in PepVersion, NEW y \in PepVersion, NEW z \in PepVersion, PreRank(x) = 0, PreRank(y) = 0, PreRank(z) = 0
      PROVE  Agree(d(x, y), d(y, z), d(x, z))
  <2>1. Agree(Sign(x.pre[1] - y.pre[1]), Sign(y.pre[1] - z.pre[1]), Sign(x.pre[1] - z.pre[1]))
    BY <1>2, <1>6, DifferencesAgree
  <2>2. Agree(Sign(Saturating(x.pre[2]) - Saturating(y.pre[2])), Sign(Saturating(y.pre[2]) - Saturating(z.pre[2])),
              Sign(Saturating(x.pre[2]) - Saturating(z.pre[2])))
    BY <1>2, <1>6, DifferencesAgree
  <2> QED
    BY <1>4, <1>6, <2>1, <2>2 DEF Agree
<1>7. /\ PreRank(a) \in Int /\ PreRank(b) \in Int /\ PreRank(c) \in Int
  BY <1>1
<1>8. \A n \in Int : Sign(n) \in {-1, 0, 1} /\ (Sign(n) < 0 <=> n < 0) /\ (Sign(n) = 0 <=> n = 0) /\ (Sign(n) > 0 <=> n > 0)
  BY SignIs
<1>9. ComparePre(b, a) = -ComparePre(a, b)
  <2>1. CASE PreRank(a) # PreRank(b)
    BY <1>3, <1>7, <2>1, SignOfDifference
  <2>2. CASE PreRank(a) = PreRank(b) /\ PreRank(a) # 0
    <3>1. ComparePre(b, a) = 0 /\ ComparePre(a, b) = 0
      BY <1>3, <2>2
    <3>2. Sign(PreRank(a) - PreRank(b)) = -Sign(PreRank(b) - PreRank(a))
      BY <1>7, SignOfDifference
    <3>3. Sign(PreRank(a) - PreRank(b)) = 0 /\ Sign(PreRank(b) - PreRank(a)) = 0
      BY <1>7, <1>8, <2>2
    <3> QED
      BY <3>1, <3>2, <3>3, Zenon
  <2>3. CASE PreRank(a) = PreRank(b) /\ PreRank(a) = 0
    BY <1>3, <1>5, <2>3
  <2> QED
    BY <2>1, <2>2, <2>3
<1>10. Agree(ComparePre(a, b), ComparePre(b, c), ComparePre(a, c))
  <2> DEFINE A == PreRank(a)
             B == PreRank(b)
             C == PreRank(c)
  <2>1. /\ ComparePre(a, b) = IF A # B THEN Sign(A - B) ELSE IF A # 0 THEN 0 ELSE d(a, b)
        /\ ComparePre(b, c) = IF B # C THEN Sign(B - C) ELSE IF B # 0 THEN 0 ELSE d(b, c)
        /\ ComparePre(a, c) = IF A # C THEN Sign(A - C) ELSE IF A # 0 THEN 0 ELSE d(a, c)
    BY <1>3
  <2>2. A \in {-1, 0, 1} /\ B \in {-1, 0, 1} /\ C \in {-1, 0, 1}
    BY <1>1
  <2>3. /\ (A = 0 /\ B = 0 => d(a, b) \in Int) /\ (B = 0 /\ C = 0 => d(b, c) \in Int) /\ (A = 0 /\ C = 0 => d(a, c) \in Int)
        /\ (A = 0 /\ B = 0 /\ C = 0 => Agree(d(a, b), d(b, c), d(a, c)))
    BY <1>5, <1>6
  <2> HIDE DEF A, B, C
  <2>4. /\ Sign(A - B) \in {-1, 0, 1} /\ (Sign(A - B) < 0 <=> A < B) /\ (Sign(A - B) > 0 <=> A > B)
        /\ Sign(B - C) \in {-1, 0, 1} /\ (Sign(B - C) < 0 <=> B < C) /\ (Sign(B - C) > 0 <=> B > C)
        /\ Sign(A - C) \in {-1, 0, 1} /\ (Sign(A - C) < 0 <=> A < C) /\ (Sign(A - C) > 0 <=> A > C)
    BY <1>8, <2>2
  <2>5. CASE A = 0 /\ B = 0 /\ C = 0
    BY <2>1, <2>3, <2>5
  <2>6. CASE ~(A = 0 /\ B = 0 /\ C = 0)
    BY <2>1, <2>2, <2>3, <2>4, <2>6 DEF Agree
  <2> QED
    BY <2>5, <2>6
<1> QED
  BY <1>9, <1>10

\* A segment of a local version against another, or against nothing.
SegmentTurn(x, y) == IF x = End \/ y = End THEN (IF x = y THEN 0 ELSE IF x = End THEN -1 ELSE 1) ELSE LocalPlace(x, y)
SegmentRank(x) == IF x.k = "end" THEN 0 ELSE IF x.k = "word" THEN 1 ELSE 2

\* Nothing, words and numbers come in that order.
LEMMA SegmentTurns ==
  Turns(Segments \cup {End}, End, [xy \in (Segments \cup {End}) \X (Segments \cup {End}) |-> SegmentTurn(xy[1], xy[2])])
<1> DEFINE U == Segments \cup {End}
           turn == [xy \in U \X U |-> SegmentTurn(xy[1], xy[2])]
<1>1. \A x \in U : /\ x.k \in {"end", "word", "num"} /\ x.n \in Nat /\ (x.k = "end" => x.n = 0)
                   /\ x = End <=> x.k = "end"
  BY DEF Segments, End, Mark
<1>2. \A x, y \in U : turn[<<x, y>>] = SegmentTurn(x, y)
  OBVIOUS
<1>3. End \in U
  OBVIOUS
<1> HIDE DEF U
<1>4. \A n \in Int : Sign(n) \in {-1, 0, 1} /\ (Sign(n) < 0 <=> n < 0) /\ (Sign(n) = 0 <=> n = 0) /\ (Sign(n) > 0 <=> n > 0)
  BY SignIs
<1>5. ASSUME NEW x \in U, NEW y \in U
      PROVE  SegmentTurn(x, y) = IF SegmentRank(x) # SegmentRank(y) THEN (IF SegmentRank(x) < SegmentRank(y) THEN -1 ELSE 1) ELSE Sign(x.n - y.n)
  <2>1. Sign(0 - 0) = 0
    BY <1>4
  <2>2. /\ x.k \in {"end", "word", "num"} /\ (x.k = "end" => x.n = 0) /\ (x = End <=> x.k = "end")
        /\ y.k \in {"end", "word", "num"} /\ (y.k = "end" => y.n = 0) /\ (y = End <=> y.k = "end")
    BY <1>1
  <2>3. CASE x = End \/ y = End
    BY <2>1, <2>2, <2>3 DEF SegmentTurn, SegmentRank
  <2>4. CASE ~(x = End \/ y = End)
    BY <2>2, <2>4 DEF SegmentTurn, SegmentRank, LocalPlace
  <2> QED
    BY <2>3, <2>4
<1>6. \A x \in U : SegmentRank(x) \in Int /\ x.n \in Int
  BY <1>1 DEF SegmentRank
<1>7. ASSUME NEW x \in U, NEW y \in U PROVE SegmentTurn(x, y) \in Int /\ SegmentTurn(y, x) = -SegmentTurn(x, y)
  <2>1. Sign(x.n - y.n) \in Int /\ Sign(y.n - x.n) = -Sign(x.n - y.n)
    BY <1>6, SignOfDifference
  <2> QED
    BY <1>5, <1>6, <2>1
<1>8. ASSUME NEW x \in U, NEW y \in U, NEW z \in U PROVE Agree(SegmentTurn(x, y), SegmentTurn(y, z), SegmentTurn(x, z))
  <2>1. Agree(Sign(x.n - y.n), Sign(y.n - z.n), Sign(x.n - z.n))
    BY <1>6, DifferencesAgree
  <2>2. /\ Sign(x.n - y.n) \in {-1, 0, 1} /\ Sign(y.n - z.n) \in {-1, 0, 1} /\ Sign(x.n - z.n) \in {-1, 0, 1}
    BY <1>4, <1>6
  <2> QED
    BY <1>5, <1>6, <2>1, <2>2 DEF Agree
<1>9. turn \in [U \X U -> Int]
  BY <1>7
<1>10. turn[<<End, End>>] = 0
  BY <1>2, <1>3 DEF SegmentTurn
<1> HIDE DEF turn
<1>11. Turns(U, End, turn)
  BY <1>2, <1>3, <1>7, <1>8, <1>9, <1>10 DEF Turns
<1> QED
  BY <1>11 DEF turn, U

\* Local versions are compared segment by segment, the longer one above where the
\* shorter one ends.
LEMMA CompareLocalDecides ==
  ASSUME NEW l \in Seq(Segments), NEW m \in Seq(Segments)
  PROVE  CompareLocal(l, m) =
           Decided(l, m, End, [xy \in (Segments \cup {End}) \X (Segments \cup {End}) |-> SegmentTurn(xy[1], xy[2])])
<1> DEFINE U == Segments \cup {End}
           turn == [xy \in U \X U |-> SegmentTurn(xy[1], xy[2])]
           N == Longer(l, m)
           C == IF Len(l) < Len(m) THEN Len(l) ELSE Len(m)
           diff == Sign(Len(l) - Len(m))
           P == Places(l, m, N, End, turn)
           d == CompareLocal(l, m)
<1>1. Turns(U, End, turn) /\ l \in Seq(U) /\ m \in Seq(U)
  BY SegmentTurns
<1>2. /\ N \in Nat /\ C \in Nat /\ C <= N /\ Len(l) \in Nat /\ Len(m) \in Nat /\ Len(l) <= N /\ Len(m) <= N
      /\ diff \in {-1, 0, 1} /\ (diff = 0 <=> N = C) /\ (diff < 0 <=> Len(l) = C /\ C < N) /\ (diff > 0 <=> Len(m) = C /\ C < N)
      /\ (C < N => (Len(l) = C /\ Len(m) = N) \/ (Len(m) = C /\ Len(l) = N))
  BY SignIs DEF Longer
<1>3. P \in [1..N -> Int]
  BY <1>1, <1>2, PlacesDecide
<1>4. \A i \in 1..C : LocalPlace(l[i], m[i]) = P[i] /\ LocalPlace(l[i], m[i]) \in Int
  <2>0. \A i \in 1..C : P[i] \in Int
    <3> HIDE DEF P, N, C
    <3>1. \A i \in 1..C : i \in 1..N
      BY <1>2
    <3> QED
      BY <1>3, <3>1
  <2> SUFFICES ASSUME NEW i \in 1..C PROVE LocalPlace(l[i], m[i]) = P[i]
    BY <2>0, Zenon
  <2>1. i \in 1..N /\ l[i] \in Segments /\ m[i] \in Segments /\ ItemOr(l, i, End) = l[i] /\ ItemOr(m, i, End) = m[i]
    BY <1>2 DEF ItemOr
  <2>2. l[i] # End /\ m[i] # End
    BY <2>1 DEF Segments, End, Mark
  <2>3. P[i] = SegmentTurn(l[i], m[i])
    BY <2>1 DEF Places
  <2> QED
    BY <2>2, <2>3 DEF SegmentTurn
<1>5. C < N => P[C + 1] = diff
  <2> SUFFICES ASSUME C < N PROVE P[C + 1] = diff
    OBVIOUS
  <2> DEFINE i == C + 1
  <2>1. i \in 1..N
    BY <1>2
  <2>2. P[i] = SegmentTurn(ItemOr(l, i, End), ItemOr(m, i, End))
    <3>1. ItemOr(l, i, End) \in U /\ ItemOr(m, i, End) \in U
      BY <1>2, <2>1 DEF ItemOr
    <3> QED
      BY <2>1, <3>1 DEF Places
  <2>3. CASE Len(l) = C
    <3>1. ItemOr(l, i, End) = End /\ ItemOr(m, i, End) = m[i] /\ m[i] \in Segments
      BY <1>2, <2>1, <2>3 DEF ItemOr
    <3>2. m[i] # End
      BY <3>1 DEF Segments, End, Mark
    <3> QED
      BY <1>2, <2>2, <2>3, <3>1, <3>2 DEF SegmentTurn
  <2>4. CASE Len(m) = C
    <3>1. ItemOr(m, i, End) = End /\ ItemOr(l, i, End) = l[i] /\ l[i] \in Segments
      BY <1>2, <2>1, <2>4 DEF ItemOr
    <3>2. l[i] # End
      BY <3>1 DEF Segments, End, Mark
    <3> QED
      BY <1>2, <2>2, <2>4, <3>1, <3>2 DEF SegmentTurn
  <2> QED
    BY <1>2, <2>3, <2>4
<1>6. Decides(P, N, d)
  <2>1. CASE C = 0
    <3>1. d = diff
      BY <2>1 DEF CompareLocal
    <3> HIDE DEF P, N, C, diff, d
    <3>2. CASE N = 0
      BY <1>2, <2>1, <3>1, <3>2 DEF Decides
    <3>3. CASE N # 0
      <4>1. 1 \in 1..N /\ P[1] = d /\ d # 0 /\ \A j \in 1..N : ~(j < 1)
        BY <1>2, <1>5, <2>1, <3>1, <3>3
      <4> QED
        BY <4>1 DEF Decides
    <3> QED
      BY <3>2, <3>3
  <2>2. CASE C # 0
    <3> DEFINE first == [i \in 1..C |-> LocalPlace(l[i], m[i])]
               q == first \o <<diff>>
               k == C + 1
    <3>1. d = Decision(q)
      BY <2>2 DEF CompareLocal
    <3> HIDE DEF P, N, C, diff
    <3>2. first \in Seq(Int) /\ Len(first) = C /\ (\A i \in 1..C : first[i] = P[i]) /\ diff \in Int
      BY <1>2, <1>4
    <3> HIDE DEF first
    <3>3. q \in Seq(Int) /\ Len(q) = C + 1 /\ (\A i \in 1..C : q[i] = P[i]) /\ q[C + 1] = diff
      BY <1>2, <3>2
    <3> HIDE DEF q
    <3>4. k \in Nat /\ q \in [1..k -> Int]
      BY <1>2, <3>3
    <3> HIDE DEF k
    <3>5. Decides(q, k, d)
      BY <3>1, <3>4, DecisionDecides
    <3> USE DEF k
    <3> HIDE DEF d
    <3>6. CASE N = C
      BY <1>2, <3>3, <3>5, <3>6 DEF Decides
    <3>7. CASE N # C
      <4>1. \A i \in 1..k : i \in 1..N /\ q[i] = P[i]
        BY <1>2, <1>5, <3>3, <3>7
      <4>2. q[k] # 0 /\ k \in 1..k
        BY <1>2, <3>3, <3>7
      <4>3. PICK i \in 1..k : d = q[i] /\ q[i] # 0 /\ \A j \in 1..k : j < i => q[j] = 0
        BY <3>5, <4>2 DEF Decides
      <4>4. \A j \in 1..N : j < i => P[j] = 0
        BY <1>2, <4>1, <4>3
      <4> QED
        BY <4>1, <4>3, <4>4 DEF Decides
    <3> QED
      BY <3>6, <3>7
  <2> QED
    BY <2>1, <2>2
<1>7. Decides(P, N, Decision(P))
  <2> HIDE DEF P, N
  <2> QED
    BY <1>2, <1>3, DecisionDecides
<1>8. d = Decision(P)
  <2> HIDE DEF P, N, d
  <2> QED
    BY <1>2, <1>3, <1>6, <1>7, DecidesOnce
<1> QED
  BY <1>8 DEF Decided

\* Local versions are ordered.
LEMMA CompareLocalAgrees ==
  ASSUME NEW s \in Seq(Segments), NEW t \in Seq(Segments), NEW u \in Seq(Segments)
  PROVE  CompareLocal(t, s) = -CompareLocal(s, t) /\ Agree(CompareLocal(s, t), CompareLocal(t, u), CompareLocal(s, u))
<1> DEFINE U == Segments \cup {End}
           turn == [xy \in U \X U |-> SegmentTurn(xy[1], xy[2])]
<1>1. Turns(U, End, turn)
  BY SegmentTurns
<1>2. ASSUME NEW a \in Seq(Segments), NEW b \in Seq(Segments)
      PROVE  a \in Seq(U) /\ CompareLocal(a, b) = Decided(a, b, End, turn)
  <2>1. a \in Seq(U)
    OBVIOUS
  <2> QED
    BY <2>1, CompareLocalDecides, Zenon
<1> HIDE DEF U, turn
<1> QED
  BY <1>1, <1>2, SequencesAgree

\* PEP 440's comparator orders its versions.
LEMMA PepOrders ==
  ASSUME NEW a \in PepVersion, NEW b \in PepVersion, NEW c \in PepVersion
  PROVE  Consistent(PepCompare(a, b), PepCompare(b, a), PepCompare(b, c), PepCompare(a, c))
<1> DEFINE n == 6
           places(x, y) ==
             <<Sign(Saturating(x.epoch) - Saturating(y.epoch)), CompareRelease(Trimmed(x.release), Trimmed(y.release)),
               ComparePre(x, y), Sign(RankOr(x.post, -1) - RankOr(y.post, -1)),
               Sign(RankOr(x.dev, MaxInt) - RankOr(y.dev, MaxInt)), CompareLocal(x.local, y.local)>>
<1>1. \A x \in PepVersion : /\ Saturating(x.epoch) \in Int /\ Trimmed(x.release) \in Seq(Nat) /\ x.local \in Seq(Segments)
                            /\ RankOr(x.post, -1) \in Int /\ RankOr(x.dev, MaxInt) \in Int
  <2> SUFFICES ASSUME NEW x \in PepVersion
               PROVE  /\ Saturating(x.epoch) \in Int /\ Trimmed(x.release) \in Seq(Nat) /\ x.local \in Seq(Segments)
                      /\ RankOr(x.post, -1) \in Int /\ RankOr(x.dev, MaxInt) \in Int
    OBVIOUS
  <2>1. x.epoch \in Nat /\ x.release \in Seq(Nat) /\ x.release # <<>> /\ x.post \in OneOrNone /\ x.dev \in OneOrNone /\ x.local \in Seq(Segments)
    BY DEF PepVersion
  <2>2. \A p \in OneOrNone : p = Absent \/ p[1] \in Nat
    BY DEF OneOrNone, Absent
  <2>3. \A p \in OneOrNone : RankOr(p, -1) \in Int /\ RankOr(p, MaxInt) \in Int
    <3> SUFFICES ASSUME NEW p \in OneOrNone PROVE RankOr(p, -1) \in Int /\ RankOr(p, MaxInt) \in Int
      OBVIOUS
    <3>1. CASE p = Absent
      BY <3>1, MaxIntAssumption DEF RankOr
    <3>2. CASE p # Absent
      <4>1. Saturating(p[1]) \in Nat
        BY <2>2, <3>2, SaturatingIs
      <4> QED
        BY <3>2, <4>1 DEF RankOr
    <3> QED
      BY <3>1, <3>2
  <2>4. Saturating(x.epoch) \in Nat
    BY <2>1, SaturatingIs
  <2>5. Trimmed(x.release) \in Seq(Nat)
    BY <2>1, TrimmedIs
  <2> QED
    BY <2>1, <2>3, <2>4, <2>5
<1>2. ASSUME NEW x \in PepVersion, NEW y \in PepVersion, NEW z \in PepVersion
      PROVE  /\ Sign(Saturating(y.epoch) - Saturating(x.epoch)) = -Sign(Saturating(x.epoch) - Saturating(y.epoch))
             /\ CompareRelease(Trimmed(y.release), Trimmed(x.release)) = -CompareRelease(Trimmed(x.release), Trimmed(y.release))
             /\ ComparePre(y, x) = -ComparePre(x, y)
             /\ Sign(RankOr(y.post, -1) - RankOr(x.post, -1)) = -Sign(RankOr(x.post, -1) - RankOr(y.post, -1))
             /\ Sign(RankOr(y.dev, MaxInt) - RankOr(x.dev, MaxInt)) = -Sign(RankOr(x.dev, MaxInt) - RankOr(y.dev, MaxInt))
             /\ CompareLocal(y.local, x.local) = -CompareLocal(x.local, y.local)
             /\ Agree(Sign(Saturating(x.epoch) - Saturating(y.epoch)), Sign(Saturating(y.epoch) - Saturating(z.epoch)),
                      Sign(Saturating(x.epoch) - Saturating(z.epoch)))
             /\ Agree(CompareRelease(Trimmed(x.release), Trimmed(y.release)), CompareRelease(Trimmed(y.release), Trimmed(z.release)),
                      CompareRelease(Trimmed(x.release), Trimmed(z.release)))
             /\ Agree(ComparePre(x, y), ComparePre(y, z), ComparePre(x, z))
             /\ Agree(Sign(RankOr(x.post, -1) - RankOr(y.post, -1)), Sign(RankOr(y.post, -1) - RankOr(z.post, -1)),
                      Sign(RankOr(x.post, -1) - RankOr(z.post, -1)))
             /\ Agree(Sign(RankOr(x.dev, MaxInt) - RankOr(y.dev, MaxInt)), Sign(RankOr(y.dev, MaxInt) - RankOr(z.dev, MaxInt)),
                      Sign(RankOr(x.dev, MaxInt) - RankOr(z.dev, MaxInt)))
             /\ Agree(CompareLocal(x.local, y.local), CompareLocal(y.local, z.local), CompareLocal(x.local, z.local))
  BY <1>1, DifferencesAgree, CompareReleaseAgrees, ComparePreAgrees, CompareLocalAgrees
<1>3. \A i \in 1..n : i = 1 \/ i = 2 \/ i = 3 \/ i = 4 \/ i = 5 \/ i = 6
  OBVIOUS
<1>4. ASSUME NEW x \in PepVersion, NEW y \in PepVersion, NEW z \in PepVersion
      PROVE  places(x, y) \in [1..n -> Int]
  <2> DEFINE p1 == Sign(Saturating(x.epoch) - Saturating(y.epoch))
             p2 == CompareRelease(Trimmed(x.release), Trimmed(y.release))
             p3 == ComparePre(x, y)
             p4 == Sign(RankOr(x.post, -1) - RankOr(y.post, -1))
             p5 == Sign(RankOr(x.dev, MaxInt) - RankOr(y.dev, MaxInt))
             p6 == CompareLocal(x.local, y.local)
  <2>1. p1 \in Int /\ p2 \in Int /\ p3 \in Int /\ p4 \in Int /\ p5 \in Int /\ p6 \in Int
    BY <1>2 DEF Agree
  <2> HIDE DEF p1, p2, p3, p4, p5, p6
  <2>2. <<p1, p2, p3, p4, p5, p6>> \in [1..n -> Int]
    BY <2>1
  <2> QED
    BY <2>2 DEF p1, p2, p3, p4, p5, p6
<1>5. \A i \in 1..n : places(b, a)[i] = -places(a, b)[i]
  BY <1>2, <1>3
<1>6. \A i \in 1..n : Agree(places(a, b)[i], places(b, c)[i], places(a, c)[i])
  BY <1>2, <1>3
<1>7. /\ PepCompare(a, b) = Decision(places(a, b)) /\ PepCompare(b, a) = Decision(places(b, a))
      /\ PepCompare(b, c) = Decision(places(b, c)) /\ PepCompare(a, c) = Decision(places(a, c))
  BY DEF PepCompare
<1> DEFINE ab == places(a, b)
           ba == places(b, a)
           bc == places(b, c)
           ac == places(a, c)
<1>8. ab \in [1..n -> Int] /\ ba \in [1..n -> Int] /\ bc \in [1..n -> Int] /\ ac \in [1..n -> Int] /\ n \in Nat
  <2> HIDE DEF places
  <2> QED
    BY <1>4
<1> HIDE DEF ab, ba, bc, ac, n
<1>9. Decision(ba) = -Decision(ab)
  BY <1>5, <1>8, DecisionTurned DEF ab, ba
<1>10. Agree(Decision(ab), Decision(bc), Decision(ac))
  BY <1>6, <1>8, DecisionAgrees DEF ab, bc, ac
<1> QED
  BY <1>7, <1>9, <1>10 DEF Consistent, ab, ba, bc, ac
-----------------------------------------------------------------------------
(* VersionOrders: apk                                                      *)

ApkLexemes == [k : {"letter", "dot", "digits", "suffix", "hash", "rev"}, n : Nat, zero : BOOLEAN]
ApkVersion == {s \in Seq(ApkLexemes) : ApkValid(s)}

\* The kind of the n-th lexeme, the one before it being of kind p.
KindNext(s, p, n) == IF n = 1 THEN FirstKind(s) ELSE NextKind(s, p, n)

\* kind gives the kinds of the first i lexemes.
Kinds(s, kind, i) == kind = [n \in 1..i |-> KindNext(s, kind[n - 1], n)]

\* There are kinds of the first lexemes, however many.
LEMMA KindsExist ==
  ASSUME NEW s, NEW N \in Nat
  PROVE  \E kind : Kinds(s, kind, N)
<1> DEFINE G == {k \in Nat : \E g : Kinds(s, g, k)}
<1>1. 0 \in G
  <2>1. Kinds(s, [n \in 1..0 |-> 0], 0)
    BY DEF Kinds
  <2> QED
    BY <2>1
<1>2. ASSUME NEW k \in Nat, k \in G PROVE k + 1 \in G
  <2>1. PICK g : Kinds(s, g, k)
    BY <1>2
  <2> DEFINE prior == [n \in 1..(k + 1) |-> IF n = 1 THEN 0 ELSE g[n - 1]]
             h == [n \in 1..(k + 1) |-> KindNext(s, g[n - 1], n)]
  <2>2. \A n \in 1..k : h[n] = g[n]
    BY <2>1 DEF Kinds
  <2>3. \A p, q : KindNext(s, p, 1) = KindNext(s, q, 1)
    BY DEF KindNext
  <2>4. \A n \in 1..(k + 1) : n = 1 \/ n - 1 \in 1..k
    OBVIOUS
  <2>5. \A n \in 1..(k + 1) : h[n] = KindNext(s, h[n - 1], n)
    BY <2>2, <2>3, <2>4
  <2>6. h = [n \in 1..(k + 1) |-> h[n]]
    OBVIOUS
  <2> HIDE DEF h
  <2>7. Kinds(s, h, k + 1)
    BY <2>5, <2>6 DEF Kinds
  <2> QED
    BY <2>7
<1> HIDE DEF G
<1>3. N \in G
  BY <1>1, <1>2, CountUp
<1> QED
  BY <1>3 DEF G

\* The kinds of the first lexemes are the same, however many are looked at.
LEMMA KindsOnce ==
  ASSUME NEW s, NEW i \in Nat, NEW j \in Nat, NEW g, NEW h, Kinds(s, g, i), Kinds(s, h, j)
  PROVE  \A n \in Nat \ {0} : n <= i /\ n <= j => g[n] = h[n]
<1> DEFINE G == {n \in Nat : n + 1 <= i /\ n + 1 <= j => g[n + 1] = h[n + 1]}
<1>1. \A p, q : KindNext(s, p, 1) = KindNext(s, q, 1)
  BY DEF KindNext
<1>2. /\ \A n \in 1..i : g[n] = KindNext(s, g[n - 1], n)
      /\ \A n \in 1..j : h[n] = KindNext(s, h[n - 1], n)
  BY DEF Kinds
<1>3. 0 \in G
  <2> SUFFICES ASSUME 1 <= i, 1 <= j PROVE g[1] = h[1]
    OBVIOUS
  <2>1. 1 \in 1..i /\ 1 \in 1..j
    OBVIOUS
  <2>2. g[1] = KindNext(s, g[1 - 1], 1) /\ h[1] = KindNext(s, h[1 - 1], 1)
    BY <1>2, <2>1
  <2> QED
    BY <1>1, <2>2
<1>4. ASSUME NEW n \in Nat, n \in G PROVE n + 1 \in G
  <2> SUFFICES ASSUME (n + 1) + 1 <= i, (n + 1) + 1 <= j PROVE g[(n + 1) + 1] = h[(n + 1) + 1]
    OBVIOUS
  <2> DEFINE k == (n + 1) + 1
  <2>1. k \in 1..i /\ k \in 1..j /\ k - 1 = n + 1 /\ g[n + 1] = h[n + 1]
    BY <1>4
  <2> HIDE DEF k
  <2>2. g[k] = KindNext(s, g[k - 1], k) /\ h[k] = KindNext(s, h[k - 1], k)
    BY <1>2, <2>1
  <2>3. g[k - 1] = h[k - 1]
    BY <2>1
  <2>4. g[k] = h[k]
    BY <2>2, <2>3
  <2> QED
    BY <2>4 DEF k
<1> HIDE DEF G
<1>5. \A n \in Nat : n \in G
  BY <1>3, <1>4, CountUp
<1>6. ASSUME NEW n \in Nat \ {0}, n <= i, n <= j PROVE g[n] = h[n]
  <2>1. n - 1 \in Nat /\ (n - 1) + 1 = n
    OBVIOUS
  <2> QED
    BY <1>5, <1>6, <2>1 DEF G
<1> QED
  BY <1>6

\* What KindAt answers of a lexeme follows from what it answers of the one before.
LEMMA KindAtNext ==
  ASSUME NEW s
  PROVE  /\ \E p : KindAt(s, 1) = KindNext(s, p, 1)
         /\ \A n \in Nat \ {0} : KindAt(s, n + 1) = KindNext(s, KindAt(s, n), n + 1)
<1> DEFINE kinds(i) == CHOOSE g : g = [n \in 1..i |-> KindNext(s, g[n - 1], n)]
<1>1. ASSUME NEW i \in Nat PROVE Kinds(s, kinds(i), i) /\ KindAt(s, i) = kinds(i)[i]
  <2>1. Kinds(s, kinds(i), i)
    BY KindsExist, Zenon DEF Kinds
  <2>2. KindAt(s, i) = kinds(i)[i]
    BY DEF KindAt, KindNext
  <2> QED
    BY <2>1, <2>2
<1> HIDE DEF kinds
<1>2. KindAt(s, 1) = KindNext(s, kinds(1)[1 - 1], 1)
  <2> DEFINE i == 1
  <2>1. i \in Nat /\ i \in 1..i
    OBVIOUS
  <2> HIDE DEF i
  <2>2. kinds(i)[i] = KindNext(s, kinds(i)[i - 1], i)
    BY <1>1, <2>1 DEF Kinds
  <2>3. KindAt(s, i) = kinds(i)[i]
    BY <1>1, <2>1
  <2> QED
    BY <2>2, <2>3 DEF i
<1>3. ASSUME NEW n \in Nat \ {0} PROVE KindAt(s, n + 1) = KindNext(s, KindAt(s, n), n + 1)
  <2> DEFINE k == n + 1
  <2>1. k \in Nat /\ n \in Nat /\ k \in 1..k /\ k - 1 = n /\ n <= k /\ n <= n
    OBVIOUS
  <2> HIDE DEF k
  <2>2. kinds(k)[k] = KindNext(s, kinds(k)[k - 1], k)
    BY <1>1, <2>1 DEF Kinds
  <2>3. Kinds(s, kinds(k), k) /\ Kinds(s, kinds(n), n) /\ KindAt(s, k) = kinds(k)[k] /\ KindAt(s, n) = kinds(n)[n]
    BY <1>1, <2>1
  <2>4. kinds(k)[n] = kinds(n)[n]
    BY <2>1, <2>3, KindsOnce
  <2> QED
    BY <2>1, <2>2, <2>3, <2>4 DEF k
<1> QED
  BY <1>2, <1>3

\* Kinds are among those there are, and past the end of a version that parses
\* every place is of the kind of an end.
LEMMA KindsAre ==
  ASSUME NEW s \in ApkVersion
  PROVE  /\ \A i \in Nat \ {0} : KindAt(s, i) \in 0..8
         /\ \A i \in Nat \ {0} : i > Len(s) => KindAt(s, i) = KindEnd
<1> DEFINE G == {n \in Nat : KindAt(s, n + 1) \in 0..8}
           H == {n \in Nat : KindAt(s, (Len(s) + 1) + n) = KindEnd}
<1>0. Len(s) \in Nat
  BY DEF ApkVersion
<1>1. 0 \in G
  <2>1. KindAt(s, 1) \in 0..8
    BY KindAtNext DEF KindNext, FirstKind, KindInitialDigit, KindInvalid
  <2> QED
    BY <2>1
<1>2. ASSUME NEW n \in Nat, n \in G PROVE n + 1 \in G
  <2>1. KindAt(s, (n + 1) + 1) = KindNext(s, KindAt(s, n + 1), (n + 1) + 1)
    BY KindAtNext
  <2>2. KindAt(s, n + 1) \in 0..8
    BY <1>2
  <2>3. \A p \in 0..8 : KindNext(s, p, (n + 1) + 1) \in 0..8
    BY <1>0 DEF KindNext, NextKind, KindAfter, KindInitialDigit, KindDigit, KindLetter, KindSuffix, KindSuffixNo,
                KindCommitHash, KindRevisionNo, KindEnd, KindInvalid
  <2> QED
    BY <2>1, <2>2, <2>3
<1> HIDE DEF G
<1>3. \A n \in Nat : n \in G
  BY <1>1, <1>2, CountUp
<1>4. 0 \in H
  <2>1. KindAt(s, Len(s) + 1) = KindEnd
    BY DEF ApkVersion, ApkValid
  <2> QED
    BY <1>0, <2>1
<1>5. ASSUME NEW n \in Nat, n \in H PROVE n + 1 \in H
  <2> DEFINE k == (Len(s) + 1) + n
  <2>1. k \in Nat \ {0} /\ k + 1 > 1 /\ k + 1 = (Len(s) + 1) + (n + 1) /\ KindAt(s, k) = KindEnd
    BY <1>0, <1>5
  <2> HIDE DEF k
  <2>2. KindAt(s, k + 1) = KindNext(s, KindEnd, k + 1)
    BY <2>1, KindAtNext
  <2>3. KindNext(s, KindEnd, k + 1) = KindEnd
    BY <2>1 DEF KindNext, NextKind, KindEnd
  <2> QED
    BY <2>1, <2>2, <2>3
<1> HIDE DEF H
<1>6. \A n \in Nat : n \in H
  BY <1>4, <1>5, CountUp
<1>7. ASSUME NEW i \in Nat \ {0} PROVE KindAt(s, i) \in 0..8 /\ (i > Len(s) => KindAt(s, i) = KindEnd)
  <2>1. i - 1 \in Nat /\ (i - 1) + 1 = i
    OBVIOUS
  <2>2. i > Len(s) => i - (Len(s) + 1) \in Nat /\ (Len(s) + 1) + (i - (Len(s) + 1)) = i
    BY <1>0
  <2> QED
    BY <1>3, <1>6, <2>1, <2>2 DEF G, H
<1> QED
  BY <1>7

\* A lexeme with its kind, and what stands past the end.
Nothing == Lexeme("end", 0)
Kinded == (0..8) \X (ApkLexemes \cup {Nothing})
PastEnd == <<KindEnd, Nothing>>
KindedTurn(p, q) == IF p[1] = q[1] /\ p[1] < KindEnd THEN ApkTurn(p[1], p[2], q[2]) ELSE ApkParted(p[1], p[2], q[1], q[2])

\* A suffix below the release comes first, then what goes on longest.
LEMMA KindedTurns == Turns(Kinded, PastEnd, [pq \in Kinded \X Kinded |-> KindedTurn(pq[1], pq[2])])
<1> DEFINE turn == [pq \in Kinded \X Kinded |-> KindedTurn(pq[1], pq[2])]
           low(p) == p[1] = KindSuffix /\ p[2].n < SuffixNone
<1>1. \A p \in Kinded : p[1] \in 0..8 /\ p[2].n \in Nat /\ p[2].zero \in BOOLEAN
  <2>1. \A x \in ApkLexemes \cup {Nothing} : x.n \in Nat /\ x.zero \in BOOLEAN
    <3>1. \A x \in ApkLexemes : x.n \in Nat /\ x.zero \in BOOLEAN
      BY DEF ApkLexemes
    <3>2. Nothing.n \in Nat
      BY DEF Nothing, Lexeme
    <3>3. Nothing.zero \in BOOLEAN
      BY Zenon DEF Nothing, Lexeme
    <3> QED
      BY <3>1, <3>2, <3>3
  <2> QED
    BY <2>1 DEF Kinded
<1>2. \A p, q \in Kinded : turn[<<p, q>>] = KindedTurn(p, q)
  OBVIOUS
<1>3. PastEnd \in Kinded
  BY DEF PastEnd, Kinded, KindEnd
<1>4. \A n \in Int : Sign(n) \in {-1, 0, 1} /\ (Sign(n) < 0 <=> n < 0) /\ (Sign(n) = 0 <=> n = 0) /\ (Sign(n) > 0 <=> n > 0)
  BY SignIs
<1>5. ASSUME NEW p \in Kinded, NEW q \in Kinded
      PROVE  KindedTurn(p, q) =
               IF p[1] = q[1]
               THEN IF p[1] >= KindEnd THEN 0
                    ELSE IF p[1] = KindDigit /\ p[2].zero # q[2].zero THEN (IF p[2].zero THEN -1 ELSE 1)
                    ELSE IF p[2].n < q[2].n THEN -1 ELSE IF p[2].n = q[2].n THEN 0 ELSE 1
               ELSE IF low(p) THEN -1 ELSE IF low(q) THEN 1 ELSE IF p[1] > q[1] THEN -1 ELSE 1
  <2>1. p[1] \in 0..8 /\ p[2].n \in Int /\ q[1] \in 0..8 /\ q[2].n \in Int /\ p[2].zero \in BOOLEAN /\ q[2].zero \in BOOLEAN
    BY <1>1
  <2>2. CASE p[1] = q[1] /\ p[1] < KindEnd
    BY <2>1, <2>2 DEF KindedTurn, ApkTurn, Sign, KindEnd
  <2>3. CASE p[1] = q[1] /\ ~(p[1] < KindEnd)
    BY <2>1, <2>3 DEF KindedTurn, ApkParted, KindEnd
  <2>4. CASE p[1] # q[1]
    <3>1. KindedTurn(p, q) = ApkParted(p[1], p[2], q[1], q[2])
      BY <2>4 DEF KindedTurn
    <3> QED
      BY <2>1, <2>4, <3>1 DEF ApkParted, Sign
  <2> QED
    BY <2>2, <2>3, <2>4
<1>6. \A p \in Kinded : low(p) => p[1] = KindSuffix /\ p[2].n < SuffixNone
  OBVIOUS
<1>7. ASSUME NEW p \in Kinded, p[1] = KindSuffix, ~low(p) PROVE p[2].n >= SuffixNone
  <2>1. p[2].n \in Nat /\ ~(p[2].n < SuffixNone)
    BY <1>1, <1>7
  <2> QED
    BY <2>1 DEF SuffixNone
<1> HIDE DEF low
<1>8. ASSUME NEW p \in Kinded, NEW q \in Kinded PROVE KindedTurn(p, q) \in Int /\ KindedTurn(q, p) = -KindedTurn(p, q)
  BY <1>1, <1>5, <1>6, <1>7 DEF KindSuffix, KindEnd, KindDigit
<1>9. ASSUME NEW p \in Kinded, NEW q \in Kinded, NEW r \in Kinded PROVE Agree(KindedTurn(p, q), KindedTurn(q, r), KindedTurn(p, r))
  BY <1>1, <1>5, <1>6, <1>7 DEF Agree, KindSuffix, KindEnd, KindDigit, SuffixNone
<1>10. turn \in [Kinded \X Kinded -> Int]
  BY <1>8
<1>11. turn[<<PastEnd, PastEnd>>] = 0
  <2>1. PastEnd[1] = KindEnd
    BY DEF PastEnd
  <2> QED
    BY <1>2, <1>3, <1>5, <2>1 DEF KindEnd
<1> HIDE DEF turn
<1>12. Turns(Kinded, PastEnd, turn)
  BY <1>2, <1>3, <1>8, <1>9, <1>10, <1>11 DEF Turns
<1> QED
  BY <1>12 DEF turn

\* The lexemes of a version with their kinds, and one past the end.
KindedOf(s) == [i \in 1..(Len(s) + 1) |-> <<KindAt(s, i), IF i <= Len(s) THEN s[i] ELSE Nothing>>]

\* apk's comparator orders the versions that parse.
LEMMA ApkOrders ==
  ASSUME NEW a \in ApkVersion, NEW b \in ApkVersion, NEW c \in ApkVersion
  PROVE  Consistent(ApkCompare(a, b), ApkCompare(b, a), ApkCompare(b, c), ApkCompare(a, c))
<1> DEFINE turn == [pq \in Kinded \X Kinded |-> KindedTurn(pq[1], pq[2])]
<1>1. Turns(Kinded, PastEnd, turn)
  BY KindedTurns
<1>2. ASSUME NEW s \in ApkVersion
      PROVE  /\ KindedOf(s) \in Seq(Kinded) /\ Len(KindedOf(s)) = Len(s) + 1 /\ Len(s) \in Nat
             /\ \A i \in Nat \ {0} : /\ ItemOr(KindedOf(s), i, PastEnd) = <<KindAt(s, i), IF i <= Len(s) THEN s[i] ELSE Nothing>>
                                     /\ ItemOr(KindedOf(s), i, PastEnd) \in Kinded
  <2>1. s \in Seq(ApkLexemes) /\ Len(s) \in Nat /\ \A i \in 1..Len(s) : s[i] \in ApkLexemes
    BY DEF ApkVersion
  <2>2. \A i \in Nat \ {0} : KindAt(s, i) \in 0..8 /\ (i > Len(s) => KindAt(s, i) = KindEnd)
    BY KindsAre
  <2>3. \A i \in Nat \ {0} : <<KindAt(s, i), IF i <= Len(s) THEN s[i] ELSE Nothing>> \in Kinded
    BY <2>1, <2>2 DEF Kinded
  <2>4. KindedOf(s) \in Seq(Kinded) /\ Len(KindedOf(s)) = Len(s) + 1
    BY <2>1, <2>3 DEF KindedOf
  <2>5. ASSUME NEW i \in Nat \ {0}
        PROVE  ItemOr(KindedOf(s), i, PastEnd) = <<KindAt(s, i), IF i <= Len(s) THEN s[i] ELSE Nothing>>
    <3>1. CASE i <= Len(s) + 1
      BY <2>1, <2>4, <3>1 DEF ItemOr, KindedOf
    <3>2. CASE ~(i <= Len(s) + 1)
      BY <2>1, <2>2, <2>4, <3>2 DEF ItemOr, PastEnd
    <3> QED
      BY <3>1, <3>2
  <2> QED
    BY <2>1, <2>3, <2>4, <2>5
<1>3. ASSUME NEW s \in ApkVersion, NEW t \in ApkVersion
      PROVE  ApkCompare(s, t) = Decided(KindedOf(s), KindedOf(t), PastEnd, turn)
  <2> DEFINE n == Longer(s, t) + 1
  <2>1. n = Longer(KindedOf(s), KindedOf(t)) /\ n \in Nat
    BY <1>2 DEF Longer
  <2>2. \A i \in 1..n : turn[<<ItemOr(KindedOf(s), i, PastEnd), ItemOr(KindedOf(t), i, PastEnd)>>] = ApkPlace(s, t, i)
    <3> SUFFICES ASSUME NEW i \in 1..n
                 PROVE  turn[<<ItemOr(KindedOf(s), i, PastEnd), ItemOr(KindedOf(t), i, PastEnd)>>] = ApkPlace(s, t, i)
      OBVIOUS
    <3>1. i \in Nat \ {0}
      BY <2>1
    <3> DEFINE p == <<KindAt(s, i), IF i <= Len(s) THEN s[i] ELSE Nothing>>
               q == <<KindAt(t, i), IF i <= Len(t) THEN t[i] ELSE Nothing>>
    <3>2. /\ ItemOr(KindedOf(s), i, PastEnd) = p /\ ItemOr(KindedOf(t), i, PastEnd) = q
          /\ p \in Kinded /\ q \in Kinded
      BY <1>2, <3>1
    <3>3. ApkPlace(s, t, i) = KindedTurn(p, q)
      BY DEF ApkPlace, KindedTurn, Nothing
    <3> HIDE DEF p, q
    <3> QED
      BY <3>2, <3>3
  <2> HIDE DEF n
  <2>3. Places(KindedOf(s), KindedOf(t), n, PastEnd, turn) = [i \in 1..n |-> ApkPlace(s, t, i)]
    BY <2>2 DEF Places
  <2>4. ApkCompare(s, t) = Decision([i \in 1..n |-> ApkPlace(s, t, i)])
    BY DEF ApkCompare, n
  <2> QED
    BY <2>1, <2>3, <2>4 DEF Decided
<1> HIDE DEF turn
<1>4. KindedOf(a) \in Seq(Kinded) /\ KindedOf(b) \in Seq(Kinded) /\ KindedOf(c) \in Seq(Kinded)
  BY <1>2
<1> QED
  BY <1>1, <1>3, <1>4, SequencesAgree DEF Consistent

-----------------------------------------------------------------------------
(* RangeSweep: one range against one version                               *)

\* r is s with e put in after the first p.
IsPutIn(r, s, e, p, S) ==
  /\ r \in Seq(S) /\ Len(r) = Len(s) + 1
  /\ \A j \in 1..p : r[j] = s[j]
  /\ r[p + 1] = e
  /\ \A j \in (p + 2)..(Len(s) + 1) : r[j] = s[j - 1]

\* InsertAt puts an item in.
LEMMA PutIn ==
  ASSUME NEW S, NEW s \in Seq(S), NEW e \in S, NEW p \in 0..Len(s)
  PROVE  IsPutIn(InsertAt(s, p + 1, e), s, e, p, S)
<1> DEFINE front == SubSeq(s, 1, p)
           back == SubSeq(s, p + 1, Len(s))
           both == front \o <<e>>
<1>1. Len(s) \in Nat /\ p \in Nat /\ p <= Len(s)
  OBVIOUS
<1>2. front \in Seq(S) /\ Len(front) = p /\ \A j \in 1..p : front[j] = s[j]
  BY <1>1
<1>3. back \in Seq(S) /\ Len(back) = Len(s) - p /\ \A j \in 1..(Len(s) - p) : back[j] = s[p + j]
  BY <1>1
<1>4. InsertAt(s, p + 1, e) = both \o back
  <2>1. (p + 1) - 1 = p
    BY <1>1
  <2> QED
    BY <2>1, Zenon DEF InsertAt
<1> HIDE DEF front, back
<1>5. both \in Seq(S) /\ Len(both) = p + 1 /\ (\A j \in 1..p : both[j] = s[j]) /\ both[p + 1] = e
  BY <1>1, <1>2
<1> HIDE DEF both
<1>6. /\ both \o back \in Seq(S) /\ Len(both \o back) = Len(s) + 1
      /\ \A j \in 1..(p + 1) : (both \o back)[j] = both[j]
      /\ \A j \in (p + 2)..(Len(s) + 1) : (both \o back)[j] = back[j - (p + 1)]
  BY <1>1, <1>3, <1>5
<1>7. \A j \in (p + 2)..(Len(s) + 1) : back[j - (p + 1)] = s[j - 1]
  <2> SUFFICES ASSUME NEW j \in (p + 2)..(Len(s) + 1) PROVE back[j - (p + 1)] = s[j - 1]
    OBVIOUS
  <2>1. j - (p + 1) \in 1..(Len(s) - p) /\ p + (j - (p + 1)) = j - 1
    BY <1>1
  <2> QED
    BY <1>3, <2>1
<1>8. \A j \in 1..p : (both \o back)[j] = s[j]
  BY <1>1, <1>5, <1>6
<1>9. (both \o back)[p + 1] = e
  BY <1>1, <1>5, <1>6
<1>10. \A j \in (p + 2)..(Len(s) + 1) : (both \o back)[j] = s[j - 1]
  BY <1>6, <1>7
<1> QED
  BY <1>4, <1>6, <1>8, <1>9, <1>10, Zenon DEF IsPutIn

\* The events of a case, and the boundaries they and its version stand at.
Listed == ToSet(case.listing)

\* The comparator of the case orders what it can read of the listing and the version.
CaseOrdered ==
  LET V == Versions \cap case.readable
  IN \A a, b \in V :
       /\ case.order[a][b] = -case.order[b][a]
       /\ \A c \in V \ {a, b} : case.order[a][b] <= 0 /\ case.order[b][c] <= 0 => case.order[a][c] <= 0

\* What CasesAssumption says of the case at hand.
LEMMA CaseIs ==
  ASSUME case \in Cases
  PROVE  /\ case.listing \in Seq(Listed) /\ Len(case.listing) \in Nat
         /\ \A n \in 1..Len(case.listing) : case.listing[n] \in Listed
         /\ \A e \in Listed : \E n \in 1..Len(case.listing) : e = case.listing[n]
         /\ \A e \in Listed : e.kind \in {Introduced, Fixed, LastAffected}
         /\ Zero \notin case.readable /\ Zero # case.version
         /\ \A a, b \in case.readable : case.order[a][b] \in Int
<1> DEFINE K == [kind : {Introduced, Fixed, LastAffected}, at : {e.at : e \in ToSet(case.listing)}]
<1>1. case.listing \in Seq(K)
  BY CasesAssumption
<1>2. \A e \in K : e.kind \in {Introduced, Fixed, LastAffected}
  OBVIOUS
<1> HIDE DEF K
<1>3. DOMAIN case.listing = 1..Len(case.listing) /\ Len(case.listing) \in Nat
  BY <1>1
<1>4. Listed \subseteq K
  BY <1>1, <1>3 DEF Listed, ToSet
<1>5. case.listing \in Seq(Listed)
  <2>1. \A n \in 1..Len(case.listing) : case.listing[n] \in Listed
    BY <1>3 DEF Listed, ToSet
  <2> QED
    BY <1>1, <1>3, <2>1
<1>6. \A e \in Listed : \E n \in 1..Len(case.listing) : e = case.listing[n]
  BY <1>3 DEF Listed, ToSet
<1> QED
  BY <1>2, <1>3, <1>4, <1>5, <1>6, CasesAssumption DEF Listed, ToSet

\* The boundaries that the comparator is asked about.
Points == {Zero} \cup (Versions \cap case.readable)

\* On the boundaries CompareBoundary answers both ways round alike, and chains.
LEMMA BoundariesOrdered ==
  ASSUME case \in Cases, CaseOrdered
  PROVE  /\ \A a, b \in Points : CompareBoundary(a, b) \in Int /\ CompareBoundary(a, b) = -CompareBoundary(b, a)
         /\ \A a, b, c \in Points : CompareBoundary(a, b) <= 0 /\ CompareBoundary(b, c) <= 0 => CompareBoundary(a, c) <= 0
<1> DEFINE V == Versions \cap case.readable
<1>1. \A a, b \in V : case.order[a][b] \in Int /\ case.order[a][b] = -case.order[b][a]
  BY CaseIs DEF CaseOrdered
<1>2. \A a \in V : case.order[a][a] = 0
  <2> SUFFICES ASSUME NEW a \in V PROVE case.order[a][a] = 0
    OBVIOUS
  <2> DEFINE o == case.order[a][a]
  <2>1. o \in Int /\ o = -o
    BY <1>1
  <2> HIDE DEF o
  <2>2. o = 0
    BY <2>1
  <2> QED
    BY <2>2 DEF o
<1>3. \A a, b, c \in V : case.order[a][b] <= 0 /\ case.order[b][c] <= 0 => case.order[a][c] <= 0
  <2> SUFFICES ASSUME NEW a \in V, NEW b \in V, NEW c \in V, case.order[a][b] <= 0, case.order[b][c] <= 0
               PROVE case.order[a][c] <= 0
    OBVIOUS
  <2>1. CASE c \in {a, b}
    BY <1>2, <2>1
  <2>2. CASE c \notin {a, b}
    BY <2>2 DEF CaseOrdered
  <2> QED
    BY <2>1, <2>2
<1>4. \A a \in Points : a = Zero \/ (a # Zero /\ a \in V)
  BY CaseIs DEF Points
<1>5. V \subseteq Points /\ Zero \notin V
  BY CaseIs DEF Points
<1>6. \A a, b \in Points : CompareBoundary(a, b) =
        IF a = Zero THEN (IF b = Zero THEN 0 ELSE -1) ELSE IF b = Zero THEN 1 ELSE case.order[a][b]
  BY DEF CompareBoundary
<1> HIDE DEF V
<1>7. ASSUME NEW a \in Points, NEW b \in Points
      PROVE  CompareBoundary(a, b) \in Int /\ CompareBoundary(a, b) = -CompareBoundary(b, a)
  BY <1>1, <1>4, <1>6
<1>8. ASSUME NEW a \in Points, NEW b \in Points, NEW c \in Points, CompareBoundary(a, b) <= 0, CompareBoundary(b, c) <= 0
      PROVE  CompareBoundary(a, c) <= 0
  <2>1. CASE a = Zero
    BY <1>6, <2>1
  <2>2. CASE a # Zero
    <3>1. b # Zero
      BY <1>6, <1>8, <2>2
    <3>2. c # Zero
      BY <1>6, <1>8, <3>1
    <3> QED
      BY <1>3, <1>4, <1>6, <1>8, <2>2, <3>1, <3>2
  <2> QED
    BY <2>1, <2>2
<1> QED
  BY <1>7, <1>8

\* The events of an orderable listing stand at such boundaries.
LEMMA EventsAtPoints ==
  ASSUME case \in Cases, Orderable
  PROVE  \A e \in Listed : e.at \in Points
<1> SUFFICES ASSUME NEW e \in Listed, e.at # Zero PROVE e.at \in Points
  BY DEF Points
<1>1. PICK n \in 1..Len(case.listing) : e = case.listing[n]
  BY CaseIs
<1>2. DOMAIN case.listing = 1..Len(case.listing)
  BY CaseIs
<1>3. e.at \in Versions
  BY <1>1, <1>2 DEF Versions
<1> QED
  BY <1>3 DEF Orderable, Points, Listed

\* Before puts the events of an orderable listing in an order: never both ways
\* round, and what is not after one that is not after a third is not after it.
LEMMA BeforeOrders ==
  ASSUME case \in Cases, CaseOrdered, Orderable
  PROVE  /\ \A e, d \in Listed : Before(e, d) => ~Before(d, e)
         /\ \A e, d, f \in Listed : ~Before(d, e) /\ ~Before(f, d) => ~Before(f, e)
<1>1. \A e \in Listed : e.at \in Points /\ e.kind \in Int
  BY CaseIs, EventsAtPoints DEF Introduced, Fixed, LastAffected
<1>2. \A e, d \in Listed : Before(e, d) <=>
        CompareBoundary(e.at, d.at) < 0 \/ (CompareBoundary(e.at, d.at) = 0 /\ e.kind < d.kind)
  BY <1>1, BoundariesOrdered DEF Before
<1>3. \A e, d \in Listed : CompareBoundary(e.at, d.at) \in Int /\ CompareBoundary(e.at, d.at) = -CompareBoundary(d.at, e.at)
  BY <1>1, BoundariesOrdered
<1>4. \A e, d, f \in Listed : CompareBoundary(e.at, d.at) <= 0 /\ CompareBoundary(d.at, f.at) <= 0 => CompareBoundary(e.at, f.at) <= 0
  BY <1>1, BoundariesOrdered
<1>5. ASSUME NEW e \in Listed, NEW d \in Listed, Before(e, d) PROVE ~Before(d, e)
  BY <1>1, <1>2, <1>3, <1>5
<1>6. ASSUME NEW e \in Listed, NEW d \in Listed, NEW f \in Listed, ~Before(d, e), ~Before(f, d)
      PROVE  ~Before(f, e)
  <2> DEFINE ed == CompareBoundary(e.at, d.at)
             df == CompareBoundary(d.at, f.at)
             ef == CompareBoundary(e.at, f.at)
  <2>1. /\ ed \in Int /\ df \in Int /\ ef \in Int
        /\ CompareBoundary(d.at, e.at) = -ed /\ CompareBoundary(f.at, d.at) = -df /\ CompareBoundary(f.at, e.at) = -ef
    BY <1>3
  <2>2. (ed <= 0 /\ df <= 0 => ef <= 0) /\ (-ef <= 0 /\ ed <= 0 => -df <= 0) /\ (df <= 0 /\ -ef <= 0 => -ed <= 0)
    BY <1>4, <2>1
  <2>3. /\ Before(d, e) <=> (-ed < 0 \/ (-ed = 0 /\ d.kind < e.kind))
        /\ Before(f, d) <=> (-df < 0 \/ (-df = 0 /\ f.kind < d.kind))
        /\ Before(f, e) <=> (-ef < 0 \/ (-ef = 0 /\ f.kind < e.kind))
    BY <1>2, <2>1
  <2>4. e.kind \in Int /\ d.kind \in Int /\ f.kind \in Int
    BY <1>1
  <2> HIDE DEF ed, df, ef
  <2> QED
    BY <1>6, <2>1, <2>2, <2>3, <2>4
<1> QED
  BY <1>5, <1>6

\* The events so far, in order: as many as n, all of those and no others.
Arranged(s, n) ==
  /\ s \in Seq(Listed) /\ Len(s) = n
  /\ \A i, j \in 1..n : i < j => ~Before(s[j], s[i])
  /\ \A i \in 1..n : \E k \in 1..n : s[i] = case.listing[k]
  /\ \A k \in 1..n : \E i \in 1..n : s[i] = case.listing[k]

\* Insertion puts the next event of the listing in order.
LEMMA InsertedArranges ==
  ASSUME case \in Cases, CaseOrdered, Orderable,
         NEW n \in Nat, n + 1 <= Len(case.listing), NEW s, Arranged(s, n)
  PROVE  Arranged(Inserted(s, case.listing[n + 1]), n + 1)
<1> DEFINE e == case.listing[n + 1]
           stays == {j \in DOMAIN s : ~Before(e, s[j])}
           after == IF stays = {} THEN 0 ELSE CHOOSE j \in stays : \A k \in stays : k <= j
           r == Inserted(s, e)
<1>1. /\ s \in Seq(Listed) /\ Len(s) = n /\ DOMAIN s = 1..n
      /\ \A i \in 1..n : s[i] \in Listed
  BY DEF Arranged
<1>2. e \in Listed
  BY CaseIs
<1>3. r = InsertAt(s, after + 1, e)
  BY DEF Inserted
<1> HIDE DEF e
<1>4. stays \in SUBSET (1..n) /\ (stays # {} => \E m \in stays : \A k \in stays : k <= m)
  BY <1>1, LargestOne
<1>5. after \in 0..n
  BY <1>4
<1>6. after # 0 => ~Before(e, s[after]) /\ after \in 1..n
  BY <1>1, <1>4
<1>7. \A j \in 1..n : j > after => Before(e, s[j])
  BY <1>1, <1>4
<1> HIDE DEF after, stays, r
<1>8. /\ r \in Seq(Listed) /\ Len(r) = n + 1
      /\ \A j \in 1..after : r[j] = s[j]
      /\ r[after + 1] = e
      /\ \A j \in (after + 2)..(n + 1) : r[j] = s[j - 1]
  <2>1. after \in 0..Len(s)
    BY <1>1, <1>5
  <2>2. s \in Seq(Listed)
    BY <1>1
  <2>3. IsPutIn(r, s, e, after, Listed)
    BY <1>2, <1>3, <2>1, <2>2, PutIn
  <2> QED
    BY <1>1, <2>3 DEF IsPutIn
<1>9. \A i, j \in 1..n : i < j => ~Before(s[j], s[i])
  BY DEF Arranged
<1>10. \A j \in 1..after : ~Before(e, s[j])
  <2> SUFFICES ASSUME NEW j \in 1..after, j # after PROVE ~Before(e, s[j])
    BY <1>5, <1>6
  <2>1. ~Before(s[after], s[j]) /\ ~Before(e, s[after]) /\ j \in 1..n /\ after \in 1..n
    BY <1>5, <1>6, <1>9
  <2> QED
    BY <1>1, <1>2, <2>1, BeforeOrders
<1>11. \A j \in 1..n : j > after => ~Before(s[j], e)
  BY <1>1, <1>2, <1>7, BeforeOrders
<1>12. ASSUME NEW i \in 1..(n + 1), NEW j \in 1..(n + 1), i < j PROVE ~Before(r[j], r[i])
  <2>1. CASE j <= after
    <3>1. i \in 1..after /\ j \in 1..after /\ i \in 1..n /\ j \in 1..n
      BY <1>5, <1>12, <2>1
    <3> QED
      BY <1>8, <1>9, <1>12, <3>1
  <2>2. CASE j = after + 1
    <3>1. i \in 1..after
      BY <1>5, <1>12, <2>2
    <3> QED
      BY <1>8, <1>10, <2>2, <3>1
  <2>3. CASE j > after + 1
    <3>1. j \in (after + 2)..(n + 1) /\ j - 1 \in 1..n /\ j - 1 > after
      BY <1>5, <2>3
    <3>2. r[j] = s[j - 1]
      BY <1>8, <3>1
    <3>3. CASE i <= after
      <4>1. i \in 1..after /\ i \in 1..n /\ i < j - 1
        BY <1>5, <2>3, <3>3
      <4> QED
        BY <1>8, <1>9, <3>1, <3>2, <4>1
    <3>4. CASE i = after + 1
      BY <1>8, <1>11, <3>1, <3>2, <3>4
    <3>5. CASE i > after + 1
      <4>1. i \in (after + 2)..(n + 1) /\ i - 1 \in 1..n /\ i - 1 < j - 1
        BY <1>5, <1>12, <3>5
      <4> QED
        BY <1>8, <1>9, <3>1, <3>2, <4>1
    <3> QED
      BY <1>5, <3>3, <3>4, <3>5
  <2> QED
    BY <1>5, <2>1, <2>2, <2>3
<1>13. ASSUME NEW i \in 1..(n + 1) PROVE \E k \in 1..(n + 1) : r[i] = case.listing[k]
  <2>1. \A j \in 1..n : \E k \in 1..(n + 1) : s[j] = case.listing[k]
    <3>1. \A j \in 1..n : \E k \in 1..n : s[j] = case.listing[k]
      BY DEF Arranged
    <3>2. 1..n \subseteq 1..(n + 1)
      OBVIOUS
    <3> QED
      BY <3>1, <3>2
  <2>2. CASE i = after + 1
    BY <1>8, <2>2 DEF e
  <2>3. CASE i # after + 1
    <3>1. \E j \in 1..n : r[i] = s[j]
      BY <1>5, <1>8, <2>3
    <3> QED
      BY <2>1, <3>1
  <2> QED
    BY <2>2, <2>3
<1>14. ASSUME NEW k \in 1..(n + 1) PROVE \E i \in 1..(n + 1) : r[i] = case.listing[k]
  <2>1. CASE k = n + 1
    BY <1>5, <1>8, <2>1 DEF e
  <2>2. CASE k # n + 1
    <3>0. k \in 1..n
      BY <2>2
    <3>1. PICK j \in 1..n : s[j] = case.listing[k]
      BY <3>0 DEF Arranged
    <3>2. CASE j <= after
      BY <1>5, <1>8, <3>1, <3>2
    <3>3. CASE j > after
      <4>1. j + 1 \in (after + 2)..(n + 1) /\ (j + 1) - 1 = j /\ j + 1 \in 1..(n + 1)
        BY <1>5, <3>3
      <4> QED
        BY <1>8, <3>1, <4>1
    <3> QED
      BY <1>5, <3>2, <3>3
  <2> QED
    BY <2>1, <2>2
<1> QED
  BY <1>8, <1>12, <1>13, <1>14 DEF Arranged, r, e

\* sortEvents leaves the events of the listing in order, the same ones.
LEMMA SortArranges ==
  ASSUME case \in Cases, CaseOrdered, Orderable
  PROVE  Arranged(SortedListing, Len(case.listing))
<1> DEFINE N == Len(case.listing)
           body(g) == [n \in 0..N |-> IF n = 0 THEN <<>> ELSE Inserted(g[n - 1], case.listing[n])]
           Solves(g, k) == g = [n \in 0..k |-> IF n = 0 THEN <<>> ELSE Inserted(g[n - 1], case.listing[n])]
           sorted == CHOOSE g : g = body(g)
<1>1. N \in Nat
  BY CaseIs
<1>2. \E g : g = body(g)
  <2> DEFINE G == {k \in Nat : \E g : Solves(g, k)}
  <2>1. 0 \in G
    <3>1. Solves([n \in 0..0 |-> <<>>], 0)
      OBVIOUS
    <3> QED
      BY <3>1
  <2>2. ASSUME NEW k \in Nat, k \in G PROVE k + 1 \in G
    <3>1. PICK g : Solves(g, k)
      BY <2>2
    <3> DEFINE h == [n \in 0..(k + 1) |-> IF n = 0 THEN <<>> ELSE Inserted(g[n - 1], case.listing[n])]
    <3>2. \A n \in 0..k : h[n] = g[n]
      BY <3>1
    <3>3. \A n \in 0..(k + 1) : n # 0 => n - 1 \in 0..k
      OBVIOUS
    <3>4. \A n \in 0..(k + 1) : h[n] = IF n = 0 THEN <<>> ELSE Inserted(h[n - 1], case.listing[n])
      BY <3>2, <3>3
    <3>5. h = [n \in 0..(k + 1) |-> h[n]]
      OBVIOUS
    <3> HIDE DEF h
    <3>6. Solves(h, k + 1)
      BY <3>4, <3>5
    <3> QED
      BY <3>6
  <2> HIDE DEF G
  <2>3. N \in G
    BY <1>1, <2>1, <2>2, CountUp
  <2> QED
    BY <2>3 DEF G
<1>3. sorted = body(sorted)
  <2> HIDE DEF body
  <2> QED
    BY <1>2
<1>4. SortedListing = sorted[N]
  BY DEF SortedListing
<1> HIDE DEF sorted
<1>5. /\ sorted[0] = <<>>
      /\ \A n \in Nat : n + 1 <= N => sorted[n + 1] = Inserted(sorted[n], case.listing[n + 1])
  <2>1. sorted[0] = <<>>
    BY <1>1, <1>3
  <2>2. ASSUME NEW n \in Nat, n + 1 <= N PROVE sorted[n + 1] = Inserted(sorted[n], case.listing[n + 1])
    <3> DEFINE k == n + 1
    <3>1. k \in 0..N /\ k # 0 /\ k - 1 = n
      BY <2>2
    <3> HIDE DEF k
    <3>2. sorted[k] = Inserted(sorted[k - 1], case.listing[k])
      BY <1>3, <3>1
    <3>3. sorted[k] = Inserted(sorted[n], case.listing[k])
      BY <3>1, <3>2
    <3> QED
      BY <3>3 DEF k
  <2> QED
    BY <2>1, <2>2
<1> HIDE DEF N
<1> DEFINE G == {n \in Nat : n <= N => Arranged(sorted[n], n)}
<1>6. 0 \in G
  <2>1. Arranged(<<>>, 0)
    BY DEF Arranged
  <2> QED
    BY <1>5, <2>1
<1>7. ASSUME NEW n \in Nat, n \in G PROVE n + 1 \in G
  <2> SUFFICES ASSUME n + 1 <= N PROVE Arranged(sorted[n + 1], n + 1)
    OBVIOUS
  <2>1. Arranged(sorted[n], n) /\ n + 1 <= Len(case.listing)
    BY <1>1, <1>7 DEF N
  <2>2. Arranged(Inserted(sorted[n], case.listing[n + 1]), n + 1)
    BY <2>1, InsertedArranges
  <2> QED
    BY <1>5, <2>2
<1> HIDE DEF G
<1>8. N \in G
  BY <1>1, <1>6, <1>7, CountUp
<1>9. Arranged(sorted[N], N)
  BY <1>1, <1>8 DEF G
<1> QED
  BY <1>4, <1>9 DEF N

\* The last boundary among the first n that the version passed is an introduced
\* one, if it passed any.
InsideAfter(n) ==
  \E i \in 1..n : /\ events[i].kind = Introduced /\ Passed(events[i])
                  /\ \A j \in 1..n : i < j /\ events[j].kind # Introduced => ~Passed(events[j])

\* The sweep: the comparator orders what it is asked about; while the events are
\* gone through they are those of the listing, in order, and hit says what the
\* last one passed says; a version that cannot be compared was asked about
\* nothing but the open bottom.
SweepIInv ==
  /\ case \in Cases /\ CaseOrdered
  /\ phase \in {"listed", "sorted", "done"} /\ hit \in BOOLEAN
  /\ phase = "listed" => next = 1 /\ ~hit
  /\ phase = "sorted" =>
       /\ Orderable /\ Arranged(events, Len(case.listing))
       /\ next \in 1..(Len(case.listing) + 1)
       /\ hit <=> InsideAfter(next - 1)
       /\ case.version \notin case.readable => \A i \in 1..(next - 1) : events[i].at = Zero
  /\ MatchesSchema

\* Before the sweep, with a comparator that orders what it can read.
LEMMA InitSweepIInv == SweepInit /\ VersionsAreOrdered => SweepIInv
BY DEF SweepInit, VersionsAreOrdered, SweepIInv, CaseOrdered, MatchesSchema

\* What the case and its versions are does not change.
LEMMA CaseKept ==
  ASSUME case' = case
  PROVE  /\ (CaseOrdered' <=> CaseOrdered) /\ (Orderable' <=> Orderable) /\ Listed' = Listed
         /\ \A e, d : CompareBoundary(e, d)' = CompareBoundary(e, d)
BY DEF CaseOrdered, Versions, Orderable, Listed, CompareBoundary

\* A range with a boundary that cannot be ordered is a match.
LEMMA UnorderedKeepsSweep ==
  ASSUME SweepIInv, Unordered
  PROVE  SweepIInv'
<1>1. case' = case /\ ~Orderable /\ hit' = TRUE /\ phase' = "done"
  BY DEF Unordered
<1>2. CaseOrdered' /\ ~Orderable'
  BY <1>1, CaseKept DEF SweepIInv
<1>3. MatchesSchema'
  BY <1>1, <1>2 DEF MatchesSchema
<1> QED
  BY <1>1, <1>2, <1>3 DEF SweepIInv

\* Sorting leaves the events in order with none gone through.
LEMMA SortKeepsSweep ==
  ASSUME SweepIInv, Sort
  PROVE  SweepIInv'
<1>1. /\ case' = case /\ Orderable /\ events' = SortedListing /\ phase = "listed" /\ phase' = "sorted"
      /\ next' = 1 /\ hit' = hit /\ ~hit
  BY DEF Sort, SweepIInv
<1>2. CaseOrdered' /\ Orderable'
  BY <1>1, CaseKept DEF SweepIInv
<1>3. Arranged(events, Len(case.listing))'
  <2>1. Arranged(events', Len(case.listing))
    BY <1>1, SortArranges DEF SweepIInv
  <2> QED
    BY <1>1, <2>1 DEF Arranged, Listed, Before, CompareBoundary
<1>4. Len(case.listing) \in Nat
  BY CaseIs DEF SweepIInv
<1>5. ~InsideAfter(next - 1)'
  BY <1>1 DEF InsideAfter
<1>6. MatchesSchema'
  BY <1>1 DEF MatchesSchema
<1> QED
  BY <1>1, <1>2, <1>3, <1>4, <1>5, <1>6 DEF SweepIInv

\* A boundary the version passes decides, one it has not passed leaves the answer.
LEMMA BoundaryKeepsSweep ==
  ASSUME SweepIInv, Boundary
  PROVE  SweepIInv'
<1> DEFINE N == Len(case.listing)
<1>1. /\ case' = case /\ events' = events /\ phase = "sorted" /\ phase' = "sorted" /\ next' = next + 1
      /\ hit' = (IF Passed(events[next]) THEN events[next].kind = Introduced ELSE hit)
      /\ next <= Len(events) /\ Comparable(events[next])
  BY DEF Boundary
<1>2. CaseOrdered' /\ Orderable'
  BY <1>1, CaseKept DEF SweepIInv
<1>3. N \in Nat /\ Len(events) = N /\ next \in 1..N
  BY <1>1, CaseIs DEF SweepIInv, Arranged
<1>4. Arranged(events, N)'
  BY <1>1 DEF SweepIInv, Arranged, Listed, Before, CompareBoundary
<1>5. hit' <=> InsideAfter(next - 1)'
  <2>1. InsideAfter(next - 1)' <=>
          \E i \in 1..next : /\ events[i].kind = Introduced /\ Passed(events[i])
                             /\ \A j \in 1..next : i < j /\ events[j].kind # Introduced => ~Passed(events[j])
    <3>1. (next - 1)' = next
      BY <1>1, <1>3
    <3> QED
      BY <1>1, <3>1 DEF InsideAfter, Passed, CompareBoundary
  <2>2. hit <=> InsideAfter(next - 1)
    BY <1>1 DEF SweepIInv
  <2>3. 1..next = 1..(next - 1) \cup {next} /\ \A i \in 1..(next - 1) : i < next /\ ~(next < i)
    BY <1>3
  <2>4. next \in Int /\ ~(next < next)
    BY <1>3
  <2>5. CASE Passed(events[next]) /\ events[next].kind = Introduced
    <3>1. \A j \in 1..next : ~(next < j)
      BY <1>3
    <3>2. next \in 1..next
      BY <1>3
    <3> QED
      BY <1>1, <2>1, <2>5, <3>1, <3>2
  <2>6. CASE Passed(events[next]) /\ events[next].kind # Introduced
    BY <1>1, <2>1, <2>3, <2>6
  <2>7. CASE ~Passed(events[next])
    BY <1>1, <2>1, <2>2, <2>3, <2>7 DEF InsideAfter
  <2> QED
    BY <2>5, <2>6, <2>7
<1>6. case.version \notin case.readable => \A i \in 1..next : events[i].at = Zero
  BY <1>1, <1>3 DEF SweepIInv, Comparable
<1>7. hit' \in BOOLEAN
  BY <1>1 DEF SweepIInv
<1>8. MatchesSchema'
  BY <1>1 DEF MatchesSchema
<1>9. (next - 1)' = next /\ next' \in 1..(N + 1)
  BY <1>1, <1>3
<1> QED
  BY <1>1, <1>2, <1>4, <1>5, <1>6, <1>7, <1>8, <1>9 DEF SweepIInv

\* A version that cannot be compared with a boundary is a match.
LEMMA IncomparableKeepsSweep ==
  ASSUME SweepIInv, Incomparable
  PROVE  SweepIInv'
<1>1. /\ case' = case /\ hit' = TRUE /\ phase = "sorted" /\ phase' = "done"
      /\ ~Comparable(events[next])
  BY DEF Incomparable
<1>2. CaseOrdered'
  BY <1>1, CaseKept DEF SweepIInv
<1>3. case.version \notin case.readable
  BY <1>1 DEF Comparable
<1>4. MatchesSchema'
  BY <1>1, <1>3 DEF MatchesSchema
<1> QED
  BY <1>1, <1>2, <1>4 DEF SweepIInv

\* The answer once every event is gone through is the schema's.
LEMMA SweptKeepsSweep ==
  ASSUME SweepIInv, Swept
  PROVE  SweepIInv'
<1> DEFINE N == Len(case.listing)
           inside == \E b \in Listed : /\ b.kind = Introduced /\ Passed(b)
                                       /\ \A c \in Listed : c.kind # Introduced /\ CompareBoundary(c.at, b.at) >= 0 => ~Passed(c)
<1>1. /\ case' = case /\ events' = events /\ hit' = hit /\ phase = "sorted" /\ phase' = "done"
      /\ next > Len(events)
  BY DEF Swept
<1>2. CaseOrdered' /\ Orderable'
  BY <1>1, CaseKept DEF SweepIInv
<1>3. /\ N \in Nat /\ next - 1 = N /\ case \in Cases /\ CaseOrdered /\ Orderable /\ Arranged(events, N)
      /\ hit <=> InsideAfter(N)
      /\ case.version \notin case.readable => \A i \in 1..N : events[i].at = Zero
  <2>1. case \in Cases /\ CaseOrdered /\ Orderable /\ Arranged(events, N) /\ next \in 1..(N + 1)
    BY <1>1 DEF SweepIInv
  <2>2. N \in Nat
    BY <2>1, CaseIs
  <2>3. next - 1 = N
    BY <1>1, <2>1, <2>2 DEF Arranged
  <2>4. hit <=> InsideAfter(next - 1)
    BY <1>1 DEF SweepIInv
  <2>5. case.version \notin case.readable => \A i \in 1..(next - 1) : events[i].at = Zero
    BY <1>1 DEF SweepIInv
  <2> HIDE DEF N
  <2> QED
    BY <2>1, <2>2, <2>3, <2>4, <2>5
<1>4. \A i \in 1..N : events[i] \in Listed
  BY <1>3 DEF Arranged
<1>5. \A e \in Listed : \E i \in 1..N : events[i] = e
  <2> SUFFICES ASSUME NEW e \in Listed PROVE \E i \in 1..N : events[i] = e
    OBVIOUS
  <2>1. PICK k \in 1..N : e = case.listing[k]
    BY <1>3, CaseIs
  <2> QED
    BY <1>3, <2>1 DEF Arranged
<1>6. \A i, j \in 1..N : i < j => ~Before(events[j], events[i])
  BY <1>3 DEF Arranged
<1>7. \A e, d \in Listed : /\ CompareBoundary(e.at, d.at) \in Int
                           /\ CompareBoundary(e.at, d.at) = -CompareBoundary(d.at, e.at)
  BY <1>3, EventsAtPoints, BoundariesOrdered
<1>8. \A e \in Listed : e.kind \in Int /\ e.kind >= Introduced /\ Introduced \in Int
  <2>1. \A e \in Listed : e.kind \in {Introduced, Fixed, LastAffected}
    BY <1>3, CaseIs
  <2> QED
    BY <2>1 DEF Introduced, Fixed, LastAffected
<1>9. ASSUME hit PROVE inside
  <2>1. PICK i \in 1..N : /\ events[i].kind = Introduced /\ Passed(events[i])
                          /\ \A j \in 1..N : i < j /\ events[j].kind # Introduced => ~Passed(events[j])
    BY <1>3, <1>9 DEF InsideAfter
  <2> DEFINE b == events[i]
  <2>2. ASSUME NEW c \in Listed, c.kind # Introduced, CompareBoundary(c.at, b.at) >= 0 PROVE ~Passed(c)
    <3>1. PICK k \in 1..N : events[k] = c
      BY <1>5
    <3>2. CASE i < k
      BY <2>1, <2>2, <3>1, <3>2
    <3>3. CASE k < i
      <4>1. ~Before(b, c)
        BY <1>6, <3>1, <3>3
      <4>2. /\ CompareBoundary(b.at, c.at) \in Int /\ CompareBoundary(c.at, b.at) = -CompareBoundary(b.at, c.at)
            /\ CompareBoundary(c.at, b.at) \in Int
        BY <1>4, <1>7
      <4>3. b.kind < c.kind
        BY <1>8, <2>1, <2>2
      <4> QED
        BY <2>2, <4>1, <4>2, <4>3 DEF Before
    <3>4. i # k
      BY <2>1, <2>2, <3>1
    <3> QED
      BY <1>3, <3>2, <3>3, <3>4
  <2>3. b \in Listed /\ b.kind = Introduced /\ Passed(b)
    BY <1>4, <2>1
  <2> HIDE DEF b
  <2> QED
    BY <2>2, <2>3
<1>10. ASSUME inside PROVE hit
  <2>1. PICK b \in Listed : /\ b.kind = Introduced /\ Passed(b)
                            /\ \A c \in Listed : c.kind # Introduced /\ CompareBoundary(c.at, b.at) >= 0 => ~Passed(c)
    BY <1>10
  <2>2. PICK i \in 1..N : events[i] = b
    BY <1>5
  <2>3. ASSUME NEW j \in 1..N, i < j, events[j].kind # Introduced PROVE ~Passed(events[j])
    <3> DEFINE c == events[j]
    <3>1. c \in Listed /\ ~Before(c, b)
      BY <1>4, <1>6, <2>2, <2>3
    <3>2. CompareBoundary(c.at, b.at) \in Int
      BY <1>7, <3>1
    <3>3. CompareBoundary(c.at, b.at) >= 0
      BY <3>1, <3>2 DEF Before
    <3> QED
      BY <2>1, <2>3, <3>1, <3>3
  <2> QED
    BY <1>3, <2>1, <2>2, <2>3 DEF InsideAfter
<1>11. MatchesSchema'
  <2>1. inside' <=> inside
    BY <1>1 DEF Listed, Passed, CompareBoundary
  <2>2. hit \in BOOLEAN
    BY DEF SweepIInv
  <2>3. hit = inside
    BY <1>9, <1>10, <2>2
  <2>4. case.version \notin case.readable => \A e \in Listed : e.at = Zero
    BY <1>3, <1>5
  <2>5. MatchesSchema' <=> (phase' = "done" => IF Orderable' /\ case'.version \in case'.readable THEN hit' = inside'
                                               ELSE (\E e \in Listed' : e.at # Zero) => hit')
    BY DEF MatchesSchema, Listed
  <2>6. Listed' = Listed
    BY <1>1, CaseKept
  <2> HIDE DEF inside
  <2> QED
    BY <1>1, <1>2, <2>1, <2>3, <2>4, <2>5, <2>6
<1> QED
  BY <1>1, <1>2, <1>11 DEF SweepIInv

\* No step of the match of one range breaks the invariant.
LEMMA StepKeepsSweep == SweepIInv /\ [SweepNext]_sweepVars => SweepIInv'
<1> SUFFICES ASSUME SweepIInv, [SweepNext]_sweepVars PROVE SweepIInv'
  OBVIOUS
<1>1. CASE SweepNext
  BY <1>1, UnorderedKeepsSweep, SortKeepsSweep, BoundaryKeepsSweep, IncomparableKeepsSweep, SweptKeepsSweep DEF SweepNext
<1>2. CASE UNCHANGED sweepVars
  <2>1. case' = case /\ events' = events /\ next' = next /\ hit' = hit /\ phase' = phase
    BY <1>2 DEF sweepVars
  <2>2. (CaseOrdered' <=> CaseOrdered) /\ (Orderable' <=> Orderable)
    BY <2>1, CaseKept
  <2>3. Arranged(events, Len(case.listing))' <=> Arranged(events, Len(case.listing))
    BY <2>1 DEF Arranged, Listed, Before, CompareBoundary
  <2>4. InsideAfter(next - 1)' <=> InsideAfter(next - 1)
    BY <2>1 DEF InsideAfter, Passed, CompareBoundary
  <2>5. MatchesSchema' <=> MatchesSchema
    <3>1. \A b : Passed(b)' <=> Passed(b)
      BY <2>1 DEF Passed, CompareBoundary
    <3>2. \A b, c : CompareBoundary(c.at, b.at)' = CompareBoundary(c.at, b.at)
      BY <2>1 DEF CompareBoundary
    <3> QED
      BY <2>1, <2>2, <3>1, <3>2 DEF MatchesSchema
  <2> QED
    BY <2>1, <2>2, <2>3, <2>4, <2>5 DEF SweepIInv
<1> QED
  BY <1>1, <1>2

\* With a comparator that orders what it can read, the sweep answers what the
\* schema says of the listing, whatever order the record has it in.
THEOREM SweepMatchesSchema == SweepSpec /\ []VersionsAreOrdered => []MatchesSchema
<1>1. SweepIInv => MatchesSchema
  BY DEF SweepIInv
<1> QED
  BY <1>1, InitSweepIInv, StepKeepsSweep, PTL DEF SweepSpec
-----------------------------------------------------------------------------
(* RangeSweep with the comparators of VersionOrders                        *)

\* The versions a comparator is proved to order: of rpm those that state the same
\* parts, of apk those that parse.
VersionsOf(eco) ==
  CASE eco = "Debian" -> DebVersion
    [] eco = "Red Hat" -> RpmVersion
    [] eco = "PyPI" -> PepVersion
    [] eco = "Alpine" -> ApkVersion

\* A case reads the versions of one of these ecosystems, and orders them with its
\* comparator.
OfComparator(c) ==
  \E eco \in {"Debian", "Red Hat", "PyPI", "Alpine"} :
    /\ c.readable \subseteq VersionsOf(eco)
    /\ eco = "Red Hat" => \A a, b \in c.readable : StateTheSame(a, b)
    /\ \A a, b \in c.readable : c.order[a][b] = Compare(eco, a, b)

\* Any three of the versions of an ecosystem are ordered by its comparator.
LEMMA CompareOrders ==
  ASSUME NEW eco \in {"Debian", "Red Hat", "PyPI", "Alpine"},
         NEW a \in VersionsOf(eco), NEW b \in VersionsOf(eco), NEW c \in VersionsOf(eco),
         eco = "Red Hat" => StateTheSame(a, b) /\ StateTheSame(b, c)
  PROVE  Consistent(Compare(eco, a, b), Compare(eco, b, a), Compare(eco, b, c), Compare(eco, a, c))
<1>1. CASE eco = "Debian"
  <2>1. a \in DebVersion /\ b \in DebVersion /\ c \in DebVersion
    BY <1>1 DEF VersionsOf
  <2> QED
    BY <1>1, <2>1, DebOrders DEF Compare
<1>2. CASE eco = "Red Hat"
  <2>1. a \in RpmVersion /\ b \in RpmVersion /\ c \in RpmVersion
    BY <1>2 DEF VersionsOf
  <2> QED
    BY <1>2, <2>1, RpmOrders DEF Compare
<1>3. CASE eco = "PyPI"
  <2>1. a \in PepVersion /\ b \in PepVersion /\ c \in PepVersion
    BY <1>3 DEF VersionsOf
  <2> QED
    BY <1>3, <2>1, PepOrders DEF Compare
<1>4. CASE eco = "Alpine"
  <2>1. a \in ApkVersion /\ b \in ApkVersion /\ c \in ApkVersion
    BY <1>4 DEF VersionsOf
  <2> QED
    BY <1>4, <2>1, ApkOrders DEF Compare
<1> QED
  BY <1>1, <1>2, <1>3, <1>4

\* What a comparator says both ways round, and of three versions, is an order.
LEMMA ComparatorOrdersCase ==
  ASSUME case \in Cases, OfComparator(case)
  PROVE  CaseOrdered
<1>1. PICK eco \in {"Debian", "Red Hat", "PyPI", "Alpine"} :
        /\ case.readable \subseteq VersionsOf(eco)
        /\ eco = "Red Hat" => \A a, b \in case.readable : StateTheSame(a, b)
        /\ \A a, b \in case.readable : case.order[a][b] = Compare(eco, a, b)
  BY DEF OfComparator
<1>2. ASSUME NEW a \in case.readable, NEW b \in case.readable, NEW c \in case.readable
      PROVE  Consistent(case.order[a][b], case.order[b][a], case.order[b][c], case.order[a][c])
  <2>1. Consistent(Compare(eco, a, b), Compare(eco, b, a), Compare(eco, b, c), Compare(eco, a, c))
    <3>1. a \in VersionsOf(eco) /\ b \in VersionsOf(eco) /\ c \in VersionsOf(eco)
      BY <1>1
    <3>2. eco = "Red Hat" => StateTheSame(a, b) /\ StateTheSame(b, c)
      BY <1>1
    <3> QED
      BY <3>1, <3>2, CompareOrders
  <2> QED
    BY <1>1, <2>1
<1>3. ASSUME NEW a \in case.readable, NEW b \in case.readable PROVE case.order[a][b] = -case.order[b][a]
  <2>1. Consistent(case.order[b][a], case.order[a][b], case.order[a][b], case.order[b][b])
    BY <1>2
  <2> QED
    BY <2>1 DEF Consistent
<1>4. ASSUME NEW a \in case.readable, NEW b \in case.readable, NEW c \in case.readable,
             case.order[a][b] <= 0, case.order[b][c] <= 0
      PROVE  case.order[a][c] <= 0
  <2> DEFINE ab == case.order[a][b]
             bc == case.order[b][c]
             ac == case.order[a][c]
  <2>1. Agree(ab, bc, ac) /\ ab <= 0 /\ bc <= 0
    BY <1>2, <1>4 DEF Consistent
  <2> HIDE DEF ab, bc, ac
  <2>2. ac <= 0
    BY <2>1, AgreeChains
  <2> QED
    BY <2>2 DEF ac
<1> QED
  BY <1>3, <1>4 DEF CaseOrdered

\* The comparators of Debian, rpm, PyPI and apk order all their versions: none is
\* above itself the other way round, and no three go in a circle.
THEOREM ComparatorsOrder ==
  ASSUME \A c \in Cases : OfComparator(c)
  PROVE  SweepSpec => []VersionsAreOrdered
<1> DEFINE Known == case \in Cases
<1>1. SweepInit => Known
  BY DEF SweepInit
<1>2. Known /\ [SweepNext]_sweepVars => Known'
  BY DEF SweepNext, Unordered, Sort, Boundary, Incomparable, Swept, sweepVars
<1>3. Known => VersionsAreOrdered
  BY ComparatorOrdersCase DEF VersionsAreOrdered, CaseOrdered
<1> QED
  BY <1>1, <1>2, <1>3, PTL DEF SweepSpec

\* So with them an offline match answers what the schema says of a range.
THEOREM OfflineMatchIsTheSchemas ==
  ASSUME \A c \in Cases : OfComparator(c)
  PROVE  SweepSpec => []MatchesSchema
BY ComparatorsOrder, SweepMatchesSchema, PTL
=============================================================================
