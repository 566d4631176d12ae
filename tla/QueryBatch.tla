----------------------------- MODULE QueryBatch -----------------------------
(***************************************************************************)
(* One call of osv.Client.QueryBatch.  The refs are posted in chunks of    *)
(* BatchLimit, each answered with advisory ids only; then one goroutine    *)
(* per distinct id fetches its record, at most Concurrency of them at a    *)
(* time, and the first failure cancels the others.  Every request goes     *)
(* through Client.retry.                                                   *)
(*                                                                         *)
(* A record is its id here: what buildMap reads out of it is module        *)
(* AdvisoryLookup's business.  The advisory service answers any request    *)
(* with success, a retryable failure or a refusal, at any moment.          *)
(***************************************************************************)
EXTENDS Integers, FiniteSets

CONSTANTS
  NRefs,        \* len(refs)
  BatchLimit,   \* batchLimit
  Concurrency,  \* Client.Concurrency
  Ids,          \* advisory ids the service may list
  Matches,      \* Matches[r]: ids the service lists for refs[r]
  Poster,       \* the goroutine of the caller, which posts the chunks
  None          \* firstErr == nil

Refs == 1 .. NRefs
Callers == Ids \cup {Poster}

ASSUME SizesAssumption ==
  /\ NRefs \in Nat
  /\ BatchLimit \in Nat \ {0}
  /\ Concurrency \in Nat \ {0}
ASSUME IdsAssumption ==
  /\ IsFiniteSet(Ids)
  /\ Matches \in [Refs -> SUBSET Ids]
  /\ Poster \notin Ids
  /\ None \notin Ids

VARIABLES
  start,        \* first ref not posted yet, less one
  perRef,       \* perRef[r]: the ids listed for refs[r] so far
  at,           \* where each caller is in its request
  tries,        \* attempts a caller has made of its current request
  cause,        \* why a caller's request failed
  sem,          \* tokens in the semaphore channel
  out,          \* ids whose record has been fetched
  firstEr,      \* the id whose failure is reported
  cancelled,    \* hydrate's own context has been cancelled
  interrupted,  \* the caller's context has been cancelled
  result        \* what QueryBatch returned

vars == <<start, perRef, at, tries, cause, sem, out, firstEr, cancelled,
          interrupted, result>>

MaxAttempts == 3

Pending == [tag |-> "pending"]
Failed  == [tag |-> "error"]

\* The callers that hold a token of the semaphore: acquired and not released.
HoldingStates == {"ready", "inflight", "backoff", "ok", "failed", "recorded"}
Holders == {i \in Ids : at[i] \in HoldingStates}

Unique == UNION {perRef[r] : r \in Refs}

\* Mutant: the goroutines are handed the outer context, not the cancelled one.
OuterCtxDone(c) == interrupted

\* A goroutine of hydrate sees either context's end; the poster only the outer.
CtxDone(c) == interrupted \/ (c \in Ids /\ cancelled)

Init ==
  /\ start = 0
  /\ perRef = [r \in Refs |-> {}]
  /\ at = [c \in Callers |-> IF c = Poster THEN "ready" ELSE "idle"]
  /\ tries = [c \in Callers |-> 0]
  /\ cause = [c \in Callers |-> "none"]
  /\ sem = 0
  /\ out = {}
  /\ firstEr = None
  /\ cancelled = FALSE
  /\ interrupted = FALSE
  /\ result = Pending

-----------------------------------------------------------------------------
(* Client.retry around Client.do                                           *)

Fails(c, why) ==
  /\ at' = [at EXCEPT ![c] = "failed"]
  /\ cause' = [cause EXCEPT ![c] = why]

\* Attempt: http.Client.Do refuses to send on a context that has ended.
Attempt(c) ==
  /\ at[c] = "ready"
  /\ c = Poster => start < NRefs
  /\ \/ /\ ~CtxDone(c)
        /\ at' = [at EXCEPT ![c] = "inflight"]
        /\ tries' = [tries EXCEPT ![c] = @ + 1]
        /\ UNCHANGED cause
     \/ /\ CtxDone(c)
        /\ Fails(c, "context")
        /\ UNCHANGED tries
  /\ UNCHANGED <<start, perRef, sem, out, firstEr, cancelled, interrupted, result>>

\* Reply: the request comes back; on an ended context it may come back as the
\* context's error.  A refusal fails at once, anything else is tried again.
Reply(c) ==
  /\ at[c] = "inflight"
  /\ \/ at' = [at EXCEPT ![c] = "ok"] /\ UNCHANGED cause
     \/ Fails(c, "refused")
     \/ CtxDone(c) /\ Fails(c, "context")
     \/ ~CtxDone(c) /\ tries[c] = MaxAttempts /\ Fails(c, "exhausted")
     \/ ~CtxDone(c) /\ tries[c] < MaxAttempts
        /\ at' = [at EXCEPT ![c] = "backoff"] /\ UNCHANGED cause
  /\ UNCHANGED <<start, perRef, tries, sem, out, firstEr, cancelled, interrupted, result>>

\* Backoff: select between the context and the timer, either when both are ready.
Backoff(c) ==
  /\ at[c] = "backoff"
  /\ \/ CtxDone(c) /\ Fails(c, "context")
     \/ at' = [at EXCEPT ![c] = "ready"] /\ UNCHANGED cause
  /\ UNCHANGED <<start, perRef, tries, sem, out, firstEr, cancelled, interrupted, result>>

-----------------------------------------------------------------------------
(* QueryBatch's chunk loop, on the caller's goroutine                      *)

Chunk == {r \in Refs : start < r /\ r <= start + BatchLimit}

ChunkListed ==
  /\ at[Poster] = "ok"
  /\ perRef' = [r \in Refs |-> IF r \in Chunk THEN Matches[r] ELSE perRef[r]]
  /\ start' = start + BatchLimit
  /\ at' = [at EXCEPT ![Poster] = "ready"]
  /\ tries' = [tries EXCEPT ![Poster] = 0]
  /\ UNCHANGED <<cause, sem, out, firstEr, cancelled, interrupted, result>>

\* A failed chunk, or one answered with the wrong number of results, ends the call.
ChunkFailed ==
  /\ at[Poster] \in {"failed", "ok"}
  /\ result' = Failed
  /\ at' = [at EXCEPT ![Poster] = "done"]
  /\ UNCHANGED <<start, perRef, tries, cause, sem, out, firstEr, cancelled, interrupted>>

\* hydrate starts one goroutine per distinct id, all at once.
Spawn ==
  /\ at[Poster] = "ready"
  /\ start >= NRefs
  /\ at' = [c \in Callers |-> IF c = Poster THEN "joining"
                              ELSE IF c \in Unique THEN "queued" ELSE at[c]]
  /\ UNCHANGED <<start, perRef, tries, cause, sem, out, firstEr, cancelled, interrupted, result>>

-----------------------------------------------------------------------------
(* hydrate's goroutine for one id                                          *)

TokenFree == sem < Concurrency

\* sem <- struct{}{} blocks while the channel is full; it watches no context.
Acquire(i) ==
  /\ at[i] = "queued"
  /\ TokenFree
  /\ sem' = sem + 1
  /\ at' = [at EXCEPT ![i] = "ready"]
  /\ UNCHANGED <<start, perRef, tries, cause, out, firstEr, cancelled, interrupted, result>>

\* Mutant: the last failure wins.
BlameLast(i) == i

\* Only the first failure is kept.
Blame(i) == IF firstEr = None THEN i ELSE firstEr

\* Under mu: store the record, or keep the first failure and cancel the rest.
Record(i) ==
  /\ \/ /\ at[i] = "ok"
        /\ out' = out \cup {i}
        /\ UNCHANGED <<firstEr, cancelled>>
     \/ /\ at[i] = "failed"
        /\ firstEr' = Blame(i)
        /\ cancelled' = TRUE
        /\ UNCHANGED out
  /\ at' = [at EXCEPT ![i] = "recorded"]
  /\ UNCHANGED <<start, perRef, tries, cause, sem, interrupted, result>>

\* The deferred receive from the channel, then wg.Done.
Release(i) ==
  /\ at[i] = "recorded"
  /\ sem' = sem - 1
  /\ at' = [at EXCEPT ![i] = "done"]
  /\ UNCHANGED <<start, perRef, tries, cause, out, firstEr, cancelled, interrupted, result>>

-----------------------------------------------------------------------------
(* After wg.Wait                                                           *)

\* Mutant: wg.Add runs inside the goroutine, so Wait misses the queued ones.
JoinedRunning == at[Poster] = "joining" /\ Holders = {}

HydrateDone ==
  /\ at[Poster] = "joining"
  /\ \A i \in Unique : at[i] = "done"

\* Mutant: failures are logged and the records that did arrive are used.
HydrateNeverFails == FALSE

HydrateFailed == firstEr # None

\* QueryBatch keeps, for every ref, the listed ids it has a record of.
Assemble ==
  /\ HydrateDone
  /\ at' = [at EXCEPT ![Poster] = "done"]
  /\ result' = IF HydrateFailed THEN Failed
               ELSE [tag |-> "answer", per |-> [r \in Refs |-> perRef[r] \cap out]]
  /\ UNCHANGED <<start, perRef, tries, cause, sem, out, firstEr, cancelled, interrupted>>

\* SIGINT or SIGTERM ends the context of the whole scan.
Interrupt ==
  /\ ~interrupted
  /\ result = Pending
  /\ interrupted' = TRUE
  /\ UNCHANGED <<start, perRef, at, tries, cause, sem, out, firstEr, cancelled, result>>

\* The call has returned: nothing is left to do.
Returned ==
  /\ result # Pending
  /\ UNCHANGED vars

RetryStep(c) == Attempt(c) \/ Reply(c) \/ Backoff(c)
PostStep == ChunkListed \/ ChunkFailed \/ Spawn \/ Assemble
FetchStep(i) == Acquire(i) \/ Record(i) \/ Release(i)

Next ==
  \/ \E c \in Callers : RetryStep(c)
  \/ PostStep
  \/ \E i \in Ids : FetchStep(i)
  \/ Interrupt
  \/ Returned

(* Goroutines are scheduled, a request ends within the HTTP client's       *)
(* timeout and a timer fires.                                              *)
Fairness ==
  /\ \A c \in Callers : WF_vars(RetryStep(c))
  /\ WF_vars(PostStep)
  /\ \A i \in Ids : WF_vars(FetchStep(i))

Spec == Init /\ [][Next]_vars /\ Fairness

-----------------------------------------------------------------------------
CallerStates == HoldingStates \cup {"idle", "queued", "joining", "done"}

\* Type invariant.
TypeOK ==
  /\ start \in Nat
  /\ perRef \in [Refs -> SUBSET Ids]
  /\ at \in [Callers -> CallerStates]
  /\ tries \in [Callers -> 0 .. MaxAttempts]
  /\ cause \in [Callers -> {"none", "context", "refused", "exhausted"}]
  /\ sem \in 0 .. Concurrency
  /\ out \subseteq Ids
  /\ firstEr \in Ids \cup {None}
  /\ cancelled \in BOOLEAN
  /\ interrupted \in BOOLEAN
  /\ result \in {Pending, Failed}
       \cup [tag : {"answer"}, per : [Refs -> SUBSET Ids]]

\* hydrate keeps at most Concurrency requests in flight, across every
\* interleaving of acquisitions, retries and releases.
InFlightBounded ==
  Cardinality({i \in Ids : at[i] = "inflight"}) <= Concurrency

\* A partially hydrated batch is never returned: an answer carries, for every
\* ref, every id the service listed for it ("a partially hydrated result set
\* would under-report advisories").
AllOrNothing ==
  result.tag = "answer" => result.per = Matches

\* The failure hydrate reports is one the service caused, never the echo of
\* the cancellation that another goroutine's failure set off.
BlameIsGenuine ==
  firstEr # None => cause[firstEr] \in {"refused", "exhausted"} \/ interrupted

\* Once a failure has been recorded no goroutine sends another request: the
\* first failure cancels the rest.
NoRequestAfterFailure ==
  [][firstEr # None =>
       \A i \in Ids : at'[i] = "inflight" => at[i] = "inflight"]_vars

\* The pool implements the all-or-nothing answer, and always reaches one.
Answer == INSTANCE BatchAnswer WITH answer <- result
Implements == Answer!Spec

-----------------------------------------------------------------------------
(* The inductive strengthening the safety properties rest on               *)

\* A token is out for every goroutine between its acquire and its release.
TokensHeld == sem = Cardinality(Holders)

\* Refs up to start have their whole listing, later ones none of it, and the
\* poster joins the pool only after the last chunk and leaves with the result.
ListedPrefix ==
  /\ \A r \in Refs : perRef[r] = IF r <= start THEN Matches[r] ELSE {}
  /\ at[Poster] = "joining" => start >= NRefs
  /\ at[Poster] \notin {"queued", "idle", "recorded"}
  /\ at[Poster] \notin {"joining", "done"} => \A i \in Ids : at[i] = "idle"
  /\ result # Pending => at[Poster] = "done"

\* A goroutine past its critical section has stored its record or a failure
\* has been kept.
SettledIsStored ==
  \A i \in Ids : at[i] \in {"recorded", "done"} => i \in out \/ firstEr # None

\* Only a kept failure cancels, and a goroutine sees the end of a context only
\* after one did; the goroutine whose failure was kept is past its request.
CancelFollowsFailure ==
  /\ cancelled <=> firstEr # None
  /\ \A i \in Ids : cause[i] = "context" => cancelled \/ interrupted
  /\ \A i \in Ids : at[i] = "failed" => cause[i] # "none"
  /\ firstEr # None => at[firstEr] \in {"recorded", "done"}

\* retry gives up at MaxAttempts, so a caller about to ask has one attempt left.
AttemptsLeft ==
  \A c \in Callers : at[c] \in {"idle", "queued", "ready", "backoff"}
                       => tries[c] < MaxAttempts

IInv ==
  /\ TypeOK
  /\ TokensHeld
  /\ ListedPrefix
  /\ SettledIsStored
  /\ CancelFollowsFailure
  /\ AttemptsLeft
  /\ AllOrNothing
  /\ BlameIsGenuine

=============================================================================
