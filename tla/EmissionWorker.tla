--------------------------- MODULE EmissionWorker ---------------------------
(***************************************************************************)
(* How InvoiceEmissionWorker admits the jobs of one tenant: its circuit     *)
(* breaker and its token bucket (internal/emissionqueue).  Both keep one    *)
(* state per tenant, so tenants never meet.  Time is counted in ticks; the  *)
(* process's memory holds both states, so a restart forgets them.           *)
(***************************************************************************)
EXTENDS Naturals

CONSTANTS Jobs,        \* River workers that run jobs of the tenant
          Threshold, Cooldown, Rate, Burst,
          MaxTime      \* bound on the clock

WorkerAssumption ==
    /\ Threshold \in Nat \ {0} /\ Cooldown \in Nat \ {0}
    /\ Rate \in Nat \ {0} /\ Burst \in Nat \ {0} /\ MaxTime \in Nat

VARIABLES now,
          circuit,  \* failures, openedUntil (0: the zero time) and halfOpen
          bucket,   \* tokens and last; last 0 with full tokens for a new tenant
          pc,       \* pc[j]: where the worker's job is
          probe,    \* running jobs that Allow admitted as the half-open probe
          debt,     \* most sends beyond Rate in any window that ends now
          watch     \* what the properties remember of the probes:
                    \*   due    when the last one's cooldown has passed, 0 if
                    \*          AbortProbe released it
                    \*   stray  another job's result was reported while one ran
                    \*   lost   a panic ended one

wvars == <<now, circuit, bucket, pc, probe, debt, watch>>

Closed == [failures |-> 0, openedUntil |-> 0, halfOpen |-> FALSE]
Smaller(a, b) == IF a < b THEN a ELSE b

Init ==
    /\ now = 0
    /\ circuit = Closed
    /\ bucket = [tokens |-> Burst, last |-> 0]
    /\ pc = [j \in Jobs |-> "waiting"]
    /\ probe = {}
    /\ debt = 0
    /\ watch = [due |-> 0, stray |-> FALSE, lost |-> FALSE]

Tick ==
    /\ now < MaxTime /\ now' = now + 1
    /\ debt' = IF debt > Rate THEN debt - Rate ELSE 0
    /\ UNCHANGED <<circuit, bucket, pc, probe, watch>>

-----------------------------------------------------------------------------
(* CircuitBreaker. *)

HalfOpenDue == circuit.openedUntil # 0 /\ now >= circuit.openedUntil

Success == Closed

FailureKeepsClock ==
    LET failures == IF circuit.failures < Threshold THEN circuit.failures + 1 ELSE Threshold
        until == IF circuit.openedUntil = 0 THEN now + Cooldown ELSE circuit.openedUntil
    IN IF circuit.halfOpen \/ failures = Threshold
       THEN [failures |-> failures, openedUntil |-> until, halfOpen |-> FALSE]
       ELSE [circuit EXCEPT !.failures = failures]

Failure ==
    LET failures == IF circuit.failures < Threshold THEN circuit.failures + 1 ELSE Threshold
    IN IF circuit.halfOpen \/ failures = Threshold
       THEN [failures |-> failures, openedUntil |-> now + Cooldown, halfOpen |-> FALSE]
       ELSE [circuit EXCEPT !.failures = failures]

AbortProbe == [circuit EXCEPT !.halfOpen = FALSE]

\* Allow: closed; or, the cooldown being over, the one half-open probe.
Allow(j) ==
    /\ pc[j] = "waiting"
    /\ \/ circuit.openedUntil = 0 /\ UNCHANGED <<circuit, probe, watch>>
       \/ /\ HalfOpenDue /\ ~circuit.halfOpen
          /\ circuit' = [circuit EXCEPT !.halfOpen = TRUE]
          /\ probe' = probe \cup {j}
          /\ watch' = [watch EXCEPT !.due = now + Cooldown, !.lost = FALSE]
    /\ pc' = [pc EXCEPT ![j] = "allowed"]
    /\ UNCHANGED <<now, bucket, debt>>

-----------------------------------------------------------------------------
(* The end of a job, with or without a report to the breaker. *)

Leaves(j) ==
    /\ probe' = probe \ {j}
    /\ pc' = [pc EXCEPT ![j] = "waiting"]

Stray(j) == probe \ {j} # {} /\ (watch.stray \/ j \notin probe)

Released(j) ==
    watch' = [watch EXCEPT !.due = IF circuit.halfOpen THEN 0 ELSE @, !.stray = Stray(j)]
Reported(j) == watch' = [watch EXCEPT !.stray = Stray(j)]

-----------------------------------------------------------------------------
(* TenantRateLimiter. *)

\* TryAcquire first credits the time since the last call ...
CreditedAgain == [bucket EXCEPT !.tokens = Smaller(Burst, @ + (now - bucket.last) * Rate)]
Credited == [tokens |-> Smaller(Burst, bucket.tokens + (now - bucket.last) * Rate), last |-> now]

\* ... and takes a token, or sends the job back with the probe released.
Acquire(j) ==
    /\ pc[j] = "allowed"
    /\ Credited.tokens >= 1
    /\ bucket' = [Credited EXCEPT !.tokens = @ - 1]
    /\ debt' = debt + 1
    /\ pc' = [pc EXCEPT ![j] = "processing"]
    /\ UNCHANGED <<now, circuit, probe, watch>>

RateLimited(j) ==
    /\ pc[j] = "allowed"
    /\ Credited.tokens < 1
    /\ bucket' = Credited
    /\ circuit' = AbortProbe /\ Released(j)
    /\ Leaves(j)
    /\ UNCHANGED <<now, debt>>

-----------------------------------------------------------------------------
(* Work, after ProcessEmission. *)

\* A verdict of the SIAT (taken or refused) closes the circuit; a cancelled
\* context, an emission in progress or a permanent error only releases a
\* probe; anything else is a failure.
Process(j) ==
    /\ pc[j] = "processing"
    /\ \/ circuit' \in {Success, Failure} /\ Reported(j)
       \/ circuit' = AbortProbe /\ Released(j)
    /\ Leaves(j)
    /\ UNCHANGED <<now, bucket, debt>>

\* A panic of ProcessEmission, which River recovers: no release is deferred, so
\* the breaker hears nothing and a half-open circuit stays so.
Panics(j) ==
    /\ pc[j] = "processing"
    /\ watch' = [watch EXCEPT !.stray = @ /\ probe \ {j} # {}, !.lost = @ \/ j \in probe]
    /\ Leaves(j)
    /\ UNCHANGED <<now, circuit, bucket, debt>>

Work(j) == Allow(j) \/ Acquire(j) \/ RateLimited(j) \/ Process(j) \/ Panics(j)

Next == Tick \/ \E j \in Jobs : Work(j)

Spec == Init /\ [][Next]_wvars

-----------------------------------------------------------------------------
TypeOK ==
    /\ now \in 0..MaxTime
    /\ circuit \in [failures : 0..Threshold, openedUntil : 0..MaxTime + Cooldown,
                    halfOpen : BOOLEAN]
    /\ bucket \in [tokens : 0..Burst, last : 0..MaxTime]
    /\ pc \in [Jobs -> {"waiting", "allowed", "processing"}]
    /\ probe \in SUBSET Jobs
    /\ debt \in Nat
    /\ watch \in [due : 0..MaxTime + Cooldown, stray : BOOLEAN, lost : BOOLEAN]

\* Two probes are a cooldown apart, unless AbortProbe released the first: no late
\* failure or success of a job admitted before shortens the pause of the SIAT.
ProbesSpaced == [][probe' \ probe # {} => now >= watch.due]_wvars

\* Only one probe runs at a time, unless a job that is none reported its
\* result meanwhile: one admitted before the circuit opened and late to end.
SoleProbe == ~watch.stray => \A i, j \in probe : i = j

\* A circuit waits for a probe that nobody runs only after a panic: every other
\* way out of Work settles it, so an open circuit can close again.
ProbeHasOwner == circuit.halfOpen => probe # {} \/ watch.lost

\* In any window of time a tenant sends at most Burst requests and Rate more
\* per tick, whatever the workers' interleaving: what debt counts.
WindowBound == debt <= Burst
=============================================================================
