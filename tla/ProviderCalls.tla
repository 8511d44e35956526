--------------------------- MODULE ProviderCalls ---------------------------
(***************************************************************************)
(* The central request governor (quota.py) and its callers (providers/     *)
(* http.py).  Every request asks QuotaBroker.acquire, which holds one      *)
(* asyncio lock while a thread reads the month's usage and another thread  *)
(* counts the call.  A caller may be cancelled at each of these waits: the *)
(* lock is then released although the counting thread keeps running.       *)
(*                                                                         *)
(* A Solana call then tries the endpoints that were not cooling down when  *)
(* it started, one after the other.  Changing the providers replaces the   *)
(* endpoints at once and the plan as soon as the lock is free.  A "plain"  *)
(* call stands for Jupiter, DexScreener and Ollama: one attempt, and a 429 *)
(* penalizes the provider's bucket.                                        *)
(*                                                                         *)
(* Time is counted in ticks, in each of which a bucket regains a token.    *)
(***************************************************************************)
EXTENDS Integers, Sequences

CONSTANTS
    Calls,          \* tasks that make requests
    MonthlyLimit,   \* plan.monthly_limit
    Reserve,        \* int(monthly_limit * reserve_fraction)
    Burst,          \* _bucket_capacity
    Delays,         \* Retry-After values and back-off delays, in ticks
    MaxRequests,    \* bound: requests begun
    MaxChanges,     \* bound: changes of the provider configuration
    MaxTicks        \* bound: clock

Providers == {"solana", "plain"}
Endpoints == {"primary", "fallback"}
CONFIG == "configuration"      \* configure_providers waiting for the quota lock

ASSUME QuotaAssumption ==
    /\ CONFIG \notin Calls
    /\ MonthlyLimit \in Nat /\ Reserve \in 0..MonthlyLimit /\ Burst \in Nat \ {0}
    /\ Delays \subseteq Nat \ {0}
    /\ MaxRequests \in Nat /\ MaxChanges \in Nat /\ MaxTicks \in Nat

VARIABLES
    clock, requests,
    lock,           \* asyncio.Lock: FIFO queue whose head holds the lock
    bucket,         \* provider -> [tokens, updated, until]
    usage,          \* provider -> provider_usage row of the month
    call,           \* task -> what it is doing
    zombies,        \* provider -> counting threads whose caller was cancelled
    generation,     \* http.solana_generation
    planOf,         \* configuration whose plan is in the buckets
    until,          \* endpoint -> _solana_unavailable_until
    granted,        \* provider -> [routine, critical] calls admitted
    cooledBy,       \* endpoint -> generation of the request that cooled it
    penalty         \* end of the last penalty applied to the plain provider

quotaVars == <<clock, requests, lock, bucket, usage, call, zombies, generation,
               planOf, until, granted, cooledBy, penalty>>

\* A task without a request.
Idle == [pc |-> "idle", prov |-> "plain", critical |-> FALSE, gen |-> 0,
         plan |-> 0, seen |-> 0, ends |-> {}]

QuotaInit ==
    /\ clock = 0 /\ requests = 0 /\ lock = <<>>
    /\ bucket = [p \in Providers |-> [tokens |-> Burst, updated |-> 0, until |-> 0]]
    /\ usage = [p \in Providers |-> 0]
    /\ call = [c \in Calls |-> Idle]
    /\ zombies = [p \in Providers |-> 0]
    /\ generation = 0 /\ planOf = 0
    /\ until = [e \in Endpoints |-> 0]
    /\ granted = [p \in Providers |-> [routine |-> 0, critical |-> 0]]
    /\ cooledBy = [e \in Endpoints |-> 0]
    /\ penalty = 0

Obsolete(c) == call[c].prov = "solana" /\ call[c].gen # generation
Queued(x) == \E i \in 1..Len(lock) : lock[i] = x
Holds(x) == lock # <<>> /\ Head(lock) = x

\* Nobody is in the queue twice.
Without(x) ==
    LET places == {i \in 1..Len(lock) : lock[i] = x}
        place == CHOOSE i \in places : TRUE
    IN  IF places = {} THEN lock
        ELSE [i \in 1..(Len(lock) - 1) |-> IF i < place THEN lock[i] ELSE lock[i + 1]]

----------------------------------------------------------------------------
\* Mutant: a critical request goes in front of the tasks that wait for the lock.
CriticalFirst(c, p, crit) ==
    LET ends == IF p = "solana" THEN {e \in Endpoints : clock >= until[e]} ELSE {"primary"}
    IN /\ call[c].pc = "idle" /\ requests < MaxRequests
       /\ ends # {}
       /\ requests' = requests + 1
       /\ call' = [call EXCEPT ![c] =
                       [pc |-> "queued", prov |-> p, critical |-> crit, gen |-> generation,
                        plan |-> 0, seen |-> 0, ends |-> ends]]
       /\ lock' = IF crit /\ lock # <<>> THEN <<Head(lock), c>> \o Tail(lock) ELSE Append(lock, c)
       /\ UNCHANGED <<clock, bucket, usage, zombies, generation, planOf, until,
                      granted, cooledBy, penalty>>

\* A Solana request snapshots the generation and the endpoints that are not cooling
\* down, and gives up at once when there is none; every request queues for the lock.
BeginCall(c, p, crit) ==
    LET ends == IF p = "solana" THEN {e \in Endpoints : clock >= until[e]} ELSE {"primary"}
    IN /\ call[c].pc = "idle" /\ requests < MaxRequests
       /\ ends # {}
       /\ requests' = requests + 1
       /\ call' = [call EXCEPT ![c] =
                       [pc |-> "queued", prov |-> p, critical |-> crit, gen |-> generation,
                        plan |-> 0, seen |-> 0, ends |-> ends]]
       /\ lock' = Append(lock, c)
       /\ UNCHANGED <<clock, bucket, usage, zombies, generation, planOf, until,
                      granted, cooledBy, penalty>>

\* The holder reads provider_usage in a thread.
ReadUsage(c) ==
    /\ call[c].pc = "queued" /\ Holds(c)
    /\ call' = [call EXCEPT ![c].pc = "read", ![c].seen = usage[call[c].prov]]
    /\ UNCHANGED <<clock, requests, lock, bucket, usage, zombies, generation, planOf,
                   until, granted, cooledBy, penalty>>

LimitFor(critical) == IF critical THEN MonthlyLimit ELSE MonthlyLimit - Reserve

Refilled(b) == LET t == b.tokens + (clock - b.updated)
               IN IF t > Burst THEN Burst ELSE t

\* The checks of acquire after the read: the limit, the back-off, then a token.  A
\* refused caller releases the lock, an admitted one starts the counting thread.
Decide(c) ==
    LET p == call[c].prov
        b == bucket[p]
        within == call[c].seen < LimitFor(call[c].critical) /\ clock >= b.until
        refill == [b EXCEPT !.tokens = Refilled(b), !.updated = clock]
        admit == within /\ refill.tokens >= 1
    IN /\ call[c].pc = "read"
       /\ bucket' = [bucket EXCEPT ![p] =
                        IF admit THEN [refill EXCEPT !.tokens = refill.tokens - 1]
                        ELSE IF within THEN refill ELSE b]
       /\ IF admit
          THEN call' = [call EXCEPT ![c].pc = "counting"] /\ UNCHANGED lock
          ELSE call' = [call EXCEPT ![c] = Idle] /\ lock' = Without(c)
       /\ UNCHANGED <<clock, requests, usage, zombies, generation, planOf, until,
                      granted, cooledBy, penalty>>

\* increment_provider_usage commits in its thread.
CountUsage(c) ==
    /\ call[c].pc = "counting"
    /\ usage' = [usage EXCEPT ![call[c].prov] = @ + 1]
    /\ call' = [call EXCEPT ![c].pc = "counted"]
    /\ UNCHANGED <<clock, requests, lock, bucket, zombies, generation, planOf, until,
                   granted, cooledBy, penalty>>

\* The same commit after the caller has gone.
CountAbandoned(p) ==
    /\ zombies[p] > 0
    /\ zombies' = [zombies EXCEPT ![p] = @ - 1]
    /\ usage' = [usage EXCEPT ![p] = @ + 1]
    /\ UNCHANGED <<clock, requests, lock, bucket, call, generation, planOf, until,
                   granted, cooledBy, penalty>>

\* Mutant: the answer of acquire does not wait for the counting thread.
GrantBeforeCount(c) ==
    /\ call[c].pc \in {"counting", "counted"}
    /\ zombies' = [zombies EXCEPT ![call[c].prov] =
                       @ + IF call[c].pc = "counting" THEN 1 ELSE 0]
    /\ lock' = Without(c)
    /\ granted' = IF call[c].critical THEN [granted EXCEPT ![call[c].prov].critical = @ + 1]
                  ELSE [granted EXCEPT ![call[c].prov].routine = @ + 1]
    /\ call' = [call EXCEPT ![c].pc = "sent", ![c].plan = planOf]
    /\ UNCHANGED <<clock, requests, bucket, usage, generation, planOf, until,
                   cooledBy, penalty>>

\* acquire returns TRUE and releases the lock.  A Solana request whose configuration
\* was replaced while it waited is dropped here, before anything is sent.
Admitted(c) ==
    /\ call[c].pc = "counted"
    /\ lock' = Without(c)
    /\ granted' = IF call[c].critical THEN [granted EXCEPT ![call[c].prov].critical = @ + 1]
                  ELSE [granted EXCEPT ![call[c].prov].routine = @ + 1]
    /\ call' = [call EXCEPT ![c] =
                    IF Obsolete(c) THEN Idle ELSE [@ EXCEPT !.pc = "sent", !.plan = planOf]]
    /\ UNCHANGED <<clock, requests, bucket, usage, zombies, generation, planOf, until,
                   cooledBy, penalty>>

\* A caller is cancelled at one of its waits: it leaves the lock, and a counting thread
\* that has started runs on.
CancelCall(c) ==
    /\ call[c].pc # "idle"
    /\ lock' = Without(c)
    /\ zombies' = IF call[c].pc = "counting"
                  THEN [zombies EXCEPT ![call[c].prov] = @ + 1] ELSE zombies
    /\ call' = [call EXCEPT ![c] = Idle]
    /\ UNCHANGED <<clock, requests, bucket, usage, generation, planOf, until, granted,
                   cooledBy, penalty>>

----------------------------------------------------------------------------
\* The endpoints a request may still try are tried in a fixed order.
FirstOf(ends) == IF "primary" \in ends THEN "primary" ELSE "fallback"

Cooled(c, e, d) ==
    /\ until' = [until EXCEPT ![e] = clock + d]
    /\ cooledBy' = [cooledBy EXCEPT ![e] = call[c].gen]

\* Mutant: a failed answer cools its endpoint before the configuration is compared.
CoolFirst(c, d) ==
    LET e == FirstOf(call[c].ends)
        rest == call[c].ends \ {e}
    IN /\ call[c].pc = "sent" /\ call[c].prov = "solana"
       /\ Cooled(c, e, d)
       /\ call' = [call EXCEPT ![c] =
                       IF Obsolete(c) \/ rest = {} THEN Idle ELSE [@ EXCEPT !.ends = rest]]
       /\ UNCHANGED <<clock, requests, lock, bucket, usage, zombies, generation,
                      planOf, granted, penalty>>

\* A Solana answer that makes the endpoint unusable (a transport error, a status that
\* asks for another endpoint, an overload code) cools it and moves to the next one of
\* the request's list; an answer of an old configuration is only dropped.
RpcFails(c, d) ==
    LET e == FirstOf(call[c].ends)
        rest == call[c].ends \ {e}
    IN /\ call[c].pc = "sent" /\ call[c].prov = "solana"
       /\ IF Obsolete(c) THEN UNCHANGED <<until, cooledBy>> ELSE Cooled(c, e, d)
       /\ call' = [call EXCEPT ![c] =
                       IF Obsolete(c) \/ rest = {} THEN Idle ELSE [@ EXCEPT !.ends = rest]]
       /\ UNCHANGED <<clock, requests, lock, bucket, usage, zombies, generation,
                      planOf, granted, penalty>>

\* An answer that can be used clears the endpoint's back-off.
RpcAnswers(c) ==
    LET e == FirstOf(call[c].ends)
    IN /\ call[c].pc = "sent" /\ call[c].prov = "solana"
       /\ until' = IF Obsolete(c) THEN until ELSE [until EXCEPT ![e] = 0]
       /\ call' = [call EXCEPT ![c] = Idle]
       /\ UNCHANGED <<clock, requests, lock, bucket, usage, zombies, generation,
                      planOf, granted, cooledBy, penalty>>

\* A plain provider answers, or answers 429 and its caller queues for the lock again.
PlainAnswers(c, limited) ==
    /\ call[c].pc = "sent" /\ call[c].prov = "plain"
    /\ call' = [call EXCEPT ![c] = IF limited THEN [@ EXCEPT !.pc = "penalize"] ELSE Idle]
    /\ lock' = IF limited THEN Append(lock, c) ELSE lock
    /\ UNCHANGED <<clock, requests, bucket, usage, zombies, generation, planOf, until,
                   granted, cooledBy, penalty>>

\* penalize: no token, and none before the delay has passed.
Penalize(c, d) ==
    /\ call[c].pc = "penalize" /\ Holds(c)
    /\ bucket' = [bucket EXCEPT !["plain"] =
                      [tokens |-> 0, updated |-> clock, until |-> clock + d]]
    /\ penalty' = clock + d
    /\ lock' = Without(c)
    /\ call' = [call EXCEPT ![c] = Idle]
    /\ UNCHANGED <<clock, requests, usage, zombies, generation, planOf, until, granted,
                   cooledBy>>

----------------------------------------------------------------------------
\* configure_providers under the event lock: the endpoints change at once, and the task
\* joins the queue of the quota lock before any other task can run.
ChangeProviders ==
    /\ generation < MaxChanges /\ ~Queued(CONFIG)
    /\ generation' = generation + 1
    /\ until' = [e \in Endpoints |-> 0]
    /\ cooledBy' = [e \in Endpoints |-> generation + 1]
    /\ lock' = Append(lock, CONFIG)
    /\ UNCHANGED <<clock, requests, bucket, usage, call, zombies, planOf, granted,
                   penalty>>

\* Mutant: a reconfigured provider starts with a new bucket.
FreshBuckets ==
    /\ Holds(CONFIG)
    /\ planOf' = generation
    /\ lock' = Without(CONFIG)
    /\ bucket' = [p \in Providers |-> [tokens |-> Burst, updated |-> clock, until |-> 0]]
    /\ UNCHANGED <<clock, requests, usage, call, zombies, generation, until, granted,
                   cooledBy, penalty>>

\* reconfigure: new buckets that keep the smaller token count and the back-off.
Reconfigure ==
    /\ Holds(CONFIG)
    /\ planOf' = generation
    /\ lock' = Without(CONFIG)
    /\ bucket' = [p \in Providers |-> [bucket[p] EXCEPT !.updated = clock]]
    /\ UNCHANGED <<clock, requests, usage, call, zombies, generation, until, granted,
                   cooledBy, penalty>>

Tick ==
    /\ clock < MaxTicks
    /\ clock' = clock + 1
    /\ UNCHANGED <<requests, lock, bucket, usage, call, zombies, generation, planOf,
                   until, granted, cooledBy, penalty>>

CallStep(c) ==
    \/ \E p \in Providers, crit \in BOOLEAN : BeginCall(c, p, crit)
    \/ ReadUsage(c) \/ Decide(c) \/ CountUsage(c) \/ Admitted(c) \/ CancelCall(c)
    \/ \E d \in Delays : RpcFails(c, d)
    \/ RpcAnswers(c)
    \/ \E limited \in BOOLEAN : PlainAnswers(c, limited)
    \/ \E d \in Delays : Penalize(c, d)

QuotaNext ==
    \/ \E c \in Calls : CallStep(c)
    \/ \E p \in Providers : CountAbandoned(p)
    \/ ChangeProviders \/ Reconfigure \/ Tick

QuotaSpec == QuotaInit /\ [][QuotaNext]_quotaVars

----------------------------------------------------------------------------
QuotaTypeOK ==
    /\ clock \in 0..MaxTicks /\ requests \in 0..MaxRequests
    /\ \A i \in 1..Len(lock) : lock[i] \in Calls \cup {CONFIG}
    /\ \A p \in Providers : bucket[p].tokens \in 0..Burst /\ usage[p] \in Nat /\ zombies[p] \in Nat
    /\ generation \in 0..MaxChanges /\ planOf \in 0..generation

\* The governor never admits more calls than the month allows, and routine calls never
\* reach into the reserve kept for critical ones (quota.py 67-73), although cancelled
\* callers leave counting threads behind that commit at any later time (quota.py 82).
GrantsWithinLimit ==
    \A p \in Providers :
        /\ granted[p].routine + granted[p].critical <= MonthlyLimit
        /\ granted[p].routine <= MonthlyLimit - Reserve
        /\ usage[p] >= granted[p].routine + granted[p].critical

\* What is sent to an endpoint was admitted under the plan of the same configuration:
\* the endpoint and the plan change in two steps (orchestrator.py 6734-6741), between
\* which only callers of the old configuration can be admitted, and those are dropped.
AdmittedUnderOwnPlan ==
    \A c \in Calls : (call[c].pc = "sent" /\ call[c].prov = "solana") => call[c].plan = call[c].gen

\* No endpoint of the current configuration is kept unused because of what a request of
\* an earlier configuration met (http.py 77-87 and the obsolete() checks of 93-202).
CooldownsAreOwn ==
    \A e \in Endpoints : until[e] > 0 => cooledBy[e] = generation

\* No call of a plain provider is admitted before its last penalty has run out, whatever
\* reconfigurations happen in between (quota.py 85-107).
PenaltyHonoured ==
    [][\A c \in Calls : (call[c].prov = "plain" /\ call[c].pc = "read" /\ call'[c].pc = "counting")
            => clock >= penalty]_quotaVars

\* The promise of the quota governor to its callers: however calls, cancellations, penalties and
\* reconfigurations interleave, no more is sent than the month and the reserve allow, each
\* configuration answers for its own calls only, and a penalty is served in full (quota.py
\* 55-107, http.py 77-220).
QuotaHonoured ==
    /\ []QuotaTypeOK
    /\ []GrantsWithinLimit
    /\ []AdmittedUnderOwnPlan
    /\ []CooldownsAreOwn
    /\ PenaltyHonoured
=============================================================================
