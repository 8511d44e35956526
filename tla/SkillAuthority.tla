---------------------------- MODULE SkillAuthority ----------------------------
(***************************************************************************)
(* Which Champion skills may act on paper trades (learning.py 690-711,     *)
(* 996-1118, 1419-1496, 6224-6830, 7155-7406; database.py 3137-3160).      *)
(*                                                                         *)
(* Skills are ordered (entry, manipulation, sizing, exit); a skill joins   *)
(* beside the active skills upstream of it and its authority ends when one *)
(* of them changes.  A grant is staged, committed in one transaction and   *)
(* only then visible; a revocation is visible at once and its transaction  *)
(* is retried before any later grant.  Policy switches are several writes. *)
(* Every write may fail, which also covers a crash at that point: the      *)
(* process may restart in any state.                                       *)
(*                                                                         *)
(* What evidence shows (health, join proofs, trials, eligibility) is       *)
(* chosen freely.  The single-model path (7408-7508) is left out.          *)
(***************************************************************************)
EXTENDS Integers, FiniteSets

CONSTANTS
    Skills,             \* the skills in order: 1..n
    Contextual,         \* artifact versions that need an independent join proof (Coach, exit)
    MaxCrowns,          \* bound: versions per skill
    MaxJoins,           \* bound: activations
    MaxSwitches,        \* bound: settings changes
    MaxAuthorityErrors, \* bound: failed writes
    MaxRestores         \* bound: process restarts

ASSUME AuthorityAssumption ==
    /\ IsFiniteSet(Skills) /\ Skills # {} /\ Skills = 1..Cardinality(Skills)
    /\ MaxCrowns \in Nat \ {0} /\ Contextual \subseteq 1..MaxCrowns /\ MaxJoins \in Nat

NoDeps == [j \in Skills |-> <<0, 0>>]
NoTrial == [status |-> "none", deps |-> NoDeps]

VARIABLES
    auth,       \* in memory: [st, act, mode, auto, consent]
    saved,      \* the same in the database
    revoking,   \* _pending_authority_states
    joins, switches, authorityErrors, restores,
    halfDone    \* history: a settings change or a promotion failed between its writes

authorityVars == <<auth, saved, revoking, joins, switches, authorityErrors, restores, halfDone>>

NewSkill == [champ |-> 0, active |-> 0, deps |-> NoDeps, joined |-> 0,
             susp |-> 0, why |-> "none", trial |-> NoTrial, proof |-> <<0, NoDeps>>]

AuthorityInit ==
    /\ auth = [st |-> [k \in Skills |-> [NewSkill EXCEPT !.champ = 1]],
               act |-> [k \in Skills |-> 0], mode |-> "shadow", auto |-> FALSE, consent |-> FALSE]
    /\ saved = auth /\ revoking = {}
    /\ joins = 0 /\ switches = 0 /\ authorityErrors = 0 /\ restores = 0 /\ halfDone = FALSE

-----------------------------------------------------------------------------
(* Operators *)

Active(a) == {k \in Skills : a.act[k] # 0}

\* _recovery_dependencies and _recovery_dependency_epochs (learning.py 6389-6407): the
\* active skills upstream of k, with the time each joined.
Upstream(a, k) ==
    [j \in Skills |-> IF j < k /\ a.act[j] # 0 THEN <<a.act[j], a.st[j].joined>> ELSE <<0, 0>>]

\* The proof an activation records must be independent of the manual order.
Independent(a, v) == a.auto \/ v \in Contextual

\* _valid_activation_proof (learning.py 7247-7307).
ValidProof(a, k, deps) ==
    LET s == a.st[k]
    IN  /\ s.active = a.act[k] /\ s.proof = <<a.act[k], deps>> /\ s.deps = deps

\* A skill and every active skill downstream of it lose their authority.
Removed(a, k) ==
    [a EXCEPT !.act = [j \in Skills |-> IF j >= k THEN 0 ELSE a.act[j]],
              !.st = [j \in Skills |-> IF j >= k /\ a.act[j] # 0
                                       THEN [a.st[j] EXCEPT !.active = 0, !.deps = NoDeps]
                                       ELSE a.st[j]]]

\* The mode that follows a suspension (learning.py 7182-7186).
SuspendedMode(a) ==
    IF a.auto THEN IF Active(a) = {} THEN "shadow" ELSE "active"
    ELSE IF a.act[1] = 0 THEN "shadow" ELSE a.mode

\* _suspend_skill in memory (learning.py 7155-7188).
Suspended(a, k, why) ==
    LET r == [Removed(a, k) EXCEPT !.st[k].susp = a.act[k], !.st[k].why = why,
                                   !.st[k].trial = NoTrial]
    IN  [r EXCEPT !.mode = SuspendedMode(r)]

\* Mutant: skills downstream of a new one keep their authority.
ActivatedBeside(a, k, recovering) ==
    LET v == a.st[k].champ
        deps == Upstream(a, k)
        s == [a.st[k] EXCEPT !.active = v, !.deps = deps, !.joined = joins + 1,
                             !.proof = <<v, deps>>, !.susp = 0]
    IN  [a EXCEPT !.act[k] = v, !.st[k] = s, !.mode = "active"]

\* _activate_skill (learning.py 6315-6372): downstream leaves, k joins beside its upstream.
Activated(a, k, recovering) ==
    LET r == Removed(a, k + 1)
        v == a.st[k].champ
        deps == Upstream(a, k)
        s == [a.st[k] EXCEPT !.active = v, !.deps = deps, !.joined = joins + 1,
                !.proof = IF Independent(a, v) THEN <<v, deps>> ELSE <<0, NoDeps>>,
                !.susp = IF recovering THEN 0 ELSE @,
                !.trial = IF recovering THEN [status |-> "restored", deps |-> a.st[k].trial.deps] ELSE @]
    IN  [r EXCEPT !.act[k] = v, !.st[k] = s, !.mode = "active"]

\* save_challenger_authority (database.py 3137-3160): rows, active map and mode at once.
Stored(d, a, rows) ==
    [d EXCEPT !.st = [k \in Skills |-> IF k \in rows THEN a.st[k] ELSE d.st[k]],
              !.act = a.act, !.mode = a.mode]

\* Mutant: a grant does not retry a revocation that was not saved.
NothingRetried(d) == d

\* _persist_revoked_authority (learning.py 6731-6741).
Retried(d) == IF revoking = {} THEN d ELSE Stored(d, auth, revoking)

\* A write fails: an exception leaves the handler with what it has changed so far.
WriteFails == authorityErrors < MaxAuthorityErrors /\ authorityErrors' = authorityErrors + 1

\* A revocation: memory first, then the transaction, after the rows d already written.
Revokes(a, d, rows) ==
    /\ auth' = a
    /\ \/ saved' = Stored(d, a, rows) /\ revoking' = {} /\ UNCHANGED authorityErrors
       \/ WriteFails /\ saved' = d /\ revoking' = rows

Suspends(a, d, k, why, earlier) ==
    Revokes(Suspended(a, k, why), d, earlier \cup {j \in Active(a) : j >= k})

\* A grant: one transaction, then memory (learning.py 6267, 6355-6387).
Grants(d, k, recovering, consent) ==
    /\ joins < MaxJoins
    /\ \/ LET a == [Activated(auth, k, recovering) EXCEPT !.consent = @ \/ consent]
          IN  /\ auth' = a
              /\ saved' = [Stored(Retried(d), a, {j \in Skills : a.st[j] # auth.st[j]})
                             EXCEPT !.consent = @ \/ consent]
              /\ revoking' = {} /\ joins' = joins + 1 /\ UNCHANGED authorityErrors
       \/ WriteFails /\ saved' = Retried(d) /\ revoking' = {} /\ UNCHANGED <<auth, joins>>

\* _recovery_allowed (learning.py 6409-6434).
RecoveryAllowed(k) ==
    LET s == auth.st[k]
    IN  /\ s.susp # 0 /\ s.susp = s.champ /\ s.why = "health"
        /\ auth.auto /\ auth.consent /\ auth.mode # "off"

\* Mutant: a passed trial counts beside any other skills.
RecoveredAnywhere(k) == RecoveryAllowed(k) /\ auth.st[k].trial.status = "passed"

\* _skill_recovery_proof is ready (learning.py 6541-6565, 6657-6664).
Recovered(k) ==
    /\ RecoveryAllowed(k) /\ auth.st[k].trial.status = "passed"
    /\ auth.st[k].trial.deps = Upstream(auth, k)

\* A champion that its own suspension does not bar (learning.py 6234-6257, 7229, 7360-7392).
MayJoin(k) == auth.st[k].champ # 0 /\ auth.st[k].susp # auth.st[k].champ

-----------------------------------------------------------------------------
(* Governance, at every settled outcome (learning.py 2045, 7192-7245, 7309-7406) *)

Governing ==
    /\ auth.consent
    /\ IF auth.auto THEN auth.mode # "off" ELSE auth.mode = "active"

\* The first active skill whose proof no longer holds or whose health fails is suspended.
GovernSuspends(k) ==
    /\ Governing /\ k \in Active(auth)
    /\ LET sound(j) == Independent(auth, auth.act[j]) => ValidProof(auth, j, Upstream(auth, j))
                       /\ (auth.auto => auth.st[j].champ = auth.act[j] /\ auth.st[j].susp # auth.act[j])
       IN  /\ \A j \in Active(auth) : j < k => sound(j)
           /\ Suspends(auth, Retried(saved), k, IF sound(k) THEN "health" ELSE "proof", {})
    /\ UNCHANGED <<joins, switches, restores, halfDone>>

\* The first skill with a fresh proof, or a passed trial, joins.  By hand the entry is first.
GovernActivates(k) ==
    /\ Governing /\ k \notin Active(auth)
    /\ ~auth.auto => (k = 1 \/ auth.act[1] # 0) /\ MayJoin(k)
    /\ MayJoin(k) \/ Recovered(k)
    /\ Grants(saved, k, ~MayJoin(k), FALSE)
    /\ UNCHANGED <<switches, restores, halfDone>>

\* Nothing active and nothing ready (learning.py 7404-7406).
GovernRests ==
    /\ Governing /\ auth.auto /\ Active(auth) = {} /\ auth.mode # "shadow"
    /\ auth' = [auth EXCEPT !.mode = "shadow"]
    /\ saved' = [Retried(saved) EXCEPT !.mode = "shadow"] /\ revoking' = {}
    /\ UNCHANGED <<joins, switches, authorityErrors, restores, halfDone>>

\* _enroll_skill_recovery starts the one trial of a suspension (learning.py 6436-6539).
TrialStarts(k) ==
    /\ RecoveryAllowed(k) /\ auth.st[k].trial.status = "none"
    /\ auth' = [auth EXCEPT !.st[k].trial = [status |-> "collecting", deps |-> Upstream(auth, k)]]
    /\ \/ saved' = [saved EXCEPT !.st[k] = auth'.st[k]] /\ UNCHANGED authorityErrors
       \/ WriteFails /\ UNCHANGED saved
    /\ UNCHANGED <<revoking, joins, switches, restores, halfDone>>

\* Its verdict, or the composition changed under it (learning.py 6558-6565, 6700-6705).
TrialEnds(k) ==
    /\ RecoveryAllowed(k) /\ auth.st[k].trial.status = "collecting"
    /\ \E verdict \in IF auth.st[k].trial.deps = Upstream(auth, k) THEN {"passed", "failed"}
                      ELSE {"context_changed"} :
            auth' = [auth EXCEPT !.st[k].trial.status = verdict]
    /\ saved' = [saved EXCEPT !.st[k] = auth'.st[k]]
    /\ UNCHANGED <<revoking, joins, switches, authorityErrors, restores, halfDone>>

\* A tournament crowns a new champion (learning.py 6184-6222, 6707-6729): the row is
\* saved; if the old one was active it is suspended, or by hand replaced at once.
CrownChanges(k) ==
    LET v == auth.st[k].champ
        a == [auth EXCEPT !.st[k].champ = v + 1]
        d == [saved EXCEPT !.st[k] = a.st[k]]
        replaces == auth.mode = "active" /\ auth.act[k] = v
    IN  /\ v < MaxCrowns
        /\ \/ /\ ~replaces
              /\ auth' = a /\ saved' = d
              /\ UNCHANGED <<revoking, joins, authorityErrors, halfDone>>
           \/ WriteFails /\ auth' = a /\ UNCHANGED <<saved, revoking, joins, halfDone>>
           \/ /\ replaces /\ Independent(auth, v + 1)
              /\ Suspends(a, d, k, "replaced", revoking) /\ UNCHANGED <<joins, halfDone>>
           \/ /\ replaces /\ ~Independent(auth, v + 1)
              /\ WriteFails /\ halfDone' = TRUE
              /\ auth' = a /\ saved' = Retried(d) /\ revoking' = {} /\ UNCHANGED joins
           \/ /\ replaces /\ ~Independent(auth, v + 1) /\ joins < MaxJoins
              /\ LET b == Activated(a, k, FALSE)
                 IN  /\ auth' = b
                     /\ saved' = Stored(Retried(d), b, {j \in Skills : b.st[j] # auth.st[j]})
              /\ revoking' = {} /\ joins' = joins + 1 /\ UNCHANGED <<authorityErrors, halfDone>>
        /\ UNCHANGED <<switches, restores>>

-----------------------------------------------------------------------------
(* Settings *)

\* _deactivate_all_skills (learning.py 6743-6758).
DeactivatedAll(a) ==
    LET r == Removed(a, 1) IN [r EXCEPT !.mode = IF a.mode = "off" THEN "off" ELSE "shadow"]

\* The shared tail of a policy switch: every skill loses its authority, then the mode
\* is written (learning.py 1454-1459, 1491-1496).
SwitchEnds(a, d, mode) ==
    LET r == [DeactivatedAll(a) EXCEPT !.mode = mode]
        rows == revoking \cup Active(a)
    IN  \/ /\ auth' = r /\ saved' = Stored(d, r, rows)
           /\ revoking' = {} /\ UNCHANGED authorityErrors
        \/ /\ WriteFails /\ auth' = DeactivatedAll(a) /\ saved' = d /\ revoking' = rows

SwitchBegins == switches < MaxSwitches /\ switches' = switches + 1

\* set_participation (learning.py 1443-1461).  A repeated request returns at once.
SetParticipation(enabled) ==
    LET a == [auth EXCEPT !.auto = enabled, !.consent = @ \/ enabled]
        d == [saved EXCEPT !.auto = enabled, !.consent = @ \/ enabled]
    IN  /\ enabled # auth.auto /\ SwitchBegins
        /\ \/ /\ SwitchEnds(a, d, IF auth.mode = "off" THEN "off" ELSE "shadow")
              /\ UNCHANGED halfDone
           \/ /\ WriteFails
              /\ \/ auth' = [auth EXCEPT !.auto = enabled] /\ saved' = saved
                 \/ auth' = a /\ saved' = [saved EXCEPT !.auto = enabled]
                 \/ auth' = a /\ saved' = d
              /\ halfDone' = TRUE /\ UNCHANGED revoking
        /\ UNCHANGED <<joins, restores>>

\* set_mode with Shadow or Off (learning.py 1463-1476, 1491-1496); by hand Shadow ends the
\* automatic policy, a changed risk mode, configuration or source does not (1419-1441).
SetMode(mode, preserve) ==
    LET ends == mode = "shadow" /\ auth.mode # "off" /\ ~preserve /\ auth.auto
        a == IF ends THEN [auth EXCEPT !.auto = FALSE] ELSE auth
        d == IF ends THEN [saved EXCEPT !.auto = FALSE] ELSE saved
    IN  /\ SwitchBegins
        /\ preserve => auth.mode = "active"
        /\ \/ /\ auth.mode = "active" /\ SwitchEnds(a, d, mode) /\ UNCHANGED halfDone
           \/ /\ auth.mode # "active"
              /\ auth' = [a EXCEPT !.mode = mode] /\ saved' = [d EXCEPT !.mode = mode]
              /\ UNCHANGED <<revoking, authorityErrors, halfDone>>
           \/ /\ WriteFails /\ ends
              /\ auth' = a /\ saved' \in {saved, d}
              /\ halfDone' = TRUE /\ UNCHANGED revoking
        /\ UNCHANGED <<joins, restores>>

\* set_mode with Active (learning.py 1464-1481).
SetActive ==
    /\ ~auth.auto /\ MayJoin(1) /\ SwitchBegins
    /\ Grants(saved, 1, FALSE, TRUE)
    /\ UNCHANGED <<restores, halfDone>>

\* The first skill that fails the new policy and its downstream (learning.py 1043-1071).
Uncovered(k) ==
    IF k = 0 THEN auth
    ELSE [Removed(auth, k) EXCEPT !.st[k].susp = auth.act[k], !.st[k].why = "coverage"]

\* A stricter policy closes the open trials (learning.py 1022-1042).
Closed(row, stricter) ==
    IF stricter /\ row.trial.status \in {"collecting", "passed"}
    THEN [row EXCEPT !.trial.status = "policy_changed"] ELSE row

\* What the new policy leaves (learning.py 1084-1090).
Covered(r, stricter) ==
    [r EXCEPT !.st = [j \in Skills |-> Closed(r.st[j], stricter)],
              !.mode = IF r.mode = "active" /\ Active(r) = {} THEN "shadow" ELSE r.mode]

\* set_coverage_policy (learning.py 996-1118): one transaction, visible only once it succeeds.
SetCoverage ==
    \E k \in Active(auth) \cup {0}, stricter \in BOOLEAN :
        LET a == Covered(Uncovered(k), stricter)
        IN  /\ SwitchBegins /\ revoking' = {}
            /\ \/ /\ auth' = a
                  /\ saved' = Stored(Retried(saved), a, {j \in Skills : a.st[j] # auth.st[j]})
                  /\ UNCHANGED authorityErrors
               \/ WriteFails /\ UNCHANGED auth /\ saved' = Retried(saved)
            /\ UNCHANGED <<joins, restores, halfDone>>

-----------------------------------------------------------------------------
(* Restart *)

\* Mutant: a restart takes the saved map as it is.
RestoredAsSaved(d, unusable) == [k \in Skills |-> d.act[k]]

\* _restore_active_skill_versions (learning.py 6760-6817): in order, until one fails;
\* by hand the entry is the root.
RestoredMap(d, unusable) ==
    LET fits(k) == /\ k \notin unusable
                   /\ d.act[k] = d.st[k].champ /\ d.act[k] = d.st[k].active
                   /\ d.st[k].susp # d.act[k]
                   /\ Independent(d, d.act[k]) => ValidProof(d, k, Upstream(d, k))
                   /\ \A j \in Skills : d.st[k].deps[j][1] # 0
                        => d.act[j] = d.st[k].deps[j][1]
        kept(k) == d.act[k] # 0 /\ \A j \in 1..k : d.act[j] # 0 => fits(j)
    IN  [k \in Skills |-> IF kept(k) /\ d.mode = "active" /\ (d.auto \/ kept(1)) THEN d.act[k] ELSE 0]

AuthorityRestarts ==
    /\ restores < MaxRestores /\ restores' = restores + 1
    /\ \E unusable \in {{}} \cup {{k} : k \in Skills} :
        LET map == RestoredMap(saved, unusable)
        IN  auth' = [saved EXCEPT !.act = map,
                        !.st = [k \in Skills |->
                                IF saved.mode = "active" /\ map[k] # saved.st[k].active
                                THEN [saved.st[k] EXCEPT !.active = 0, !.deps = NoDeps]
                                ELSE saved.st[k]]]
    /\ saved' = [auth' EXCEPT !.act = IF saved.mode = "active" THEN @ ELSE saved.act]
    /\ revoking' = {} /\ halfDone' = FALSE
    /\ UNCHANGED <<joins, switches, authorityErrors>>

AuthorityNext ==
    \/ \E k \in Skills : \/ GovernSuspends(k) \/ GovernActivates(k)
                         \/ TrialStarts(k) \/ TrialEnds(k) \/ CrownChanges(k)
    \/ GovernRests
    \/ \E enabled \in BOOLEAN : SetParticipation(enabled)
    \/ \E mode \in {"shadow", "off"} : SetMode(mode, FALSE)
    \/ SetMode("shadow", TRUE)
    \/ SetActive \/ SetCoverage \/ AuthorityRestarts

AuthoritySpec == AuthorityInit /\ [][AuthorityNext]_authorityVars

-----------------------------------------------------------------------------
(* Properties *)

\* The variables have the types the code gives them.
AuthorityTypeOK ==
    \A a \in {auth, saved} :
        /\ a.act \in [Skills -> 0..MaxCrowns] /\ a.mode \in {"off", "shadow", "active"}
        /\ \A k \in Skills : /\ {a.st[k].champ, a.st[k].active, a.st[k].susp} \subseteq 0..MaxCrowns
                             /\ a.st[k].joined \in 0..MaxJoins

\* A skill acts only beside the very upstream skills it joined with: no activation,
\* promotion, suspension, switch, failed write or restart leaves it in another
\* composition (learning.py 6315-6342, 6781-6788, 7163-7181).
CompositionProven ==
    \A k \in Active(auth) : auth.st[k].active = auth.act[k] /\ auth.st[k].deps = Upstream(auth, k)

\* Without the automatic policy nothing acts without the entry skill, unless a switch
\* of the policy failed half way (learning.py 6802-6805, 7185-7186).
EntryIsRoot ==
    ~auth.auto /\ Active(auth) # {} => auth.act[1] # 0 \/ halfDone

\* A revocation that is not on disk is remembered until it is: otherwise a restart restores
\* nothing that is not active now, and all of it unless a champion that was crowned since waits
\* to replace an active one; every suspension is known to it (learning.py 6731-6741, 6756,
\* 6789, 7177-7189).
AuthorityDurable ==
    revoking = {} /\ ~halfDone =>
        /\ \A k \in Skills : RestoredMap(saved, {})[k] \in {0, auth.act[k]}
        /\ (\A k \in Active(auth) : auth.st[k].champ = auth.act[k])
              => RestoredMap(saved, {}) = auth.act
        /\ \A k \in Skills : saved.st[k].susp = auth.st[k].susp

\* A suspended champion acts again only after its one trial passed beside the skills now
\* active; no restart, switch or crown elsewhere revives it (learning.py 6436-6444, 6558-6565).
RecoveryEarned ==
    [][\A k \in Skills :
        /\ saved.st[k].susp # 0 /\ auth.st[k].susp = saved.st[k].susp
        /\ auth'.act[k] = auth.st[k].susp /\ auth.act[k] # auth'.act[k]
        => auth.st[k].trial = [status |-> "passed", deps |-> Upstream(auth, k)]]_authorityVars

\* A skill acts only in the composition it was proved in, durably: no order of crowns, joins,
\* suspensions, switches, failed writes and restarts grants more than evidence did
\* (learning.py 6224-6830, 7155-7406).
AuthorityIsProven ==
    /\ []AuthorityTypeOK
    /\ []EntryIsRoot
    /\ []CompositionProven
    /\ []AuthorityDurable
    /\ RecoveryEarned
=============================================================================
