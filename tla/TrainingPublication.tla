------------------------- MODULE TrainingPublication -------------------------
(***************************************************************************)
(* Training off the event lock and the tournament its results enter        *)
(* (learning.py 864-886, 1120-1378, 5497-5792, 5950-6222, 7677-8064;       *)
(* orchestrator.py 1668-1784, 2150-2229; training_job.py).                 *)
(*                                                                         *)
(* A request names a cohort.  The trainer pops it and freezes the inputs   *)
(* under the event lock, fits without the lock, and comes back to publish: *)
(* meanwhile the cohort, the policy, the season or the tournament may have *)
(* moved on.  The candidate, its enrolment and the next tournament are     *)
(* written in more than one transaction; any write may fail and the        *)
(* process may stop between two of them.                                   *)
(***************************************************************************)
EXTENDS Integers, FiniteSets

CONSTANTS
    Cohorts,        \* the (risk mode, configuration) pairs of requests
    Own,            \* the cohort whose tournament is modelled
    MaxArtifacts,   \* MAX_MODEL_VERSIONS: artifacts kept beside the referenced ones
    MaxVersions,    \* bound: artifacts made
    MaxOutcomes,    \* bound: completed outcomes
    MaxMoves,       \* bound: changes of the context
    MaxStops,       \* bound: process restarts
    MaxWriteErrors, \* bound: failed writes
    NoCohort        \* no training active

ASSUME TrainingAssumption ==
    Own \in Cohorts /\ NoCohort \notin Cohorts /\ MaxArtifacts \in Nat \ {0}

None == <<"none", 0>>
Native(n) == <<"native", n>>
Coach(n) == <<"coach", n>>

VARIABLES
    cohort,         \* the current cohort
    epoch,          \* the rest of the context: policy, mode, season, learner
    requests,       \* _training_requests
    active,         \* _training_active
    trainer,        \* the trainer loop: [pc, key, frozen, late]
    due,            \* cohorts with enough outcomes since their last model
    mem, disk,      \* [arts, pending, testing, champion, rejected, latest] of Own
    versions, outcomes, moves, stops, writeErrors,
    abandoned,      \* history: cohorts whose job was discarded under another cohort
    unsaved         \* history: a tournament step is in memory only

trainingVars == <<cohort, epoch, requests, active, trainer, due, mem, disk, versions, outcomes,
                  moves, stops, writeErrors, abandoned, unsaved>>

Idle == [pc |-> "idle", key |-> NoCohort, frozen |-> <<>>, late |-> FALSE]
Fresh == [arts |-> {}, pending |-> {}, testing |-> None, champion |-> None, rejected |-> {},
          latest |-> None]

\* _training_authority_context and _training_runtime_context (learning.py 1120-1144,
\* orchestrator.py 1730-1731): the state of the tournament is part of it.
Context == <<cohort, epoch, mem.champion, mem.testing>>

TrainingInit ==
    /\ cohort = Own /\ epoch = 0 /\ requests = {cohort} /\ active = NoCohort
    /\ trainer = Idle /\ due = {} /\ mem = Fresh /\ disk = Fresh
    /\ versions = 0 /\ outcomes = 0 /\ moves = 0 /\ stops = 0 /\ writeErrors = 0
    /\ abandoned = {} /\ unsaved = FALSE

References(s) == s.pending \cup ({s.testing, s.champion, s.latest} \ {None})

-----------------------------------------------------------------------------
(* The tournament *)

Oldest(s) == CHOOSE v \in s : \A w \in s : v[2] <= w[2]

\* Mutant: the contender that waited longest is crowned at once.
CrownsNext(s) ==
    IF s.testing # None \/ s.pending = {} THEN s
    ELSE [s EXCEPT !.champion = Oldest(s.pending), !.pending = @ \ {Oldest(s.pending)}]

\* _start_next_skill_tournament (learning.py 5705-5792) with _preferred_pending_version
\* (5623-5703): the first champion is the founder, the next one waiting is tested.
StartNext(s) ==
    IF s.testing # None \/ s.pending = {} THEN s
    ELSE LET founder == Oldest(s.pending)
             crowned == IF s.champion # None THEN s
                        ELSE [s EXCEPT !.champion = founder, !.pending = @ \ {founder}]
         IN  IF crowned.pending = {} THEN crowned
             ELSE [crowned EXCEPT !.testing = Oldest(crowned.pending),
                                  !.pending = @ \ {Oldest(crowned.pending)}]

\* _register_skill_artifact (learning.py 5497-5570): one native and one Coach candidate wait.
Register(s, v) ==
    [s EXCEPT !.arts = @ \cup {v}, !.latest = v,
              !.pending = {w \in @ : w[1] # v[1]} \cup {v}]

\* Mutant: the prune protects what is waiting or being tested, not the crown.
KeepsContenders(s) ==
    {v \in s.arts : \/ v \in s.pending \cup {s.testing}
                    \/ Cardinality({w \in s.arts : w[2] > v[2]}) < MaxArtifacts}

\* _prune_model_history (learning.py 8025-8064): the newest and the referenced ones stay.
Kept(s) ==
    {v \in s.arts : \/ v \in References(s)
                    \/ Cardinality({w \in s.arts : w[2] > v[2]}) < MaxArtifacts}

\* _advance_entry_tournaments (learning.py 5950-6222): the contender is promoted,
\* or rejected (defended, inconclusive, stale or unavailable); the next one starts.
Settled(s, promoted) ==
    StartNext(IF promoted THEN [s EXCEPT !.champion = s.testing, !.testing = None]
              ELSE [s EXCEPT !.rejected = @ \cup {s.testing}, !.testing = None])

TournamentSettles ==
    /\ cohort = Own /\ mem.testing # None
    /\ \E promoted \in BOOLEAN :
        /\ mem' = Settled(mem, promoted)
        /\ \/ /\ disk' = [mem' EXCEPT !.arts = disk.arts]
              /\ unsaved' = FALSE /\ UNCHANGED writeErrors
           \/ /\ writeErrors < MaxWriteErrors /\ writeErrors' = writeErrors + 1
              /\ unsaved' = TRUE /\ UNCHANGED disk
    /\ UNCHANGED <<cohort, epoch, requests, active, trainer, due, versions, outcomes, moves,
                   stops, abandoned>>

\* seed_coach_candidate (learning.py 5794-5897): registered and started at once.
SeedCoach ==
    /\ cohort = Own /\ mem.champion # None /\ versions < MaxVersions
    /\ versions' = versions + 1
    /\ mem' = StartNext(Register(mem, Coach(versions')))
    /\ disk' = [mem' EXCEPT !.arts = disk.arts \cup {Coach(versions')}]
    /\ unsaved' = FALSE
    /\ UNCHANGED <<cohort, epoch, requests, active, trainer, due, outcomes, moves, stops,
                   writeErrors, abandoned>>

-----------------------------------------------------------------------------
(* The trainer *)

\* An outcome completes (learning.py 2022-2045): the cohort may be due, and is requested.
OutcomeCompletes(c) ==
    /\ outcomes < MaxOutcomes /\ outcomes' = outcomes + 1
    /\ due' \in {due, due \cup {c}}
    /\ requests' = requests \cup {c}
    /\ abandoned' = abandoned \ {c}
    /\ UNCHANGED <<cohort, epoch, active, trainer, mem, disk, versions, moves, stops,
                   writeErrors, unsaved>>

\* prepare_next_training under the event lock (learning.py 1146-1237, orchestrator.py
\* 2150-2190): a request that is not due is dropped, a failed preparation is put back.
Prepare(c) ==
    /\ trainer.pc = "idle" /\ active = NoCohort /\ c \in requests
    /\ \/ /\ c \in due
          /\ requests' = requests \ {c} /\ active' = c
          /\ trainer' = [pc |-> "fit", key |-> c, frozen |-> Context, late |-> FALSE]
       \/ /\ c \notin due
          /\ requests' = requests \ {c} /\ UNCHANGED <<active, trainer>>
    /\ UNCHANGED <<cohort, epoch, due, mem, disk, versions, outcomes, moves, stops, writeErrors,
                   abandoned, unsaved>>

\* The fit returns, or fails and is put back through finish_training_job
\* (learning.py 1240-1268, 1341-1346; orchestrator.py 2191-2196).
FitEnds ==
    /\ trainer.pc = "fit"
    /\ \/ trainer' = [trainer EXCEPT !.pc = "publish"] /\ UNCHANGED <<requests, active>>
       \/ trainer' = Idle /\ active' = NoCohort /\ requests' = requests \cup {trainer.key}
    /\ UNCHANGED <<cohort, epoch, due, mem, disk, versions, outcomes, moves, stops, writeErrors,
                   abandoned, unsaved>>

\* The job passes its age limit (learning.py 1275).
JobAges ==
    /\ trainer.pc # "idle" /\ ~trainer.late
    /\ trainer' = [trainer EXCEPT !.late = TRUE]
    /\ UNCHANGED <<cohort, epoch, requests, active, due, mem, disk, versions, outcomes, moves,
                   stops, writeErrors, abandoned, unsaved>>

\* Mutant: only the cohort, the policy and the season fence a job.
StaleCohort == trainer.late \/ trainer.frozen[1] # cohort \/ trainer.frozen[2] # epoch

\* training_job_stale (learning.py 1270-1276).
Stale == trainer.late \/ trainer.frozen # Context

\* Mutant: a discarded job is forgotten.
AfterDiscard == requests

\* A discarded job asks for the current cohort (learning.py 1297-1300).
RequestsAfterDiscard == requests \cup {cohort}

DiscardStale ==
    /\ trainer.pc = "publish" /\ Stale
    /\ requests' = RequestsAfterDiscard
    /\ abandoned' = IF trainer.key = cohort THEN abandoned ELSE abandoned \cup {trainer.key}
    /\ active' = NoCohort /\ trainer' = Idle
    /\ UNCHANGED <<cohort, epoch, due, mem, disk, versions, outcomes, moves, stops, writeErrors,
                   unsaved>>

\* A job without output (learning.py 1302-1307).
PublishNothing ==
    /\ trainer.pc = "publish" /\ ~Stale
    /\ due' = due \ {trainer.key}
    /\ active' = NoCohort /\ trainer' = Idle
    /\ UNCHANGED <<cohort, epoch, requests, mem, disk, versions, outcomes, moves, stops,
                   writeErrors, abandoned, unsaved>>

\* Mutant: the records become visible before the transaction commits.
VisibleOnFailure(registered) == registered

\* What readers see when the transaction fails: the old state (learning.py 1308-1333).
AfterRollback(registered) == mem

\* The publishing transaction fails: rolled back, and the request is put back
\* (learning.py 1315-1325, 1341-1346).
PublishFails ==
    /\ trainer.pc = "publish" /\ ~Stale
    /\ writeErrors < MaxWriteErrors /\ writeErrors' = writeErrors + 1
    /\ versions < MaxVersions /\ versions' = versions + 1
    /\ mem' = AfterRollback(Register(mem, Native(versions')))
    /\ requests' = requests \cup {trainer.key}
    /\ active' = NoCohort /\ trainer' = Idle
    /\ UNCHANGED <<cohort, epoch, due, disk, outcomes, moves, stops, abandoned, unsaved>>

\* finish_training_job (learning.py 1285-1367): artifact and enrolment commit together,
\* become visible, and the next tournament is started and saved in a second write,
\* which may fail (the request is put back) or be cut off by a crash (see StopsInPublication).
Publish ==
    /\ trainer.pc = "publish" /\ ~Stale /\ trainer.key = Own
    /\ versions < MaxVersions /\ versions' = versions + 1
    /\ LET enrolled == Register(mem, Native(versions'))
           started == StartNext(enrolled)
           durable == [enrolled EXCEPT !.arts = disk.arts \cup {Native(versions')}]
       IN  \/ /\ mem' = [started EXCEPT !.arts = Kept(started)]
              /\ disk' = [started EXCEPT !.arts = (durable.arts \ started.arts) \cup Kept(started)]
              /\ unsaved' = FALSE
              /\ UNCHANGED <<requests, writeErrors>>
           \/ /\ writeErrors < MaxWriteErrors /\ writeErrors' = writeErrors + 1
              /\ mem' = started /\ disk' = durable
              /\ requests' = requests \cup {trainer.key}
              /\ unsaved' = TRUE
    /\ due' = due \ {trainer.key}
    /\ active' = NoCohort /\ trainer' = Idle
    /\ UNCHANGED <<cohort, epoch, outcomes, moves, stops, abandoned>>

\* Mutant: a cancelled trainer leaves the job marked as active.
StillActive == active

\* release_unpublished_training_job (learning.py 1278-1283).
Released == NoCohort

\* The trainer task is cancelled with a job in hand (orchestrator.py 2214-2221).
TrainerCancelled ==
    /\ trainer.pc # "idle"
    /\ requests' = requests \cup {trainer.key}
    /\ active' = Released /\ trainer' = Idle
    /\ UNCHANGED <<cohort, epoch, due, mem, disk, versions, outcomes, moves, stops, writeErrors,
                   abandoned, unsaved>>

-----------------------------------------------------------------------------
(* The surroundings *)

\* The risk mode or configuration changes, or something else of the context does:
\* coverage, mode, participation, season, learner, demo (learning.py 1120-1144, 1419-1496).
ContextMoves ==
    /\ moves < MaxMoves /\ moves' = moves + 1
    /\ \/ cohort' \in Cohorts \ {cohort} /\ UNCHANGED epoch
       \/ epoch' = epoch + 1 /\ UNCHANGED cohort
    /\ UNCHANGED <<requests, active, trainer, due, mem, disk, versions, outcomes, stops,
                   writeErrors, abandoned, unsaved>>

\* The process restarts on what the database holds: waiting candidates whose artifact
\* is known are kept, the next tournament starts and is saved (learning.py 700-724),
\* and the current cohort is requested (orchestrator.py 974).
Restarted(stored) ==
    /\ mem' = LET waiting == [stored EXCEPT !.pending =
                                (@ \cap stored.arts) \ (stored.rejected \cup {stored.testing, stored.champion})]
              IN  IF cohort = Own THEN StartNext(waiting) ELSE stored
    /\ disk' = mem'
    /\ requests' = {cohort} /\ active' = NoCohort /\ trainer' = Idle
    /\ unsaved' = FALSE
    /\ abandoned' = abandoned \cup (due \ {cohort})

TrainingRestarts ==
    /\ stops < MaxStops /\ stops' = stops + 1
    /\ Restarted(disk)
    /\ UNCHANGED <<cohort, epoch, due, versions, outcomes, moves, writeErrors>>

\* A crash between the publishing transaction and the start of the tournament.
StopsInPublication ==
    /\ stops < MaxStops /\ stops' = stops + 1
    /\ trainer.pc = "publish" /\ ~Stale /\ trainer.key = Own
    /\ versions < MaxVersions /\ versions' = versions + 1
    /\ Restarted([Register(mem, Native(versions')) EXCEPT
                    !.arts = disk.arts \cup {Native(versions')}])
    /\ due' = due \ {trainer.key}
    /\ UNCHANGED <<cohort, epoch, outcomes, moves, writeErrors>>

TrainingNext ==
    \/ TournamentSettles \/ SeedCoach
    \/ \E c \in Cohorts : OutcomeCompletes(c) \/ Prepare(c)
    \/ FitEnds \/ JobAges \/ DiscardStale \/ PublishNothing \/ PublishFails \/ Publish
    \/ TrainerCancelled \/ ContextMoves \/ TrainingRestarts \/ StopsInPublication

TrainingSpec == TrainingInit /\ [][TrainingNext]_trainingVars

-----------------------------------------------------------------------------
(* Properties *)

\* The variables have the types the code gives them.
TrainingTypeOK ==
    /\ cohort \in Cohorts /\ requests \subseteq Cohorts /\ active \in Cohorts \cup {NoCohort}
    /\ trainer.pc \in {"idle", "fit", "publish"} /\ due \subseteq Cohorts
    /\ \A s \in {mem, disk} : /\ s.testing # None => s.champion # None
                              /\ Cardinality(s.pending) <= 2

\* Training counts as active exactly while the trainer holds a job: storage and the
\* next training wait for it (learning.py 1278-1283, 1347-1350; orchestrator.py 2214).
TrainingNotWedged ==
    active # NoCohort <=> trainer.pc # "idle"

\* Outcomes the current cohort has collected are never left without a training: a
\* request or a job exists, whatever failed, was cancelled or went stale, unless the
\* job was thrown away while another cohort was current (learning.py 1297-1300).
TrainingNotForgotten ==
    cohort \in due => cohort \in requests \/ active = cohort \/ cohort \in abandoned

\* Every artifact a tournament names is stored, in memory and on disk, across failed
\* writes, crashes and pruning (learning.py 1308-1336, 8025-8064).
CandidatesStored ==
    /\ References(mem) \subseteq disk.arts
    /\ mem.arts \subseteq disk.arts
    /\ ~unsaved => References(disk) \subseteq disk.arts

\* A fit is published only into the context it was prepared for: no reset, policy
\* change or finished tournament lies between (learning.py 1120-1144, 1270-1300).
PublishedIsCurrent ==
    [][\A v \in mem'.arts \ mem.arts : v[1] = "native" => trainer.frozen = Context]_trainingVars

\* The crown changes hands only by a won tournament, never by a publication, a
\* restart or a failed write, once there is a champion (learning.py 5705-5747, 6168-6172).
CrownIsEarned ==
    [][mem.champion \notin {None, mem'.champion}
        => mem'.champion \in {mem.testing, disk.champion}]_trainingVars

\* A private fit neither blocks later training nor is forgotten, enters only the context it was
\* made for, whole, and takes no crown by itself (learning.py 1120-1378, 5497-5792).
TrainingIsSound ==
    /\ []TrainingTypeOK
    /\ []TrainingNotWedged
    /\ []TrainingNotForgotten
    /\ []CandidatesStored
    /\ PublishedIsCurrent
    /\ CrownIsEarned
=============================================================================
