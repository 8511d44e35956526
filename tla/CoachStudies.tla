----------------------------- MODULE CoachStudies -----------------------------
(***************************************************************************)
(* The AI Coach's forward studies (coach.py 143-779, 1374-1580) and their  *)
(* rows in the database (database.py 2757-2799, 3523-3908).                *)
(*                                                                         *)
(* Two actors work on the studies.  The coach task evaluates the studies   *)
(* under test, one database read and one compare-and-swap each, then looks *)
(* for a free context, asks the local model for one idea and saves it as a *)
(* new study.  The heartbeat hands a supported study to the learning       *)
(* engine, under the event lock.  Meanwhile the engine records policy      *)
(* episodes, retention deletes old finished ones, the context (risk mode,  *)
(* configuration, active skills) moves, and the process may crash.         *)
(*                                                                         *)
(* A policy episode is its number in (created_at, id) order.  The bounds   *)
(* on the measured uplift and the age of a study are left open, and so are *)
(* the owner's switches, can_run(), the back-off after a failed answer and *)
(* the outcomes a review waits for: a tick or a hand-off may just end, or  *)
(* not happen.  The reviews and the display limits of 25 reviews and 100   *)
(* studies are left out.                                                   *)
(***************************************************************************)
EXTENDS Integers, FiniteSets, FiniteSetsExt, Functions

CONSTANTS
    Contexts,           \* provenance contexts a study can belong to
    Page,               \* coach_policy_page limit (64)
    MinSamples,         \* COACH_MINIMUM_FORWARD_SAMPLES
    RejectSamples,      \* COACH_REJECTION_SAMPLES
    MaxObserved,        \* COACH_MAXIMUM_FORWARD_OBSERVED
    Availability,       \* minimum_availability_fraction, in percent
    KeepComplete,       \* retention: finished episodes kept
    MaxStudies, MaxEpisodes, MaxContextMoves, MaxCoachRestarts   \* bounds

ASSUME CoachAssumption ==
    /\ {Page, MinSamples, RejectSamples, MaxObserved} \subseteq Nat \ {0}
    /\ {Availability, KeepComplete, MaxStudies, MaxEpisodes} \subseteq Nat

Studies == 1..MaxStudies
Episodes == 1..MaxEpisodes
States == {"testing", "promising", "not_supported", "inconclusive"}
Contributions == {"research_only", "ready", "waiting", "handed_off", "stale"}

VARIABLES
    context,            \* the engine's current context
    episodes,           \* policy episodes: context and status, in creation order
    prunedThrough,      \* setting coach_policy_pruned_through
    stored,             \* table coach_hypotheses
    known,              \* self.hypotheses
    coach,              \* the coach task: step and locals
    beat,               \* the heartbeat's hand-off: step and locals
    seeded,             \* studies with a registered candidate artifact
    contextMoves, coachRestarts

coachVars == <<context, episodes, prunedThrough, stored, known, coach, beat, seeded,
               contextMoves, coachRestarts>>

NoStudy == [state |-> "none"]
CoachIdle == [at |-> "idle"]

CoachInit ==
    /\ context \in Contexts
    /\ episodes = [e \in Episodes |-> [of |-> context, status |-> "none"]]
    /\ prunedThrough = 0
    /\ stored = [s \in Studies |-> NoStudy] /\ known = stored
    /\ coach = CoachIdle /\ beat = CoachIdle /\ seeded = {}
    /\ contextMoves = 0 /\ coachRestarts = 0

Is(s, state) == s.state = state
Present == {e \in Episodes : episodes[e].status \notin {"none", "pruned"}}
Created == {e \in Episodes : episodes[e].status # "none"}
Newest(S) == IF S = {} THEN 0 ELSE Max(S)

(***************************************************************************)
(* What one evaluation makes of a study (coach.py 1374-1580).              *)
(***************************************************************************)

\* The rows after the cursor, none once the study is full (database.py 3757-3762).
PageRows(s) ==
    LET after == {e \in Present : e > s.cursor}
    IN  IF Cardinality(s.enrolled) >= MaxObserved THEN {}
        ELSE {e \in after : Cardinality({f \in after : f < e}) < Page}

\* The rows of the page that the study takes in, in order and up to its size.
Enrolls(s) ==
    LET own == {e \in PageRows(s) : episodes[e].of = s.context}
    IN  {e \in own : Cardinality(s.enrolled) + Cardinality({f \in own : f < e}) < MaxObserved}

\* Mutant: a later outcome counts although an earlier one is still open.
ResolvedOf(enrolled, open) == enrolled \ open

\* Only a chronological resolved prefix may qualify.
Prefix(enrolled, open) == {e \in enrolled : \A f \in open : e < f}

\* The verdicts the counted evidence allows; an aged study may always end inconclusive.
Verdicts(counted, usable) ==
    LET u == Cardinality(usable \cap counted)
        o == Cardinality(counted)
    IN  {v \in States :
            /\ v = "promising" => u >= MinSamples /\ 100 * u >= Availability * o
            /\ v = "not_supported" => u >= RejectSamples
            /\ v = "testing" => o < MaxObserved}

\* What a finished study is still asked for: its verdict, the evidence counted and its hand-off.
Finish(s, verdict, counted) ==
    [s EXCEPT !.state = verdict, !.enrolled = {}, !.open = {}, !.usable = {}, !.cursor = 0,
              !.counted = IF verdict = "inconclusive" THEN {} ELSE counted,
              !.contribution = IF verdict = "promising" THEN "ready" ELSE @]

Evaluated(s) ==
    LET enrolled == s.enrolled \cup Enrolls(s)
        open     == s.open \cup Enrolls(s)
        waiting  == {e \in open : episodes[e].status = "pending"}
        usable   == s.usable \cup {e \in open : episodes[e].status = "known"}
        cursor   == Newest(PageRows(s) \cup {s.cursor})
        Judged(late) ==
            LET counted == Prefix(enrolled, waiting \ late)
            IN  {IF v = "testing"
                 THEN [s EXCEPT !.enrolled = enrolled, !.open = waiting \ late, !.usable = usable,
                                !.counted = counted, !.cursor = cursor]
                 ELSE Finish(s, v, counted) : v \in Verdicts(counted, usable)}
    IN  IF prunedThrough > s.cursor /\ Cardinality(s.enrolled) < MaxObserved
        THEN {Finish(s, "inconclusive", {})}
        ELSE UNION {Judged(late) : late \in SUBSET waiting}

(***************************************************************************)
(* The coach task.                                                         *)
(***************************************************************************)

\* A tick begins: the studies under test in memory, and those only the work page holds.
BeginTick ==
    /\ coach.at = "idle"
    /\ LET seen(i) == IF known[i] = NoStudy THEN stored[i] ELSE known[i]
       IN  coach' = [at |-> "refresh",
                     todo |-> [i \in {j \in Studies : Is(seen(j), "testing")} |-> seen(i)]]
    /\ UNCHANGED <<context, episodes, prunedThrough, stored, known, beat, seeded, contextMoves,
                   coachRestarts>>

\* One study is read in one snapshot and evaluated; an unchanged one needs no write.
Evaluate(i) ==
    /\ coach.at = "refresh" /\ i \in DOMAIN coach.todo
    /\ LET rest == RestrictDomain(coach.todo, LAMBDA j : j # i)
       IN  \E updated \in Evaluated(coach.todo[i]) :
              coach' = IF updated = coach.todo[i] THEN [coach EXCEPT !.todo = rest]
                       ELSE [at |-> "evaluated", todo |-> rest, study |-> i,
                             expected |-> coach.todo[i], updated |-> updated]
    /\ UNCHANGED <<context, episodes, prunedThrough, stored, known, beat, seeded, contextMoves,
                   coachRestarts>>

\* save_coach_hypothesis_if_current: a changed row is kept and read back.
Swapped(i, expected, updated) == IF stored[i] = expected THEN updated ELSE stored[i]

SaveEvaluation ==
    /\ coach.at = "evaluated"
    /\ LET i == coach.study
           now == Swapped(i, coach.expected, coach.updated)
       IN  /\ stored' = [stored EXCEPT ![i] = now]
           /\ coach' = [coach EXCEPT !.at = "saved", !.updated = now]
    /\ UNCHANGED <<context, episodes, prunedThrough, known, beat, seeded,
                   contextMoves, coachRestarts>>

\* Mutant: the evaluation overwrites whatever memory holds by now.
Overwritten(i, expected, updated) == updated

\* _remember_hypothesis: a copy that changed since is left alone.
RememberedStudy(i, expected, updated) ==
    IF known[i] # NoStudy /\ known[i] # expected THEN known[i] ELSE updated

RememberEvaluation ==
    /\ coach.at = "saved"
    /\ LET i == coach.study
       IN  known' = [known EXCEPT ![i] = RememberedStudy(i, coach.expected, coach.updated)]
    /\ coach' = [at |-> "refresh", todo |-> coach.todo]
    /\ UNCHANGED <<context, episodes, prunedThrough, stored, beat, seeded,
                   contextMoves, coachRestarts>>

\* pause(): the owner paused research, the context moved or time ran out.
DeferTick ==
    /\ coach.at \in {"refresh", "evaluated"}
    /\ coach' = CoachIdle
    /\ UNCHANGED <<context, episodes, prunedThrough, stored, known, beat, seeded, contextMoves,
                   coachRestarts>>

\* The context is read after the refresh; the lookup below runs in a thread.
EndRefresh ==
    /\ coach.at = "refresh" /\ DOMAIN coach.todo = {}
    /\ coach' = [at |-> "lookup", context |-> context]
    /\ UNCHANGED <<context, episodes, prunedThrough, stored, known, beat, seeded, contextMoves,
                   coachRestarts>>

\* _active_hypothesis: a stored study of that context under test.
ActiveStudy(c) == \E i \in Studies : Is(stored[i], "testing") /\ stored[i].context = c

\* The lookup returns: the tick ends unless the slot is free and the context is still the one
\* looked up, then evidence is screened and the model asked.
LookUp ==
    /\ coach.at = "lookup"
    /\ coach' = IF ActiveStudy(coach.context) \/ context # coach.context THEN CoachIdle
                ELSE [coach EXCEPT !.at = "infer"]
    /\ UNCHANGED <<context, episodes, prunedThrough, stored, known, beat, seeded, contextMoves,
                   coachRestarts>>

\* The model's answer: nothing usable, or an idea whose study starts after every episode so far.
Answer ==
    /\ coach.at = "infer"
    /\ \/ /\ context = coach.context
          /\ coach' = [at |-> "select", context |-> coach.context, cut |-> Newest(Created)]
       \/ coach' = CoachIdle
    /\ UNCHANGED <<context, episodes, prunedThrough, stored, known, beat, seeded, contextMoves,
                   coachRestarts>>

\* Mutant: the study is filed under the context the engine has when it is saved.
FiledNow(c, cut) ==
    [state |-> "testing", context |-> context, contribution |-> "research_only", cut |-> cut,
     cursor |-> cut, enrolled |-> {}, open |-> {}, usable |-> {}, counted |-> {}]

NewStudy(c, cut) ==
    [state |-> "testing", context |-> c, contribution |-> "research_only", cut |-> cut,
     cursor |-> cut, enrolled |-> {}, open |-> {}, usable |-> {}, counted |-> {}]

\* save_coach_selection, in a thread; the signature is new to the context.
SaveSelection(i) ==
    /\ coach.at = "select" /\ stored[i] = NoStudy /\ \A j \in 1..(i - 1) : stored[j] # NoStudy
    /\ LET study == NewStudy(coach.context, coach.cut)
       IN  /\ stored' = [stored EXCEPT ![i] = study]
           /\ coach' = [at |-> "selected", study |-> i, updated |-> study]
    /\ UNCHANGED <<context, episodes, prunedThrough, known, beat, seeded,
                   contextMoves, coachRestarts>>

RememberSelection ==
    /\ coach.at = "selected"
    /\ known' = [known EXCEPT ![coach.study] = coach.updated]
    /\ coach' = CoachIdle
    /\ UNCHANGED <<context, episodes, prunedThrough, stored, beat, seeded,
                   contextMoves, coachRestarts>>

(***************************************************************************)
(* The heartbeat's hand-off (orchestrator.py 7548-7566), one step per      *)
(* write or read the coach task can interleave with.                       *)
(***************************************************************************)

\* ready_contribution: the stored study is remembered whatever memory held.
ReadyContribution(i) ==
    /\ beat.at = "idle"
    /\ Is(stored[i], "promising") /\ stored[i].context = context
    /\ stored[i].contribution \in {"ready", "waiting"}
    /\ known' = [known EXCEPT ![i] = stored[i]]
    /\ beat' = [at |-> "seed", study |-> i]
    /\ UNCHANGED <<context, episodes, prunedThrough, stored, coach, seeded,
                   contextMoves, coachRestarts>>

\* Mutant: the study counts as handed off although its artifact was not registered.
MarkedOnly(i, result) == seeded

\* The artifact's version is derived from the study, so a repeated hand-off finds it.
Registered(i, result) == IF result = "handed_off" THEN seeded \cup {i} ELSE seeded

\* seed_coach_candidate: registered, no champion to challenge, or refused; the context cannot move
\* under the event lock.
SeedCandidate ==
    /\ beat.at = "seed"
    /\ \E result \in {"handed_off", "waiting", "stale"} :
          /\ seeded' = Registered(beat.study, result)
          /\ beat' = [at |-> "mark", study |-> beat.study, result |-> result]
    /\ UNCHANGED <<context, episodes, prunedThrough, stored, known, coach, contextMoves,
                   coachRestarts>>

\* mark_contribution reads the remembered study and swaps the stored one.
MarkContribution ==
    /\ beat.at = "mark"
    /\ LET i == beat.study
           expected == known[i]
           updated == [expected EXCEPT !.contribution = beat.result]
           now == Swapped(i, expected, updated)
       IN  IF Is(expected, "promising") /\ expected.contribution \notin {"handed_off", "stale"}
           THEN /\ stored' = [stored EXCEPT ![i] = now]
                /\ beat' = [at |-> "marked", study |-> i, expected |-> expected, updated |-> now]
           ELSE beat' = CoachIdle /\ UNCHANGED stored
    /\ UNCHANGED <<context, episodes, prunedThrough, known, coach, seeded,
                   contextMoves, coachRestarts>>

RememberMark ==
    /\ beat.at = "marked"
    /\ known' = [known EXCEPT ![beat.study] =
                     RememberedStudy(beat.study, beat.expected, beat.updated)]
    /\ beat' = CoachIdle
    /\ UNCHANGED <<context, episodes, prunedThrough, stored, coach, seeded,
                   contextMoves, coachRestarts>>

(***************************************************************************)
(* The engine, the owner and the process around them.                      *)
(***************************************************************************)

RecordEpisode(e) ==
    /\ beat.at = "idle" /\ episodes[e].status = "none" /\ \A f \in 1..(e - 1) : f \in Created
    /\ episodes' = [episodes EXCEPT ![e] = [of |-> context, status |-> "pending"]]
    /\ UNCHANGED <<context, prunedThrough, stored, known, coach, beat, seeded,
                   contextMoves, coachRestarts>>

FinishEpisode(e) ==
    /\ beat.at = "idle" /\ episodes[e].status = "pending"
    /\ \E status \in {"known", "unavailable"} :
          episodes' = [episodes EXCEPT ![e].status = status]
    /\ UNCHANGED <<context, prunedThrough, stored, known, coach, beat, seeded,
                   contextMoves, coachRestarts>>

FinishedEpisodes == {e \in Episodes : episodes[e].status \in {"known", "unavailable"}}
Surplus == {e \in FinishedEpisodes : Cardinality({f \in FinishedEpisodes : f > e}) >= KeepComplete}

\* Mutant: the rows are deleted and the watermark is left where it was.
WatermarkKept(removed) == prunedThrough

\* The watermark commits with the deletions.
Watermark(removed) == Max(removed \cup {prunedThrough})

\* prune_learning_evidence: the oldest finished episodes beyond the limit go, pending ones stay.
PruneEvidence ==
    /\ beat.at = "idle" /\ Surplus # {}
    /\ episodes' = [e \in Episodes |->
                       IF e \in Surplus THEN [episodes[e] EXCEPT !.status = "pruned"]
                       ELSE episodes[e]]
    /\ prunedThrough' = Watermark(Surplus)
    /\ UNCHANGED <<context, stored, known, coach, beat, seeded, contextMoves,
                   coachRestarts>>

MoveContext(c) ==
    /\ beat.at = "idle" /\ c # context /\ contextMoves < MaxContextMoves
    /\ context' = c /\ contextMoves' = contextMoves + 1
    /\ UNCHANGED <<episodes, prunedThrough, stored, known, coach, beat, seeded,
                   coachRestarts>>

\* The process dies and loads the studies again.
CoachRestart ==
    /\ coachRestarts < MaxCoachRestarts
    /\ coachRestarts' = coachRestarts + 1
    /\ known' = stored /\ coach' = CoachIdle /\ beat' = CoachIdle
    /\ UNCHANGED <<context, episodes, prunedThrough, stored, seeded, contextMoves>>

CoachNext ==
    \/ BeginTick \/ SaveEvaluation \/ RememberEvaluation \/ DeferTick \/ EndRefresh \/ LookUp
    \/ Answer \/ RememberSelection
    \/ SeedCandidate \/ MarkContribution \/ RememberMark
    \/ PruneEvidence \/ CoachRestart
    \/ \E i \in Studies : Evaluate(i) \/ SaveSelection(i) \/ ReadyContribution(i)
    \/ \E e \in Episodes : RecordEpisode(e) \/ FinishEpisode(e)
    \/ \E c \in Contexts : MoveContext(c)

CoachSpec == CoachInit /\ [][CoachNext]_coachVars

(***************************************************************************)
(* Properties.                                                             *)
(***************************************************************************)

StudyRecords ==
    {NoStudy} \cup
    [state : States, context : Contexts, contribution : Contributions, cut : 0..MaxEpisodes,
     cursor : 0..MaxEpisodes, enrolled : SUBSET Episodes, open : SUBSET Episodes,
     usable : SUBSET Episodes, counted : SUBSET Episodes]

\* A study row and its remembered copy are whole records, never larger than the study's limit.
CoachTypeOK ==
    /\ context \in Contexts /\ seeded \subseteq Studies
    /\ \A i \in Studies :
          /\ {stored[i], known[i]} \subseteq StudyRecords
          /\ stored[i] # NoStudy => Cardinality(stored[i].enrolled) <= MaxObserved

\* "Frees the context slot" (coach.py 581-582): at most one study of a context is under test,
\* although the slot is looked up in a thread, the idea is asked for afterwards and the context
\* may move, and move back, before the study is saved (coach.py 306-325, 443-449).
OneStudyPerContext ==
    \A i, j \in Studies :
        i # j /\ Is(stored[i], "testing") /\ Is(stored[j], "testing")
        => stored[i].context # stored[j].context

\* A verdict rests on every policy episode of its context between the study's start and the last
\* one it counts: none is skipped because it was still open when a later one finished, and none
\* because retention removed it first (coach.py 1391-1400, 1488-1496; database.py 2774-2790).
VerdictIsWhole ==
    \A i \in Studies : stored[i].state \in {"promising", "not_supported"} =>
        stored[i].counted =
            {e \in Created : /\ episodes[e].of = stored[i].context
                             /\ stored[i].cut < e /\ e <= Newest(stored[i].counted)}

\* Once neither actor is between a write and its memory copy, the remembered studies are the
\* stored ones: an evaluation that ends after a hand-off does not hide it (coach.py 620-636).
StudiesRemembered ==
    coach.at \in {"idle", "lookup", "infer", "select"} /\ beat.at = "idle"
    => known = stored

\* A study marked as handed off has its candidate in the tournament, and only a supported study
\* has one, across a crash between the two writes (orchestrator.py 7554-7566).
HandedOffIsSeeded ==
    \A i \in Studies :
        /\ stored[i] # NoStudy /\ stored[i].contribution = "handed_off" => i \in seeded
        /\ i \in seeded => Is(stored[i], "promising")

\* With the coach task, the heartbeat, retention and a moving context at work on the same
\* studies, each context has one open study, each verdict counts all its episodes, and memory,
\* database and tournament agree on what was handed off (coach.py 143-779, 1374-1580).
StudiesAreSound ==
    /\ CoachTypeOK
    /\ OneStudyPerContext
    /\ VerdictIsWhole
    /\ StudiesRemembered
    /\ HandedOffIsSeeded
=============================================================================
