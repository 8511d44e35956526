-------------------------------- MODULE AiLab --------------------------------
(***************************************************************************)
(* The optional local AI critic (ai_lab.py 110-1116) with the parts of the *)
(* Ollama client it uses (providers/http.py 588-606, 668-730).             *)
(*                                                                         *)
(* In Shadow mode entries are queued and one worker asks the local model   *)
(* about each; in Guarded mode the event worker asks before it submits,    *)
(* and a veto is applied.  Every answer is saved and its outcome awaited:  *)
(* the save runs in a thread and the registration follows on the loop.     *)
(* Guarded mode is open only to a model whose saved assessments qualify    *)
(* it; the qualification is cached for the selected model and recomputed   *)
(* by a monitor thread.  Meanwhile the owner switches mode and model,      *)
(* downloads and removes models, the worker is cancelled, and an upgrade   *)
(* pauses the lab and waits until it is quiet.                             *)
(*                                                                         *)
(* Which saved evidence qualifies a model is left open (qualified), as are *)
(* clocks: a queued entry may be too old, an outcome may resolve or expire *)
(* at any time, a cached qualification may run out.  The configuration     *)
(* fingerprint does not change; the number of qualified gates, progress    *)
(* figures and the dashboard's copy are left out.                          *)
(***************************************************************************)
EXTENDS Integers, Sequences, FiniteSets, SequencesExt

CONSTANTS
    Mints, Models,
    QueueCapacity,      \* SHADOW_QUEUE_CAPACITY
    NoModel,            \* no model: nothing cached, nothing downloading
    MaxRows             \* bound: assessments made

ASSUME LabAssumption == QueueCapacity \in Nat \ {0} /\ MaxRows \in Nat /\ NoModel \notin Models

Tasks == {"shadow", "event"}    \* the shadow worker, the event worker
Rows == 1..MaxRows

VARIABLES
    mode, model,        \* self.mode, http.ollama_model
    installed,          \* installed_models
    paused, settled,    \* maintenance_paused; the upgrade has seen the lab quiet
    shadowQueue, queuedMints,
    task,               \* where each task stands in its assessment
    rows,               \* table ai_critic_assessments by assessment_id; a resolved one
                        \* keeps only its status
    pendingOutcomes,    \* rows whose outcome is awaited in memory
    qualified,          \* models whose saved assessments pass the gates
    cache, audit,       \* qualification_cache; the monitor thread's unfinished computation
    download,           \* the model being downloaded
    audited,            \* history: models some audit found qualified
    unproven            \* history: a veto was applied for a model no audit had found qualified

queueVars == <<shadowQueue, queuedMints>>
outcomeVars == <<rows, pendingOutcomes>>
auditVars == <<qualified, cache, audit, audited>>
labVars == <<mode, model, installed, paused, settled, queueVars, task, outcomeVars, auditVars,
             download, unproven>>

Resting == [at |-> "idle"]
NoCache == [of |-> NoModel, ok |-> FALSE]
Unused == [status |-> "unused"]

LabInit ==
    /\ mode = "off" /\ model \in Models /\ installed = {model} /\ paused = FALSE /\ settled = FALSE
    /\ shadowQueue = <<>> /\ queuedMints = {} /\ task = [t \in Tasks |-> Resting]
    /\ rows = [r \in Rows |-> Unused] /\ pendingOutcomes = {}
    /\ qualified = {} /\ cache = NoCache /\ audit = NoCache /\ audited = {}
    /\ download = NoModel /\ unproven = FALSE

(***************************************************************************)
(* The queue and the shadow worker's turn.                                 *)
(***************************************************************************)

\* Mutant: the capacity is compared after the entry is counted out.
RoomForOneMore == Len(shadowQueue) <= QueueCapacity

HasRoom == Len(shadowQueue) < QueueCapacity

\* enqueue_shadow: one queued or unresolved entry per token; a full queue drops the entry.
EnqueueShadow(m) ==
    /\ task["event"].at = "idle" /\ ~paused /\ mode = "shadow"
    /\ m \notin queuedMints /\ \A r \in pendingOutcomes : rows[r].mint # m
    /\ HasRoom
    /\ shadowQueue' = Append(shadowQueue, m) /\ queuedMints' = queuedMints \cup {m}
    /\ UNCHANGED <<mode, model, installed, paused, settled, task, outcomeVars, auditVars, download,
                   unproven>>

WorkerTakes ==
    /\ task["shadow"].at = "idle" /\ shadowQueue # <<>>
    /\ task' = [task EXCEPT !["shadow"] = [at |-> "slot", mint |-> Head(shadowQueue),
                                            swapped |-> FALSE]]
    /\ shadowQueue' = Tail(shadowQueue)
    /\ UNCHANGED <<mode, model, installed, paused, settled, queuedMints, outcomeVars, auditVars,
                   download, unproven>>

\* Mutant: the token of an ended assessment stays marked as queued.
KeepsMint(t) == queuedMints

\* The worker's finally block frees its token; a guarded assessment had none.
FreesMint(t) == IF t = "shadow" THEN queuedMints \ {task[t].mint} ELSE queuedMints

EndsTask(t) ==
    /\ task' = [task EXCEPT ![t] = Resting]
    /\ queuedMints' = FreesMint(t) /\ UNCHANGED shadowQueue

\* Mutant: a waiting entry is not refused while the lab is paused.
OpenInPause == mode = "shadow"

\* _wait_for_shadow_slot.
ShadowOpen == ~paused /\ mode = "shadow"

\* The entry is refused, when the lab is paused, switched off, or the entry too old; else its
\* assessment starts.
SlotRefused ==
    /\ task["shadow"].at = "slot" /\ EndsTask("shadow")
    /\ UNCHANGED <<mode, model, installed, paused, settled, outcomeVars, auditVars, download,
                   unproven>>

SlotGranted ==
    /\ task["shadow"].at = "slot" /\ ShadowOpen
    /\ task' = [task EXCEPT !["shadow"].at = "select"]
    /\ UNCHANGED <<mode, model, installed, paused, settled, queueVars, outcomeVars, auditVars,
                   download, unproven>>

(***************************************************************************)
(* Qualification.                                                          *)
(***************************************************************************)

\* Mutant: the cached result answers for any model.
CachedForAny(m) == cache # NoCache

\* The cache key names the model.
Cached(m) == cache.of = m

\* qualification(): the cached result, or an audit of the saved evidence, which is cached.
Passes(m) == IF Cached(m) THEN cache.ok ELSE m \in qualified

Qualify ==
    /\ cache' = [of |-> model, ok |-> Passes(model)]
    /\ audited' = IF model \in qualified THEN audited \cup {model} ELSE audited
    /\ UNCHANGED <<qualified, audit>>

\* The monitor thread computes a qualification and publishes it whatever happened since.
AuditReads ==
    /\ audit = NoCache /\ ~paused /\ cache.of # model
    /\ audit' = [of |-> model, ok |-> model \in qualified]
    /\ audited' = IF model \in qualified THEN audited \cup {model} ELSE audited
    /\ UNCHANGED <<mode, model, installed, paused, settled, queueVars, task, outcomeVars, qualified,
                   cache, download, unproven>>

AuditPublishes ==
    /\ audit # NoCache
    /\ cache' = audit /\ audit' = NoCache
    /\ UNCHANGED <<mode, model, installed, paused, settled, queueVars, task, outcomeVars, qualified,
                   download, audited, unproven>>

CacheExpires ==
    /\ cache # NoCache /\ cache' = NoCache
    /\ UNCHANGED <<mode, model, installed, paused, settled, queueVars, task, outcomeVars, qualified,
                   audit, download, audited, unproven>>

(***************************************************************************)
(* An assessment, by either task.                                          *)
(***************************************************************************)

\* assess_guarded, under the event lock: an unqualified model falls back to Shadow.
GuardBegins(m) ==
    /\ task["event"].at = "idle" /\ ~paused /\ mode = "guarded"
    /\ Qualify
    /\ IF Passes(model)
       THEN /\ task' = [task EXCEPT !["event"] = [at |-> "select", mint |-> m, swapped |-> FALSE]]
            /\ UNCHANGED mode
       ELSE mode' = "shadow" /\ UNCHANGED task
    /\ UNCHANGED <<model, installed, paused, settled, queueVars, outcomeVars, download, unproven>>

\* _selected_model may refresh the model list first; name and digest are then of one model.
Selects(t) ==
    /\ task[t].at = "select"
    /\ IF model \in installed
       THEN /\ task' = [task EXCEPT ![t] = [at |-> "infer", mint |-> task[t].mint,
                                            swapped |-> task[t].swapped, model |-> model]]
            /\ UNCHANGED queueVars
       ELSE EndsTask(t)
    /\ UNCHANGED <<mode, model, installed, paused, settled, outcomeVars, auditVars, download,
                   unproven>>

\* Mutant: the outcome is awaited from before the row is committed.
AwaitedEarly(r) == pendingOutcomes \cup {r}

\* The row is not awaited before it is committed and registered.
AwaitedAtAnswer(r) == pendingOutcomes

\* An answer, a refusal or a timeout: each becomes an assessment, saved next.
Answers(t, r) ==
    /\ task[t].at = "infer" /\ rows[r] = Unused /\ \A q \in 1..(r - 1) : rows[q] # Unused
    /\ rows' = [rows EXCEPT ![r] = [status |-> "made", mint |-> task[t].mint,
                                     model |-> task[t].model]]
    /\ pendingOutcomes' = AwaitedAtAnswer(r)
    /\ task' = [task EXCEPT ![t] = [at |-> "save", mint |-> task[t].mint,
                                    swapped |-> task[t].swapped, model |-> task[t].model,
                                    row |-> r]]
    /\ UNCHANGED <<mode, model, installed, paused, settled, queueVars, auditVars, download,
                   unproven>>

\* save_ai_assessment, an upsert in a thread.
SavesRow(t) ==
    /\ task[t].at = "save"
    /\ rows' = [rows EXCEPT ![task[t].row] = [status |-> "open", mint |-> task[t].mint,
                                              model |-> task[t].model]]
    /\ task' = [task EXCEPT ![t].at = "commit"]
    /\ UNCHANGED <<mode, model, installed, paused, settled, queueVars, pendingOutcomes, auditVars,
                   download, unproven>>

SaveFails(t) ==
    /\ task[t].at = "save" /\ EndsTask(t)
    /\ rows' = [rows EXCEPT ![task[t].row].status = "lost"]
    /\ UNCHANGED <<mode, model, installed, paused, settled, pendingOutcomes, auditVars, download,
                   unproven>>

\* Registered on the loop after the commit; a confident guarded veto turns the entry into a pass.
Publishes(t) ==
    /\ task[t].at = "commit" /\ EndsTask(t)
    /\ pendingOutcomes' = pendingOutcomes \cup {task[t].row}
    /\ cache' = NoCache
    /\ unproven' = (unproven \/ (/\ t = "event" /\ ~task[t].swapped
                                 /\ task[t].model \notin audited))
    /\ UNCHANGED <<mode, model, installed, paused, settled, rows, qualified, audit, audited,
                   download>>

\* Mutant: a cancelled worker leaves its save where it stands.
EndsAnywhere == {"slot", "select", "infer", "save", "commit"}

\* A cancelled worker owns its save to the end (_save_assessment, await_worker).
EndsAtOnce == {"slot", "select", "infer"}

CancelWorker ==
    /\ task["shadow"].at \in EndsAtOnce /\ EndsTask("shadow")
    /\ UNCHANGED <<mode, model, installed, paused, settled, outcomeVars, auditVars, download,
                   unproven>>

\* observe_market and expire_outcomes, under the event lock: the row is resolved and forgotten,
\* and the evidence of its model may now pass the gates, or no longer.
ResolveOutcome(r) ==
    /\ task["event"].at = "idle" /\ r \in pendingOutcomes
    /\ rows' = [rows EXCEPT ![r] = [status |-> "resolved"]]
    /\ pendingOutcomes' = pendingOutcomes \ {r}
    /\ qualified' \in {qualified \cup {rows[r].model}, qualified \ {rows[r].model}}
    /\ cache' = NoCache
    /\ UNCHANGED <<mode, model, installed, paused, settled, queueVars, task, audit, audited,
                   download,
                   unproven>>

(***************************************************************************)
(* The owner, Ollama, upgrades and restarts.                               *)
(***************************************************************************)

Discards == shadowQueue' = <<>> /\ queuedMints' = queuedMints \ Range(shadowQueue)

SetMode(new) ==
    /\ ~paused /\ new # mode /\ (new = "guarded" => Passes(model))
    /\ mode' = new
    /\ IF new = "guarded" THEN Qualify ELSE UNCHANGED auditVars
    /\ IF new = "shadow" THEN UNCHANGED queueVars ELSE Discards
    /\ UNCHANGED <<model, installed, paused, settled, task, outcomeVars, download, unproven>>

\* refresh_models, by the monitor or before an assessment: Guarded mode is audited again.
RefreshModels ==
    /\ mode = "guarded" /\ Qualify
    /\ mode' = IF Passes(model) THEN mode ELSE "shadow"
    /\ UNCHANGED <<model, installed, paused, settled, queueVars, task, outcomeVars, download,
                   unproven>>

\* select_installed_model; an assessment waiting for the model list will use the new model.
Selected(m) ==
    /\ model' = m /\ cache' = NoCache /\ Discards
    /\ mode' = IF mode = "guarded" THEN "shadow" ELSE mode
    /\ task' = IF task["event"].at = "select" THEN [task EXCEPT !["event"].swapped = TRUE] ELSE task

SelectModel(m) ==
    /\ ~paused /\ m \in installed /\ Selected(m)
    /\ UNCHANGED <<installed, paused, settled, outcomeVars, qualified, audit, audited, download,
                   unproven>>

StartDownload(m) ==
    /\ ~paused /\ download = NoModel
    /\ download' = m
    /\ UNCHANGED <<mode, model, installed, paused, settled, queueVars, task, outcomeVars, auditVars,
                   unproven>>

\* A finished download is selected; a failed one only leaves its message.
DownloadEnds ==
    /\ download # NoModel /\ download' = NoModel
    /\ \/ /\ installed' = installed \cup {download} /\ Selected(download)
       \/ UNCHANGED <<mode, model, installed, queueVars, task, cache>>
    /\ UNCHANGED <<paused, settled, outcomeVars, qualified, audit, audited, unproven>>

\* remove_installed_model: refused while a download or a generation runs; the selected model's
\* removal switches the lab off.
RemoveModel(m) ==
    /\ ~paused /\ m \in installed /\ download = NoModel /\ \A t \in Tasks : task[t].at # "infer"
    /\ installed' = installed \ {m} /\ cache' = NoCache
    /\ mode' = IF m = model THEN "off" ELSE mode
    /\ UNCHANGED <<model, paused, settled, queueVars, task, outcomeVars, qualified, audit, audited,
                   download, unproven>>

\* pause_for_maintenance, after the engine has stopped deciding: downloads are cancelled.
PauseLab ==
    /\ ~paused /\ task["event"].at = "idle"
    /\ paused' = TRUE /\ Discards /\ download' = NoModel
    /\ UNCHANGED <<mode, model, installed, settled, task, outcomeVars, auditVars, unproven>>

\* assessment_busy and the generation lock.
Busy == task["shadow"].at \in {"select", "infer", "save", "commit"}

SettleLab ==
    /\ paused /\ ~settled /\ ~Busy
    /\ settled' = TRUE
    /\ UNCHANGED <<mode, model, installed, paused, queueVars, task, outcomeVars, auditVars,
                   download,
                   unproven>>

ResumeLab ==
    /\ paused /\ paused' = FALSE /\ settled' = FALSE
    /\ UNCHANGED <<mode, model, installed, queueVars, task, outcomeVars, auditVars, download,
                   unproven>>

\* A new process: open rows are awaited again, a guarded mode must qualify again.
RestartLab ==
    /\ paused' = FALSE /\ settled' = FALSE /\ task' = [t \in Tasks |-> Resting]
    /\ shadowQueue' = <<>> /\ queuedMints' = {} /\ download' = NoModel
    /\ rows' = [r \in Rows |-> IF rows[r].status = "made" THEN [rows[r] EXCEPT !.status = "lost"]
                               ELSE rows[r]]
    /\ pendingOutcomes' = {r \in Rows : rows[r].status = "open"}
    /\ mode' = IF mode = "guarded" /\ model \notin qualified THEN "shadow" ELSE mode
    /\ cache' = NoCache /\ audit' = NoCache
    /\ UNCHANGED <<model, installed, qualified, audited, unproven>>

LabNext ==
    \/ WorkerTakes \/ SlotRefused \/ SlotGranted \/ CancelWorker
    \/ AuditReads \/ AuditPublishes \/ CacheExpires
    \/ RefreshModels \/ DownloadEnds \/ PauseLab \/ SettleLab \/ ResumeLab \/ RestartLab
    \/ \E m \in Mints : EnqueueShadow(m) \/ GuardBegins(m)
    \/ \E t \in Tasks : Selects(t) \/ SavesRow(t) \/ SaveFails(t) \/ Publishes(t)
    \/ \E t \in Tasks, r \in Rows : Answers(t, r)
    \/ \E r \in Rows : ResolveOutcome(r)
    \/ \E new \in {"off", "shadow", "guarded"} : SetMode(new)
    \/ \E m \in Models : SelectModel(m) \/ StartDownload(m) \/ RemoveModel(m)

LabSpec == LabInit /\ [][LabNext]_labVars

(***************************************************************************)
(* Properties.                                                             *)
(***************************************************************************)

\* The queue stays within its capacity and every other variable has its type.
LabTypeOK ==
    /\ mode \in {"off", "shadow", "guarded"} /\ model \in Models /\ installed \subseteq Models
    /\ Len(shadowQueue) <= QueueCapacity /\ Range(shadowQueue) \subseteq Mints
    /\ queuedMints \subseteq Mints /\ pendingOutcomes \subseteq Rows
    /\ qualified \subseteq Models /\ cache.of \in Models \cup {NoModel}
    /\ {paused, settled} \subseteq BOOLEAN /\ download \in Models \cup {NoModel}

\* A token counts as queued exactly while it is queued or the worker holds it, through every
\* refusal, discard, failure and cancellation; a stranded one could never be assessed again and
\* would be kept from pruning for ever (ai_lab.py 263-268, 417-422, 1107-1116).
QueuedMintsExact ==
    queuedMints = Range(shadowQueue) \cup
                  (IF task["shadow"].at = "idle" THEN {} ELSE {task["shadow"].mint})

\* "Qualification/display updates cannot leave a durable assessment without its outcome
\* registration" (ai_lab.py 281-282): an open row is awaited, or its task is about to register
\* it, also when the worker is cancelled in between.
OutcomesAwaited ==
    \A r \in Rows : rows[r].status = "open" =>
        r \in pendingOutcomes \/ \E t \in Tasks : task[t].at = "commit" /\ task[t].row = r

\* A resolved outcome is never overwritten by a late save of the same assessment
\* (ai_lab.py 275-301, database.py 3352-3367).
OutcomesFinal ==
    [][\A r \in Rows : rows[r].status = "resolved" => rows'[r].status = "resolved"]_labVars

\* "Optional local-LLM critic that must prove a veto-only paper benefit" (ai_lab.py 111): a veto is
\* applied only for a model some audit of its own saved evidence qualified, although audits end in
\* another thread after the model was switched.  Exempt is a switch while the guarded assessment
\* waits for the model list: its answer then comes from the new model (ai_lab.py 348-381, 844-850).
VetoIsQualified == ~unproven

\* Once the upgrade has seen no assessment under way, the paused lab starts none: no download and
\* no assessment runs until it is resumed (ai_lab.py 317-323, 424-437, 890-913;
\* orchestrator.py 7107-7115).
SettledLabIsQuiet == settled => ~Busy /\ download = NoModel /\ shadowQueue = <<>>

\* Every token the critic takes up is given back, every saved answer is followed to its outcome
\* once, every veto has a qualified model behind it, and a settled lab stays quiet
\* (ai_lab.py 110-1116).
LabIsAccountable ==
    /\ []LabTypeOK
    /\ []QueuedMintsExact
    /\ []OutcomesAwaited
    /\ []VetoIsQualified
    /\ []SettledLabIsQuiet
    /\ OutcomesFinal
=============================================================================
