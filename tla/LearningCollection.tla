-------------------------- MODULE LearningCollection --------------------------
(***************************************************************************)
(* Collecting the outcomes of one mint in one cohort: the Discovery        *)
(* observation and the Policy episode of each season, their checkpoints,   *)
(* their retention and the ledger of first entries (learning.py 237-320,   *)
(* 460-532, 600-641, 758-828, 1498-2126, 2334-2437, 7978-8023;             *)
(* database.py 2437-2800).                                                 *)
(*                                                                         *)
(* The first eligible Policy entry of a mint in a cohort is its proof, for *)
(* ever: the episode is pruned once enough newer ones are complete, its    *)
(* identity stays in a ledger of which memory holds a part.  Memory is     *)
(* changed before each write; every write may fail and the process may     *)
(* restart at any time.                                                    *)
(*                                                                         *)
(* A checkpoint is 0 while open, Missing, or the age at which a value was  *)
(* taken.  Prices, sizes and features are left out; how many newer rows of *)
(* other mints there are, and so whether a finished row is pruned, is open.*)
(***************************************************************************)
EXTENDS Integers, FiniteSets

CONSTANTS
    Horizons,            \* LEARNING_HORIZONS_SECONDS
    Primary,             \* PRIMARY_HORIZON_SECONDS
    CheckpointGrace,     \* CHECKPOINT_GRACE_SECONDS
    MaxAge,              \* bound: the clock
    MaxCollectSeasons,   \* bound: seasons
    MaxCollectErrors,    \* bound: failed writes
    MaxCollectRestarts   \* bound: process restarts

ASSUME CollectionAssumption ==
    /\ Horizons \subseteq Nat \ {0} /\ Primary \in Horizons /\ CheckpointGrace \in Nat
    /\ MaxAge \in Nat /\ MaxCollectSeasons \in Nat \ {0}
    /\ MaxCollectErrors \in Nat /\ MaxCollectRestarts \in Nat
    /\ \A h, g \in Horizons : h < g => h + CheckpointGrace < g

Missing == -1
Open == [h \in Horizons |-> 0]
Nothing == [at |-> -1, cps |-> Open, eligible |-> FALSE]
NoEntry == <<-1, 0>>
Discovery == 0                          \* the observation; an episode has its season
CollectSeasons == 1..MaxCollectSeasons
Items == {Discovery} \cup CollectSeasons

VARIABLES
    time, collecting,   \* the clock and the current season
    items, rows,        \* the observation and the episodes in memory and in the database
    identity,           \* _policy_identities: the ledger entry held in memory
    ledger,             \* learning_policy_identities
    seen, seenSaved,    \* learning_outcomes_seen in memory and in the database
    collectErrors, collectRestarts,
    first,              \* history: the first eligible entry ever saved
    usable,             \* history: observations whose primary outcome had a value
    unledgered          \* history: an episode was saved without its ledger row

collectionVars == <<time, collecting, items, rows, identity, ledger, seen, seenSaved,
                    collectErrors, collectRestarts, first, usable, unledgered>>

CollectionInit ==
    /\ time = 0 /\ collecting = 1
    /\ items = [i \in Items |-> Nothing] /\ rows = items
    /\ identity = NoEntry /\ ledger = NoEntry
    /\ seen = 0 /\ seenSaved = 0 /\ collectErrors = 0 /\ collectRestarts = 0
    /\ first = NoEntry /\ usable = 0 /\ unledgered = FALSE

-----------------------------------------------------------------------------
(* Operators *)

Known(e) == e.at >= 0
Finished(e) == \A h \in Horizons : e.cps[h] # 0
Pending(e) == Known(e) /\ ~Finished(e)

CollectFails == collectErrors < MaxCollectErrors /\ collectErrors' = collectErrors + 1

\* Mutant: the grace period is not looked at.
TakenLate(e, fresh, priced) ==
    [e EXCEPT !.cps = [h \in Horizons |->
        IF e.cps[h] # 0 \/ time - e.at < h THEN e.cps[h]
        ELSE IF ~fresh THEN 0 ELSE IF priced THEN time - e.at ELSE Missing]]

\* Mutant: a checkpoint is taken again while its window is open.
TakenAgain(e, fresh, priced) ==
    [e EXCEPT !.cps = [h \in Horizons |->
        IF time - e.at \in h..(h + CheckpointGrace) /\ fresh
        THEN IF priced THEN time - e.at ELSE Missing
        ELSE e.cps[h]]]

\* The checkpoints of one pending item after a market row or a cached sample
\* (learning.py 1811-1881, 1931-1998): late is missing, no fresh route leaves it open.
Taken(e, fresh, priced) ==
    [e EXCEPT !.cps = [h \in Horizons |->
        IF e.cps[h] # 0 \/ time - e.at < h THEN e.cps[h]
        ELSE IF time - e.at > h + CheckpointGrace THEN Missing
        ELSE IF ~fresh THEN 0 ELSE IF priced THEN time - e.at ELSE Missing]]

\* expire_checkpoints on one pending item (learning.py 2346-2371, 2384-2420).
Lapsed(e) ==
    [e EXCEPT !.cps = [h \in Horizons |->
        IF e.cps[h] = 0 /\ time - e.at > h + CheckpointGrace THEN Missing ELSE e.cps[h]]]

\* The ledger prefers entries by their time, then by their episode (database.py 2684).
NotAfter(e, f) == e[1] < f[1] \/ (e[1] = f[1] /\ e[2] <= f[2])

\* The ledger entry after an eligible episode is remembered: the earliest stays
\* (database.py 2642-2697).
Remembered(known, e) == IF known = NoEntry \/ NotAfter(e, known) THEN e ELSE known

\* The eligible episodes of d, and the ledger entry after all of them are remembered.
Entries(d) == {<<d[s].at, s>> : s \in {s \in CollectSeasons : Known(d[s]) /\ d[s].eligible}}

RememberedAll(known, d) ==
    IF Entries(d) = {} THEN known
    ELSE Remembered(known, CHOOSE e \in Entries(d) : \A f \in Entries(d) : NotAfter(e, f))

\* _matches_policy_identity on an eligible episode (learning.py 308-320).
Proves(s) ==
    Known(items[s]) /\ items[s].eligible /\ identity = <<items[s].at, s>>

\* The items in `done` reach the database with what mem holds of them.
Saves(mem, done) ==
    /\ items' = mem
    /\ rows' = [i \in Items |-> IF i \in done THEN mem[i] ELSE rows[i]]
    /\ first' = RememberedAll(first, rows')
    /\ unledgered' = (unledgered \/ (first' # first /\ first' # ledger'))

-----------------------------------------------------------------------------
(* Actions *)

\* Mutant: only the entry in memory is looked at.
OnlyCached == identity

\* The ledger is read again when memory does not hold the mint (learning.py 1667-1669).
Reserved == IF identity = NoEntry THEN ledger ELSE identity

\* register (learning.py 1498-1712): the episode, its identity and the observation are
\* three writes.  An entry that reuses a season's episode after a prune is no proof.
RegisterDecision(actionable) ==
    LET newPolicy == actionable /\ ~Known(items[collecting])
        newObs == ~Known(items[Discovery])
        eligible == ~(Reserved[2] = collecting /\ Reserved[1] # time)
        policy == IF newPolicy THEN {collecting} ELSE {}
        obs == IF newObs THEN {Discovery} ELSE {}
        with(new) == [i \in Items |->
            IF i \in new THEN [at |-> time, cps |-> Open, eligible |-> eligible /\ i # Discovery]
            ELSE items[i]]
        entered == IF newPolicy /\ eligible THEN Remembered(Reserved, <<time, collecting>>)
                   ELSE Reserved
    IN  /\ newPolicy \/ newObs
        /\ \/ /\ identity' = entered /\ ledger' = entered
              /\ \/ Saves(with(policy \cup obs), policy \cup obs) /\ UNCHANGED collectErrors
                 \/ newObs /\ CollectFails /\ Saves(with(policy \cup obs), policy)
           \/ /\ newPolicy /\ CollectFails
              /\ identity' = Reserved /\ ledger' = ledger
              /\ \E done \in {{}, policy} : Saves(with(policy), done)
        /\ UNCHANGED <<time, collecting, seen, seenSaved, collectRestarts, usable>>

\* Mutant: an observation with a primary value is counted at every later row.
CountsEveryTime(before, after) == after.cps[Primary] > 0

\* A primary outcome got a value with this row (learning.py 1862, 1899-1901).
NewOutcome(before, after) == before.cps[Primary] = 0 /\ after.cps[Primary] > 0

\* observe_market (learning.py 1777-2019), for a stream row or a cached sample: Policy
\* episodes first, then the observation and the outcome count (7978-7996).
ObserveMarket(fresh, priced) ==
    LET touched == {i \in Items : Pending(items[i]) /\ Taken(items[i], fresh, priced) # items[i]}
        mem == [i \in Items |-> IF i \in touched THEN Taken(items[i], fresh, priced) ELSE items[i]]
        counts == Discovery \in touched /\ NewOutcome(items[Discovery], mem[Discovery])
    IN  /\ touched # {} /\ ledger' = ledger
        /\ \/ /\ Saves(mem, touched)
              /\ seen' = IF counts THEN seen + 1 ELSE seen
              /\ \/ seenSaved' = seen' /\ UNCHANGED collectErrors
                 \/ counts /\ CollectFails /\ UNCHANGED seenSaved
           \/ \E i \in touched :            \* the save of i fails, later ones are not reached
              /\ CollectFails
              /\ LET done == {j \in touched : j # Discovery /\ (i = Discovery \/ j < i)}
                     reached == done \cup {i}
                 IN  Saves([j \in Items |-> IF j \in reached THEN mem[j] ELSE items[j]], done)
              /\ UNCHANGED <<seen, seenSaved>>
        /\ usable' = IF items'[Discovery].cps[Primary] > 0 /\ items[Discovery].cps[Primary] = 0
                     THEN usable + 1 ELSE usable
        /\ UNCHANGED <<time, collecting, identity, collectRestarts>>

\* expire_checkpoints (learning.py 2334-2437).
ExpireCheckpoints ==
    LET touched == {i \in Items : Pending(items[i]) /\ Lapsed(items[i]) # items[i]}
        mem == [i \in Items |-> IF i \in touched THEN Lapsed(items[i]) ELSE items[i]]
    IN  /\ touched # {} /\ ledger' = ledger
        /\ \/ Saves(mem, touched) /\ UNCHANGED collectErrors
           \/ \E i \in touched :            \* in order: the observation first
              /\ CollectFails
              /\ LET done == {j \in touched : j < i}
                 IN  Saves([j \in Items |-> IF j \in done \cup {i} THEN mem[j] ELSE items[j]], done)
        /\ UNCHANGED <<time, collecting, identity, seen, seenSaved, collectRestarts, usable>>

\* What retention may delete (database.py 2561-2576, 2757-2800).
Prunable(d) == {i \in Items : Known(d[i]) /\ Finished(d[i])}

\* _prune_complete_history (learning.py 7999-8022), after an outcome of any mint: memory
\* forgets what was deleted, and the identity of a mint it no longer holds.
PruneHistory ==
    \E gone \in SUBSET Prunable(rows) \ {{}} :
        /\ rows' = [i \in Items |-> IF i \in gone THEN Nothing ELSE rows[i]]
        /\ items' = [i \in Items |-> IF i \in gone THEN Nothing ELSE items[i]]
        /\ identity' = IF \E i \in Items : Known(items'[i]) THEN identity ELSE NoEntry
        /\ UNCHANGED <<time, collecting, ledger, seen, seenSaved, collectErrors,
                       collectRestarts, first, usable, unledgered>>

Elapses ==
    /\ time < MaxAge /\ time' = time + 1
    /\ UNCHANGED <<collecting, items, rows, identity, ledger, seen, seenSaved,
                   collectErrors, collectRestarts, first, usable, unledgered>>

SeasonEnds ==
    /\ collecting < MaxCollectSeasons /\ collecting' = collecting + 1
    /\ UNCHANGED <<time, items, rows, identity, ledger, seen, seenSaved,
                   collectErrors, collectRestarts, first, usable, unledgered>>

\* A restart remembers the identity of every saved episode (learning.py 603-615) and
\* counts at least the usable rows (635-641).
CollectionRestarts ==
    /\ collectRestarts < MaxCollectRestarts /\ collectRestarts' = collectRestarts + 1
    /\ items' = rows
    /\ ledger' = RememberedAll(ledger, rows)
    /\ identity' = IF \E i \in Items : Known(rows[i]) THEN ledger' ELSE NoEntry
    /\ LET held == IF rows[Discovery].cps[Primary] > 0 THEN 1 ELSE 0
       IN  seen' = IF held > seenSaved THEN held ELSE seenSaved
    /\ seenSaved' = seen'
    /\ unledgered' = (unledgered /\ (first # NoEntry => rows[first[2]].at # first[1]))
    /\ UNCHANGED <<time, collecting, rows, collectErrors, first, usable>>

CollectionNext ==
    \/ \E actionable \in BOOLEAN : RegisterDecision(actionable)
    \/ \E fresh, priced \in BOOLEAN : ObserveMarket(fresh, priced)
    \/ ExpireCheckpoints \/ PruneHistory \/ Elapses \/ SeasonEnds \/ CollectionRestarts

CollectionSpec == CollectionInit /\ [][CollectionNext]_collectionVars

-----------------------------------------------------------------------------
(* Properties *)

\* The variables have the types the code gives them.
CollectionTypeOK ==
    /\ time \in 0..MaxAge /\ collecting \in CollectSeasons
    /\ \A d \in {items, rows} : \A i \in Items :
        /\ d[i].at \in -1..time
        /\ \A h \in Horizons : d[i].cps[h] \in -1..MaxAge

\* An episode that counts as proof is the mint's first saved entry, though that entry was
\* pruned, the mint came back in the same season, memory forgot its identity or the
\* process restarted (learning.py 308-320, 1665-1679; database.py 2642-2697).
ProofIsFirst ==
    \A s \in CollectSeasons : Proves(s) /\ ~unledgered => first = <<items[s].at, s>>

\* Every value was taken inside its own window after the original entry, whoever asked
\* and however often the process restarted (learning.py 1815-1823, 1935-1944).
ValuesInWindow ==
    \A i \in Items, h \in Horizons : items[i].cps[h] > 0 =>
        items[i].cps[h] \in h..(h + CheckpointGrace)

\* No outcome is counted twice: the count never passes the observations that had a value
\* (learning.py 635-641, 1862, 7978-7996).
OutcomesCountedOnce == seen <= usable

\* An outcome that is on disk is never taken again with another result, and a row with an
\* open checkpoint is never deleted (learning.py 1813, 1933, 2352; database.py 2757-2800).
SavedOutcomesAreFinal ==
    [][\A i \in Items : Known(rows[i]) /\ rows'[i] # rows[i] =>
        IF Known(rows'[i])
        THEN \A h \in Horizons : rows[i].cps[h] \in {0, rows'[i].cps[h]}
        ELSE Finished(rows[i])]_collectionVars

\* Every outcome the engine learns from is the mint's own, first, in time and counted once,
\* across pruning, failed writes, returns of the mint and restarts (learning.py 1498-2126,
\* database.py 2437-2800).
EvidenceIsSound ==
    /\ []CollectionTypeOK
    /\ []ProofIsFirst
    /\ []ValuesInWindow
    /\ []OutcomesCountedOnce
    /\ SavedOutcomesAreFinal
=============================================================================
