---------------------------- MODULE EngineProofs ----------------------------
(***************************************************************************)
(* The learning engine's three tasks, each on its own variables.           *)
(*                                                                         *)
(* The Coach's studies stay sound, for every number of studies, episodes   *)
(* and contexts, every page size and every limit, whatever the coach task, *)
(* the heartbeat's hand-off, retention, a moving context and crashes do in *)
(* between (CoachStudies).  What a study has enrolled is an initial        *)
(* segment of the episodes of its context (SoundStudy), so the prefix a    *)
(* verdict counts skips none; and the two actors never work on the same    *)
(* study, because one needs it under test and the other supported, so each *)
(* compare-and-swap meets the row it expects (CoachHolds, BeatHolds).      *)
(*                                                                         *)
(* Training publishes soundly (TrainingPublication): Jobs says where the   *)
(* one job of the trainer can be while requests come and go, Stages what   *)
(* memory and disk keep of the tournament, whichever write failed last.    *)
(*                                                                         *)
(* Authority stays proven (SkillAuthority): who is active is Sound, the    *)
(* database Follows memory up to the revocations still to be written and   *)
(* is itself a composition a restart may take over, and outside half-done  *)
(* settings changes memory is Rooted in the entry skill and its proofs.    *)
(***************************************************************************)
EXTENDS CoachStudies, TrainingPublication, SkillAuthority, SumTheorems, TLAPS

-----------------------------------------------------------------------------
(* The Coach's studies *)

EpisodeStatus == {"none", "pending", "known", "unavailable", "pruned"}
EpisodeMaps == [Episodes -> [of : Contexts, status : EpisodeStatus]]

CoachFields ==
    /\ context \in Contexts
    /\ episodes \in EpisodeMaps
    /\ prunedThrough \in 0..MaxEpisodes
    /\ stored \in [Studies -> StudyRecords]
    /\ known \in [Studies -> StudyRecords]
    /\ seeded \in SUBSET Studies

\* Episodes are created in order, and what retention removed is behind its watermark.
EpisodesInOrder ==
    /\ \A e, f \in Episodes : f < e /\ episodes[f].status = "none" => episodes[e].status = "none"
    /\ \A e \in Episodes : episodes[e].status = "pruned" => e <= prunedThrough

\* The created episodes a study is about.
OwnEpisodes(s, eps) ==
    {e \in Episodes : eps[e].status # "none" /\ eps[e].of = s.context /\ s.cut < e}

\* What a study under test has enrolled is an initial segment of the episodes it is about, which
\* ends at its cursor unless it is full.
Enrolling(s, eps) ==
    /\ s.enrolled \subseteq OwnEpisodes(s, eps) /\ s.cut <= s.cursor
    /\ Cardinality(s.enrolled) <= MaxObserved
    /\ \A e \in s.enrolled : e <= s.cursor
    /\ \A e \in Episodes : eps[e].status = "none" => s.cursor < e
    /\ \A f \in OwnEpisodes(s, eps) \ s.enrolled :
          /\ \A e \in s.enrolled : e < f
          /\ Cardinality(s.enrolled) < MaxObserved => s.cursor < f

\* What a verdict counted is an initial segment too.
Counting(s, eps) ==
    /\ s.counted \subseteq OwnEpisodes(s, eps)
    /\ \A e \in s.counted, f \in OwnEpisodes(s, eps) : f < e => f \in s.counted

SoundStudy(s, eps) ==
    /\ s.state = "testing" => Enrolling(s, eps) /\ s.contribution = "research_only"
    /\ s.state # "testing" => s.enrolled = {}
    /\ s.state \in {"promising", "not_supported"} => Counting(s, eps)

WholeRecords == StudyRecords \ {NoStudy}

StudiesSound == \A i \in Studies : stored[i] # NoStudy => SoundStudy(stored[i], episodes)

\* What the coach task relies on between its steps.
CoachShape ==
    /\ coach.at = "refresh" => coach = [at |-> "refresh", todo |-> coach.todo]
    /\ coach.at = "evaluated" =>
           coach = [at |-> "evaluated", todo |-> coach.todo, study |-> coach.study,
                    expected |-> coach.expected, updated |-> coach.updated]
    /\ coach.at = "lookup" => coach = [at |-> "lookup", context |-> coach.context]

Refreshing ==
    coach.at \in {"refresh", "evaluated", "saved"} =>
        \A j \in DOMAIN coach.todo :
            j \in Studies /\ coach.todo[j] = stored[j] /\ Is(stored[j], "testing")

Evaluating ==
    coach.at = "evaluated" =>
        /\ coach.study \in Studies /\ coach.study \notin DOMAIN coach.todo
        /\ coach.expected = stored[coach.study] /\ Is(coach.expected, "testing")
        /\ coach.updated \in WholeRecords /\ coach.updated # coach.expected
        /\ SoundStudy(coach.updated, episodes)
        /\ coach.updated.context = coach.expected.context
        /\ coach.updated.contribution \in {"research_only", "ready"}

Saving ==
    coach.at = "saved" =>
        /\ coach.study \in Studies /\ coach.study \notin DOMAIN coach.todo
        /\ coach.expected \in WholeRecords /\ Is(coach.expected, "testing")
        /\ coach.updated \in WholeRecords /\ coach.updated # coach.expected
        /\ stored[coach.study] = coach.updated \/ Is(stored[coach.study], "promising")

Proposing ==
    /\ coach.at \in {"lookup", "infer", "select"} => coach.context \in Contexts
    /\ coach.at \in {"infer", "select"} => ~ActiveStudy(coach.context)
    /\ coach.at = "select" =>
          /\ coach.cut \in 0..MaxEpisodes
          /\ \A e \in Episodes : episodes[e].status = "none" => coach.cut < e
    /\ coach.at = "selected" =>
          /\ coach.study \in Studies
          /\ coach.updated = stored[coach.study] /\ Is(coach.updated, "testing")

CoachHolds == CoachShape /\ Refreshing /\ Evaluating /\ Saving /\ Proposing

\* What the heartbeat's hand-off relies on between its steps.
BeatHolds ==
    /\ beat.at \in {"seed", "mark", "marked"} =>
          /\ beat.study \in Studies
          /\ Is(stored[beat.study], "promising") /\ Is(known[beat.study], "promising")
    /\ beat.at = "mark" =>
          /\ beat.result \in {"handed_off", "waiting", "stale"}
          /\ beat.result = "handed_off" => beat.study \in seeded
    /\ beat.at = "marked" =>
          /\ known[beat.study] = beat.expected /\ stored[beat.study] = beat.updated

\* A remembered study is the stored one, unless the actor that wrote the row has yet to tell.
MemoryFollows ==
    \A i \in Studies :
        \/ known[i] = stored[i]
        \/ /\ coach.at = "saved" /\ coach.study = i
           /\ known[i] = coach.expected /\ stored[i] = coach.updated
        \/ coach.at = "selected" /\ coach.study = i /\ known[i] = NoStudy
        \/ beat.at = "marked" /\ beat.study = i

CoachInv ==
    /\ CoachFields
    /\ EpisodesInOrder
    /\ StudiesSound
    /\ CoachHolds
    /\ BeatHolds
    /\ MemoryFollows
    /\ OneStudyPerContext
    /\ HandedOffIsSeeded

-----------------------------------------------------------------------------
\* Counting episodes.

LEMMA EpisodeSets ==
    \A S \in SUBSET Episodes : IsFiniteSet(S) /\ Cardinality(S) \in Nat
<1>1. MaxEpisodes \in Nat
  BY CoachAssumption
<1>2. IsFiniteSet(1..MaxEpisodes)
  BY <1>1, FS_Interval
<1> QED
  BY <1>2, FS_Subset, FS_CardinalityType DEF Episodes

LEMMA FewerEpisodes ==
    \A S, T \in SUBSET Episodes : S \subseteq T => Cardinality(S) <= Cardinality(T)
BY EpisodeSets, FS_Subset

LEMMA EpisodesTogether ==
    \A S, T \in SUBSET Episodes : Cardinality(S \cup T) <= Cardinality(S) + Cardinality(T)
<1> SUFFICES ASSUME NEW S \in SUBSET Episodes, NEW T \in SUBSET Episodes
             PROVE  Cardinality(S \cup T) <= Cardinality(S) + Cardinality(T)
  OBVIOUS
<1>1. IsFiniteSet(S) /\ IsFiniteSet(T) /\ Cardinality(S) \in Nat /\ Cardinality(T) \in Nat
  BY EpisodeSets
<1>2. S \cap T \in SUBSET Episodes
  OBVIOUS
<1>3. Cardinality(S \cap T) \in Nat
  BY <1>2, EpisodeSets
<1>4. Cardinality(S \cup T) = Cardinality(S) + Cardinality(T) - Cardinality(S \cap T)
  BY <1>1, FS_Union
<1> QED
  BY <1>1, <1>3, <1>4

LEMMA EpisodesApart ==
    \A S, T \in SUBSET Episodes :
        S \cap T = {} => Cardinality(S \cup T) = Cardinality(S) + Cardinality(T)
<1> SUFFICES ASSUME NEW S \in SUBSET Episodes, NEW T \in SUBSET Episodes, S \cap T = {}
             PROVE  Cardinality(S \cup T) = Cardinality(S) + Cardinality(T)
  OBVIOUS
<1>1. IsFiniteSet(S) /\ IsFiniteSet(T) /\ Cardinality(S) \in Nat /\ Cardinality(T) \in Nat
  BY EpisodeSets
<1>2. Cardinality(S \cap T) = 0
  BY FS_EmptySet
<1>3. Cardinality(S \cup T) = Cardinality(S) + Cardinality(T) - Cardinality(S \cap T)
  BY <1>1, FS_Union
<1> QED
  BY <1>1, <1>2, <1>3

\* Newest is the greatest of a set of episodes, or of episodes and a cursor.
LEMMA NewestIs ==
    \A S \in SUBSET (0..MaxEpisodes) : S # {} =>
        /\ Newest(S) \in S
        /\ \A e \in S : e <= Newest(S)
<1> SUFFICES ASSUME NEW S \in SUBSET (0..MaxEpisodes), S # {}
             PROVE  Newest(S) \in S /\ \A e \in S : e <= Newest(S)
  OBVIOUS
<1> DEFINE T == {MaxEpisodes - e : e \in S}
<1>1. MaxEpisodes \in Nat
  BY CoachAssumption
<1>2. T \in SUBSET Nat /\ T # {}
  <2>1. \A e \in S : MaxEpisodes - e \in Nat
    BY <1>1
  <2>2. T \in SUBSET Nat
    BY <2>1
  <2>3. PICK e \in S : TRUE
    OBVIOUS
  <2>4. MaxEpisodes - e \in T
    OBVIOUS
  <2> QED
    BY <2>2, <2>4
<1>3. PICK m \in T : \A k \in T : m <= k
  BY <1>2, LeastNumber, Zenon
<1>4. PICK x \in S : m = MaxEpisodes - x
  BY <1>3
<1>5. \A e \in S : x >= e
  <2> TAKE e \in S
  <2>1. MaxEpisodes - e \in T
    OBVIOUS
  <2>2. m <= MaxEpisodes - e
    BY <1>3, <2>1
  <2> QED
    BY <1>1, <1>4, <2>2
<1>6. Newest(S) = CHOOSE y \in S : \A e \in S : y >= e
  BY DEF Newest, Max
<1>7. Newest(S) \in S /\ \A e \in S : Newest(S) >= e
  BY <1>5, <1>6
<1> QED
  BY <1>1, <1>7

\* The least episode of a set.
LEMMA OldestIs ==
    \A S \in SUBSET Episodes : S # {} => \E e \in S : \A f \in S : e <= f
<1>1. \A S \in SUBSET Episodes : S \in SUBSET Nat
  BY DEF Episodes
<1> QED
  BY <1>1, LeastNumber, Zenon

\* The first members of a set of episodes, as many as fit beside c others below the limit m.
Firsts(S, c, m) == {e \in S : c + Cardinality({f \in S : f < e}) < m}

LEMMA FirstsOrdered ==
    \A S \in SUBSET Episodes, c, m \in Nat :
        \A e \in Firsts(S, c, m), f \in S \ Firsts(S, c, m) : e < f
<1> SUFFICES ASSUME NEW S \in SUBSET Episodes, NEW c \in Nat, NEW m \in Nat,
                    NEW e \in Firsts(S, c, m), NEW f \in S \ Firsts(S, c, m), ~(e < f)
             PROVE  FALSE
  OBVIOUS
<1>1. e \in S /\ e \in Nat /\ f \in Nat /\ f <= e
  BY DEF Episodes, Firsts
<1> DEFINE before(x) == {g \in S : g < x}
<1>2. before(f) \subseteq before(e)
  <2> SUFFICES ASSUME NEW g \in S, g < f PROVE g < e
    OBVIOUS
  <2>1. g \in Nat
    BY DEF Episodes
  <2> QED
    BY <1>1, <2>1
<1>3. before(f) \in SUBSET Episodes /\ before(e) \in SUBSET Episodes
  OBVIOUS
<1>4. c + Cardinality(before(e)) < m /\ ~(c + Cardinality(before(f)) < m)
  BY DEF Firsts
<1> HIDE DEF before
<1>5. Cardinality(before(f)) <= Cardinality(before(e))
  BY <1>2, <1>3, FewerEpisodes
<1>6. Cardinality(before(f)) \in Nat /\ Cardinality(before(e)) \in Nat
  BY <1>3, EpisodeSets
<1> QED
  BY <1>4, <1>5, <1>6

LEMMA FirstsFit ==
    \A S \in SUBSET Episodes, c, m \in Nat :
        c <= m => c + Cardinality(Firsts(S, c, m)) <= m
<1> SUFFICES ASSUME NEW S \in SUBSET Episodes, NEW c \in Nat, NEW m \in Nat, c <= m
             PROVE  c + Cardinality(Firsts(S, c, m)) <= m
  OBVIOUS
<1> DEFINE F == Firsts(S, c, m)
<1>1. F \in SUBSET Episodes
  BY DEF Firsts
<1>2. CASE F = {}
  BY <1>2, FS_EmptySet
<1>3. CASE F # {}
  <2>1. F \in SUBSET (0..MaxEpisodes)
    BY <1>1, CoachAssumption DEF Episodes
  <2>2. PICK x \in F : \A e \in F : e <= x
    <3> HIDE DEF F
    <3> QED
      BY <1>3, <2>1, NewestIs
  <2> DEFINE B == {g \in S : g < x}
  <2>3. F \ {x} \subseteq B
    <3> SUFFICES ASSUME NEW e \in F, e # x PROVE e \in S /\ e < x
      OBVIOUS
    <3>1. e \in S /\ e <= x
      BY <2>2 DEF Firsts
    <3>2. e \in Int /\ x \in Int
      BY <1>1 DEF Episodes
    <3> QED
      BY <3>1, <3>2
  <2>4. c + Cardinality(B) < m
    BY DEF Firsts
  <2>5. B \in SUBSET Episodes
    OBVIOUS
  <2> HIDE DEF F, B
  <2>6. IsFiniteSet(F) /\ Cardinality(F) \in Nat /\ Cardinality(B) \in Nat
    BY <1>1, <2>5, EpisodeSets
  <2>7. Cardinality(F \ {x}) = Cardinality(F) - 1
    BY <2>6, FS_RemoveElement
  <2>8. F \ {x} \in SUBSET Episodes
    BY <1>1
  <2>9. Cardinality(F \ {x}) <= Cardinality(B)
    BY <2>3, <2>5, <2>8, FewerEpisodes
  <2>10. c + Cardinality(F) <= m
    BY <2>4, <2>6, <2>7, <2>9
  <2> QED
    BY <2>10 DEF F
<1> QED
  BY <1>2, <1>3

LEMMA FirstsFill ==
    \A S \in SUBSET Episodes, c, m \in Nat :
        Firsts(S, c, m) # S => m <= c + Cardinality(Firsts(S, c, m))
<1> SUFFICES ASSUME NEW S \in SUBSET Episodes, NEW c \in Nat, NEW m \in Nat,
                    Firsts(S, c, m) # S
             PROVE  m <= c + Cardinality(Firsts(S, c, m))
  OBVIOUS
<1> DEFINE F == Firsts(S, c, m)
<1>1. F \in SUBSET Episodes /\ F \subseteq S /\ S \ F \in SUBSET Episodes /\ S \ F # {}
  BY DEF Firsts
<1>2. PICK x \in S \ F : \A f \in S \ F : x <= f
  <2> HIDE DEF F
  <2> QED
    BY <1>1, OldestIs
<1> DEFINE B == {g \in S : g < x}
<1>3. ~(c + Cardinality(B) < m)
  BY DEF Firsts
<1>4. B \subseteq F
  <2> SUFFICES ASSUME NEW g \in S, g < x, g \notin F PROVE FALSE
    OBVIOUS
  <2>1. x <= g
    BY <1>2
  <2>2. x \in Nat /\ g \in Nat
    BY DEF Episodes
  <2> QED
    BY <2>1, <2>2
<1>5. B \in SUBSET Episodes
  OBVIOUS
<1> HIDE DEF F, B
<1>6. Cardinality(B) <= Cardinality(F) /\ Cardinality(B) \in Nat /\ Cardinality(F) \in Nat
  BY <1>1, <1>4, <1>5, FewerEpisodes, EpisodeSets
<1>7. m <= c + Cardinality(F)
  BY <1>3, <1>6
<1> QED
  BY <1>7 DEF F

-----------------------------------------------------------------------------
\* What an evaluation makes of a study.

LEMMA WholeIs ==
    WholeRecords =
        [state : States, context : Contexts, contribution : Contributions, cut : 0..MaxEpisodes,
         cursor : 0..MaxEpisodes, enrolled : SUBSET Episodes, open : SUBSET Episodes,
         usable : SUBSET Episodes, counted : SUBSET Episodes]
<1> DEFINE R == [state : States, context : Contexts, contribution : Contributions,
                 cut : 0..MaxEpisodes, cursor : 0..MaxEpisodes, enrolled : SUBSET Episodes,
                 open : SUBSET Episodes, usable : SUBSET Episodes, counted : SUBSET Episodes]
<1>1. \A s \in R : s.state \in States
  OBVIOUS
<1>2. NoStudy.state \notin States
  BY DEF NoStudy, States
<1>3. StudyRecords = {NoStudy} \cup R
  BY DEF StudyRecords
<1> HIDE DEF R
<1>4. WholeRecords = R
  BY <1>1, <1>2, <1>3 DEF WholeRecords
<1> QED
  BY <1>4 DEF R

LEMMA WholeFields ==
    \A s \in WholeRecords :
        /\ s.state \in States /\ s.context \in Contexts /\ s.contribution \in Contributions
        /\ s.cut \in 0..MaxEpisodes /\ s.cursor \in 0..MaxEpisodes
        /\ s.enrolled \in SUBSET Episodes /\ s.open \in SUBSET Episodes
        /\ s.usable \in SUBSET Episodes /\ s.counted \in SUBSET Episodes
BY WholeIs

LEMMA EpisodeFields ==
    CoachFields => \A e \in Episodes : episodes[e].of \in Contexts /\ episodes[e].status \in EpisodeStatus
BY DEF CoachFields, EpisodeMaps

\* The rows that follow the cursor.
After(s) == {e \in Present : e > s.cursor}

\* A page is the first rows after the cursor.
LEMMA PageIs ==
    ASSUME NEW s \in WholeRecords
    PROVE  /\ After(s) \in SUBSET Episodes
           /\ PageRows(s) \subseteq After(s)
           /\ Cardinality(s.enrolled) < MaxObserved =>
                  \A e \in PageRows(s), f \in After(s) \ PageRows(s) : e < f
           /\ ~(Cardinality(s.enrolled) < MaxObserved) => PageRows(s) = {}
<1> DEFINE after == After(s)
<1>1. after \in SUBSET Episodes
  BY DEF After, Present
<1>2. MaxObserved \in Nat /\ Page \in Nat /\ Cardinality(s.enrolled) \in Nat
  BY CoachAssumption, WholeFields, EpisodeSets
<1>3. CASE Cardinality(s.enrolled) < MaxObserved
  <2>1. PageRows(s) = {e \in after : Cardinality({f \in after : f < e}) < Page}
    BY <1>2, <1>3 DEF PageRows, After
  <2>2. \A e \in after : Cardinality({f \in after : f < e}) \in Nat
    <3> TAKE e \in after
    <3>1. {f \in after : f < e} \in SUBSET Episodes
      BY <1>1
    <3> QED
      BY <3>1, EpisodeSets
  <2> HIDE DEF after
  <2>3. PageRows(s) = Firsts(after, 0, Page)
    BY <2>1, <2>2 DEF Firsts
  <2>4. \A e \in PageRows(s), f \in after \ PageRows(s) : e < f
    BY <1>1, <1>2, <2>3, FirstsOrdered
  <2> QED
    BY <1>1, <1>3, <2>1, <2>4 DEF after
<1>4. CASE ~(Cardinality(s.enrolled) < MaxObserved)
  <2>1. PageRows(s) = {}
    BY <1>2, <1>4 DEF PageRows
  <2> QED
    BY <1>1, <1>4, <2>1
<1> QED
  BY <1>3, <1>4

\* The study takes in the first rows of the page that are its own and fit.
OwnRows(s) == {e \in PageRows(s) : episodes[e].of = s.context}

LEMMA EnrollsIs ==
    ASSUME NEW s \in WholeRecords, Cardinality(s.enrolled) <= MaxObserved
    PROVE  /\ OwnRows(s) \in SUBSET Episodes
           /\ Enrolls(s) \subseteq OwnRows(s)
           /\ Cardinality(s.enrolled) + Cardinality(Enrolls(s)) <= MaxObserved
           /\ \A e \in Enrolls(s), f \in OwnRows(s) \ Enrolls(s) : e < f
           /\ Enrolls(s) # OwnRows(s) =>
                  MaxObserved <= Cardinality(s.enrolled) + Cardinality(Enrolls(s))
<1> DEFINE own == OwnRows(s)
           n == Cardinality(s.enrolled)
<1>1. MaxObserved \in Nat /\ n \in Nat
  BY CoachAssumption, WholeFields, EpisodeSets
<1>2. own \in SUBSET Episodes
  BY PageIs DEF OwnRows
<1>3. Enrolls(s) = Firsts(own, n, MaxObserved)
  BY DEF Enrolls, Firsts, OwnRows
<1>4. n <= MaxObserved
  OBVIOUS
<1> HIDE DEF own, n
<1>5. Enrolls(s) \subseteq own
  BY <1>3 DEF Firsts
<1>6. n + Cardinality(Enrolls(s)) <= MaxObserved
  BY <1>1, <1>2, <1>3, <1>4, FirstsFit
<1>7. \A e \in Enrolls(s), f \in own \ Enrolls(s) : e < f
  BY <1>1, <1>2, <1>3, FirstsOrdered
<1>8. Enrolls(s) # own => MaxObserved <= n + Cardinality(Enrolls(s))
  BY <1>1, <1>2, <1>3, FirstsFill
<1> QED
  BY <1>2, <1>5, <1>6, <1>7, <1>8 DEF own, n

\* The cursor moves to the last row of the page.
Cursor(s) == Newest(PageRows(s) \cup {s.cursor})

LEMMA CursorIs ==
    ASSUME NEW s \in WholeRecords
    PROVE  /\ Cursor(s) \in 0..MaxEpisodes /\ s.cursor <= Cursor(s)
           /\ \A e \in PageRows(s) : e <= Cursor(s)
           /\ Cursor(s) \in PageRows(s) \cup {s.cursor}
<1> DEFINE S == PageRows(s) \cup {s.cursor}
<1>1. S \in SUBSET (0..MaxEpisodes) /\ S # {}
  BY PageIs, WholeFields, CoachAssumption DEF Episodes
<1> HIDE DEF S
<1>2. Newest(S) \in S /\ \A e \in S : e <= Newest(S)
  BY <1>1, NewestIs
<1> QED
  BY <1>1, <1>2 DEF S, Cursor

\* After an evaluation that is not overtaken by retention, the study has again enrolled an
\* initial segment of its episodes.
LEMMA EnrollingGrows ==
    ASSUME CoachFields, EpisodesInOrder, NEW s \in WholeRecords, Enrolling(s, episodes),
           prunedThrough > s.cursor => ~(Cardinality(s.enrolled) < MaxObserved),
           NEW r \in WholeRecords, r.context = s.context, r.cut = s.cut,
           r.enrolled = s.enrolled \cup Enrolls(s), r.cursor = Cursor(s)
    PROVE  Enrolling(r, episodes)
<1> DEFINE old == s.enrolled
           new == Enrolls(s)
           own == OwnEpisodes(s, episodes)
           n == Cardinality(old)
<1>1. /\ s.cut \in Nat /\ s.cursor \in Nat /\ old \in SUBSET Episodes
      /\ MaxObserved \in Nat /\ n \in Nat /\ prunedThrough \in Nat
      /\ \A e \in Episodes : e \in Nat
  BY WholeFields, EpisodeSets, CoachAssumption DEF CoachFields, Episodes
<1>2. /\ old \subseteq own /\ n <= MaxObserved
      /\ \A e \in old : e <= s.cursor
      /\ \A e \in Episodes : episodes[e].status = "none" => s.cursor < e
      /\ \A f \in own \ old : \A e \in old : e < f
      /\ \A f \in own \ old : n < MaxObserved => s.cursor < f
  BY DEF Enrolling
<1>3. /\ OwnRows(s) \in SUBSET Episodes /\ new \subseteq OwnRows(s)
      /\ n + Cardinality(new) <= MaxObserved
      /\ \A e \in new, f \in OwnRows(s) \ new : e < f
      /\ new # OwnRows(s) => MaxObserved <= n + Cardinality(new)
  BY <1>2, EnrollsIs
<1>4. \A e \in PageRows(s) : e \in Episodes /\ s.cursor < e /\ episodes[e].status \notin {"none", "pruned"}
  BY <1>1, PageIs DEF After, Present
<1>5. \A e \in OwnRows(s) : e \in PageRows(s) /\ episodes[e].of = s.context
  BY DEF OwnRows
<1>6. \A e \in old : e \in Episodes /\ s.cut < e
  BY <1>2 DEF OwnEpisodes
<1>7. OwnEpisodes(r, episodes) = own /\ own \in SUBSET Episodes
  BY DEF OwnEpisodes
<1>8. new \in SUBSET Episodes /\ Cardinality(new) \in Nat
  <2>1. new \in SUBSET Episodes
    BY <1>3
  <2> QED
    BY <2>1, EpisodeSets
<1>9. \A f \in own : n < MaxObserved /\ f \notin old => f \in After(s)
  <2> SUFFICES ASSUME NEW f \in own, n < MaxObserved, f \notin old PROVE f \in After(s)
    OBVIOUS
  <2>1. s.cursor < f /\ f \in Episodes /\ episodes[f].status # "none"
    BY <1>2 DEF OwnEpisodes
  <2>2. ~(prunedThrough > s.cursor)
    OBVIOUS
  <2>3. episodes[f].status # "pruned"
    BY <1>1, <2>1, <2>2 DEF EpisodesInOrder
  <2> QED
    BY <1>1, <2>1, <2>3 DEF After, Present
<1>10. \A e \in new : e \in Episodes /\ e \in PageRows(s) /\ e \in own /\ n < MaxObserved
  <2> TAKE e \in new
  <2>1. e \in PageRows(s) /\ episodes[e].of = s.context
    BY <1>3, <1>5
  <2>2. e \in Episodes /\ s.cursor < e /\ episodes[e].status # "none"
    BY <1>4, <2>1
  <2>3. s.cut < e
    BY <1>1, <1>2, <2>2 DEF Enrolling
  <2>4. n < MaxObserved
    BY <2>1, PageIs
  <2> QED
    BY <2>1, <2>2, <2>3, <2>4 DEF OwnEpisodes
<1>11. s.cursor <= Cursor(s) /\ Cursor(s) \in Nat /\ Cursor(s) \in PageRows(s) \cup {s.cursor}
       /\ \A e \in PageRows(s) : e <= Cursor(s)
  BY CursorIs
<1>12. s.cut <= s.cursor
  BY DEF Enrolling
<1>13. /\ \A e \in PageRows(s), f \in After(s) \ PageRows(s) : n < MaxObserved => e < f
       /\ \A f \in own : f \in PageRows(s) => f \in OwnRows(s)
  <2>1. \A e \in PageRows(s), f \in After(s) \ PageRows(s) : n < MaxObserved => e < f
    BY PageIs
  <2> QED
    BY <2>1 DEF OwnEpisodes, OwnRows
<1> HIDE DEF old, new, own, n
<1>14. r.enrolled = old \cup new /\ r.cursor = Cursor(s) /\ r.cut = s.cut
  BY DEF old, new
<1>15. old \cup new \subseteq own
  BY <1>2, <1>10
<1>16. Cardinality(old \cup new) <= MaxObserved
  <2>1. Cardinality(old \cup new) <= n + Cardinality(new)
    BY <1>1, <1>8, EpisodesTogether DEF n
  <2>2. old \cup new \in SUBSET Episodes
    BY <1>1, <1>8
  <2>3. Cardinality(old \cup new) \in Nat
    BY <2>2, EpisodeSets
  <2> QED
    BY <1>1, <1>3, <1>8, <2>1, <2>3
<1>17. \A e \in old \cup new : e <= Cursor(s)
  BY <1>1, <1>2, <1>6, <1>8, <1>10, <1>11
<1>18. ASSUME NEW e \in Episodes, episodes[e].status = "none"
       PROVE  Cursor(s) < e
  <2>1. CASE Cursor(s) = s.cursor
    BY <1>2, <1>18, <2>1
  <2>2. CASE Cursor(s) \in PageRows(s)
    <3>1. Cursor(s) \in Episodes /\ episodes[Cursor(s)].status # "none"
      BY <1>4, <2>2
    <3>2. ~(e < Cursor(s)) /\ e # Cursor(s)
      BY <1>18, <3>1 DEF EpisodesInOrder
    <3> QED
      BY <1>1, <1>11, <3>2
  <2> QED
    BY <1>11, <2>1, <2>2
<1>19. ASSUME NEW f \in own \ (old \cup new), NEW e \in old \cup new
       PROVE  e < f
  <2>1. CASE e \in old
    BY <1>2, <2>1
  <2>2. CASE e \in new
    <3>1. n < MaxObserved /\ e \in PageRows(s) /\ f \in After(s)
      BY <1>9, <1>10, <2>2
    <3>2. CASE f \in PageRows(s)
      BY <1>3, <1>13, <2>2, <3>2
    <3>3. CASE f \notin PageRows(s)
      BY <1>13, <3>1, <3>3
    <3> QED
      BY <3>2, <3>3
  <2> QED
    BY <2>1, <2>2
<1>20. ASSUME NEW f \in own \ (old \cup new), Cardinality(old \cup new) < MaxObserved
       PROVE  Cursor(s) < f
  <2>1. old \cap new = {}
    <3>1. \A e \in new : s.cursor < e /\ e \in Nat
      BY <1>1, <1>4, <1>10
    <3>2. \A e \in old : e <= s.cursor /\ e \in Nat
      BY <1>1, <1>2, <1>6
    <3>3. ASSUME NEW e \in old, e \in new PROVE FALSE
      BY <1>1, <3>1, <3>2, <3>3
    <3> QED
      BY <3>3
  <2>2. Cardinality(old \cup new) = n + Cardinality(new)
    BY <1>1, <1>8, <2>1, EpisodesApart DEF n
  <2>3. n < MaxObserved /\ ~(MaxObserved <= n + Cardinality(new))
    BY <1>1, <1>8, <1>20, <2>2
  <2>4. f \in After(s) /\ f \in Episodes
    BY <1>7, <1>9, <2>3
  <2>5. f \notin PageRows(s)
    BY <1>3, <1>13, <2>3
  <2>6. s.cursor < f
    BY <2>4 DEF After
  <2>7. CASE Cursor(s) \in PageRows(s)
    BY <1>13, <2>3, <2>4, <2>5, <2>7
  <2> QED
    BY <1>11, <2>6, <2>7
<1>21. s.cut <= Cursor(s)
  BY <1>1, <1>11, <1>12
<1> QED
  BY <1>7, <1>14, <1>15, <1>16, <1>17, <1>18, <1>19, <1>20, <1>21 DEF Enrolling

\* A prefix of what is enrolled is an initial segment too.
LEMMA PrefixIsWhole ==
    ASSUME CoachFields, NEW r \in WholeRecords, Enrolling(r, episodes),
           NEW open \in SUBSET Episodes,
           NEW c \in WholeRecords, c.context = r.context, c.cut = r.cut,
           c.counted = Prefix(r.enrolled, open)
    PROVE  Counting(c, episodes)
<1>1. OwnEpisodes(c, episodes) = OwnEpisodes(r, episodes) /\ OwnEpisodes(r, episodes) \subseteq Episodes
  BY DEF OwnEpisodes
<1>2. c.counted \subseteq r.enrolled /\ r.enrolled \subseteq OwnEpisodes(r, episodes)
  BY DEF Prefix, Enrolling
<1>3. ASSUME NEW e \in c.counted, NEW f \in OwnEpisodes(r, episodes), f < e
      PROVE  f \in c.counted
  <2>1. e \in r.enrolled /\ \A g \in open : e < g
    BY DEF Prefix
  <2>2. e \in Nat /\ f \in Nat /\ \A g \in open : g \in Nat
    BY <1>1, <1>2 DEF Episodes
  <2>3. f \in r.enrolled
    <3>1. f \notin r.enrolled => e < f
      BY <2>1 DEF Enrolling
    <3> QED
      BY <1>3, <2>2, <3>1
  <2>4. \A g \in open : f < g
    BY <1>3, <2>1, <2>2
  <2> QED
    BY <2>3, <2>4 DEF Prefix
<1> QED
  BY <1>1, <1>2, <1>3 DEF Counting

NowEnrolled(s) == s.enrolled \cup Enrolls(s)

\* The record of a study that stays under test.
Continued(s, open, usable) ==
    [s EXCEPT !.enrolled = NowEnrolled(s), !.open = open, !.usable = usable,
              !.counted = Prefix(NowEnrolled(s), open), !.cursor = Cursor(s)]

Overtaken(s) == prunedThrough > s.cursor /\ Cardinality(s.enrolled) < MaxObserved

\* The outcomes of an evaluation.
LEMMA EvaluatedIs ==
    ASSUME NEW s \in WholeRecords, Cardinality(s.enrolled) <= MaxObserved,
           NEW u \in Evaluated(s)
    PROVE  \/ Overtaken(s) /\ u = Finish(s, "inconclusive", {})
           \/ /\ ~Overtaken(s)
              /\ \E open, usable \in SUBSET Episodes :
                     \/ u = Continued(s, open, usable)
                     \/ \E v \in States \ {"testing"} :
                           u = Finish(s, v, Prefix(NowEnrolled(s), open))
<1> DEFINE open     == s.open \cup Enrolls(s)
           waiting  == {e \in open : episodes[e].status = "pending"}
           usable   == s.usable \cup {e \in open : episodes[e].status = "known"}
           Judged(late) ==
               LET counted == Prefix(NowEnrolled(s), waiting \ late)
               IN  {IF v = "testing"
                    THEN [s EXCEPT !.enrolled = NowEnrolled(s), !.open = waiting \ late,
                                   !.usable = usable, !.counted = counted, !.cursor = Cursor(s)]
                    ELSE Finish(s, v, counted) : v \in Verdicts(counted, usable)}
<1>1. CASE Overtaken(s)
  BY <1>1 DEF Overtaken, Evaluated
<1>2. CASE ~Overtaken(s)
  <2>1. u \in UNION {Judged(late) : late \in SUBSET waiting}
    BY <1>2, Zenon DEF Overtaken, Evaluated, NowEnrolled, Cursor
  <2>2. PICK late \in SUBSET waiting : u \in Judged(late)
    BY <2>1
  <2>3. PICK v \in Verdicts(Prefix(NowEnrolled(s), waiting \ late), usable) :
            u = IF v = "testing" THEN Continued(s, waiting \ late, usable)
                ELSE Finish(s, v, Prefix(NowEnrolled(s), waiting \ late))
    BY <2>2, Zenon DEF Continued
  <2>4. v \in States
    BY DEF Verdicts
  <2>5. open \in SUBSET Episodes /\ s.usable \in SUBSET Episodes
    BY WholeFields, EnrollsIs
  <2>6. waiting \ late \in SUBSET Episodes /\ usable \in SUBSET Episodes
    BY <2>5
  <2> HIDE DEF open, waiting, usable, Judged
  <2> QED
    BY <1>2, <2>3, <2>4, <2>6, Zenon
<1> QED
  BY <1>1, <1>2

\* A finished study is a whole record.
LEMMA FinishIs ==
    ASSUME NEW s \in WholeRecords, NEW v \in States, NEW counted \in SUBSET Episodes
    PROVE  /\ Finish(s, v, counted) \in WholeRecords
           /\ Finish(s, v, counted).state = v
           /\ Finish(s, v, counted).enrolled = {}
           /\ Finish(s, v, counted).context = s.context
           /\ Finish(s, v, counted).cut = s.cut
           /\ Finish(s, v, counted).contribution \in {"ready", s.contribution}
           /\ v # "promising" => Finish(s, v, counted).contribution = s.contribution
           /\ v # "inconclusive" => Finish(s, v, counted).counted = counted
<1> DEFINE kept == IF v = "inconclusive" THEN {} ELSE counted
           stage == IF v = "promising" THEN "ready" ELSE s.contribution
<1>1. 0 \in 0..MaxEpisodes /\ kept \in SUBSET Episodes
  BY CoachAssumption
<1>2. /\ s.context \in Contexts /\ s.cut \in 0..MaxEpisodes /\ s.contribution \in Contributions
      /\ stage \in Contributions
  BY WholeFields DEF Contributions
<1>3. /\ v # "inconclusive" => kept = counted
      /\ stage \in {"ready", s.contribution} /\ (v # "promising" => stage = s.contribution)
  OBVIOUS
<1>4. Finish(s, v, counted) =
          [s EXCEPT !.state = v, !.enrolled = {}, !.open = {}, !.usable = {}, !.cursor = 0,
                    !.counted = kept, !.contribution = stage]
  BY DEF Finish
<1> HIDE DEF kept, stage
<1>5. Finish(s, v, counted) =
          [state |-> v, context |-> s.context, contribution |-> stage, cut |-> s.cut,
           cursor |-> 0, enrolled |-> {}, open |-> {}, usable |-> {}, counted |-> kept]
  BY <1>4, WholeIs
<1> QED
  BY <1>1, <1>2, <1>3, <1>5, WholeIs

LEMMA EvaluatedSound ==
    ASSUME CoachFields, EpisodesInOrder, NEW s \in WholeRecords, Is(s, "testing"),
           SoundStudy(s, episodes), NEW u \in Evaluated(s)
    PROVE  /\ u \in WholeRecords /\ u.context = s.context
           /\ u.contribution \in {"research_only", "ready"}
           /\ SoundStudy(u, episodes)
<1>1. Enrolling(s, episodes) /\ s.contribution = "research_only"
  BY DEF Is, SoundStudy
<1>2. Cardinality(s.enrolled) <= MaxObserved
  BY <1>1 DEF Enrolling
<1>3. CASE Overtaken(s) /\ u = Finish(s, "inconclusive", {})
  <2>1. {} \in SUBSET Episodes /\ "inconclusive" \in States
    BY DEF States
  <2>2. /\ u \in WholeRecords /\ u.state = "inconclusive" /\ u.enrolled = {}
        /\ u.context = s.context /\ u.contribution = "research_only"
    BY <1>1, <1>3, <2>1, FinishIs
  <2> QED
    BY <2>2 DEF SoundStudy
<1>4. ASSUME ~Overtaken(s), NEW open \in SUBSET Episodes, NEW usable \in SUBSET Episodes
      PROVE  /\ Continued(s, open, usable) \in WholeRecords
             /\ Enrolling(Continued(s, open, usable), episodes)
             /\ Continued(s, open, usable).context = s.context
             /\ Continued(s, open, usable).cut = s.cut
             /\ Continued(s, open, usable).state = "testing"
             /\ Continued(s, open, usable).contribution = "research_only"
             /\ Continued(s, open, usable).enrolled = NowEnrolled(s)
  <2> DEFINE r == Continued(s, open, usable)
  <2>1. NowEnrolled(s) \in SUBSET Episodes /\ Prefix(NowEnrolled(s), open) \in SUBSET Episodes
        /\ Cursor(s) \in 0..MaxEpisodes
    <3>1. NowEnrolled(s) \in SUBSET Episodes
      BY <1>2, WholeFields, EnrollsIs DEF NowEnrolled
    <3> QED
      BY <3>1, CursorIs DEF Prefix
  <2>2. r \in WholeRecords
    BY <2>1, WholeIs DEF Continued
  <2>3. /\ r.context = s.context /\ r.cut = s.cut /\ r.state = "testing"
        /\ r.contribution = "research_only"
        /\ r.enrolled = NowEnrolled(s) /\ r.cursor = Cursor(s)
    BY <1>1, WholeIs DEF Continued, Is
  <2> HIDE DEF r
  <2>4. Enrolling(r, episodes)
    BY <1>1, <1>4, <2>2, <2>3, EnrollingGrows DEF Overtaken, NowEnrolled
  <2> QED
    BY <2>2, <2>3, <2>4 DEF r
<1>5. ASSUME ~Overtaken(s), NEW open \in SUBSET Episodes, NEW usable \in SUBSET Episodes,
             u = Continued(s, open, usable)
      PROVE  /\ u \in WholeRecords /\ u.context = s.context
             /\ u.contribution \in {"research_only", "ready"}
             /\ SoundStudy(u, episodes)
  BY <1>4, <1>5 DEF SoundStudy
<1>6. ASSUME ~Overtaken(s), NEW open \in SUBSET Episodes, NEW v \in States \ {"testing"},
             u = Finish(s, v, Prefix(NowEnrolled(s), open))
      PROVE  /\ u \in WholeRecords /\ u.context = s.context
             /\ u.contribution \in {"research_only", "ready"}
             /\ SoundStudy(u, episodes)
  <2> DEFINE r == Continued(s, open, open)
             counted == Prefix(NowEnrolled(s), open)
  <2>1. r \in WholeRecords /\ Enrolling(r, episodes) /\ r.context = s.context /\ r.cut = s.cut
        /\ r.enrolled = NowEnrolled(s)
    BY <1>4, <1>6
  <2>2. counted \in SUBSET Episodes
    BY <2>1, WholeFields DEF Prefix
  <2> HIDE DEF r, counted
  <2>3. u \in WholeRecords
    BY <1>6, <2>2, FinishIs DEF counted
  <2>4. /\ u.state = v /\ u.enrolled = {} /\ u.context = s.context /\ u.cut = s.cut
        /\ u.contribution \in {"research_only", "ready"}
        /\ v # "inconclusive" => u.counted = counted
    BY <1>1, <1>6, <2>2, FinishIs DEF counted
  <2>5. u.state \in {"promising", "not_supported"} => Counting(u, episodes)
    BY <2>1, <2>3, <2>4, PrefixIsWhole DEF counted
  <2> QED
    BY <2>3, <2>4, <2>5 DEF SoundStudy
<1> QED
  BY <1>2, <1>3, <1>5, <1>6, EvaluatedIs

-----------------------------------------------------------------------------
\* The invariant, one action at a time.

\* What the memory copies and the two actors do leaves the rows as they are.
LEMMA RowsKept ==
    ASSUME CoachInv, UNCHANGED <<episodes, prunedThrough, stored, seeded>>,
           context' \in Contexts, known' \in [Studies -> StudyRecords]
    PROVE  /\ CoachFields' /\ EpisodesInOrder' /\ StudiesSound'
           /\ OneStudyPerContext' /\ HandedOffIsSeeded'
<1>1. CoachFields'
  BY DEF CoachInv, CoachFields
<1>2. EpisodesInOrder'
  BY DEF CoachInv, EpisodesInOrder
<1>3. StudiesSound'
  BY DEF CoachInv, StudiesSound
<1>4. OneStudyPerContext'
  BY DEF CoachInv, OneStudyPerContext
<1>5. HandedOffIsSeeded'
  BY DEF CoachInv, HandedOffIsSeeded
<1> QED
  BY <1>1, <1>2, <1>3, <1>4, <1>5

\* The coach task's locals hold while the rows and the episodes stay.
LEMMA CoachKept ==
    CoachHolds /\ UNCHANGED <<coach, stored, episodes>> => CoachHolds'
<1> SUFFICES ASSUME CoachHolds, UNCHANGED <<coach, stored, episodes>> PROVE CoachHolds'
  OBVIOUS
<1>1. CoachShape'
  BY DEF CoachHolds, CoachShape
<1>2. Refreshing'
  BY DEF CoachHolds, Refreshing
<1>3. Evaluating'
  BY DEF CoachHolds, Evaluating
<1>4. Saving'
  BY DEF CoachHolds, Saving
<1>5. Proposing'
  BY DEF CoachHolds, Proposing, ActiveStudy
<1> QED
  BY <1>1, <1>2, <1>3, <1>4, <1>5 DEF CoachHolds

\* So do the heartbeat's while the rows and the candidates stay.
LEMMA BeatKept ==
    BeatHolds /\ UNCHANGED <<beat, stored, known, seeded>> => BeatHolds'
BY DEF BeatHolds

LEMMA StoredFields ==
    ASSUME CoachFields, NEW i \in Studies
    PROVE  /\ stored[i] \in StudyRecords /\ known[i] \in StudyRecords
           /\ stored[i] # NoStudy => stored[i] \in WholeRecords
           /\ known[i] # NoStudy => known[i] \in WholeRecords
           /\ \A state \in States :
                 /\ Is(stored[i], state) => stored[i] \in WholeRecords
                 /\ Is(known[i], state) => known[i] \in WholeRecords
BY DEF CoachFields, WholeRecords, Is, NoStudy, States

LEMMA StudiesBegin == CoachInit => CoachInv
<1> SUFFICES ASSUME CoachInit PROVE CoachInv
  OBVIOUS
<1> USE DEF CoachInit
<1>1. MaxEpisodes \in Nat
  BY CoachAssumption
<1>2. CoachFields
  BY <1>1 DEF CoachFields, EpisodeMaps, EpisodeStatus, StudyRecords
<1>3. EpisodesInOrder
  BY DEF EpisodesInOrder
<1>4. \A i \in Studies : stored[i] = NoStudy /\ known[i] = stored[i]
  OBVIOUS
<1>5. NoStudy.state = "none" /\ coach.at = "idle" /\ beat.at = "idle"
  BY DEF NoStudy, CoachIdle
<1>6. StudiesSound /\ MemoryFollows
  BY <1>4 DEF StudiesSound, MemoryFollows
<1>7. OneStudyPerContext /\ HandedOffIsSeeded
  BY <1>4, <1>5 DEF OneStudyPerContext, HandedOffIsSeeded, Is
<1>8. CoachHolds
  BY <1>5 DEF CoachHolds, CoachShape, Refreshing, Evaluating, Saving, Proposing
<1>9. BeatHolds
  BY <1>5 DEF BeatHolds
<1> QED
  BY <1>2, <1>3, <1>6, <1>7, <1>8, <1>9 DEF CoachInv

\* A study seen under test is the stored one, when no evaluation is waiting to be remembered.
LEMMA StudiesTick == CoachInv /\ BeginTick => CoachInv'
<1> SUFFICES ASSUME CoachInv, BeginTick PROVE CoachInv'
  OBVIOUS
<1> DEFINE seen(i) == IF known[i] = NoStudy THEN stored[i] ELSE known[i]
           todo == [i \in {j \in Studies : Is(seen(j), "testing")} |-> seen(i)]
<1>1. /\ coach.at = "idle" /\ coach' = [at |-> "refresh", todo |-> todo]
      /\ UNCHANGED <<context, episodes, prunedThrough, stored, known, beat, seeded>>
  BY DEF BeginTick
<1>2. CoachFields /\ CoachHolds /\ BeatHolds /\ MemoryFollows
  BY DEF CoachInv
<1>3. /\ CoachFields' /\ EpisodesInOrder' /\ StudiesSound'
      /\ OneStudyPerContext' /\ HandedOffIsSeeded'
  BY <1>1, <1>2, RowsKept DEF CoachFields
<1>4. ASSUME NEW j \in Studies, Is(seen(j), "testing")
      PROVE  seen(j) = stored[j]
  <2>1. CASE known[j] = stored[j]
    BY <2>1
  <2>2. CASE known[j] # stored[j]
    <3>1. beat.at = "marked" /\ beat.study = j
      BY <1>1, <1>2, <2>2 DEF MemoryFollows
    <3>2. Is(known[j], "promising")
      BY <1>2, <3>1 DEF BeatHolds
    <3> QED
      BY <1>4, <3>2 DEF Is, NoStudy
  <2> QED
    BY <2>1, <2>2
<1>5. \A j \in DOMAIN todo : j \in Studies /\ todo[j] = stored[j] /\ Is(stored[j], "testing")
  BY <1>4
<1> HIDE DEF todo
<1>6. coach'.at = "refresh" /\ coach'.todo = todo
  BY <1>1
<1>7. CoachHolds'
  BY <1>1, <1>5, <1>6 DEF CoachHolds, CoachShape, Refreshing, Evaluating, Saving, Proposing
<1>8. BeatHolds'
  BY <1>1, <1>2, BeatKept
<1>9. MemoryFollows'
  BY <1>1, <1>2 DEF MemoryFollows
<1> QED
  BY <1>3, <1>7, <1>8, <1>9 DEF CoachInv

LEMMA StudiesEvaluated == CoachInv /\ (\E i \in Studies : Evaluate(i)) => CoachInv'
<1> SUFFICES ASSUME CoachInv, NEW i \in Studies, Evaluate(i) PROVE CoachInv'
  OBVIOUS
<1> DEFINE rest == RestrictDomain(coach.todo, LAMBDA j : j # i)
<1>1. /\ coach.at = "refresh" /\ i \in DOMAIN coach.todo
      /\ UNCHANGED <<context, episodes, prunedThrough, stored, known, beat, seeded>>
  BY DEF Evaluate
<1>2. CoachFields /\ EpisodesInOrder /\ StudiesSound /\ CoachHolds /\ BeatHolds /\ MemoryFollows
  BY DEF CoachInv
<1>3. PICK updated \in Evaluated(coach.todo[i]) :
          coach' = IF updated = coach.todo[i] THEN [coach EXCEPT !.todo = rest]
                   ELSE [at |-> "evaluated", todo |-> rest, study |-> i,
                         expected |-> coach.todo[i], updated |-> updated]
  BY Zenon DEF Evaluate
<1>4. /\ CoachFields' /\ EpisodesInOrder' /\ StudiesSound'
      /\ OneStudyPerContext' /\ HandedOffIsSeeded'
  BY <1>1, <1>2, RowsKept DEF CoachFields
<1>5. /\ coach.todo[i] = stored[i] /\ Is(stored[i], "testing")
      /\ \A j \in DOMAIN coach.todo :
            j \in Studies /\ coach.todo[j] = stored[j] /\ Is(stored[j], "testing")
  BY <1>1, <1>2 DEF CoachHolds, Refreshing
<1>6. /\ DOMAIN rest = DOMAIN coach.todo \ {i}
      /\ \A j \in DOMAIN rest : rest[j] = coach.todo[j]
  BY DEF RestrictDomain, Restrict
<1>7. \A j \in DOMAIN rest : j \in Studies /\ rest[j] = stored[j] /\ Is(stored[j], "testing")
  BY <1>5, <1>6
<1>8. stored[i] \in WholeRecords
  <2>1. "testing" \in States
    BY DEF States
  <2> QED
    BY <1>2, <1>5, <2>1, StoredFields
<1>9. SoundStudy(stored[i], episodes)
  BY <1>2, <1>8 DEF StudiesSound, WholeRecords
<1>10. PICK s \in WholeRecords : s = stored[i]
  BY <1>8
<1>11. /\ updated \in WholeRecords /\ updated.context = stored[i].context
       /\ updated.contribution \in {"research_only", "ready"}
       /\ SoundStudy(updated, episodes)
  BY <1>2, <1>5, <1>9, <1>10, EvaluatedSound
<1>12. coach = [at |-> "refresh", todo |-> coach.todo]
  BY <1>1, <1>2 DEF CoachHolds, CoachShape
<1> HIDE DEF rest
<1>13. ASSUME updated = coach.todo[i]
       PROVE  CoachHolds' /\ coach'.at \notin {"saved", "selected"}
  <2>1. coach' = [at |-> "refresh", todo |-> rest]
    BY <1>3, <1>12, <1>13
  <2>2. coach'.at = "refresh" /\ coach'.todo = rest
    BY <2>1
  <2>3. CoachHolds'
    BY <1>1, <1>7, <2>1, <2>2
       DEF CoachHolds, CoachShape, Refreshing, Evaluating, Saving, Proposing
  <2>4. coach'.at \notin {"saved", "selected"}
    BY <2>2
  <2> QED
    BY <2>3, <2>4
<1>14. ASSUME updated # coach.todo[i]
       PROVE  CoachHolds' /\ coach'.at \notin {"saved", "selected"}
  <2>1. coach' = [at |-> "evaluated", todo |-> rest, study |-> i,
                  expected |-> coach.todo[i], updated |-> updated]
    BY <1>3, <1>14
  <2>2. /\ coach'.at = "evaluated" /\ coach'.todo = rest /\ coach'.study = i
        /\ coach'.expected = coach.todo[i] /\ coach'.updated = updated
    BY <2>1
  <2>3. CoachShape' /\ Refreshing' /\ Saving' /\ Proposing'
    BY <1>1, <1>7, <2>1, <2>2 DEF CoachShape, Refreshing, Saving, Proposing
  <2>4. Evaluating'
    BY <1>1, <1>5, <1>6, <1>11, <1>14, <2>2 DEF Evaluating
  <2>5. CoachHolds' /\ coach'.at \notin {"saved", "selected"}
    BY <2>2, <2>3, <2>4 DEF CoachHolds
  <2> QED
    BY <2>5
<1>15. CoachHolds' /\ coach'.at \notin {"saved", "selected"}
  BY <1>13, <1>14
<1>16. BeatHolds'
  BY <1>1, <1>2, BeatKept
<1>17. MemoryFollows'
  BY <1>1, <1>2 DEF MemoryFollows
<1> QED
  BY <1>4, <1>15, <1>16, <1>17 DEF CoachInv

\* No other actor writes a study under test, so the row is the one the evaluation read.
LEMMA StudiesSaved == CoachInv /\ SaveEvaluation => CoachInv'
<1> SUFFICES ASSUME CoachInv, SaveEvaluation PROVE CoachInv'
  OBVIOUS
<1> DEFINE i == coach.study
           updated == coach.updated
<1>1. /\ coach.at = "evaluated"
      /\ stored' = [stored EXCEPT ![i] = Swapped(i, coach.expected, updated)]
      /\ coach' = [coach EXCEPT !.at = "saved", !.updated = Swapped(i, coach.expected, updated)]
      /\ UNCHANGED <<context, episodes, prunedThrough, known, beat, seeded>>
  BY DEF SaveEvaluation
<1>2. /\ CoachFields /\ EpisodesInOrder /\ StudiesSound /\ CoachHolds /\ BeatHolds /\ MemoryFollows
      /\ OneStudyPerContext /\ HandedOffIsSeeded
  BY DEF CoachInv
<1>3. /\ i \in Studies /\ i \notin DOMAIN coach.todo
      /\ coach.expected = stored[i] /\ Is(stored[i], "testing")
      /\ updated \in WholeRecords /\ updated # stored[i]
      /\ SoundStudy(updated, episodes)
      /\ updated.context = stored[i].context
      /\ updated.contribution \in {"research_only", "ready"}
  BY <1>1, <1>2 DEF CoachHolds, Evaluating
<1>4. stored[i] \in WholeRecords
  <2>1. "testing" \in States
    BY DEF States
  <2> QED
    BY <1>2, <1>3, <2>1, StoredFields
<1>5. Swapped(i, coach.expected, updated) = updated
  BY <1>3 DEF Swapped
<1>6. /\ stored' = [stored EXCEPT ![i] = updated] /\ stored \in [Studies -> StudyRecords]
      /\ coach' = [at |-> "saved", todo |-> coach.todo, study |-> i,
                   expected |-> coach.expected, updated |-> updated]
  <2>1. coach = [at |-> "evaluated", todo |-> coach.todo, study |-> coach.study,
                 expected |-> coach.expected, updated |-> coach.updated]
    BY <1>1, <1>2 DEF CoachHolds, CoachShape
  <2> QED
    BY <1>1, <1>2, <1>5, <2>1 DEF CoachFields
<1> HIDE DEF i, updated
<1>7. stored'[i] = updated /\ \A j \in Studies \ {i} : stored'[j] = stored[j]
  BY <1>3, <1>6
<1>8. CoachFields'
  BY <1>1, <1>2, <1>3, <1>6 DEF CoachFields, WholeRecords
<1>9. EpisodesInOrder'
  BY <1>1, <1>2 DEF EpisodesInOrder
<1>10. StudiesSound'
  BY <1>1, <1>2, <1>3, <1>7 DEF StudiesSound
<1>11. \A j \in Studies : Is(stored'[j], "testing") =>
           Is(stored[j], "testing") /\ stored'[j].context = stored[j].context
  BY <1>3, <1>7
<1>12. OneStudyPerContext'
  BY <1>2, <1>11 DEF OneStudyPerContext
<1>13. \A j \in Studies : Is(stored[j], "promising") => j # i
  BY <1>3 DEF Is
<1>14. HandedOffIsSeeded'
  BY <1>1, <1>2, <1>3, <1>7, <1>13 DEF HandedOffIsSeeded, Is
<1>15. /\ coach'.at = "saved" /\ coach'.todo = coach.todo /\ coach'.study = i
       /\ coach'.expected = stored[i] /\ coach'.updated = updated
  BY <1>3, <1>6
<1>16. Refreshing'
  BY <1>1, <1>2, <1>3, <1>7, <1>15 DEF CoachHolds, Refreshing
<1>17. CoachShape' /\ Evaluating' /\ Proposing'
  BY <1>15 DEF CoachShape, Evaluating, Proposing
<1>18. Saving'
  BY <1>3, <1>4, <1>7, <1>15 DEF Saving
<1>19. BeatHolds'
  BY <1>1, <1>2, <1>7, <1>13 DEF BeatHolds
<1>20. MemoryFollows'
  <2> SUFFICES ASSUME NEW j \in Studies
               PROVE  \/ known[j] = stored'[j]
                      \/ /\ coach'.at = "saved" /\ coach'.study = j
                         /\ known[j] = coach'.expected /\ stored'[j] = coach'.updated
                      \/ beat.at = "marked" /\ beat.study = j
    BY <1>1 DEF MemoryFollows
  <2>1. CASE j = i
    <3>1. ~(beat.at = "marked" /\ beat.study = i)
      BY <1>2, <1>13 DEF BeatHolds
    <3>2. known[i] = stored[i]
      BY <1>1, <1>2, <1>3, <3>1 DEF MemoryFollows
    <3> QED
      BY <1>7, <1>15, <2>1, <3>2
  <2>2. CASE j # i
    BY <1>1, <1>2, <1>7, <2>2 DEF MemoryFollows
  <2> QED
    BY <2>1, <2>2
<1> QED
  BY <1>8, <1>9, <1>10, <1>12, <1>14, <1>16, <1>17, <1>18, <1>19, <1>20 DEF CoachInv, CoachHolds

\* Memory takes the evaluation over unless the hand-off remembered the study meanwhile.
LEMMA StudiesRemember == CoachInv /\ RememberEvaluation => CoachInv'
<1> SUFFICES ASSUME CoachInv, RememberEvaluation PROVE CoachInv'
  OBVIOUS
<1> DEFINE i == coach.study
           now == RememberedStudy(i, coach.expected, coach.updated)
<1>1. /\ coach.at = "saved" /\ known' = [known EXCEPT ![i] = now]
      /\ coach' = [at |-> "refresh", todo |-> coach.todo]
      /\ UNCHANGED <<context, episodes, prunedThrough, stored, beat, seeded>>
  BY DEF RememberEvaluation
<1>2. CoachFields /\ CoachHolds /\ BeatHolds /\ MemoryFollows
  BY DEF CoachInv
<1>3. /\ i \in Studies
      /\ coach.expected \in WholeRecords /\ Is(coach.expected, "testing")
      /\ coach.updated \in WholeRecords /\ coach.updated # coach.expected
      /\ stored[i] = coach.updated \/ Is(stored[i], "promising")
  BY <1>1, <1>2 DEF CoachHolds, Saving
<1>4. now \in StudyRecords
  BY <1>2, <1>3 DEF RememberedStudy, CoachFields, WholeRecords
<1>5. now = stored[i] \/ (beat.at = "marked" /\ beat.study = i)
  <2>1. CASE known[i] = stored[i]
    <3>1. known[i] # NoStudy
      BY <1>3, <2>1 DEF Is, NoStudy, WholeRecords
    <3>2. known[i] # coach.expected
      BY <1>3, <2>1 DEF Is
    <3> QED
      BY <2>1, <3>1, <3>2 DEF RememberedStudy
  <2>2. CASE known[i] = coach.expected /\ stored[i] = coach.updated
    BY <2>2 DEF RememberedStudy
  <2> QED
    BY <1>1, <1>2, <1>3, <2>1, <2>2 DEF MemoryFollows
<1>6. beat.at \in {"seed", "mark", "marked"} /\ beat.study = i => now = known[i]
  <2> SUFFICES ASSUME beat.at \in {"seed", "mark", "marked"}, beat.study = i PROVE now = known[i]
    OBVIOUS
  <2>1. Is(known[i], "promising")
    BY <1>2 DEF BeatHolds
  <2>2. known[i] # NoStudy /\ known[i] # coach.expected
    BY <1>3, <2>1 DEF Is, NoStudy
  <2> QED
    BY <2>2 DEF RememberedStudy
<1> HIDE DEF i, now
<1>7. known' \in [Studies -> StudyRecords] /\ known'[i] = now
      /\ \A j \in Studies \ {i} : known'[j] = known[j]
  BY <1>1, <1>2, <1>3, <1>4 DEF CoachFields
<1>8. /\ CoachFields' /\ EpisodesInOrder' /\ StudiesSound'
      /\ OneStudyPerContext' /\ HandedOffIsSeeded'
  BY <1>1, <1>2, <1>7, RowsKept DEF CoachFields
<1>9. coach'.at = "refresh" /\ coach'.todo = coach.todo
  BY <1>1
<1>10. CoachHolds'
  <2>1. Refreshing'
    BY <1>1, <1>2, <1>9 DEF CoachHolds, Refreshing
  <2> QED
    BY <1>1, <1>9, <2>1 DEF CoachHolds, CoachShape, Evaluating, Saving, Proposing
<1>11. BeatHolds'
  <2>1. beat.at \in {"seed", "mark", "marked"} =>
            beat.study \in Studies /\ known'[beat.study] = known[beat.study]
    BY <1>2, <1>6, <1>7 DEF BeatHolds
  <2> QED
    BY <1>1, <1>2, <2>1 DEF BeatHolds
<1>12. MemoryFollows'
  <2> SUFFICES ASSUME NEW j \in Studies
               PROVE  known'[j] = stored[j] \/ (beat.at = "marked" /\ beat.study = j)
    BY <1>1 DEF MemoryFollows
  <2>1. CASE j = i
    BY <1>5, <1>7, <2>1
  <2>2. CASE j # i
    BY <1>1, <1>2, <1>7, <2>2 DEF MemoryFollows, i
  <2> QED
    BY <2>1, <2>2
<1> QED
  BY <1>8, <1>10, <1>11, <1>12 DEF CoachInv

\* Steps that move the coach task alone, from and to places where no copy is outstanding.
LEMMA CoachMoves ==
    ASSUME CoachInv, coach.at \notin {"saved", "selected"}, CoachHolds',
           UNCHANGED <<context, episodes, prunedThrough, stored, known, beat, seeded>>
    PROVE  CoachInv'
<1>1. CoachFields /\ BeatHolds /\ MemoryFollows
  BY DEF CoachInv
<1>2. /\ CoachFields' /\ EpisodesInOrder' /\ StudiesSound'
      /\ OneStudyPerContext' /\ HandedOffIsSeeded'
  BY <1>1, RowsKept DEF CoachFields
<1>3. BeatHolds'
  BY <1>1, BeatKept
<1>4. MemoryFollows'
  BY <1>1 DEF MemoryFollows
<1> QED
  BY <1>2, <1>3, <1>4 DEF CoachInv

LEMMA StudiesDeferred == CoachInv /\ DeferTick => CoachInv'
<1> SUFFICES ASSUME CoachInv, DeferTick PROVE CoachInv'
  OBVIOUS
<1>1. /\ coach.at \notin {"saved", "selected"} /\ coach'.at = "idle"
      /\ UNCHANGED <<context, episodes, prunedThrough, stored, known, beat, seeded>>
  BY DEF DeferTick, CoachIdle
<1>2. CoachHolds'
  BY <1>1 DEF CoachHolds, CoachShape, Refreshing, Evaluating, Saving, Proposing
<1> QED
  BY <1>1, <1>2, CoachMoves

LEMMA StudiesRefreshed == CoachInv /\ EndRefresh => CoachInv'
<1> SUFFICES ASSUME CoachInv, EndRefresh PROVE CoachInv'
  OBVIOUS
<1>1. /\ coach.at \notin {"saved", "selected"}
      /\ coach' = [at |-> "lookup", context |-> context]
      /\ UNCHANGED <<context, episodes, prunedThrough, stored, known, beat, seeded>>
  BY DEF EndRefresh
<1>2. coach'.at = "lookup" /\ coach'.context = context /\ context \in Contexts
  BY <1>1 DEF CoachInv, CoachFields
<1>3. CoachHolds'
  BY <1>1, <1>2 DEF CoachHolds, CoachShape, Refreshing, Evaluating, Saving, Proposing
<1> QED
  BY <1>1, <1>3, CoachMoves

\* The slot that the lookup found free.
LEMMA StudiesLookedUp == CoachInv /\ LookUp => CoachInv'
<1> SUFFICES ASSUME CoachInv, LookUp PROVE CoachInv'
  OBVIOUS
<1>1. /\ coach.at = "lookup"
      /\ coach' = IF ActiveStudy(coach.context) \/ context # coach.context THEN CoachIdle
                  ELSE [coach EXCEPT !.at = "infer"]
      /\ UNCHANGED <<context, episodes, prunedThrough, stored, known, beat, seeded>>
  BY DEF LookUp
<1>2. coach.context \in Contexts /\ coach = [at |-> "lookup", context |-> coach.context]
  BY <1>1 DEF CoachInv, CoachHolds, CoachShape, Proposing
<1>3. \/ coach'.at = "idle"
      \/ coach'.at = "infer" /\ coach'.context = coach.context /\ ~ActiveStudy(coach.context)
  BY <1>1, <1>2 DEF CoachIdle
<1>4. CoachHolds'
  BY <1>1, <1>2, <1>3
     DEF CoachHolds, CoachShape, Refreshing, Evaluating, Saving, Proposing, ActiveStudy
<1> QED
  BY <1>1, <1>4, CoachMoves

\* A study starts after every episode created so far.
LEMMA CreatedBefore ==
    ASSUME CoachFields, EpisodesInOrder
    PROVE  /\ Newest(Created) \in 0..MaxEpisodes
           /\ \A e \in Episodes : episodes[e].status = "none" => Newest(Created) < e
<1>1. Created \in SUBSET (0..MaxEpisodes) /\ MaxEpisodes \in Nat
  BY CoachAssumption DEF Created, Episodes
<1>2. CASE Created = {}
  <2>1. Newest(Created) = 0
    BY <1>2 DEF Newest
  <2> QED
    BY <1>1, <2>1 DEF Episodes
<1>3. CASE Created # {}
  <2>1. Newest(Created) \in Created
    BY <1>1, <1>3, NewestIs
  <2>2. PICK n \in Episodes : n = Newest(Created) /\ episodes[n].status # "none"
    BY <2>1 DEF Created
  <2>3. \A e \in Episodes : episodes[e].status = "none" => n < e
    <3> SUFFICES ASSUME NEW e \in Episodes, episodes[e].status = "none" PROVE n < e
      OBVIOUS
    <3>1. ~(e < n) /\ e # n
      BY <2>2 DEF EpisodesInOrder
    <3> QED
      BY <3>1 DEF Episodes
  <2> QED
    BY <1>1, <2>1, <2>2, <2>3
<1> QED
  BY <1>2, <1>3

LEMMA StudiesAnswered == CoachInv /\ Answer => CoachInv'
<1> SUFFICES ASSUME CoachInv, Answer PROVE CoachInv'
  OBVIOUS
<1>1. /\ coach.at = "infer"
      /\ \/ coach' = [at |-> "select", context |-> coach.context, cut |-> Newest(Created)]
         \/ coach' = CoachIdle
      /\ UNCHANGED <<context, episodes, prunedThrough, stored, known, beat, seeded>>
  BY DEF Answer
<1>2. coach.context \in Contexts /\ ~ActiveStudy(coach.context)
  BY <1>1 DEF CoachInv, CoachHolds, Proposing
<1>3. /\ Newest(Created) \in 0..MaxEpisodes
      /\ \A e \in Episodes : episodes[e].status = "none" => Newest(Created) < e
  BY CreatedBefore DEF CoachInv
<1>4. \/ coach'.at = "idle"
      \/ /\ coach'.at = "select" /\ coach'.context = coach.context
         /\ coach'.cut = Newest(Created)
  BY <1>1 DEF CoachIdle
<1>5. CoachHolds'
  BY <1>1, <1>2, <1>3, <1>4
     DEF CoachHolds, CoachShape, Refreshing, Evaluating, Saving, Proposing, ActiveStudy
<1> QED
  BY <1>1, <1>5, CoachMoves

\* The context is still free when the idea is saved: only this task opens studies.
LEMMA StudiesSelected == CoachInv /\ (\E i \in Studies : SaveSelection(i)) => CoachInv'
<1> SUFFICES ASSUME CoachInv, NEW i \in Studies, SaveSelection(i) PROVE CoachInv'
  OBVIOUS
<1> DEFINE study == NewStudy(coach.context, coach.cut)
<1>1. /\ coach.at = "select" /\ stored[i] = NoStudy
      /\ stored' = [stored EXCEPT ![i] = study]
      /\ coach' = [at |-> "selected", study |-> i, updated |-> study]
      /\ UNCHANGED <<context, episodes, prunedThrough, known, beat, seeded>>
  BY DEF SaveSelection
<1>2. /\ CoachFields /\ EpisodesInOrder /\ StudiesSound /\ CoachHolds /\ BeatHolds /\ MemoryFollows
      /\ OneStudyPerContext /\ HandedOffIsSeeded
  BY DEF CoachInv
<1>3. /\ coach.context \in Contexts /\ ~ActiveStudy(coach.context)
      /\ coach.cut \in 0..MaxEpisodes
      /\ \A e \in Episodes : episodes[e].status = "none" => coach.cut < e
  BY <1>1, <1>2 DEF CoachHolds, Proposing
<1>4. /\ study \in WholeRecords /\ study.state = "testing" /\ study.context = coach.context
      /\ study.contribution = "research_only" /\ study.cut = coach.cut
      /\ study.cursor = coach.cut /\ study.enrolled = {}
  BY <1>3, WholeIs DEF NewStudy, States, Contributions
<1>5. SoundStudy(study, episodes)
  <2>1. coach.cut <= coach.cut
    BY <1>3
  <2>2. Cardinality({}) = 0 /\ MaxObserved \in Nat
    BY FS_EmptySet, CoachAssumption
  <2>3. \A f \in OwnEpisodes(study, episodes) : coach.cut < f
    BY <1>4 DEF OwnEpisodes
  <2> HIDE DEF study
  <2>4. Enrolling(study, episodes)
    BY <1>3, <1>4, <2>1, <2>2, <2>3 DEF Enrolling
  <2> QED
    BY <1>4, <2>4 DEF SoundStudy
<1> HIDE DEF study
<1>6. stored'[i] = study /\ \A j \in Studies \ {i} : stored'[j] = stored[j]
  BY <1>1, <1>2 DEF CoachFields
<1>7. CoachFields'
  BY <1>1, <1>2, <1>4 DEF CoachFields, WholeRecords
<1>8. EpisodesInOrder'
  BY <1>1, <1>2 DEF EpisodesInOrder
<1>9. StudiesSound'
  BY <1>1, <1>2, <1>5, <1>6 DEF StudiesSound
<1>10. OneStudyPerContext'
  <2>1. \A j \in Studies : Is(stored[j], "testing") => stored[j].context # study.context
    BY <1>3, <1>4 DEF ActiveStudy
  <2> QED
    BY <1>2, <1>6, <2>1 DEF OneStudyPerContext
<1>11. ~Is(stored[i], "promising") /\ Is(study, "testing")
  BY <1>1, <1>4 DEF Is, NoStudy
<1>12. HandedOffIsSeeded'
  BY <1>1, <1>2, <1>4, <1>6, <1>11 DEF HandedOffIsSeeded
<1>13. coach'.at = "selected" /\ coach'.study = i /\ coach'.updated = study
  BY <1>1
<1>14. CoachHolds'
  BY <1>6, <1>11, <1>13
     DEF CoachHolds, CoachShape, Refreshing, Evaluating, Saving, Proposing
<1>15. BeatHolds'
  BY <1>1, <1>2, <1>6, <1>11 DEF BeatHolds
<1>16. MemoryFollows'
  <2> SUFFICES ASSUME NEW j \in Studies
               PROVE  \/ known[j] = stored'[j]
                      \/ coach'.at = "selected" /\ coach'.study = j /\ known[j] = NoStudy
                      \/ beat.at = "marked" /\ beat.study = j
    BY <1>1 DEF MemoryFollows
  <2>1. CASE j = i
    BY <1>1, <1>2, <1>13, <2>1 DEF MemoryFollows
  <2>2. CASE j # i
    BY <1>1, <1>2, <1>6, <2>2 DEF MemoryFollows
  <2> QED
    BY <2>1, <2>2
<1> QED
  BY <1>7, <1>8, <1>9, <1>10, <1>12, <1>14, <1>15, <1>16 DEF CoachInv

LEMMA StudiesRememberSelection == CoachInv /\ RememberSelection => CoachInv'
<1> SUFFICES ASSUME CoachInv, RememberSelection PROVE CoachInv'
  OBVIOUS
<1> DEFINE i == coach.study
<1>1. /\ coach.at = "selected" /\ known' = [known EXCEPT ![i] = coach.updated]
      /\ coach'.at = "idle"
      /\ UNCHANGED <<context, episodes, prunedThrough, stored, beat, seeded>>
  BY DEF RememberSelection, CoachIdle
<1>2. CoachFields /\ CoachHolds /\ BeatHolds /\ MemoryFollows
  BY DEF CoachInv
<1>3. i \in Studies /\ coach.updated = stored[i] /\ Is(stored[i], "testing")
  BY <1>1, <1>2 DEF CoachHolds, Proposing
<1> HIDE DEF i
<1>4. known' \in [Studies -> StudyRecords] /\ known'[i] = stored[i]
      /\ \A j \in Studies \ {i} : known'[j] = known[j]
  BY <1>1, <1>2, <1>3 DEF CoachFields
<1>5. /\ CoachFields' /\ EpisodesInOrder' /\ StudiesSound'
      /\ OneStudyPerContext' /\ HandedOffIsSeeded'
  BY <1>1, <1>2, <1>4, RowsKept DEF CoachFields
<1>6. CoachHolds'
  BY <1>1 DEF CoachHolds, CoachShape, Refreshing, Evaluating, Saving, Proposing
<1>7. BeatHolds'
  <2>1. \A j \in Studies : Is(stored[j], "promising") => j # i
    BY <1>3 DEF Is
  <2> QED
    BY <1>1, <1>2, <1>4, <2>1 DEF BeatHolds
<1>8. MemoryFollows'
  BY <1>1, <1>2, <1>4 DEF MemoryFollows, i
<1> QED
  BY <1>5, <1>6, <1>7, <1>8 DEF CoachInv

\* The hand-off takes the stored study into memory.
LEMMA StudiesReady == CoachInv /\ (\E i \in Studies : ReadyContribution(i)) => CoachInv'
<1> SUFFICES ASSUME CoachInv, NEW i \in Studies, ReadyContribution(i) PROVE CoachInv'
  OBVIOUS
<1>1. /\ beat.at = "idle" /\ Is(stored[i], "promising")
      /\ known' = [known EXCEPT ![i] = stored[i]]
      /\ beat'.at = "seed" /\ beat'.study = i
      /\ UNCHANGED <<context, episodes, prunedThrough, stored, coach, seeded>>
  BY DEF ReadyContribution
<1>2. CoachFields /\ CoachHolds /\ BeatHolds /\ MemoryFollows
  BY DEF CoachInv
<1>3. known' \in [Studies -> StudyRecords] /\ known'[i] = stored[i]
      /\ \A j \in Studies \ {i} : known'[j] = known[j]
  BY <1>1, <1>2 DEF CoachFields
<1>4. /\ CoachFields' /\ EpisodesInOrder' /\ StudiesSound'
      /\ OneStudyPerContext' /\ HandedOffIsSeeded'
  BY <1>1, <1>2, <1>3, RowsKept DEF CoachFields
<1>5. CoachHolds'
  BY <1>1, <1>2, CoachKept
<1>6. BeatHolds'
  BY <1>1, <1>3 DEF BeatHolds
<1>7. MemoryFollows'
  BY <1>1, <1>2, <1>3 DEF MemoryFollows
<1> QED
  BY <1>4, <1>5, <1>6, <1>7 DEF CoachInv

LEMMA StudiesSeeded == CoachInv /\ SeedCandidate => CoachInv'
<1> SUFFICES ASSUME CoachInv, SeedCandidate PROVE CoachInv'
  OBVIOUS
<1> DEFINE i == beat.study
<1>1. PICK result \in {"handed_off", "waiting", "stale"} :
          /\ seeded' = Registered(i, result)
          /\ beat' = [at |-> "mark", study |-> i, result |-> result]
  BY DEF SeedCandidate
<1>2. beat.at = "seed" /\ UNCHANGED <<context, episodes, prunedThrough, stored, known, coach>>
  BY DEF SeedCandidate
<1>3. /\ CoachFields /\ EpisodesInOrder /\ StudiesSound /\ CoachHolds /\ BeatHolds /\ MemoryFollows
      /\ OneStudyPerContext /\ HandedOffIsSeeded
  BY DEF CoachInv
<1>4. i \in Studies /\ Is(stored[i], "promising") /\ Is(known[i], "promising")
  BY <1>2, <1>3 DEF BeatHolds
<1>5. /\ seeded \subseteq seeded' /\ seeded' \subseteq seeded \cup {i}
      /\ result = "handed_off" => i \in seeded'
  BY <1>1 DEF Registered
<1>6. beat'.at = "mark" /\ beat'.study = i /\ beat'.result = result
  BY <1>1
<1> HIDE DEF i
<1>7. CoachFields'
  BY <1>2, <1>3, <1>4, <1>5 DEF CoachFields
<1>8. EpisodesInOrder'
  BY <1>2, <1>3 DEF EpisodesInOrder
<1>9. StudiesSound'
  BY <1>2, <1>3 DEF StudiesSound
<1>10. OneStudyPerContext'
  BY <1>2, <1>3 DEF OneStudyPerContext
<1>11. HandedOffIsSeeded'
  BY <1>2, <1>3, <1>4, <1>5 DEF HandedOffIsSeeded
<1>12. CoachHolds'
  BY <1>2, <1>3, CoachKept
<1>13. BeatHolds'
  BY <1>2, <1>4, <1>5, <1>6 DEF BeatHolds
<1>14. MemoryFollows'
  BY <1>2, <1>3 DEF MemoryFollows
<1> QED
  BY <1>7, <1>8, <1>9, <1>10, <1>11, <1>12, <1>13, <1>14 DEF CoachInv

\* The swap of the contribution leaves the verdict and its evidence alone.
LEMMA MarkedIs ==
    ASSUME NEW s \in WholeRecords, NEW c \in Contributions, Is(s, "promising")
    PROVE  /\ [s EXCEPT !.contribution = c] \in WholeRecords
           /\ Is([s EXCEPT !.contribution = c], "promising")
           /\ [s EXCEPT !.contribution = c].contribution = c
           /\ SoundStudy(s, episodes) => SoundStudy([s EXCEPT !.contribution = c], episodes)
<1> DEFINE r == [s EXCEPT !.contribution = c]
<1>1. /\ r \in WholeRecords /\ r.contribution = c
      /\ r.state = s.state /\ r.context = s.context /\ r.cut = s.cut
      /\ r.enrolled = s.enrolled /\ r.counted = s.counted
  BY WholeIs
<1> HIDE DEF r
<1>2. Is(r, "promising") /\ s.state = "promising"
  BY <1>1 DEF Is
<1>3. SoundStudy(s, episodes) => SoundStudy(r, episodes)
  BY <1>1, <1>2 DEF SoundStudy, Counting, OwnEpisodes
<1> QED
  BY <1>1, <1>2, <1>3 DEF r

LEMMA StudiesMarked == CoachInv /\ MarkContribution => CoachInv'
<1> SUFFICES ASSUME CoachInv, MarkContribution PROVE CoachInv'
  OBVIOUS
<1> DEFINE i == beat.study
           expected == known[i]
           updated == [expected EXCEPT !.contribution = beat.result]
           now == Swapped(i, expected, updated)
<1>1. /\ beat.at = "mark"
      /\ IF Is(expected, "promising") /\ expected.contribution \notin {"handed_off", "stale"}
         THEN /\ stored' = [stored EXCEPT ![i] = now]
              /\ beat' = [at |-> "marked", study |-> i, expected |-> expected, updated |-> now]
         ELSE beat' = CoachIdle /\ UNCHANGED stored
      /\ UNCHANGED <<context, episodes, prunedThrough, known, coach, seeded>>
  BY DEF MarkContribution
<1>2. /\ CoachFields /\ EpisodesInOrder /\ StudiesSound /\ CoachHolds /\ BeatHolds /\ MemoryFollows
      /\ OneStudyPerContext /\ HandedOffIsSeeded
  BY DEF CoachInv
<1>3. /\ i \in Studies /\ Is(stored[i], "promising") /\ Is(known[i], "promising")
      /\ beat.result \in {"handed_off", "waiting", "stale"}
      /\ beat.result = "handed_off" => i \in seeded
  BY <1>1, <1>2 DEF BeatHolds
<1>4. known[i] = stored[i]
  <2>1. coach.at = "saved" => known[i] # coach.expected
    BY <1>2, <1>3 DEF CoachHolds, Saving, Is
  <2>2. known[i] # NoStudy
    BY <1>3 DEF Is, NoStudy
  <2> QED
    BY <1>1, <1>2, <1>3, <2>1, <2>2 DEF MemoryFollows
<1>5. now = updated
  BY <1>4 DEF Swapped
<1>6. PICK s \in WholeRecords : s = stored[i]
  <2>1. "promising" \in States
    BY DEF States
  <2> QED
    BY <1>2, <1>3, <2>1, StoredFields
<1>7. PICK c \in Contributions : c = beat.result
  BY <1>3 DEF Contributions
<1>8. /\ updated \in WholeRecords /\ Is(updated, "promising") /\ updated.contribution = beat.result
      /\ SoundStudy(updated, episodes)
  <2>1. updated = [s EXCEPT !.contribution = c]
    BY <1>4, <1>6, <1>7
  <2>2. Is(s, "promising") /\ SoundStudy(s, episodes)
    BY <1>2, <1>3, <1>6 DEF StudiesSound, WholeRecords
  <2> QED
    BY <1>7, <2>1, <2>2, MarkedIs
<1> HIDE DEF i, expected, updated, now
<1>9. CASE UNCHANGED stored /\ beat' = CoachIdle
  <2>1. beat'.at = "idle"
    BY <1>9 DEF CoachIdle
  <2>2. /\ CoachFields' /\ EpisodesInOrder' /\ StudiesSound'
        /\ OneStudyPerContext' /\ HandedOffIsSeeded'
    BY <1>1, <1>2, <1>9, RowsKept DEF CoachFields
  <2>3. CoachHolds' /\ BeatHolds'
    BY <1>1, <1>2, <1>9, <2>1, CoachKept DEF BeatHolds
  <2>4. MemoryFollows'
    BY <1>1, <1>2, <1>9 DEF MemoryFollows
  <2> QED
    BY <2>2, <2>3, <2>4 DEF CoachInv
<1>10. CASE /\ stored' = [stored EXCEPT ![i] = updated]
            /\ beat' = [at |-> "marked", study |-> i, expected |-> expected, updated |-> updated]
  <2>1. stored'[i] = updated /\ \A j \in Studies \ {i} : stored'[j] = stored[j]
    BY <1>2, <1>3, <1>10 DEF CoachFields
  <2>2. /\ beat'.at = "marked" /\ beat'.study = i /\ beat'.expected = known[i]
        /\ beat'.updated = updated
    BY <1>10 DEF expected
  <2>3. CoachFields'
    BY <1>1, <1>2, <1>8, <1>10 DEF CoachFields, WholeRecords
  <2>4. EpisodesInOrder'
    BY <1>1, <1>2 DEF EpisodesInOrder
  <2>5. StudiesSound'
    BY <1>1, <1>2, <1>8, <2>1 DEF StudiesSound
  <2>6. \A j \in Studies :
            Is(stored'[j], "testing") => j # i /\ Is(stored[j], "testing") /\ stored'[j] = stored[j]
    BY <1>8, <2>1 DEF Is
  <2>7. OneStudyPerContext'
    BY <1>2, <2>6 DEF OneStudyPerContext
  <2>8. HandedOffIsSeeded'
    BY <1>1, <1>2, <1>3, <1>8, <2>1 DEF HandedOffIsSeeded
  <2>9. \A j \in Studies : Is(stored[j], "testing") => stored'[j] = stored[j]
    BY <1>3, <2>1 DEF Is
  <2>10. CoachHolds'
    <3>1. CoachShape' /\ Refreshing'
      BY <1>1, <1>2, <2>9 DEF CoachHolds, CoachShape, Refreshing
    <3>2. Evaluating'
      BY <1>1, <1>2, <2>9 DEF CoachHolds, Evaluating
    <3>3. Saving'
      <4>1. \A j \in Studies : \/ stored'[j] = stored[j]
                               \/ Is(stored'[j], "promising")
        BY <1>8, <2>1
      <4>2. \A j \in Studies : Is(stored[j], "promising") => Is(stored'[j], "promising")
        BY <1>8, <2>1
      <4> QED
        BY <1>1, <1>2, <4>1, <4>2 DEF CoachHolds, Saving
    <3>4. Proposing'
      BY <1>1, <1>2, <2>6, <2>9 DEF CoachHolds, Proposing, ActiveStudy
    <3> QED
      BY <3>1, <3>2, <3>3, <3>4 DEF CoachHolds
  <2>11. BeatHolds'
    BY <1>1, <1>3, <1>8, <2>1, <2>2 DEF BeatHolds
  <2>12. MemoryFollows'
    <3> SUFFICES ASSUME NEW j \in Studies, j # i
                 PROVE  \/ known[j] = stored[j]
                        \/ /\ coach.at = "saved" /\ coach.study = j
                           /\ known[j] = coach.expected /\ stored[j] = coach.updated
                        \/ coach.at = "selected" /\ coach.study = j /\ known[j] = NoStudy
      BY <1>1, <2>1, <2>2 DEF MemoryFollows
    <3> QED
      BY <1>1, <1>2 DEF MemoryFollows
  <2> QED
    BY <2>3, <2>4, <2>5, <2>7, <2>8, <2>10, <2>11, <2>12 DEF CoachInv
<1> QED
  BY <1>1, <1>5, <1>9, <1>10

LEMMA StudiesRememberMark == CoachInv /\ RememberMark => CoachInv'
<1> SUFFICES ASSUME CoachInv, RememberMark PROVE CoachInv'
  OBVIOUS
<1> DEFINE i == beat.study
           now == RememberedStudy(i, beat.expected, beat.updated)
<1>1. /\ beat.at = "marked" /\ known' = [known EXCEPT ![i] = now] /\ beat'.at = "idle"
      /\ UNCHANGED <<context, episodes, prunedThrough, stored, coach, seeded>>
  BY DEF RememberMark, CoachIdle
<1>2. CoachFields /\ CoachHolds /\ BeatHolds /\ MemoryFollows
  BY DEF CoachInv
<1>3. i \in Studies /\ known[i] = beat.expected /\ stored[i] = beat.updated
  BY <1>1, <1>2 DEF BeatHolds
<1>4. now = stored[i]
  BY <1>3 DEF RememberedStudy
<1> HIDE DEF i, now
<1>5. known' \in [Studies -> StudyRecords] /\ known'[i] = stored[i]
      /\ \A j \in Studies \ {i} : known'[j] = known[j]
  BY <1>1, <1>2, <1>3, <1>4 DEF CoachFields
<1>6. /\ CoachFields' /\ EpisodesInOrder' /\ StudiesSound'
      /\ OneStudyPerContext' /\ HandedOffIsSeeded'
  BY <1>1, <1>2, <1>5, RowsKept DEF CoachFields
<1>7. CoachHolds' /\ BeatHolds'
  BY <1>1, <1>2, CoachKept DEF BeatHolds
<1>8. MemoryFollows'
  BY <1>1, <1>2, <1>5 DEF MemoryFollows, i
<1> QED
  BY <1>6, <1>7, <1>8 DEF CoachInv

\* What may happen to the episodes: created ones keep their context, and a new one comes after
\* every created one.
Grown(old, new) ==
    \A e \in Episodes :
        /\ old[e].status # "none" => new[e].status # "none" /\ new[e].of = old[e].of
        /\ old[e].status = "none" /\ new[e].status # "none" =>
               \A f \in Episodes : old[f].status # "none" => f < e

LEMMA SoundKept ==
    ASSUME NEW old \in EpisodeMaps, NEW new \in EpisodeMaps, Grown(old, new),
           NEW s \in WholeRecords, SoundStudy(s, old)
    PROVE  SoundStudy(s, new)
<1>1. /\ OwnEpisodes(s, old) \subseteq OwnEpisodes(s, new) /\ OwnEpisodes(s, new) \subseteq Episodes
      /\ \A f \in OwnEpisodes(s, new) \ OwnEpisodes(s, old) : old[f].status = "none"
      /\ \A e \in OwnEpisodes(s, old) : old[e].status # "none"
  BY DEF OwnEpisodes, Grown
<1>2. \A f \in OwnEpisodes(s, new) \ OwnEpisodes(s, old), e \in OwnEpisodes(s, old) : e < f
  <2> SUFFICES ASSUME NEW f \in OwnEpisodes(s, new) \ OwnEpisodes(s, old), NEW e \in OwnEpisodes(s, old) PROVE e < f
    OBVIOUS
  <2>1. f \in Episodes /\ e \in Episodes /\ old[f].status = "none" /\ old[e].status # "none"
    BY <1>1
  <2>2. new[f].status # "none"
    BY DEF OwnEpisodes
  <2> QED
    BY <2>1, <2>2 DEF Grown
<1>3. ASSUME Enrolling(s, old) PROVE Enrolling(s, new)
  <2>1. s.enrolled \subseteq OwnEpisodes(s, new)
    BY <1>1, <1>3 DEF Enrolling
  <2>2. \A e \in Episodes : new[e].status = "none" => s.cursor < e
    BY <1>3 DEF Enrolling, Grown
  <2>3. \A f \in OwnEpisodes(s, new) \ s.enrolled : \A e \in s.enrolled : e < f
    BY <1>1, <1>2, <1>3 DEF Enrolling
  <2>4. \A f \in OwnEpisodes(s, new) \ s.enrolled : Cardinality(s.enrolled) < MaxObserved => s.cursor < f
    BY <1>1, <1>3 DEF Enrolling
  <2> QED
    BY <1>3, <2>1, <2>2, <2>3, <2>4 DEF Enrolling
<1>4. ASSUME Counting(s, old) PROVE Counting(s, new)
  <2>1. s.counted \subseteq OwnEpisodes(s, new)
    BY <1>1, <1>4 DEF Counting
  <2>2. ASSUME NEW e \in s.counted, NEW f \in OwnEpisodes(s, new), f < e PROVE f \in s.counted
    <3>1. e \in OwnEpisodes(s, old)
      BY <1>4 DEF Counting
    <3>2. e \in Nat /\ f \in Nat
      BY <1>1, <3>1 DEF Episodes
    <3>3. f \in OwnEpisodes(s, old)
      BY <1>2, <2>2, <3>1, <3>2
    <3> QED
      BY <1>4, <2>2, <3>3 DEF Counting
  <2> QED
    BY <2>1, <2>2 DEF Counting
<1> QED
  BY <1>3, <1>4 DEF SoundStudy

\* The studies stay sound through a step of the engine.
LEMMA EngineSteps ==
    ASSUME CoachInv, EpisodesInOrder', Grown(episodes, episodes'),
           episodes' \in EpisodeMaps, prunedThrough' \in 0..MaxEpisodes,
           UNCHANGED <<context, stored, known, coach, beat, seeded>>
    PROVE  CoachInv'
<1>1. /\ CoachFields /\ StudiesSound /\ CoachHolds /\ BeatHolds /\ MemoryFollows
      /\ OneStudyPerContext /\ HandedOffIsSeeded /\ episodes \in EpisodeMaps
  BY DEF CoachInv, CoachFields
<1>2. CoachFields'
  BY <1>1 DEF CoachFields
<1>3. StudiesSound'
  <2> SUFFICES ASSUME NEW i \in Studies, stored[i] # NoStudy
               PROVE  SoundStudy(stored[i], episodes')
    BY DEF StudiesSound
  <2>1. PICK s \in WholeRecords : s = stored[i]
    BY <1>1, StoredFields
  <2>2. SoundStudy(s, episodes)
    BY <1>1, <2>1 DEF StudiesSound
  <2>3. SoundStudy(s, episodes')
    BY <1>1, <2>2, SoundKept
  <2> QED
    BY <2>1, <2>3
<1>4. CoachHolds'
  <2>1. CoachShape' /\ Refreshing' /\ Saving'
    BY <1>1 DEF CoachHolds, CoachShape, Refreshing, Saving
  <2>2. Evaluating'
    <3>1. ASSUME coach.at = "evaluated" PROVE SoundStudy(coach.updated, episodes')
      <4>1. PICK s \in WholeRecords : s = coach.updated
        BY <1>1, <3>1 DEF CoachHolds, Evaluating
      <4>2. SoundStudy(s, episodes)
        BY <1>1, <3>1, <4>1 DEF CoachHolds, Evaluating
      <4>3. SoundStudy(s, episodes')
        BY <1>1, <4>2, SoundKept
      <4> QED
        BY <4>1, <4>3
    <3> QED
      BY <1>1, <3>1 DEF CoachHolds, Evaluating
  <2>3. Proposing'
    BY <1>1 DEF CoachHolds, Proposing, ActiveStudy, Grown
  <2> QED
    BY <2>1, <2>2, <2>3 DEF CoachHolds
<1>5. BeatHolds' /\ MemoryFollows'
  BY <1>1 DEF BeatHolds, MemoryFollows
<1>6. OneStudyPerContext' /\ HandedOffIsSeeded'
  BY <1>1 DEF OneStudyPerContext, HandedOffIsSeeded
<1> QED
  BY <1>2, <1>3, <1>4, <1>5, <1>6 DEF CoachInv

LEMMA StudiesRecorded == CoachInv /\ (\E e \in Episodes : RecordEpisode(e)) => CoachInv'
<1> SUFFICES ASSUME CoachInv, NEW e \in Episodes, RecordEpisode(e) PROVE CoachInv'
  OBVIOUS
<1>1. /\ episodes[e].status = "none" /\ \A f \in 1..(e - 1) : f \in Created
      /\ episodes' = [episodes EXCEPT ![e] = [of |-> context, status |-> "pending"]]
      /\ UNCHANGED <<context, prunedThrough, stored, known, coach, beat, seeded>>
  BY DEF RecordEpisode
<1>2. /\ episodes \in EpisodeMaps /\ context \in Contexts /\ prunedThrough \in 0..MaxEpisodes
      /\ EpisodesInOrder
  BY DEF CoachInv, CoachFields
<1>3. episodes' \in EpisodeMaps /\ episodes'[e] = [of |-> context, status |-> "pending"]
      /\ \A f \in Episodes \ {e} : episodes'[f] = episodes[f]
  BY <1>1, <1>2 DEF EpisodeMaps, EpisodeStatus
<1>4. \A f \in Episodes : f < e => episodes[f].status # "none"
  <2> SUFFICES ASSUME NEW f \in Episodes, f < e PROVE episodes[f].status # "none"
    OBVIOUS
  <2>1. f \in 1..(e - 1)
    BY DEF Episodes
  <2> QED
    BY <1>1, <2>1 DEF Created
<1>5. \A f \in Episodes : episodes[f].status # "none" => f < e
  <2> SUFFICES ASSUME NEW f \in Episodes, episodes[f].status # "none" PROVE f < e
    OBVIOUS
  <2>1. ~(e < f) /\ f # e
    BY <1>1, <1>2 DEF EpisodesInOrder
  <2> QED
    BY <2>1 DEF Episodes
<1>6. EpisodesInOrder'
  <2>1. ASSUME NEW g \in Episodes, NEW f \in Episodes, f < g, episodes'[f].status = "none"
        PROVE  episodes'[g].status = "none"
    <3>1. f # e /\ episodes[f].status = "none"
      BY <1>3, <2>1
    <3>2. episodes[g].status = "none" /\ g # e
      BY <1>2, <1>4, <2>1, <3>1 DEF EpisodesInOrder
    <3> QED
      BY <1>3, <3>2
  <2>2. \A g \in Episodes : episodes'[g].status = "pruned" => g <= prunedThrough'
    BY <1>1, <1>2, <1>3 DEF EpisodesInOrder
  <2> QED
    BY <2>1, <2>2 DEF EpisodesInOrder
<1>7. Grown(episodes, episodes')
  BY <1>1, <1>3, <1>5 DEF Grown
<1> QED
  BY <1>1, <1>2, <1>3, <1>6, <1>7, EngineSteps

\* Finishing and pruning neither create episodes nor move them to another context.
LEMMA CreationKept ==
    ASSUME CoachInv, episodes' \in EpisodeMaps,
           \A e \in Episodes : /\ episodes'[e].of = episodes[e].of
                               /\ (episodes'[e].status = "none") <=> (episodes[e].status = "none")
    PROVE  /\ Grown(episodes, episodes')
           /\ \A e, f \in Episodes :
                 f < e /\ episodes'[f].status = "none" => episodes'[e].status = "none"
BY DEF Grown, CoachInv, EpisodesInOrder

LEMMA StudiesResolved == CoachInv /\ (\E e \in Episodes : FinishEpisode(e)) => CoachInv'
<1> SUFFICES ASSUME CoachInv, NEW e \in Episodes, FinishEpisode(e) PROVE CoachInv'
  OBVIOUS
<1>1. PICK status \in {"known", "unavailable"} :
          episodes' = [episodes EXCEPT ![e].status = status]
  BY DEF FinishEpisode
<1>2. /\ episodes[e].status = "pending"
      /\ UNCHANGED <<context, prunedThrough, stored, known, coach, beat, seeded>>
  BY DEF FinishEpisode
<1>3. episodes \in EpisodeMaps /\ prunedThrough \in 0..MaxEpisodes /\ EpisodesInOrder
  BY DEF CoachInv, CoachFields
<1>4. /\ episodes' \in EpisodeMaps
      /\ episodes'[e].status = status /\ episodes'[e].of = episodes[e].of
      /\ \A f \in Episodes \ {e} : episodes'[f] = episodes[f]
  BY <1>1, <1>3 DEF EpisodeMaps, EpisodeStatus
<1>5. /\ Grown(episodes, episodes')
      /\ \A g, f \in Episodes :
            f < g /\ episodes'[f].status = "none" => episodes'[g].status = "none"
  BY <1>2, <1>4, CreationKept
<1>6. EpisodesInOrder'
  BY <1>2, <1>3, <1>4, <1>5 DEF EpisodesInOrder
<1> QED
  BY <1>2, <1>3, <1>4, <1>5, <1>6, EngineSteps

\* The watermark moves with the rows that are deleted.
LEMMA StudiesPruned == CoachInv /\ PruneEvidence => CoachInv'
<1> SUFFICES ASSUME CoachInv, PruneEvidence PROVE CoachInv'
  OBVIOUS
<1>1. /\ episodes' = [e \in Episodes |->
                          IF e \in Surplus THEN [episodes[e] EXCEPT !.status = "pruned"]
                          ELSE episodes[e]]
      /\ prunedThrough' = Watermark(Surplus)
      /\ UNCHANGED <<context, stored, known, coach, beat, seeded>>
  BY DEF PruneEvidence
<1>2. episodes \in EpisodeMaps /\ prunedThrough \in 0..MaxEpisodes /\ EpisodesInOrder
  BY DEF CoachInv, CoachFields
<1>3. \A e \in Surplus : e \in Episodes /\ episodes[e].status \in {"known", "unavailable"}
  BY DEF Surplus, FinishedEpisodes
<1>4. /\ prunedThrough' \in 0..MaxEpisodes /\ prunedThrough <= prunedThrough'
      /\ \A e \in Surplus : e <= prunedThrough'
  <2> DEFINE S == Surplus \cup {prunedThrough}
  <2>1. S \in SUBSET (0..MaxEpisodes) /\ S # {}
    BY <1>2, <1>3, CoachAssumption DEF Episodes
  <2>2. prunedThrough' = Newest(S)
    BY <1>1, <2>1 DEF Watermark, Newest
  <2> HIDE DEF S
  <2>3. Newest(S) \in S /\ \A e \in S : e <= Newest(S)
    BY <2>1, NewestIs
  <2> QED
    BY <2>1, <2>2, <2>3 DEF S
<1>5. \A e \in Episodes :
          /\ episodes'[e].of = episodes[e].of
          /\ e \in Surplus => episodes'[e].status = "pruned"
          /\ e \notin Surplus => episodes'[e].status = episodes[e].status
  BY <1>1, <1>2 DEF EpisodeMaps
<1>6. episodes' \in EpisodeMaps
  <2>1. \A e \in Episodes : [episodes[e] EXCEPT !.status = "pruned"] \in [of : Contexts, status : EpisodeStatus]
    BY <1>2 DEF EpisodeMaps, EpisodeStatus
  <2>2. \A e \in Episodes : episodes[e] \in [of : Contexts, status : EpisodeStatus]
    BY <1>2 DEF EpisodeMaps
  <2> QED
    BY <1>1, <2>1, <2>2 DEF EpisodeMaps
<1>7. \A e \in Episodes : (episodes'[e].status = "none") <=> (episodes[e].status = "none")
  BY <1>3, <1>5
<1>8. /\ Grown(episodes, episodes')
      /\ \A e, f \in Episodes :
            f < e /\ episodes'[f].status = "none" => episodes'[e].status = "none"
  BY <1>5, <1>6, <1>7, CreationKept
<1>9. \A e \in Episodes : episodes'[e].status = "pruned" => e <= prunedThrough'
  <2> SUFFICES ASSUME NEW e \in Episodes, episodes'[e].status = "pruned" PROVE e <= prunedThrough'
    OBVIOUS
  <2>1. CASE e \in Surplus
    BY <1>4, <2>1
  <2>2. CASE e \notin Surplus
    <3>1. e <= prunedThrough
      BY <1>2, <1>5, <2>2 DEF EpisodesInOrder
    <3>2. e \in Nat /\ prunedThrough \in Nat /\ prunedThrough' \in Nat
      BY <1>2, <1>4 DEF Episodes
    <3> QED
      BY <1>4, <3>1, <3>2
  <2> QED
    BY <2>1, <2>2
<1>10. EpisodesInOrder'
  BY <1>8, <1>9 DEF EpisodesInOrder
<1> QED
  BY <1>1, <1>4, <1>6, <1>8, <1>10, EngineSteps

LEMMA StudiesMoved == CoachInv /\ (\E c \in Contexts : MoveContext(c)) => CoachInv'
<1> SUFFICES ASSUME CoachInv, NEW c \in Contexts, MoveContext(c) PROVE CoachInv'
  OBVIOUS
<1>1. context' = c /\ UNCHANGED <<episodes, prunedThrough, stored, known, coach, beat, seeded>>
  BY DEF MoveContext
<1>2. CoachFields /\ CoachHolds /\ BeatHolds /\ MemoryFollows
  BY DEF CoachInv
<1>3. /\ CoachFields' /\ EpisodesInOrder' /\ StudiesSound'
      /\ OneStudyPerContext' /\ HandedOffIsSeeded'
  BY <1>1, <1>2, RowsKept DEF CoachFields
<1>4. CoachHolds' /\ BeatHolds'
  BY <1>1, <1>2, CoachKept, BeatKept
<1>5. MemoryFollows'
  BY <1>1, <1>2 DEF MemoryFollows
<1> QED
  BY <1>3, <1>4, <1>5 DEF CoachInv

LEMMA StudiesRestart == CoachInv /\ CoachRestart => CoachInv'
<1> SUFFICES ASSUME CoachInv, CoachRestart PROVE CoachInv'
  OBVIOUS
<1>1. /\ known' = stored /\ coach'.at = "idle" /\ beat'.at = "idle"
      /\ UNCHANGED <<context, episodes, prunedThrough, stored, seeded>>
  BY DEF CoachRestart, CoachIdle
<1>2. /\ CoachFields' /\ EpisodesInOrder' /\ StudiesSound'
      /\ OneStudyPerContext' /\ HandedOffIsSeeded'
  BY <1>1, RowsKept DEF CoachInv, CoachFields
<1>3. CoachHolds'
  BY <1>1 DEF CoachHolds, CoachShape, Refreshing, Evaluating, Saving, Proposing
<1>4. BeatHolds' /\ MemoryFollows'
  BY <1>1 DEF BeatHolds, MemoryFollows
<1> QED
  BY <1>2, <1>3, <1>4 DEF CoachInv

LEMMA StudiesStep == CoachInv /\ [CoachNext]_coachVars => CoachInv'
<1> SUFFICES ASSUME CoachInv, [CoachNext]_coachVars PROVE CoachInv'
  OBVIOUS
<1>1. CASE UNCHANGED coachVars
  <2>1. UNCHANGED <<context, episodes, prunedThrough, stored, known, coach, beat, seeded>>
    BY <1>1 DEF coachVars
  <2>2. CoachFields /\ CoachHolds /\ BeatHolds /\ MemoryFollows
    BY DEF CoachInv
  <2>3. /\ CoachFields' /\ EpisodesInOrder' /\ StudiesSound'
        /\ OneStudyPerContext' /\ HandedOffIsSeeded'
    BY <2>1, <2>2, RowsKept DEF CoachFields
  <2>4. CoachHolds' /\ BeatHolds' /\ MemoryFollows'
    BY <2>1, <2>2, CoachKept, BeatKept DEF MemoryFollows
  <2> QED
    BY <2>3, <2>4 DEF CoachInv
<1>2. CASE BeginTick \/ SaveEvaluation \/ RememberEvaluation \/ DeferTick \/ EndRefresh \/ LookUp
           \/ Answer \/ RememberSelection
  BY <1>2, StudiesTick, StudiesSaved, StudiesRemember, StudiesDeferred, StudiesRefreshed,
     StudiesLookedUp, StudiesAnswered, StudiesRememberSelection
<1>3. CASE SeedCandidate \/ MarkContribution \/ RememberMark \/ PruneEvidence \/ CoachRestart
  BY <1>3, StudiesSeeded, StudiesMarked, StudiesRememberMark, StudiesPruned, StudiesRestart
<1>4. CASE \E i \in Studies : Evaluate(i) \/ SaveSelection(i) \/ ReadyContribution(i)
  BY <1>4, StudiesEvaluated, StudiesSelected, StudiesReady
<1>5. CASE \E e \in Episodes : RecordEpisode(e) \/ FinishEpisode(e)
  BY <1>5, StudiesRecorded, StudiesResolved
<1>6. CASE \E c \in Contexts : MoveContext(c)
  BY <1>6, StudiesMoved
<1> QED
  BY <1>1, <1>2, <1>3, <1>4, <1>5, <1>6, Zenon DEF CoachNext

\* An initial segment is everything up to its newest member.
LEMMA VerdictsWhole == CoachInv => VerdictIsWhole
<1> SUFFICES ASSUME CoachInv, NEW i \in Studies,
                    stored[i].state \in {"promising", "not_supported"}
             PROVE  stored[i].counted =
                        {e \in Created : /\ episodes[e].of = stored[i].context
                                         /\ stored[i].cut < e /\ e <= Newest(stored[i].counted)}
  BY DEF VerdictIsWhole
<1>1. CoachFields /\ StudiesSound
  BY DEF CoachInv
<1>2. PICK s \in WholeRecords : s = stored[i]
  BY <1>1, StoredFields DEF Is, States
<1>3. Counting(s, episodes)
  BY <1>1, <1>2 DEF StudiesSound, SoundStudy, WholeRecords
<1> DEFINE own == OwnEpisodes(s, episodes)
           newest == Newest(s.counted)
<1>4. {e \in Created : episodes[e].of = s.context /\ s.cut < e /\ e <= newest} = {e \in own : e <= newest}
  BY DEF OwnEpisodes, Created
<1>5. own \subseteq Episodes /\ \A e \in own : e \in Nat /\ e # 0
  BY DEF OwnEpisodes, Episodes
<1>6. s.counted \subseteq own /\ \A e \in s.counted, f \in own : f < e => f \in s.counted
  BY <1>3 DEF Counting
<1>7. s.counted = {e \in own : e <= newest}
  <2>1. CASE s.counted = {}
    <3>1. newest = 0
      BY <2>1 DEF Newest
    <3> HIDE DEF own
    <3> QED
      BY <1>5, <2>1, <3>1
  <2>2. CASE s.counted # {}
    <3>1. s.counted \in SUBSET (0..MaxEpisodes)
      BY <1>5, <1>6, CoachAssumption DEF Episodes
    <3>2. newest \in s.counted /\ \A e \in s.counted : e <= newest
      BY <2>2, <3>1, NewestIs
    <3> HIDE DEF own, newest
    <3>3. \A e \in own : e <= newest => e \in s.counted
      <4> SUFFICES ASSUME NEW e \in own, e <= newest PROVE e \in s.counted
        OBVIOUS
      <4>1. e = newest \/ e < newest
        BY <1>5, <1>6, <3>2
      <4> QED
        BY <1>6, <3>2, <4>1
    <3> QED
      BY <1>6, <3>2, <3>3
  <2> QED
    BY <2>1, <2>2
<1> QED
  BY <1>2, <1>4, <1>7

LEMMA StudiesImplied == CoachInv => StudiesAreSound
<1> SUFFICES ASSUME CoachInv PROVE StudiesAreSound
  OBVIOUS
<1>1. CoachFields /\ StudiesSound /\ MemoryFollows
  BY DEF CoachInv
<1>2. CoachTypeOK
  <2>1. ASSUME NEW i \in Studies, stored[i] # NoStudy
        PROVE  Cardinality(stored[i].enrolled) <= MaxObserved
    <3>1. SoundStudy(stored[i], episodes) /\ MaxObserved \in Nat
      BY <1>1, <2>1, CoachAssumption DEF StudiesSound
    <3>2. CASE stored[i].state = "testing"
      BY <3>1, <3>2 DEF SoundStudy, Enrolling
    <3>3. CASE stored[i].state # "testing"
      <4>1. stored[i].enrolled = {}
        BY <3>1, <3>3 DEF SoundStudy
      <4>2. Cardinality(stored[i].enrolled) = 0
        BY <4>1, FS_EmptySet
      <4> QED
        BY <3>1, <4>2
    <3> QED
      BY <3>2, <3>3
  <2>2. \A i \in Studies : {stored[i], known[i]} \subseteq StudyRecords
    BY <1>1 DEF CoachFields
  <2> QED
    BY <1>1, <2>1, <2>2 DEF CoachTypeOK, CoachFields
<1>3. OneStudyPerContext /\ HandedOffIsSeeded /\ VerdictIsWhole
  BY VerdictsWhole DEF CoachInv
<1>4. StudiesRemembered
  <2> SUFFICES ASSUME coach.at \in {"idle", "lookup", "infer", "select"}, beat.at = "idle"
               PROVE  known = stored
    BY DEF StudiesRemembered
  <2>1. \A i \in Studies : known[i] = stored[i]
    BY <1>1 DEF MemoryFollows
  <2> QED
    BY <1>1, <2>1 DEF CoachFields
<1> QED
  BY <1>2, <1>3, <1>4 DEF StudiesAreSound

\* Each context has one open study, each verdict counts every episode of its context up to the
\* last one it counts, and memory, database and tournament agree on what was handed off, however
\* the coach task, the heartbeat, retention, a moving context and crashes interleave
\* (coach.py 143-779, 1374-1580).
THEOREM StudiesAlwaysSound == CoachSpec => []StudiesAreSound
BY StudiesBegin, StudiesStep, StudiesImplied, PTL DEF CoachSpec

-----------------------------------------------------------------------------
(* Training jobs and the tournament *)

Versions == {"native", "coach"} \X Nat

Tournaments ==
    [arts : SUBSET Versions, pending : SUBSET Versions, testing : Versions \cup {None},
     champion : Versions \cup {None}, rejected : SUBSET Versions, latest : Versions \cup {None}]

\* One candidate of a kind waits; only a crowned tournament has a contender or a Coach candidate.
FairTournament(s) ==
    /\ s \in Tournaments
    /\ \A v, w \in s.pending : v[1] = w[1] => v = w
    /\ s.champion = None => s.testing = None /\ \A v \in s.pending : v[1] = "native"

LEMMA OldestWaits ==
    \A s \in Tournaments : FairTournament(s) /\ s.pending # {} => Oldest(s.pending) \in s.pending
<1> SUFFICES ASSUME NEW s \in Tournaments, FairTournament(s), s.pending # {}
             PROVE  Oldest(s.pending) \in s.pending
  OBVIOUS
<1>1. \A v \in s.pending : v[1] \in {"native", "coach"} /\ v[2] \in Nat
  BY DEF Tournaments, Versions
<1>2. \E v \in s.pending : \A w \in s.pending : v[2] <= w[2]
  <2>1. PICK x \in s.pending : TRUE
    OBVIOUS
  <2>2. CASE \A w \in s.pending : w = x
    BY <1>1, <2>1, <2>2
  <2>3. CASE \E y \in s.pending : y # x
    <3>1. PICK y \in s.pending : y # x
      BY <2>3
    <3>2. \A w \in s.pending : w = x \/ w = y
      BY <1>1, <2>1, <3>1 DEF FairTournament
    <3>3. CASE x[2] <= y[2]
      BY <1>1, <2>1, <3>2, <3>3
    <3>4. CASE ~ (x[2] <= y[2])
      <4>1. y[2] <= x[2] /\ y[2] <= y[2]
        BY <1>1, <3>1, <2>1, <3>4
      <4> QED
        BY <3>1, <3>2, <4>1
    <3> QED
      BY <3>3, <3>4
  <2> QED
    BY <2>2, <2>3
<1> QED
  BY <1>2 DEF Oldest

LEMMA NoneIsNoVersion == None \notin Versions
BY DEF None, Versions

\* What starting the next tournament keeps, and whom it crowns.
Continues(s, r) ==
    /\ FairTournament(r)
    /\ r.arts = s.arts /\ r.latest = s.latest /\ r.rejected = s.rejected
    /\ References(r) \subseteq References(s)
    /\ s.champion # None => r.champion = s.champion
    /\ s.champion = None => r.champion \in s.pending \cup {None}
    /\ s.champion = None => r.testing = None

LEMMA NextContinues ==
    \A s \in Tournaments : FairTournament(s) => Continues(s, StartNext(s))
<1> SUFFICES ASSUME NEW s \in Tournaments, FairTournament(s)
             PROVE  Continues(s, StartNext(s))
  OBVIOUS
<1> USE NoneIsNoVersion
<1>1. CASE s.testing # None \/ s.pending = {}
  <2>1. StartNext(s) = s
    BY <1>1 DEF StartNext
  <2>2. s.champion \in Versions \cup {None}
    BY DEF Tournaments
  <2> QED
    BY <2>1, <2>2 DEF Continues, FairTournament
<1>2. CASE s.testing = None /\ s.pending # {}
  <2> DEFINE founder == Oldest(s.pending)
             rest == s.pending \ {founder}
             crowned == IF s.champion # None THEN s
                        ELSE [s EXCEPT !.champion = founder, !.pending = rest]
  <2>1. founder \in s.pending /\ founder \in Versions /\ founder # None
    BY <1>2, OldestWaits DEF Tournaments
  <2>2. StartNext(s) = IF crowned.pending = {} THEN crowned
                       ELSE [crowned EXCEPT !.testing = Oldest(crowned.pending),
                                            !.pending = crowned.pending \ {Oldest(crowned.pending)}]
    BY <1>2 DEF StartNext
  <2>3. /\ crowned \in Tournaments /\ crowned.champion # None /\ crowned.testing = None
        /\ crowned.pending \subseteq s.pending
        /\ crowned.arts = s.arts /\ crowned.latest = s.latest /\ crowned.rejected = s.rejected
        /\ s.champion # None => crowned.champion = s.champion /\ crowned.pending = s.pending
        /\ s.champion = None => crowned.champion = founder /\ crowned.pending = rest
    BY <1>2, <2>1 DEF Tournaments
  <2>4. FairTournament(crowned)
    BY <2>3 DEF FairTournament
  <2>5. References(crowned) \subseteq References(s)
    BY <2>1, <2>3, <1>2 DEF References
  <2>6. s.champion = None => crowned.pending = {}
    <3> SUFFICES ASSUME s.champion = None, NEW v \in rest PROVE FALSE
      BY <2>3
    <3>1. v \in s.pending /\ v # founder /\ v[1] = "native" /\ founder[1] = "native"
      BY <2>1 DEF FairTournament
    <3> QED
      BY <2>1, <3>1 DEF FairTournament
  <2> HIDE DEF crowned, rest, founder
  <2>7. CASE crowned.pending = {}
    BY <2>1, <2>2, <2>3, <2>4, <2>5, <2>7 DEF Continues
  <2>8. CASE crowned.pending # {}
    <3> DEFINE next == Oldest(crowned.pending)
    <3>1. next \in crowned.pending /\ next \in Versions
      BY <2>3, <2>4, <2>8, OldestWaits DEF Tournaments
    <3>2. StartNext(s) = [crowned EXCEPT !.testing = next, !.pending = crowned.pending \ {next}]
      BY <2>2, <2>8
    <3> HIDE DEF next
    <3>3. /\ StartNext(s) \in Tournaments
          /\ StartNext(s).testing = next /\ StartNext(s).pending = crowned.pending \ {next}
          /\ StartNext(s).champion = crowned.champion /\ StartNext(s).arts = crowned.arts
          /\ StartNext(s).latest = crowned.latest /\ StartNext(s).rejected = crowned.rejected
      BY <2>3, <3>1, <3>2 DEF Tournaments
    <3>4. FairTournament(StartNext(s))
      BY <2>3, <2>4, <3>3 DEF FairTournament
    <3>5. References(StartNext(s)) \subseteq References(crowned)
      BY <3>1, <3>3 DEF References
    <3> QED
      BY <2>1, <2>3, <2>5, <2>6, <2>8, <3>3, <3>4, <3>5 DEF Continues
  <2> QED
    BY <2>7, <2>8
<1> QED
  BY <1>1, <1>2

\* A new candidate takes the place of the one of its kind that waits.
LEMMA RegisterFair ==
    \A s \in Tournaments, v \in Versions :
        FairTournament(s) /\ (s.champion = None => v[1] = "native") =>
            /\ FairTournament(Register(s, v))
            /\ Register(s, v).arts = s.arts \cup {v}
            /\ Register(s, v).champion = s.champion
            /\ Register(s, v).testing = s.testing
            /\ References(Register(s, v)) \subseteq References(s) \cup {v}
            /\ s.champion = None => Register(s, v).pending = {v}
<1> SUFFICES ASSUME NEW s \in Tournaments, NEW v \in Versions, FairTournament(s),
                    s.champion = None => v[1] = "native"
             PROVE  /\ FairTournament(Register(s, v))
                    /\ Register(s, v).arts = s.arts \cup {v}
                    /\ Register(s, v).champion = s.champion
                    /\ Register(s, v).testing = s.testing
                    /\ References(Register(s, v)) \subseteq References(s) \cup {v}
                    /\ s.champion = None => Register(s, v).pending = {v}
  OBVIOUS
<1> DEFINE others == {w \in s.pending : w[1] # v[1]}
           r == Register(s, v)
<1>1. /\ r \in Tournaments
      /\ r.arts = s.arts \cup {v} /\ r.latest = v /\ r.pending = others \cup {v}
      /\ r.testing = s.testing /\ r.champion = s.champion /\ r.rejected = s.rejected
  BY DEF Register, Tournaments
<1>2. \A w \in others : w \in s.pending /\ w[1] # v[1]
  OBVIOUS
<1> HIDE DEF r, others
<1>3. FairTournament(r)
  BY <1>1, <1>2 DEF FairTournament
<1>4. References(r) \subseteq References(s) \cup {v}
  BY <1>1, <1>2 DEF References
<1>5. s.champion = None => r.pending = {v}
  BY <1>1, <1>2 DEF FairTournament
<1> QED
  BY <1>1, <1>3, <1>4, <1>5 DEF r

\* Settling a contender leaves a crowned tournament, under the old crown or the contender's.
LEMMA SettledFair ==
    \A s \in Tournaments, promoted \in BOOLEAN :
        FairTournament(s) /\ s.testing # None =>
            /\ FairTournament(Settled(s, promoted))
            /\ Settled(s, promoted).arts = s.arts
            /\ References(Settled(s, promoted)) \subseteq References(s)
            /\ Settled(s, promoted).champion \in {s.champion, s.testing} \ {None}
<1> SUFFICES ASSUME NEW s \in Tournaments, NEW promoted \in BOOLEAN,
                    FairTournament(s), s.testing # None
             PROVE  /\ FairTournament(Settled(s, promoted))
                    /\ Settled(s, promoted).arts = s.arts
                    /\ References(Settled(s, promoted)) \subseteq References(s)
                    /\ Settled(s, promoted).champion \in {s.champion, s.testing} \ {None}
  OBVIOUS
<1> DEFINE over == IF promoted THEN [s EXCEPT !.champion = s.testing, !.testing = None]
                   ELSE [s EXCEPT !.rejected = s.rejected \cup {s.testing}, !.testing = None]
<1>1. Settled(s, promoted) = StartNext(over)
  BY DEF Settled
<1>2. s.testing \in Versions /\ s.champion # None
  BY DEF Tournaments, FairTournament
<1>3. /\ over \in Tournaments /\ over.testing = None
      /\ over.arts = s.arts /\ over.pending = s.pending /\ over.latest = s.latest
      /\ over.champion \in {s.champion, s.testing}
  BY <1>2 DEF Tournaments
<1> HIDE DEF over
<1>4. over.champion # None
  BY <1>2, <1>3
<1>5. FairTournament(over)
  BY <1>3, <1>4 DEF FairTournament
<1>6. References(over) \subseteq References(s)
  BY <1>3 DEF References
<1>7. Continues(over, StartNext(over))
  BY <1>3, <1>5, NextContinues
<1> QED
  BY <1>1, <1>3, <1>4, <1>6, <1>7 DEF Continues

\* At most two candidates wait: one native, one Coach.
LEMMA TwoWait ==
    \A s \in Tournaments : FairTournament(s) => Cardinality(s.pending) <= 2
<1> SUFFICES ASSUME NEW s \in Tournaments, FairTournament(s)
             PROVE  Cardinality(s.pending) <= 2
  OBVIOUS
<1>1. \A v \in s.pending : v[1] \in {"native", "coach"}
  BY DEF Tournaments, Versions
<1>2. PICK x, y : s.pending \subseteq {x, y}
  <2>1. CASE s.pending = {}
    BY <2>1
  <2>2. CASE s.pending # {}
    <3>1. PICK x \in s.pending : TRUE
      BY <2>2
    <3>2. CASE \A w \in s.pending : w = x
      BY <3>2
    <3>3. CASE \E y \in s.pending : y # x
      <4>1. PICK y \in s.pending : y # x
        BY <3>3
      <4>2. \A w \in s.pending : w = x \/ w = y
        BY <1>1, <3>1, <4>1 DEF FairTournament
      <4> QED
        BY <4>2
    <3> QED
      BY <3>2, <3>3
  <2> QED
    BY <2>1, <2>2
<1>3. IsFiniteSet({x}) /\ Cardinality({x}) = 1
  BY FS_Singleton
<1>4. /\ IsFiniteSet({x} \cup {y})
      /\ Cardinality({x} \cup {y}) = IF y \in {x} THEN 1 ELSE 2
  BY <1>3, FS_AddElement
<1>5. {x, y} = {x} \cup {y}
  OBVIOUS
<1>6. Cardinality(s.pending) <= Cardinality({x, y})
  BY <1>2, <1>4, <1>5, FS_Subset
<1>7. IsFiniteSet(s.pending) /\ Cardinality(s.pending) \in Nat
  BY <1>2, <1>4, <1>5, FS_Subset, FS_CardinalityType
<1> QED
  BY <1>4, <1>5, <1>6, <1>7

\* The queue of training: the trainer's job is the active one, and what is due is requested,
\* in hand, or was given up under another cohort.
Jobs ==
    /\ cohort \in Cohorts /\ requests \subseteq Cohorts /\ due \subseteq Cohorts
    /\ trainer = [pc |-> trainer.pc, key |-> trainer.key, frozen |-> trainer.frozen,
                   late |-> trainer.late]
    /\ trainer.pc \in {"idle", "fit", "publish"}
    /\ trainer.pc # "idle" => trainer.key \in Cohorts /\ active = trainer.key
    /\ trainer.pc = "idle" => active = NoCohort
    /\ \A c \in due : c \in requests \/ active = c \/ c \in abandoned

\* The tournament in memory and on disk: the same artifacts, which hold whatever either names;
\* a crown that is not on disk is the one a restart would give.
Stages ==
    /\ versions \in Nat
    /\ FairTournament(mem) /\ FairTournament(disk)
    /\ mem.arts = disk.arts
    /\ References(mem) \subseteq mem.arts /\ References(disk) \subseteq disk.arts
    /\ disk.champion = None =>
          /\ mem.testing = None
          /\ mem.champion # None => disk.pending \subseteq {mem.champion}

FencedStep == \A v \in mem'.arts \ mem.arts : v[1] = "native" => trainer.frozen = Context
EarnedStep == mem.champion \notin {None, mem'.champion} => mem'.champion \in {mem.testing, disk.champion}

LEMMA IdleTrainer ==
    /\ Idle = [pc |-> Idle.pc, key |-> Idle.key, frozen |-> Idle.frozen, late |-> Idle.late]
    /\ Idle.pc = "idle"
BY DEF Idle

LEMMA JobsStep == Jobs /\ [TrainingNext]_trainingVars => Jobs'
<1> SUFFICES ASSUME Jobs, [TrainingNext]_trainingVars PROVE Jobs'
  OBVIOUS
<1> USE IdleTrainer, TrainingAssumption DEF Jobs
<1>1. CASE TournamentSettles
  BY <1>1 DEF TournamentSettles
<1>2. CASE SeedCoach
  BY <1>2 DEF SeedCoach
<1>3. ASSUME NEW c \in Cohorts, OutcomeCompletes(c) PROVE Jobs'
  BY <1>3 DEF OutcomeCompletes
<1>4. ASSUME NEW c \in Cohorts, Prepare(c) PROVE Jobs'
  BY <1>4 DEF Prepare
<1>5. CASE FitEnds
  BY <1>5 DEF FitEnds
<1>6. CASE JobAges
  BY <1>6 DEF JobAges
<1>7. CASE DiscardStale
  BY <1>7 DEF DiscardStale, RequestsAfterDiscard
<1>8. CASE PublishNothing
  BY <1>8 DEF PublishNothing
<1>9. CASE PublishFails
  BY <1>9 DEF PublishFails
<1>10. CASE Publish
  <2>1. trainer.key \in Cohorts /\ active = trainer.key /\ active' = NoCohort /\ trainer' = Idle
        /\ due' = due \ {trainer.key} /\ requests' \in {requests, requests \cup {trainer.key}}
        /\ UNCHANGED <<cohort, abandoned>>
    BY <1>10 DEF Publish
  <2> QED
    BY <2>1
<1>11. CASE TrainerCancelled
  BY <1>11 DEF TrainerCancelled, Released
<1>12. CASE ContextMoves
  BY <1>12 DEF ContextMoves
<1>13. CASE TrainingRestarts
  BY <1>13 DEF TrainingRestarts, Restarted
<1>14. CASE StopsInPublication
  BY <1>14 DEF StopsInPublication, Restarted
<1>15. CASE UNCHANGED trainingVars
  BY <1>15 DEF trainingVars
<1> QED
  BY <1>1, <1>2, <1>3, <1>4, <1>5, <1>6, <1>7, <1>8, <1>9, <1>10, <1>11, <1>12, <1>13, <1>14,
     <1>15 DEF TrainingNext

\* A restart takes over what was stored, and crowns nobody else when that had a champion.
LEMMA RestartFair ==
    ASSUME Stages, NEW s \in Tournaments, FairTournament(s), References(s) \subseteq s.arts,
           Restarted(s)
    PROVE  /\ FairTournament(mem') /\ disk' = mem' /\ mem'.arts = s.arts
           /\ References(mem') \subseteq mem'.arts
           /\ s.champion # None => mem'.champion = s.champion
           /\ s.champion = None => mem'.champion \in s.pending \cup {None}
<1> DEFINE gone == s.rejected \cup {s.testing, s.champion}
           waiting == [s EXCEPT !.pending = (s.pending \cap s.arts) \ gone]
<1>1. disk' = mem' /\ mem' = IF cohort = Own THEN StartNext(waiting) ELSE s
  BY DEF Restarted
<1>2. /\ waiting \in Tournaments /\ waiting.pending \subseteq s.pending
      /\ waiting.arts = s.arts /\ waiting.testing = s.testing /\ waiting.champion = s.champion
      /\ waiting.latest = s.latest
  BY DEF Tournaments
<1> HIDE DEF waiting
<1>3. FairTournament(waiting)
  BY <1>2 DEF FairTournament
<1>4. References(waiting) \subseteq References(s)
  BY <1>2 DEF References
<1>5. Continues(waiting, StartNext(waiting))
  BY <1>2, <1>3, NextContinues
<1>6. CASE cohort = Own
  BY <1>1, <1>2, <1>4, <1>5, <1>6 DEF Continues
<1>7. CASE cohort # Own
  BY <1>1, <1>7 DEF Tournaments
<1> QED
  BY <1>6, <1>7

\* Only the set of artifacts differs.
LEMMA OtherArtifacts ==
    \A s \in Tournaments, A \in SUBSET Versions :
        /\ [s EXCEPT !.arts = A] \in Tournaments
        /\ [s EXCEPT !.arts = A].arts = A
        /\ [s EXCEPT !.arts = A].champion = s.champion
        /\ [s EXCEPT !.arts = A].testing = s.testing
        /\ [s EXCEPT !.arts = A].pending = s.pending
        /\ References([s EXCEPT !.arts = A]) = References(s)
        /\ FairTournament(s) => FairTournament([s EXCEPT !.arts = A])
<1> SUFFICES ASSUME NEW s \in Tournaments, NEW A \in SUBSET Versions
             PROVE  LET r == [s EXCEPT !.arts = A]
                    IN  /\ r \in Tournaments /\ r.arts = A /\ r.champion = s.champion
                        /\ r.testing = s.testing /\ r.pending = s.pending
                        /\ References(r) = References(s)
                        /\ FairTournament(s) => FairTournament(r)
  OBVIOUS
<1> DEFINE r == [s EXCEPT !.arts = A]
<1>1. /\ r \in Tournaments /\ r.arts = A /\ r.champion = s.champion
      /\ r.testing = s.testing /\ r.pending = s.pending /\ r.latest = s.latest
  BY DEF Tournaments
<1> HIDE DEF r
<1>2. References(r) = References(s) /\ (FairTournament(s) => FairTournament(r))
  BY <1>1 DEF References, FairTournament
<1> QED
  BY <1>1, <1>2 DEF r

\* The prune keeps what the tournament names.
LEMMA PruneKeeps ==
    \A s \in Tournaments :
        Kept(s) \subseteq s.arts /\ References(s) \cap s.arts \subseteq Kept(s)
BY DEF Kept

StagesStepped == Stages' /\ FencedStep /\ EarnedStep

LEMMA SettleStep == Stages /\ TournamentSettles => StagesStepped
<1> SUFFICES ASSUME Stages, TournamentSettles PROVE StagesStepped
  OBVIOUS
<1>1. PICK promoted \in BOOLEAN :
        /\ mem.testing # None /\ mem' = Settled(mem, promoted)
        /\ disk' = [mem' EXCEPT !.arts = disk.arts] \/ UNCHANGED disk
        /\ UNCHANGED versions
  BY DEF TournamentSettles
<1>2. /\ mem \in Tournaments /\ disk \in Tournaments /\ disk.champion # None
      /\ disk.arts \in SUBSET Versions
  BY <1>1 DEF Stages, FairTournament, Tournaments
<1>3. /\ FairTournament(mem') /\ mem'.arts = mem.arts /\ References(mem') \subseteq References(mem)
      /\ mem'.champion \in {mem.champion, mem.testing} \ {None} /\ mem' \in Tournaments
  BY <1>1, <1>2, SettledFair DEF Stages, FairTournament
<1>4. CASE disk' = [mem' EXCEPT !.arts = disk.arts]
  <2>1. /\ disk'.arts = disk.arts /\ disk'.champion = mem'.champion
        /\ References(disk') = References(mem') /\ FairTournament(disk')
    BY <1>2, <1>3, <1>4, OtherArtifacts
  <2> QED
    BY <1>1, <1>3, <2>1 DEF Stages, StagesStepped, FencedStep, EarnedStep
<1>5. CASE UNCHANGED disk
  BY <1>1, <1>2, <1>3, <1>5 DEF Stages, StagesStepped, FencedStep, EarnedStep
<1> QED
  BY <1>1, <1>4, <1>5

LEMMA SeedStep == Stages /\ SeedCoach => StagesStepped
<1> SUFFICES ASSUME Stages, SeedCoach PROVE StagesStepped
  OBVIOUS
<1> DEFINE v == Coach(versions')
           r == Register(mem, v)
<1>1. /\ mem.champion # None /\ versions' = versions + 1 /\ versions' \in Nat
      /\ mem' = StartNext(r) /\ disk' = [mem' EXCEPT !.arts = disk.arts \cup {v}]
  BY DEF SeedCoach, Stages
<1>2. v \in Versions /\ v[1] = "coach"
  BY <1>1 DEF Coach, Versions
<1>3. /\ mem \in Tournaments /\ FairTournament(mem) /\ mem.arts = disk.arts
      /\ disk.arts \cup {v} \in SUBSET Versions
  BY <1>2 DEF Stages, FairTournament, Tournaments
<1> HIDE DEF v
<1>4. /\ FairTournament(r) /\ r \in Tournaments /\ r.arts = mem.arts \cup {v}
      /\ r.champion = mem.champion /\ References(r) \subseteq References(mem) \cup {v}
  BY <1>1, <1>2, <1>3, RegisterFair DEF FairTournament
<1> HIDE DEF r
<1>5. Continues(r, mem')
  BY <1>1, <1>4, NextContinues
<1>6. /\ FairTournament(mem') /\ mem' \in Tournaments /\ mem'.arts = mem.arts \cup {v}
      /\ References(mem') \subseteq References(mem) \cup {v} /\ mem'.champion = mem.champion
  BY <1>1, <1>4, <1>5 DEF Continues, FairTournament
<1>7. /\ disk'.arts = disk.arts \cup {v} /\ disk'.champion = mem'.champion
      /\ References(disk') = References(mem') /\ FairTournament(disk')
  BY <1>1, <1>3, <1>6, OtherArtifacts
<1>8. Stages'
  BY <1>1, <1>3, <1>6, <1>7 DEF Stages
<1>9. FencedStep /\ EarnedStep
  BY <1>2, <1>6 DEF FencedStep, EarnedStep
<1> QED
  BY <1>8, <1>9 DEF StagesStepped

\* What a publication enrols, and what it starts.
LEMMA EnrolledFair ==
    ASSUME Stages, NEW n \in Nat
    PROVE  LET r == Register(mem, Native(n))
           IN  /\ FairTournament(r) /\ r \in Tournaments /\ r.arts = mem.arts \cup {Native(n)}
               /\ r.champion = mem.champion /\ References(r) \subseteq r.arts
               /\ r.champion = None => r.pending = {Native(n)}
               /\ Continues(r, StartNext(r))
               /\ Native(n) \in Versions /\ Native(n)[1] = "native"
<1> DEFINE v == Native(n)
           r == Register(mem, v)
<1>1. v \in Versions /\ v[1] = "native"
  BY DEF Native, Versions
<1>2. mem \in Tournaments /\ FairTournament(mem) /\ References(mem) \subseteq mem.arts
  BY DEF Stages, FairTournament
<1> HIDE DEF v
<1>3. /\ FairTournament(r) /\ r \in Tournaments /\ r.arts = mem.arts \cup {v}
      /\ r.champion = mem.champion /\ References(r) \subseteq References(mem) \cup {v}
      /\ r.champion = None => r.pending = {v}
  BY <1>1, <1>2, RegisterFair DEF FairTournament
<1> HIDE DEF r
<1>4. Continues(r, StartNext(r))
  BY <1>3, NextContinues
<1>5. References(r) \subseteq r.arts
  BY <1>2, <1>3
<1> QED
  BY <1>1, <1>3, <1>4, <1>5 DEF r, v

LEMMA PublishStep == Stages /\ Publish => StagesStepped
<1> SUFFICES ASSUME Stages, Publish PROVE StagesStepped
  OBVIOUS
<1> DEFINE v == Native(versions')
           r == Register(mem, v)
           started == StartNext(r)
           durable == [r EXCEPT !.arts = disk.arts \cup {v}]
<1>1. ~Stale /\ versions' = versions + 1 /\ versions' \in Nat
  BY DEF Publish, Stages
<1>2. \/ /\ mem' = [started EXCEPT !.arts = Kept(started)]
         /\ disk' = [started EXCEPT !.arts = (durable.arts \ started.arts) \cup Kept(started)]
      \/ mem' = started /\ disk' = durable
  BY DEF Publish
<1>3. /\ FairTournament(r) /\ r \in Tournaments /\ r.arts = mem.arts \cup {v}
      /\ r.champion = mem.champion /\ References(r) \subseteq r.arts
      /\ r.champion = None => r.pending = {v}
      /\ Continues(r, started) /\ v \in Versions
  BY <1>1, EnrolledFair
<1>4. /\ mem.arts = disk.arts /\ disk.arts \cup {v} \in SUBSET Versions
  BY <1>3 DEF Stages, FairTournament, Tournaments
<1> HIDE DEF r, v
<1>5. /\ durable.arts = disk.arts \cup {v} /\ durable.champion = r.champion
      /\ durable.pending = r.pending
      /\ References(durable) = References(r) /\ FairTournament(durable)
  BY <1>3, <1>4, OtherArtifacts
<1> HIDE DEF durable
<1>6. /\ FairTournament(started) /\ started \in Tournaments /\ started.arts = r.arts
      /\ References(started) \subseteq References(r)
      /\ r.champion # None => started.champion = r.champion
      /\ r.champion = None => started.champion \in r.pending \cup {None} /\ started.testing = None
  BY <1>3 DEF Continues, FairTournament
<1> HIDE DEF started
<1>7. /\ Kept(started) \subseteq started.arts /\ References(started) \subseteq Kept(started)
      /\ (durable.arts \ started.arts) \cup Kept(started) = Kept(started)
      /\ Kept(started) \in SUBSET Versions
  BY <1>3, <1>4, <1>5, <1>6, PruneKeeps DEF Tournaments
<1>8. trainer.frozen = Context
  BY <1>1 DEF Stale
<1>9. CASE mem' = [started EXCEPT !.arts = Kept(started)] /\ disk' = mem'
  <2>1. /\ mem'.arts = Kept(started) /\ mem'.champion = started.champion
        /\ mem'.testing = started.testing
        /\ References(mem') = References(started) /\ FairTournament(mem')
    BY <1>6, <1>7, <1>9, OtherArtifacts
  <2>2. mem'.champion = None => mem'.testing = None
    BY <2>1 DEF FairTournament
  <2>3. Stages'
    BY <1>1, <1>7, <1>9, <2>1, <2>2 DEF Stages
  <2>4. EarnedStep
    BY <1>3, <1>6, <2>1 DEF EarnedStep
  <2> QED
    BY <1>8, <2>3, <2>4 DEF StagesStepped, FencedStep
<1>10. CASE mem' = started /\ disk' = durable
  <2>1. ASSUME disk'.champion = None
        PROVE  mem'.testing = None /\ (mem'.champion # None => disk'.pending \subseteq {mem'.champion})
    <3>1. r.champion = None /\ r.pending = {v} /\ disk'.pending = r.pending
      BY <1>3, <1>5, <1>10, <2>1
    <3>2. mem'.testing = None /\ mem'.champion \in {v, None}
      BY <1>6, <1>10, <3>1
    <3> QED
      BY <3>1, <3>2
  <2>2. Stages'
    BY <1>1, <1>3, <1>4, <1>5, <1>6, <1>10, <2>1 DEF Stages
  <2>3. EarnedStep
    BY <1>3, <1>6, <1>10 DEF EarnedStep
  <2> QED
    BY <1>8, <2>2, <2>3 DEF StagesStepped, FencedStep
<1> QED
  BY <1>2, <1>7, <1>9, <1>10

LEMMA TrainingRestartStep == Stages /\ TrainingRestarts => StagesStepped
<1> SUFFICES ASSUME Stages, TrainingRestarts PROVE StagesStepped
  OBVIOUS
<1>1. Restarted(disk) /\ UNCHANGED versions
  BY DEF TrainingRestarts
<1>2. /\ disk \in Tournaments /\ FairTournament(disk) /\ References(disk) \subseteq disk.arts
  BY DEF Stages, FairTournament
<1>3. /\ FairTournament(mem') /\ disk' = mem' /\ mem'.arts = disk.arts
      /\ References(mem') \subseteq mem'.arts
      /\ disk.champion # None => mem'.champion = disk.champion
      /\ disk.champion = None => mem'.champion \in disk.pending \cup {None}
  BY <1>1, <1>2, RestartFair
<1>4. mem'.champion = None => mem'.testing = None
  BY <1>3 DEF FairTournament
<1>5. Stages'
  BY <1>1, <1>3, <1>4 DEF Stages
<1>6. FencedStep /\ EarnedStep
  BY <1>3 DEF Stages, FencedStep, EarnedStep
<1> QED
  BY <1>5, <1>6 DEF StagesStepped

LEMMA StopStep == Stages /\ StopsInPublication => StagesStepped
<1> SUFFICES ASSUME Stages, StopsInPublication PROVE StagesStepped
  OBVIOUS
<1> DEFINE v == Native(versions')
           r == Register(mem, v)
           settled == [r EXCEPT !.arts = disk.arts \cup {v}]
<1>1. ~Stale /\ versions' \in Nat /\ Restarted(settled)
  BY DEF StopsInPublication, Stages
<1>2. /\ FairTournament(r) /\ r \in Tournaments /\ r.arts = mem.arts \cup {v}
      /\ r.champion = mem.champion /\ References(r) \subseteq r.arts /\ v \in Versions
  BY <1>1, EnrolledFair
<1>3. mem.arts = disk.arts /\ disk.arts \cup {v} \in SUBSET Versions
  BY <1>2 DEF Stages, FairTournament, Tournaments
<1> HIDE DEF r, v
<1>4. /\ settled \in Tournaments /\ settled.arts = disk.arts \cup {v}
      /\ settled.champion = r.champion
      /\ References(settled) = References(r) /\ FairTournament(settled)
  BY <1>2, <1>3, OtherArtifacts
<1> HIDE DEF settled
<1>5. References(settled) \subseteq settled.arts
  BY <1>2, <1>3, <1>4
<1>6. /\ FairTournament(mem') /\ disk' = mem' /\ mem'.arts = settled.arts
      /\ References(mem') \subseteq mem'.arts
      /\ settled.champion # None => mem'.champion = settled.champion
  BY <1>1, <1>4, <1>5, RestartFair
<1>7. mem'.champion = None => mem'.testing = None
  BY <1>6 DEF FairTournament
<1>8. Stages'
  BY <1>1, <1>6, <1>7 DEF Stages
<1>9. FencedStep /\ EarnedStep
  BY <1>1, <1>2, <1>4, <1>6 DEF Stale, FencedStep, EarnedStep
<1> QED
  BY <1>8, <1>9 DEF StagesStepped

LEMMA StagesStep == Stages /\ [TrainingNext]_trainingVars => StagesStepped
<1> SUFFICES ASSUME Stages, [TrainingNext]_trainingVars PROVE StagesStepped
  OBVIOUS
<1>1. CASE UNCHANGED <<mem, disk>> /\ versions' \in Nat
  BY <1>1 DEF Stages, StagesStepped, FencedStep, EarnedStep
<1>2. versions \in Nat /\ versions + 1 \in Nat
  BY DEF Stages
<1>3. ASSUME NEW c \in Cohorts, OutcomeCompletes(c) \/ Prepare(c) PROVE StagesStepped
  BY <1>1, <1>2, <1>3 DEF OutcomeCompletes, Prepare
<1>4. CASE FitEnds \/ JobAges \/ DiscardStale \/ PublishNothing
  BY <1>1, <1>2, <1>4 DEF FitEnds, JobAges, DiscardStale, PublishNothing
<1>5. CASE PublishFails
  BY <1>1, <1>2, <1>5 DEF PublishFails, AfterRollback
<1>6. CASE TrainerCancelled \/ ContextMoves \/ UNCHANGED trainingVars
  BY <1>1, <1>2, <1>6 DEF TrainerCancelled, ContextMoves, trainingVars
<1> QED
  BY <1>3, <1>4, <1>5, <1>6, SettleStep, SeedStep, PublishStep, TrainingRestartStep, StopStep
     DEF TrainingNext

TrainingInv == Jobs /\ Stages

LEMMA TrainingBegins == TrainingInit => TrainingInv
<1> SUFFICES ASSUME TrainingInit PROVE TrainingInv
  OBVIOUS
<1>1. Jobs
  BY IdleTrainer, TrainingAssumption DEF TrainingInit, Jobs
<1>2. mem = Fresh /\ disk = Fresh /\ versions = 0
  BY DEF TrainingInit
<1>3. Fresh \in Tournaments /\ FairTournament(Fresh) /\ References(Fresh) = {}
  BY DEF Fresh, Tournaments, FairTournament, References
<1>4. Stages
  BY <1>2, <1>3 DEF Stages, Fresh
<1> QED
  BY <1>1, <1>4 DEF TrainingInv

LEMMA TrainingImplied ==
    TrainingInv => TrainingTypeOK /\ TrainingNotWedged /\ TrainingNotForgotten /\ CandidatesStored
<1> SUFFICES ASSUME TrainingInv
             PROVE  TrainingTypeOK /\ TrainingNotWedged /\ TrainingNotForgotten /\ CandidatesStored
  OBVIOUS
<1>1. Jobs /\ Stages
  BY DEF TrainingInv
<1>2. TrainingNotWedged /\ TrainingNotForgotten
  BY <1>1, TrainingAssumption DEF Jobs, TrainingNotWedged, TrainingNotForgotten
<1>3. CandidatesStored
  BY <1>1 DEF Stages, CandidatesStored
<1>4. \A s \in {mem, disk} : (s.testing # None => s.champion # None) /\ Cardinality(s.pending) <= 2
  BY <1>1, TwoWait DEF Stages, FairTournament
<1>5. active \in Cohorts \cup {NoCohort}
  BY <1>1 DEF Jobs
<1> QED
  BY <1>1, <1>2, <1>3, <1>4, <1>5 DEF Jobs, TrainingTypeOK

\* A job neither blocks later training nor loses its outcomes, is published only into the context
\* it was prepared for, and leaves in memory and on disk a tournament whose candidates are stored
\* and whose crown was won, whatever writes fail and wherever the process stops
\* (learning.py 1120-1378, 5497-5792, 5950-6222, 8025-8064).
THEOREM TrainingAlwaysSound == TrainingSpec => TrainingIsSound
<1>1. TrainingInit => TrainingInv
  BY TrainingBegins
<1>2. TrainingInv /\ [TrainingNext]_trainingVars => TrainingInv' /\ FencedStep /\ EarnedStep
  BY JobsStep, StagesStep DEF TrainingInv, StagesStepped
<1>3. TrainingInv => TrainingTypeOK /\ TrainingNotWedged /\ TrainingNotForgotten /\ CandidatesStored
  BY TrainingImplied
<1>4. TrainingSpec => [][FencedStep]_trainingVars
  BY <1>1, <1>2, PTL DEF TrainingSpec
<1>5. TrainingSpec => [][EarnedStep]_trainingVars
  BY <1>1, <1>2, PTL DEF TrainingSpec
<1>6. TrainingSpec => []TrainingTypeOK /\ []TrainingNotWedged /\ []TrainingNotForgotten /\ []CandidatesStored
  BY <1>1, <1>2, <1>3, PTL DEF TrainingSpec
<1>7. TrainingSpec => PublishedIsCurrent /\ CrownIsEarned
  BY <1>4, <1>5 DEF PublishedIsCurrent, CrownIsEarned, FencedStep, EarnedStep
<1> QED
  BY <1>6, <1>7 DEF TrainingIsSound

-----------------------------------------------------------------------------
(* The authority of the skills *)

Marks == 0..MaxCrowns
Compositions == [Skills -> Marks \X (0..MaxJoins)]
Trials ==
    [status : {"none", "collecting", "passed", "failed", "context_changed", "policy_changed", "restored"},
     deps : Compositions]
Reasons == {"none", "health", "proof", "replaced", "coverage"}
Rows ==
    [champ : Marks, active : Marks, deps : Compositions, joined : 0..MaxJoins, susp : Marks,
     why : Reasons, trial : Trials,
     proof : Marks \X Compositions]
Auths ==
    [st : [Skills -> Rows], act : [Skills -> Marks], mode : {"off", "shadow", "active"},
     auto : BOOLEAN, consent : BOOLEAN]

\* Who is active was once crowned, stands beside what it joined, and is not barred.
Sound(a) ==
    \A k \in Skills :
        /\ a.st[k].champ >= 1 /\ a.act[k] <= a.st[k].champ /\ a.st[k].susp <= a.st[k].champ
        /\ a.act[k] # 0 => /\ a.st[k].active = a.act[k] /\ a.st[k].deps = Upstream(a, k)
                           /\ a.st[k].susp # a.act[k]

SameRow(s, r) == s.active = r.active /\ s.deps = r.deps /\ s.proof = r.proof /\ s.susp = r.susp

\* The database d follows the memory a up to the revocations rev that it still misses, and is
\* itself a composition a restart may take over.
Follows(d, a, rev) ==
    /\ \A k \in Skills : /\ d.st[k].joined = a.st[k].joined
                         /\ d.st[k].champ >= 1 /\ d.st[k].susp <= d.st[k].champ
    /\ \A k \in rev : a.act[k] = 0 /\ a.st[k].active = 0
    /\ \A k \in Skills \ rev : SameRow(d.st[k], a.st[k])
    /\ \A k \in Skills : a.act[k] # 0 /\ a.st[k].champ = a.act[k] => d.st[k].champ = a.act[k]
    /\ rev = {} /\ d.mode = "active" => d.act = a.act
    /\ d.mode = "active" =>
          \A k \in Skills : d.act[k] # 0 /\ d.st[k].active = d.act[k] => d.st[k].deps = Upstream(d, k)

\* Between half-done settings changes: who is active acts under its root and its proof, and is
\* saved as active.
Rooted(a) ==
    /\ Active(a) # {} => a.mode = "active"
    /\ ~a.auto /\ Active(a) # {} => a.act[1] # 0
    /\ \A k \in Active(a) :
          Independent(a, a.act[k]) => a.st[k].proof = <<a.act[k], a.st[k].deps>>

Clean(d, a, rev) ==
    /\ Rooted(a) /\ d.auto = a.auto
    /\ Active(a) # {} /\ rev = {} => d.mode = "active"

AuthorityInv ==
    /\ auth \in Auths /\ saved \in Auths /\ revoking \in SUBSET Skills
    /\ joins \in 0..MaxJoins /\ \A k \in Skills : auth.st[k].joined <= joins
    /\ Sound(auth) /\ Follows(saved, auth, revoking)
    /\ ~halfDone => Clean(saved, auth, revoking)

RecoveryStep ==
    \A k \in Skills :
        /\ saved.st[k].susp # 0 /\ auth.st[k].susp = saved.st[k].susp
        /\ auth'.act[k] = auth.st[k].susp /\ auth.act[k] # auth'.act[k]
        => auth.st[k].trial = [status |-> "passed", deps |-> Upstream(auth, k)]

AuthorityStepped == AuthorityInv' /\ RecoveryStep

LEMMA SkillOrder == Skills \subseteq Nat /\ 1 \in Skills /\ \A k \in Skills : k >= 1 /\ 1..k \subseteq Skills
<1>1. Cardinality(Skills) \in Nat
  BY AuthorityAssumption, FS_CardinalityType
<1> DEFINE n == Cardinality(Skills)
<1>2. n \in Nat /\ Skills = 1..n /\ Skills # {}
  BY <1>1, AuthorityAssumption
<1> HIDE DEF n
<1> QED
  BY <1>2

LEMMA UpstreamSame ==
    ASSUME NEW a, NEW b, NEW k \in Skills,
           \A j \in Skills : j < k => a.act[j] = b.act[j] /\ a.st[j].joined = b.st[j].joined
    PROVE  Upstream(a, k) = Upstream(b, k)
BY DEF Upstream

LEMMA UpstreamType == \A a \in Auths, k \in Skills : Upstream(a, k) \in Compositions
<1> SUFFICES ASSUME NEW a \in Auths, NEW k \in Skills PROVE Upstream(a, k) \in Compositions
  OBVIOUS
<1>1. \A j \in Skills : a.act[j] \in Marks /\ a.st[j].joined \in 0..MaxJoins
  BY DEF Auths, Rows
<1>2. 0 \in Marks /\ 0 \in 0..MaxJoins
  BY AuthorityAssumption DEF Marks
<1> QED
  BY <1>1, <1>2 DEF Upstream, Compositions

LEMMA NoDepsType == NoDeps \in Compositions /\ 0 \in Marks
<1>1. 0 \in Marks /\ 0 \in 0..MaxJoins
  BY AuthorityAssumption DEF Marks
<1> QED
  BY <1>1 DEF NoDeps, Compositions

\* What Removed changes.
LEMMA RemovedFacts ==
    ASSUME NEW a \in Auths, NEW k \in Nat
    PROVE  LET r == Removed(a, k)
           IN  /\ r \in Auths
               /\ r.mode = a.mode /\ r.auto = a.auto /\ r.consent = a.consent
               /\ \A j \in Skills :
                     /\ r.act[j] = IF j >= k THEN 0 ELSE a.act[j]
                     /\ ~(j >= k) \/ a.act[j] = 0 => r.st[j] = a.st[j]
                     /\ r.st[j].active = IF j >= k /\ a.act[j] # 0 THEN 0 ELSE a.st[j].active
                     /\ r.st[j].champ = a.st[j].champ /\ r.st[j].joined = a.st[j].joined
                     /\ r.st[j].susp = a.st[j].susp /\ r.st[j].proof = a.st[j].proof
                     /\ r.st[j].trial = a.st[j].trial /\ r.st[j].why = a.st[j].why
<1> DEFINE act == [j \in Skills |-> IF j >= k THEN 0 ELSE a.act[j]]
           st == [j \in Skills |-> IF j >= k /\ a.act[j] # 0
                                   THEN [a.st[j] EXCEPT !.active = 0, !.deps = NoDeps] ELSE a.st[j]]
           r == Removed(a, k)
<1>1. r = [a EXCEPT !.act = act, !.st = st]
  BY DEF Removed
<1>2. a.st \in [Skills -> Rows] /\ a.act \in [Skills -> Marks]
  BY DEF Auths
<1>3. ASSUME NEW j \in Skills
      PROVE  /\ act[j] \in Marks /\ st[j] \in Rows
             /\ st[j].active = IF j >= k /\ a.act[j] # 0 THEN 0 ELSE a.st[j].active
             /\ st[j].champ = a.st[j].champ /\ st[j].joined = a.st[j].joined
             /\ st[j].susp = a.st[j].susp /\ st[j].proof = a.st[j].proof
             /\ st[j].trial = a.st[j].trial /\ st[j].why = a.st[j].why
  <2>1. a.st[j] \in Rows /\ a.act[j] \in Marks
    BY <1>2
  <2> QED
    BY <2>1, NoDepsType DEF Rows
<1>4. act \in [Skills -> Marks] /\ st \in [Skills -> Rows]
  BY <1>3
<1>5. \A j \in Skills :
         /\ act[j] = IF j >= k THEN 0 ELSE a.act[j]
         /\ ~(j >= k) \/ a.act[j] = 0 => st[j] = a.st[j]
  OBVIOUS
<1> HIDE DEF act, st
<1>6. r \in Auths /\ r.act = act /\ r.st = st
      /\ r.mode = a.mode /\ r.auto = a.auto /\ r.consent = a.consent
  BY <1>1, <1>4 DEF Auths
<1> QED
  BY <1>3, <1>5, <1>6

\* What Suspended changes.
LEMMA SuspendedFacts ==
    ASSUME NEW a \in Auths, NEW k \in Skills,
           NEW why \in Reasons
    PROVE  LET r == Removed(a, k)
               s == Suspended(a, k, why)
           IN  /\ s \in Auths /\ s.act = r.act /\ s.auto = a.auto /\ s.consent = a.consent
               /\ s.mode = SuspendedMode(r)
               /\ \A j \in Skills \ {k} : s.st[j] = r.st[j]
               /\ s.st[k].susp = a.act[k]
               /\ \A j \in Skills :
                     /\ s.st[j].active = r.st[j].active /\ s.st[j].champ = r.st[j].champ
                     /\ s.st[j].deps = r.st[j].deps /\ s.st[j].joined = r.st[j].joined
                     /\ s.st[j].proof = r.st[j].proof
<1> DEFINE r == Removed(a, k)
           row == [r.st[k] EXCEPT !.susp = a.act[k], !.why = why, !.trial = NoTrial]
           m == [r EXCEPT !.st = [r.st EXCEPT ![k] = row]]
           s == Suspended(a, k, why)
<1>1. /\ r \in Auths /\ r.auto = a.auto /\ r.consent = a.consent
  BY RemovedFacts, SkillOrder
<1> HIDE DEF r
<1>2. /\ r.st \in [Skills -> Rows] /\ r.st[k] \in Rows /\ a.act[k] \in Marks /\ NoTrial \in Trials
  BY <1>1, NoDepsType DEF Auths, NoTrial, Trials
<1>3. /\ row \in Rows /\ row.susp = a.act[k] /\ row.active = r.st[k].active
      /\ row.champ = r.st[k].champ /\ row.deps = r.st[k].deps /\ row.joined = r.st[k].joined
      /\ row.proof = r.st[k].proof
  BY <1>2 DEF Rows
<1>4. [r EXCEPT !.st[k].susp = a.act[k], !.st[k].why = why, !.st[k].trial = NoTrial] = m
  BY <1>1, <1>2 DEF Auths, Rows
<1>5. s = [m EXCEPT !.mode = SuspendedMode(m)]
  BY <1>4 DEF Suspended, r
<1> HIDE DEF row
<1>6. /\ m \in Auths /\ m.act = r.act /\ m.auto = r.auto /\ m.consent = r.consent /\ m.mode = r.mode
      /\ m.st[k] = row /\ \A j \in Skills \ {k} : m.st[j] = r.st[j]
  BY <1>1, <1>2, <1>3 DEF Auths
<1> HIDE DEF m
<1>7. SuspendedMode(m) = SuspendedMode(r) /\ SuspendedMode(m) \in {"off", "shadow", "active"}
  BY <1>6 DEF SuspendedMode, Active, Auths
<1>8. /\ s \in Auths /\ s.act = m.act /\ s.auto = m.auto /\ s.consent = m.consent
      /\ s.mode = SuspendedMode(m) /\ s.st = m.st
  BY <1>5, <1>6, <1>7 DEF Auths
<1> HIDE DEF s
<1> QED
  BY <1>1, <1>3, <1>6, <1>7, <1>8 DEF r, s

\* What Activated changes.
LEMMA ActivatedFacts ==
    ASSUME NEW a \in Auths, NEW k \in Skills, NEW recovering \in BOOLEAN,
           joins \in Nat, joins < MaxJoins
    PROVE  LET r == Removed(a, k + 1)
               v == a.st[k].champ
               b == Activated(a, k, recovering)
           IN  /\ b \in Auths /\ b.auto = a.auto /\ b.consent = a.consent /\ b.mode = "active"
               /\ b.act[k] = v /\ \A j \in Skills \ {k} : b.act[j] = r.act[j] /\ b.st[j] = r.st[j]
               /\ b.st[k].active = v /\ b.st[k].champ = v /\ b.st[k].deps = Upstream(a, k)
               /\ Independent(a, v) => b.st[k].proof = <<v, Upstream(a, k)>>
               /\ b.st[k].susp = IF recovering THEN 0 ELSE a.st[k].susp
               /\ b.st[k].joined = joins + 1
<1> DEFINE r == Removed(a, k + 1)
           v == a.st[k].champ
           deps == Upstream(a, k)
           proof == IF Independent(a, v) THEN <<v, deps>> ELSE <<0, NoDeps>>
           susp == IF recovering THEN 0 ELSE a.st[k].susp
           trial == IF recovering THEN [status |-> "restored", deps |-> a.st[k].trial.deps]
                    ELSE a.st[k].trial
           s == [a.st[k] EXCEPT !.active = v, !.deps = deps, !.joined = joins + 1,
                                !.proof = proof, !.susp = susp, !.trial = trial]
           b == Activated(a, k, recovering)
<1>1. /\ r \in Auths /\ r.auto = a.auto /\ r.consent = a.consent
  <2>1. k + 1 \in Nat
    BY SkillOrder
  <2> QED
    BY <2>1, RemovedFacts
<1>2. /\ a.st[k] \in Rows /\ v \in Marks /\ deps \in Compositions /\ joins + 1 \in 0..MaxJoins
      /\ a.st[k].susp \in Marks /\ a.st[k].trial \in Trials
  BY UpstreamType, AuthorityAssumption DEF Auths, Rows
<1>3. b = [r EXCEPT !.act[k] = v, !.st[k] = s, !.mode = "active"]
  BY <1>2 DEF Activated, Rows
<1> HIDE DEF r, v, deps
<1>4. proof \in Marks \X Compositions /\ susp \in Marks /\ trial \in Trials
  BY <1>2, NoDepsType DEF Trials
<1>5. proof = IF Independent(a, v) THEN <<v, deps>> ELSE <<0, NoDeps>>
  OBVIOUS
<1> HIDE DEF proof, trial
<1>6. /\ s \in Rows /\ s.active = v /\ s.deps = deps /\ s.joined = joins + 1
      /\ s.proof = proof /\ s.susp = susp /\ s.champ = a.st[k].champ
  BY <1>2, <1>4 DEF Rows
<1> HIDE DEF s
<1>7. /\ b \in Auths /\ b.auto = r.auto /\ b.consent = r.consent /\ b.mode = "active"
      /\ b.act[k] = v /\ b.st[k] = s
      /\ \A j \in Skills \ {k} : b.act[j] = r.act[j] /\ b.st[j] = r.st[j]
  <2> DEFINE act == [r.act EXCEPT ![k] = v]
             st == [r.st EXCEPT ![k] = s]
  <2>1. b = [r EXCEPT !.act = act, !.st = st, !.mode = "active"]
    BY <1>1, <1>3 DEF Auths
  <2>2. /\ act \in [Skills -> Marks] /\ st \in [Skills -> Rows] /\ act[k] = v /\ st[k] = s
        /\ \A j \in Skills \ {k} : act[j] = r.act[j] /\ st[j] = r.st[j]
    BY <1>1, <1>2, <1>6 DEF Auths
  <2> HIDE DEF act, st
  <2>3. /\ b \in Auths /\ b.auto = r.auto /\ b.consent = r.consent /\ b.mode = "active"
        /\ b.act = act /\ b.st = st
    BY <1>1, <2>1, <2>2 DEF Auths
  <2> QED
    BY <2>2, <2>3
<1> HIDE DEF b
<1> QED
  BY <1>1, <1>5, <1>6, <1>7 DEF r, v, deps, b

LEMMA StoredFacts ==
    ASSUME NEW d \in Auths, NEW a \in Auths, NEW rows
    PROVE  LET e == Stored(d, a, rows)
           IN  /\ e \in Auths /\ e.act = a.act /\ e.mode = a.mode
               /\ e.auto = d.auto /\ e.consent = d.consent
               /\ \A j \in Skills : e.st[j] = IF j \in rows THEN a.st[j] ELSE d.st[j]
BY DEF Stored, Auths

LEMMA UpstreamOf ==
    \A a \in Auths, k \in Skills :
        \A j \in Skills : Upstream(a, k)[j] = IF j < k /\ a.act[j] # 0
                                            THEN <<a.act[j], a.st[j].joined>> ELSE <<0, 0>>
BY DEF Upstream

\* Once nothing is left to revoke, what is saved is what is active.
LEMMA FollowsWhole ==
    ASSUME NEW d \in Auths, NEW a \in Auths, Sound(a),
           d.act = a.act,
           \A k \in Skills : SameRow(d.st[k], a.st[k]) /\ d.st[k].joined = a.st[k].joined,
           \A k \in Skills : d.st[k].champ >= 1 /\ d.st[k].susp <= d.st[k].champ,
           \A k \in Skills : a.act[k] # 0 /\ a.st[k].champ = a.act[k] => d.st[k].champ = a.act[k]
    PROVE  Follows(d, a, {})
<1>1. ASSUME NEW k \in Skills, d.act[k] # 0 PROVE d.st[k].deps = Upstream(d, k)
  <2>1. d.st[k].deps = Upstream(a, k)
    BY <1>1 DEF Sound, SameRow
  <2>2. Upstream(d, k) = Upstream(a, k)
    BY UpstreamSame
  <2> QED
    BY <2>1, <2>2
<1> QED
  BY <1>1 DEF Follows

\* A transaction that writes every row that changed or was left to revoke.
LEMMA FollowsStored ==
    ASSUME NEW d \in Auths, NEW a \in Auths, NEW b \in Auths, NEW rev, NEW rows,
           Follows(d, a, rev), Sound(b), rev \subseteq rows,
           \A j \in Skills \ rows : b.st[j] = a.st[j] /\ b.act[j] \in {0, a.act[j]}
    PROVE  Follows(Stored(d, b, rows), b, {})
<1> DEFINE e == Stored(d, b, rows)
<1>1. /\ e \in Auths /\ e.act = b.act
      /\ \A j \in Skills : e.st[j] = IF j \in rows THEN b.st[j] ELSE d.st[j]
  BY StoredFacts
<1> HIDE DEF e
<1>2. \A k \in Skills : SameRow(e.st[k], b.st[k]) /\ e.st[k].joined = b.st[k].joined
  BY <1>1 DEF Follows, SameRow
<1>3. \A k \in Skills : e.st[k].champ >= 1 /\ e.st[k].susp <= e.st[k].champ
  BY <1>1 DEF Follows, Sound
<1>4. \A k \in Skills : b.act[k] # 0 /\ b.st[k].champ = b.act[k] => e.st[k].champ = b.act[k]
  BY <1>1 DEF Follows
<1>5. Follows(e, b, {})
  BY <1>1, <1>2, <1>3, <1>4, FollowsWhole
<1> QED
  BY <1>5 DEF e

\* A revocation whose transaction fails is left to be retried.
LEMMA FollowsLeft ==
    ASSUME NEW d \in Auths, NEW a \in Auths, NEW b \in Auths, NEW rev, NEW rows,
           Follows(d, a, rev), Sound(b), rev \subseteq rows, rows \subseteq Skills,
           \A j \in Skills : b.st[j].joined = a.st[j].joined /\ b.st[j].champ = a.st[j].champ,
           \A j \in Skills : b.act[j] \in {0, a.act[j]},
           \A j \in Skills \ rows : b.st[j] = a.st[j] /\ b.act[j] = a.act[j],
           \A j \in rows : b.act[j] = 0 /\ b.st[j].active = 0
    PROVE  Follows(d, b, rows)
<1>1. ASSUME rows = {}, d.mode = "active" PROVE d.act = b.act
  <2>1. rev = {} /\ d.act = a.act
    BY <1>1 DEF Follows
  <2>2. \A j \in Skills : b.act[j] = a.act[j]
    BY <1>1
  <2> QED
    BY <2>1, <2>2 DEF Auths
<1>2. \A k \in Skills \ rows : SameRow(d.st[k], b.st[k])
  BY DEF Follows
<1>3. \A k \in Skills : b.act[k] # 0 /\ b.st[k].champ = b.act[k] => d.st[k].champ = b.act[k]
  BY DEF Follows
<1>4. \A k \in Skills : d.st[k].joined = b.st[k].joined
  BY DEF Follows
<1> QED
  BY <1>1, <1>2, <1>3, <1>4 DEF Follows

\* A retried revocation.
LEMMA FollowsRetried ==
    ASSUME NEW d \in Auths, auth \in Auths, revoking \subseteq Skills,
           Follows(d, auth, revoking), Sound(auth)
    PROVE  /\ Retried(d) \in Auths /\ Follows(Retried(d), auth, {})
           /\ Retried(d).auto = d.auto /\ Retried(d).consent = d.consent
           /\ Retried(d).mode = IF revoking = {} THEN d.mode ELSE auth.mode
           /\ \A j \in Skills : auth.act[j] # 0 => Retried(d).st[j] = d.st[j]
<1>1. CASE revoking = {}
  BY <1>1 DEF Retried
<1>2. CASE revoking # {}
  <2>1. Retried(d) = Stored(d, auth, revoking)
    BY <1>2 DEF Retried
  <2>2. Follows(Stored(d, auth, revoking), auth, {})
    BY FollowsStored
  <2>3. \A j \in revoking : auth.act[j] = 0
    BY DEF Follows
  <2> QED
    BY <1>2, <2>1, <2>2, <2>3, StoredFacts
<1> QED
  BY <1>1, <1>2

\* One row changes, but not what it stands for, and is saved.
LEMMA FollowsRow ==
    ASSUME NEW d \in Auths, NEW a \in Auths, NEW b \in Auths, NEW e \in Auths, NEW k \in Skills,
           NEW rev \in SUBSET Skills, Follows(d, a, rev), Sound(a), Sound(b),
           b.act = a.act, e.act = d.act, e.mode = d.mode,
           \A j \in Skills \ {k} : b.st[j] = a.st[j] /\ e.st[j] = d.st[j],
           e.st[k] = b.st[k], SameRow(b.st[k], a.st[k]), b.st[k].joined = a.st[k].joined
    PROVE  Follows(e, b, rev)
<1>1. \A j \in Skills : e.st[j].joined = d.st[j].joined /\ b.st[j].joined = a.st[j].joined
  BY DEF Follows
<1>2. ASSUME NEW j \in Skills, e.mode = "active", e.act[j] # 0, e.st[j].active = e.act[j]
      PROVE  e.st[j].deps = Upstream(e, j)
  <2>1. Upstream(e, j) = Upstream(d, j)
    BY <1>1, UpstreamSame
  <2>2. e.st[j].active = d.st[j].active /\ e.st[j].deps = d.st[j].deps
    <3>1. CASE j # k
      BY <3>1
    <3>2. CASE j = k /\ k \notin rev
      BY <3>2 DEF Follows, SameRow
    <3>3. CASE j = k /\ k \in rev
      BY <1>2, <3>3 DEF Follows, SameRow
    <3> QED
      BY <3>1, <3>2, <3>3
  <2> QED
    BY <1>2, <2>1, <2>2 DEF Follows
<1>3. \A j \in Skills \ rev : SameRow(e.st[j], b.st[j])
  BY DEF Follows, SameRow
<1>4. \A j \in rev : b.act[j] = 0 /\ b.st[j].active = 0
  BY DEF Follows, SameRow
<1>5. \A j \in Skills : e.st[j].champ >= 1 /\ e.st[j].susp <= e.st[j].champ
  BY DEF Follows, Sound
<1>6. \A j \in Skills : b.act[j] # 0 /\ b.st[j].champ = b.act[j] => e.st[j].champ = b.act[j]
  BY DEF Follows
<1>7. rev = {} /\ e.mode = "active" => e.act = b.act
  BY DEF Follows
<1> QED
  BY <1>1, <1>2, <1>3, <1>4, <1>5, <1>6, <1>7 DEF Follows

LEMMA NoRevival ==
    ASSUME \A k \in Skills : auth'.act[k] \in {0, auth.act[k]}
    PROVE  RecoveryStep
BY DEF RecoveryStep

\* Consent and the policy do not matter for what memory and database say of the skills.
LEMMA FollowsCopy ==
    ASSUME NEW d \in Auths, NEW a \in Auths, NEW e \in Auths, NEW b \in Auths,
           NEW rev \in SUBSET Skills, Follows(d, a, rev),
           e.st = d.st, e.act = d.act, e.mode \in {d.mode, "off", "shadow"},
           b.st = a.st, b.act = a.act
    PROVE  Follows(e, b, rev)
<1>1. \A k \in Skills : Upstream(e, k) = Upstream(d, k)
  BY UpstreamSame
<1>2. e.mode = "active" => d.mode = "active"
  OBVIOUS
<1> QED
  BY <1>1, <1>2 DEF Follows

LEMMA SoundCopy ==
    ASSUME NEW a \in Auths, NEW b \in Auths, Sound(a), b.act = a.act,
           \A k \in Skills : /\ b.st[k].joined = a.st[k].joined /\ b.st[k].active = a.st[k].active
                             /\ b.st[k].deps = a.st[k].deps /\ b.st[k].susp = a.st[k].susp
                             /\ b.st[k].champ >= a.st[k].champ
    PROVE  Sound(b)
<1>1. \A k \in Skills : Upstream(b, k) = Upstream(a, k)
  BY UpstreamSame
<1>2. \A k \in Skills : a.st[k] \in Rows /\ b.st[k] \in Rows /\ a.act[k] \in Marks
  BY DEF Auths
<1>3. \A k \in Skills : /\ a.st[k].champ \in Int /\ b.st[k].champ \in Int /\ a.st[k].susp \in Int
                        /\ a.act[k] \in Int
  BY <1>2 DEF Rows, Marks
<1>4. ASSUME NEW k \in Skills
      PROVE  /\ b.st[k].champ >= 1 /\ b.act[k] <= b.st[k].champ /\ b.st[k].susp <= b.st[k].champ
             /\ b.act[k] # 0 => /\ b.st[k].active = b.act[k] /\ b.st[k].deps = Upstream(b, k)
                                /\ b.st[k].susp # b.act[k]
  <2>1. /\ a.st[k].champ >= 1 /\ a.act[k] <= a.st[k].champ /\ a.st[k].susp <= a.st[k].champ
        /\ a.act[k] # 0 => /\ a.st[k].active = a.act[k] /\ a.st[k].deps = Upstream(a, k)
                           /\ a.st[k].susp # a.act[k]
    BY DEF Sound
  <2>2. b.st[k].champ >= a.st[k].champ /\ b.st[k].susp = a.st[k].susp
    OBVIOUS
  <2>3. b.st[k].champ >= 1 /\ b.act[k] <= b.st[k].champ /\ b.st[k].susp <= b.st[k].champ
    BY <1>3, <2>1, <2>2
  <2> QED
    BY <1>1, <2>1, <2>3
<1> QED
  BY <1>4 DEF Sound

LEMMA RootedCopy ==
    ASSUME NEW a \in Auths, NEW b \in Auths, Rooted(a), b.act = a.act, b.auto = a.auto,
           Active(a) # {} => b.mode = a.mode,
           \A k \in Skills : b.st[k].proof = a.st[k].proof /\ b.st[k].deps = a.st[k].deps
    PROVE  Rooted(b)
BY DEF Rooted, Active, Independent

\* Taking authority away from a skill and its downstream.
LEMMA SoundRemoved ==
    ASSUME NEW a \in Auths, NEW k \in Skills, Sound(a)
    PROVE  /\ Sound(Removed(a, k))
           /\ \A j \in Skills : Removed(a, k).act[j] \in {0, a.act[j]}
<1> DEFINE r == Removed(a, k)
<1>1. /\ r \in Auths
      /\ \A j \in Skills :
            /\ r.act[j] = IF j >= k THEN 0 ELSE a.act[j]
            /\ r.st[j].active = IF j >= k /\ a.act[j] # 0 THEN 0 ELSE a.st[j].active
            /\ r.st[j].champ = a.st[j].champ /\ r.st[j].joined = a.st[j].joined
            /\ r.st[j].susp = a.st[j].susp
            /\ ~(j >= k) => r.st[j] = a.st[j]
  BY RemovedFacts, SkillOrder
<1> HIDE DEF r
<1>2. ASSUME NEW j \in Skills, ~(j >= k) PROVE Upstream(r, j) = Upstream(a, j)
  <2>1. \A i \in Skills : i < j => r.act[i] = a.act[i] /\ r.st[i].joined = a.st[i].joined
    BY <1>1, <1>2, SkillOrder
  <2> QED
    BY <2>1, UpstreamSame
<1>3. ASSUME NEW j \in Skills
      PROVE  /\ r.st[j].champ >= 1 /\ r.act[j] <= r.st[j].champ /\ r.st[j].susp <= r.st[j].champ
             /\ r.act[j] # 0 => /\ r.st[j].active = r.act[j] /\ r.st[j].deps = Upstream(r, j)
                                /\ r.st[j].susp # r.act[j]
  <2>1. a.st[j].champ \in Int /\ a.st[j].champ >= 1 /\ a.st[j].susp <= a.st[j].champ
        /\ a.act[j] <= a.st[j].champ
    BY DEF Sound, Auths, Rows, Marks
  <2>2. CASE j >= k
    BY <1>1, <2>1, <2>2
  <2>3. CASE ~(j >= k)
    BY <1>1, <1>2, <2>3 DEF Sound
  <2> QED
    BY <2>2, <2>3
<1>4. Sound(r) /\ \A j \in Skills : r.act[j] \in {0, a.act[j]}
  BY <1>1, <1>3 DEF Sound
<1> QED
  BY <1>4 DEF r

\* Taking authority away leaves the root and the proofs of those that stay.
LEMMA RootedRemoved ==
    ASSUME NEW a \in Auths, NEW k \in Skills, Rooted(a), NEW b \in Auths,
           b.act = Removed(a, k).act, b.auto = a.auto,
           \A j \in Skills : b.st[j].proof = a.st[j].proof
                            /\ (j < k => b.st[j].deps = a.st[j].deps),
           Active(b) # {} => b.mode = "active"
    PROVE  Rooted(b)
<1>1. \A j \in Skills : b.act[j] = IF j >= k THEN 0 ELSE a.act[j]
  BY RemovedFacts, SkillOrder
<1>2. \A j \in Active(b) : j \in Active(a) /\ j < k /\ j >= 1 /\ b.act[j] = a.act[j]
  BY <1>1, SkillOrder DEF Active
<1>3. ASSUME NEW j \in Active(b) PROVE b.act[1] = a.act[1]
  <2>1. j \in Skills /\ j \in Nat /\ k \in Nat /\ j < k /\ j >= 1 /\ 1 \in Skills
    BY <1>2, SkillOrder DEF Active
  <2>2. ~(1 >= k)
    BY <2>1
  <2> QED
    BY <1>1, <2>1, <2>2
<1> QED
  BY <1>2, <1>3 DEF Rooted, Active, Independent

\* A suspension.
LEMMA SoundSuspended ==
    ASSUME NEW a \in Auths, NEW k \in Active(a), Sound(a),
           NEW why \in Reasons
    PROVE  LET s == Suspended(a, k, why)
               rows == {j \in Active(a) : j >= k}
           IN  /\ s \in Auths /\ Sound(s) /\ s.auto = a.auto /\ k \in rows
               /\ \A j \in Skills : /\ s.st[j].joined = a.st[j].joined /\ s.st[j].champ = a.st[j].champ
                                    /\ s.act[j] \in {0, a.act[j]}
               /\ \A j \in Skills \ rows : s.st[j] = a.st[j] /\ s.act[j] = a.act[j]
               /\ \A j \in rows : s.act[j] = 0 /\ s.st[j].active = 0
               /\ Rooted(a) => Rooted(s)
<1> DEFINE r == Removed(a, k)
           s == Suspended(a, k, why)
           rows == {j \in Active(a) : j >= k}
<1>1. k \in Skills /\ k \in rows /\ a.act[k] # 0
  BY SkillOrder DEF Active
<1>2. /\ r \in Auths /\ r.mode = a.mode /\ r.auto = a.auto
      /\ \A j \in Skills :
            /\ r.act[j] = IF j >= k THEN 0 ELSE a.act[j]
            /\ ~(j >= k) \/ a.act[j] = 0 => r.st[j] = a.st[j]
            /\ r.st[j].active = IF j >= k /\ a.act[j] # 0 THEN 0 ELSE a.st[j].active
            /\ r.st[j].champ = a.st[j].champ /\ r.st[j].joined = a.st[j].joined
            /\ r.st[j].susp = a.st[j].susp /\ r.st[j].proof = a.st[j].proof
  BY <1>1, RemovedFacts, SkillOrder
<1>3. /\ s \in Auths /\ s.act = r.act /\ s.auto = a.auto /\ s.mode = SuspendedMode(r)
      /\ \A j \in Skills \ {k} : s.st[j] = r.st[j]
      /\ s.st[k].susp = a.act[k]
      /\ \A j \in Skills :
            /\ s.st[j].active = r.st[j].active /\ s.st[j].champ = r.st[j].champ
            /\ s.st[j].deps = r.st[j].deps /\ s.st[j].joined = r.st[j].joined
            /\ s.st[j].proof = r.st[j].proof
  <2>1. k \in Skills
    BY <1>1
  <2> QED
    BY <2>1, SuspendedFacts
<1>4. Sound(r) /\ \A j \in Skills : r.act[j] \in {0, a.act[j]}
  BY <1>1, SoundRemoved
<1>5. Rooted(a) => Rooted(s)
  <2> SUFFICES ASSUME Rooted(a) PROVE Rooted(s)
    OBVIOUS
  <2>1. Active(s) # {} => s.mode = "active"
    <3>1. Active(s) = Active(r)
      BY <1>3 DEF Active
    <3>2. a.mode = "active"
      BY <1>1 DEF Rooted
    <3>3. CASE a.auto
      BY <1>2, <1>3, <3>1, <3>3 DEF SuspendedMode
    <3>4. CASE ~a.auto
      <4>1. a.act[1] # 0
        BY <1>1, <3>4 DEF Rooted
      <4>2. CASE k = 1
        BY <1>2, <3>1, <4>2, SkillOrder DEF Active
      <4>3. CASE k # 1
        BY <1>1, <1>2, <1>3, <3>2, <3>4, <4>1, <4>3, SkillOrder DEF SuspendedMode
      <4> QED
        BY <4>2, <4>3
    <3> QED
      BY <3>3, <3>4
  <2>2. \A j \in Skills : s.st[j].proof = a.st[j].proof /\ (j < k => s.st[j].deps = a.st[j].deps)
    BY <1>1, <1>2, <1>3, SkillOrder
  <2> HIDE DEF s
  <2> QED
    BY <1>1, <1>3, <2>1, <2>2, RootedRemoved
<1> HIDE DEF r, s
<1>6. \A j \in Skills \ rows : (~(j >= k) \/ a.act[j] = 0) /\ j # k
  BY <1>1 DEF Active
<1>7. \A j \in Skills \ rows : s.st[j] = a.st[j] /\ s.act[j] = a.act[j]
  BY <1>2, <1>3, <1>6
<1>8. \A j \in rows : j \in Skills /\ s.act[j] = 0 /\ s.st[j].active = 0
  BY <1>2, <1>3 DEF Active
<1>9. Sound(s)
  <2>1. \A j \in Skills : Upstream(s, j) = Upstream(r, j)
    BY <1>3, UpstreamSame
  <2>2. a.act[k] <= a.st[k].champ
    BY <1>1 DEF Sound
  <2>3. s.act[k] = 0
    BY <1>1, <1>8
  <2>4. ASSUME NEW j \in Skills
        PROVE  /\ s.st[j].champ >= 1 /\ s.act[j] <= s.st[j].champ /\ s.st[j].susp <= s.st[j].champ
               /\ s.act[j] # 0 => /\ s.st[j].active = s.act[j] /\ s.st[j].deps = Upstream(s, j)
                                  /\ s.st[j].susp # s.act[j]
    <3>1. CASE j = k
      BY <1>2, <1>3, <1>4, <2>2, <2>3, <3>1 DEF Sound
    <3>2. CASE j # k
      BY <1>3, <1>4, <2>1, <3>2 DEF Sound
    <3> QED
      BY <3>1, <3>2
  <2> QED
    BY <2>4 DEF Sound
<1>10. \A j \in Skills : /\ s.st[j].joined = a.st[j].joined /\ s.st[j].champ = a.st[j].champ
                        /\ s.act[j] \in {0, a.act[j]}
  BY <1>2, <1>3, <1>4
<1> QED
  BY <1>1, <1>3, <1>5, <1>7, <1>8, <1>9, <1>10 DEF s

\* An activation.
LEMMA SoundActivated ==
    ASSUME NEW a \in Auths, NEW k \in Skills, Sound(a), NEW recovering \in BOOLEAN,
           joins \in 0..MaxJoins, joins < MaxJoins, \A j \in Skills : a.st[j].joined <= joins,
           recovering \/ a.st[k].susp # a.st[k].champ
    PROVE  LET b == Activated(a, k, recovering)
               rows == {j \in Skills : b.st[j] # a.st[j]}
           IN  /\ b \in Auths /\ Sound(b) /\ b.auto = a.auto /\ b.mode = "active"
               /\ b.act[k] = a.st[k].champ /\ k \in rows
               /\ \A j \in Skills : b.st[j].joined <= joins + 1
               /\ \A j \in Skills \ {k} : b.act[j] \in {0, a.act[j]}
               /\ \A j \in Skills : /\ (~(j >= k) => b.act[j] = a.act[j])
                                    /\ (a.act[j] = 0 /\ j # k => b.st[j] = a.st[j])
               /\ Rooted(a) /\ (k = 1 \/ a.act[1] # 0 \/ a.auto) => Rooted(b)
<1> DEFINE r == Removed(a, k + 1)
           v == a.st[k].champ
           b == Activated(a, k, recovering)
<1>1. k + 1 \in Nat /\ k \in Nat /\ \A j \in Skills : j >= k + 1 <=> j > k
  BY SkillOrder
<1>2. /\ r \in Auths /\ r.auto = a.auto
      /\ \A j \in Skills :
            /\ r.act[j] = IF j >= k + 1 THEN 0 ELSE a.act[j]
            /\ ~(j >= k + 1) \/ a.act[j] = 0 => r.st[j] = a.st[j]
            /\ r.st[j].active = IF j >= k + 1 /\ a.act[j] # 0 THEN 0 ELSE a.st[j].active
            /\ r.st[j].champ = a.st[j].champ /\ r.st[j].joined = a.st[j].joined
            /\ r.st[j].susp = a.st[j].susp /\ r.st[j].proof = a.st[j].proof
  BY <1>1, RemovedFacts
<1>3. /\ b \in Auths /\ b.auto = a.auto /\ b.mode = "active"
      /\ b.act[k] = v /\ \A j \in Skills \ {k} : b.act[j] = r.act[j] /\ b.st[j] = r.st[j]
      /\ b.st[k].active = v /\ b.st[k].champ = v /\ b.st[k].deps = Upstream(a, k)
      /\ Independent(a, v) => b.st[k].proof = <<v, Upstream(a, k)>>
      /\ b.st[k].susp = IF recovering THEN 0 ELSE a.st[k].susp
      /\ b.st[k].joined = joins + 1
  BY AuthorityAssumption, ActivatedFacts
<1>4. joins + 1 \in Int /\ \A j \in Skills : a.st[j].joined \in Int /\ a.st[j].joined <= joins
  BY DEF Auths, Rows
<1> HIDE DEF r, b
<1>5. ASSUME NEW j \in Skills, ~(j > k) PROVE Upstream(b, j) = Upstream(a, j)
  <2>1. \A i \in Skills : i < j => b.act[i] = a.act[i] /\ b.st[i].joined = a.st[i].joined
    BY <1>1, <1>2, <1>3, <1>5, SkillOrder
  <2> QED
    BY <2>1, UpstreamSame
<1>6. Sound(b)
  <2>1. ASSUME NEW j \in Skills
        PROVE  /\ b.st[j].champ >= 1 /\ b.act[j] <= b.st[j].champ /\ b.st[j].susp <= b.st[j].champ
               /\ b.act[j] # 0 => /\ b.st[j].active = b.act[j] /\ b.st[j].deps = Upstream(b, j)
                                  /\ b.st[j].susp # b.act[j]
    <3>1. /\ a.st[j].champ \in Int /\ a.st[j].champ >= 1 /\ a.st[j].susp <= a.st[j].champ
          /\ a.act[j] <= a.st[j].champ
      BY DEF Sound, Auths, Rows, Marks
    <3>2. CASE j = k
      BY <1>1, <1>3, <1>5, <3>1, <3>2
    <3>3. CASE j # k /\ j > k
      BY <1>1, <1>2, <1>3, <3>1, <3>3
    <3>4. CASE j # k /\ ~(j > k)
      BY <1>1, <1>2, <1>3, <1>5, <3>1, <3>4 DEF Sound
    <3> QED
      BY <3>2, <3>3, <3>4
  <2> QED
    BY <2>1 DEF Sound
<1>7. b.st[k] # a.st[k]
  BY <1>3, <1>4
<1>8. \A j \in Skills : b.st[j].joined <= joins + 1
  BY <1>2, <1>3, <1>4
<1>9. \A j \in Skills \ {k} : b.act[j] \in {0, a.act[j]}
  BY <1>2, <1>3
<1>10. \A j \in Skills : /\ (~(j >= k) => b.act[j] = a.act[j])
                        /\ (a.act[j] = 0 /\ j # k => b.st[j] = a.st[j])
  BY <1>1, <1>2, <1>3, SkillOrder
<1>11. Rooted(a) /\ (k = 1 \/ a.act[1] # 0 \/ a.auto) => Rooted(b)
  <2> SUFFICES ASSUME Rooted(a), k = 1 \/ a.act[1] # 0 \/ a.auto PROVE Rooted(b)
    OBVIOUS
  <2>1. v # 0
    BY DEF Sound
  <2>2. ~b.auto => b.act[1] # 0
    <3> SUFFICES ASSUME ~a.auto PROVE b.act[1] # 0
      BY <1>3
    <3>1. CASE k = 1
      BY <1>3, <2>1, <3>1
    <3>2. CASE k # 1
      <4>1. ~(1 >= k) /\ 1 \in Skills
        BY <3>2, SkillOrder
      <4> QED
        BY <1>10, <3>2, <4>1
    <3> QED
      BY <3>1, <3>2
  <2>3. ASSUME NEW j \in Active(b), Independent(b, b.act[j])
        PROVE  b.st[j].proof = <<b.act[j], b.st[j].deps>>
    <3>1. j \in Skills /\ b.act[j] # 0 /\ Independent(a, b.act[j])
      BY <1>3, <2>3 DEF Active, Independent
    <3>2. CASE j = k
      BY <1>3, <3>1, <3>2
    <3>3. CASE j # k
      <4>1. j \in Active(a) /\ b.act[j] = a.act[j] /\ b.st[j] = a.st[j]
        BY <1>2, <1>3, <3>1, <3>3 DEF Active
      <4> QED
        BY <3>1, <4>1 DEF Rooted
    <3> QED
      BY <3>2, <3>3
  <2> QED
    BY <1>3, <2>2, <2>3 DEF Rooted
<1> QED
  BY <1>3, <1>6, <1>7, <1>8, <1>9, <1>10, <1>11 DEF b

\* A suspension of k, after d was made from the saved state.
LEMMA SuspendsStep ==
    ASSUME NEW a \in Auths, NEW d \in Auths, NEW rev \in SUBSET Skills, NEW k \in Active(a),
           NEW why \in Reasons, NEW earlier \in SUBSET Skills,
           Sound(a), Follows(d, a, rev), rev \subseteq earlier,
           \A j \in earlier : a.act[j] = 0 /\ a.st[j].active = 0,
           Suspends(a, d, k, why, earlier)
    PROVE  /\ auth' \in Auths /\ saved' \in Auths /\ revoking' \in SUBSET Skills
           /\ Sound(auth') /\ Follows(saved', auth', revoking')
           /\ \A j \in Skills : auth'.act[j] \in {0, a.act[j]} /\ auth'.st[j].joined = a.st[j].joined
           /\ Rooted(a) /\ d.auto = a.auto => Clean(saved', auth', revoking')
<1> DEFINE s == Suspended(a, k, why)
           down == {j \in Active(a) : j >= k}
           rows == earlier \cup down
<1>1. /\ s \in Auths /\ Sound(s) /\ s.auto = a.auto /\ k \in down
      /\ \A j \in Skills : /\ s.st[j].joined = a.st[j].joined /\ s.st[j].champ = a.st[j].champ
                           /\ s.act[j] \in {0, a.act[j]}
      /\ \A j \in Skills \ down : s.st[j] = a.st[j] /\ s.act[j] = a.act[j]
      /\ \A j \in down : s.act[j] = 0 /\ s.st[j].active = 0
      /\ Rooted(a) => Rooted(s)
  BY SoundSuspended
<1>2. /\ auth' = s
      /\ \/ saved' = Stored(d, s, rows) /\ revoking' = {}
         \/ saved' = d /\ revoking' = rows
  BY DEF Suspends, Revokes
<1>3. down \subseteq Skills
  BY DEF Active
<1> HIDE DEF s, down
<1>4. /\ \A j \in Skills \ rows : s.st[j] = a.st[j] /\ s.act[j] = a.act[j]
      /\ rows \subseteq Skills /\ rev \subseteq rows /\ rows # {}
  BY <1>1, <1>3
<1>5. \A j \in rows : s.act[j] = 0 /\ s.st[j].active = 0
  <2>1. ASSUME NEW j \in earlier, j \notin down PROVE s.act[j] = 0 /\ s.st[j].active = 0
    BY <1>1, <2>1
  <2> QED
    BY <1>1, <2>1
<1> HIDE DEF rows
<1>6. CASE saved' = Stored(d, s, rows) /\ revoking' = {}
  <2>1. Follows(Stored(d, s, rows), s, {})
    BY <1>1, <1>4, FollowsStored
  <2>2. Stored(d, s, rows) \in Auths /\ Stored(d, s, rows).auto = d.auto /\ Stored(d, s, rows).mode = s.mode
    BY <1>1, StoredFacts
  <2>3. Rooted(a) /\ d.auto = a.auto => Clean(saved', auth', revoking')
    BY <1>1, <1>2, <1>6, <2>2 DEF Clean, Rooted
  <2> QED
    BY <1>1, <1>2, <1>6, <2>1, <2>2, <2>3
<1>7. CASE saved' = d /\ revoking' = rows
  <2>1. Follows(d, s, rows)
    BY <1>1, <1>4, <1>5, FollowsLeft
  <2>2. Rooted(a) /\ d.auto = a.auto => Clean(saved', auth', revoking')
    BY <1>1, <1>2, <1>4, <1>7 DEF Clean
  <2> QED
    BY <1>1, <1>2, <1>4, <1>7, <2>1, <2>2
<1> QED
  BY <1>2, <1>6, <1>7

LEMMA RetriedClean ==
    ASSUME AuthorityInv
    PROVE  /\ Retried(saved) \in Auths /\ Follows(Retried(saved), auth, {})
           /\ ~halfDone => Clean(Retried(saved), auth, {})
<1>1. /\ auth \in Auths /\ saved \in Auths /\ revoking \subseteq Skills
      /\ Sound(auth) /\ Follows(saved, auth, revoking)
      /\ ~halfDone => Clean(saved, auth, revoking)
  BY DEF AuthorityInv
<1>2. /\ Retried(saved) \in Auths /\ Follows(Retried(saved), auth, {})
      /\ Retried(saved).auto = saved.auto
      /\ Retried(saved).mode = IF revoking = {} THEN saved.mode ELSE auth.mode
  BY <1>1, FollowsRetried
<1> QED
  BY <1>1, <1>2 DEF Clean, Rooted

LEMMA GovernSuspendsStep ==
    ASSUME AuthorityInv, NEW k \in Skills, GovernSuspends(k) PROVE AuthorityStepped
<1>1. PICK why \in Reasons : Suspends(auth, Retried(saved), k, why, {})
  BY Zenon DEF GovernSuspends, Reasons
<1>2. k \in Active(auth) /\ UNCHANGED <<joins, halfDone>>
  BY DEF GovernSuspends
<1>3. auth \in Auths /\ Sound(auth) /\ joins \in 0..MaxJoins /\ \A j \in Skills : auth.st[j].joined <= joins
  BY DEF AuthorityInv
<1>4. /\ Retried(saved) \in Auths /\ Follows(Retried(saved), auth, {})
      /\ ~halfDone => Clean(Retried(saved), auth, {})
  BY RetriedClean
<1>5. /\ auth' \in Auths /\ saved' \in Auths /\ revoking' \in SUBSET Skills
      /\ Sound(auth') /\ Follows(saved', auth', revoking')
      /\ \A j \in Skills : auth'.act[j] \in {0, auth.act[j]} /\ auth'.st[j].joined = auth.st[j].joined
      /\ Rooted(auth) /\ Retried(saved).auto = auth.auto => Clean(saved', auth', revoking')
  BY <1>1, <1>2, <1>3, <1>4, SuspendsStep
<1>6. AuthorityInv'
  BY <1>2, <1>3, <1>4, <1>5 DEF AuthorityInv, Clean
<1>7. RecoveryStep
  BY <1>5, NoRevival
<1> QED
  BY <1>6, <1>7 DEF AuthorityStepped

\* A grant to a champion its own suspension does not bar, or whose trial passed.
LEMMA GrantsStep ==
    ASSUME AuthorityInv, NEW k \in Skills, NEW recovering \in BOOLEAN, NEW consent \in BOOLEAN,
           Grants(saved, k, recovering, consent), UNCHANGED halfDone,
           recovering \/ auth.st[k].susp # auth.st[k].champ,
           recovering => auth.st[k].trial = [status |-> "passed", deps |-> Upstream(auth, k)],
           k = 1 \/ auth.act[1] # 0 \/ auth.auto
    PROVE  AuthorityStepped
<1>1. /\ auth \in Auths /\ Sound(auth) /\ joins \in 0..MaxJoins /\ \A j \in Skills : auth.st[j].joined <= joins
      /\ joins < MaxJoins
  BY DEF AuthorityInv, Grants
<1>2. /\ Retried(saved) \in Auths /\ Follows(Retried(saved), auth, {})
      /\ ~halfDone => Clean(Retried(saved), auth, {})
  BY RetriedClean
<1> DEFINE b == Activated(auth, k, recovering)
           a == [b EXCEPT !.consent = b.consent \/ consent]
           rows == {j \in Skills : a.st[j] # auth.st[j]}
           e == Stored(Retried(saved), a, rows)
           d == [e EXCEPT !.consent = e.consent \/ consent]
<1>3. CASE /\ auth' = a /\ saved' = d /\ revoking' = {} /\ joins' = joins + 1
  <2>1. /\ b \in Auths /\ Sound(b) /\ b.auto = auth.auto /\ b.mode = "active"
        /\ b.act[k] = auth.st[k].champ /\ k \in {j \in Skills : b.st[j] # auth.st[j]}
        /\ \A j \in Skills : b.st[j].joined <= joins + 1
        /\ \A j \in Skills \ {k} : b.act[j] \in {0, auth.act[j]}
        /\ Rooted(auth) /\ (k = 1 \/ auth.act[1] # 0 \/ auth.auto) => Rooted(b)
    BY <1>1, SoundActivated
  <2> HIDE DEF b
  <2>2. /\ a \in Auths /\ a.st = b.st /\ a.act = b.act /\ a.auto = b.auto /\ a.mode = b.mode
    BY <2>1 DEF Auths
  <2> HIDE DEF a
  <2>3. Sound(a)
    <3>1. \A j \in Skills : a.st[j].champ >= b.st[j].champ
      BY <2>1, <2>2 DEF Auths, Rows, Marks
    <3> QED
      BY <2>1, <2>2, <3>1, SoundCopy
  <2>4. Follows(e, a, {})
    <3>1. \A j \in Skills \ rows : a.st[j] = auth.st[j] /\ a.act[j] \in {0, auth.act[j]}
      BY <2>1, <2>2
    <3> HIDE DEF rows
    <3> QED
      BY <1>1, <1>2, <2>2, <2>3, <3>1, FollowsStored
  <2>5. e \in Auths /\ e.auto = Retried(saved).auto /\ e.mode = a.mode
    BY <1>2, <2>2, StoredFacts
  <2> HIDE DEF e, rows
  <2>6. d \in Auths /\ d.st = e.st /\ d.act = e.act /\ d.auto = e.auto /\ d.mode = e.mode
    BY <2>5 DEF Auths
  <2> HIDE DEF d
  <2>7. Follows(d, a, {})
    BY <2>2, <2>4, <2>5, <2>6, FollowsCopy
  <2>8. ~halfDone => Clean(d, a, {})
    <3> SUFFICES ASSUME ~halfDone PROVE Clean(d, a, {})
      OBVIOUS
    <3>1. Rooted(b) /\ Retried(saved).auto = auth.auto
      BY <1>2, <2>1 DEF Clean
    <3>2. Rooted(a)
      BY <2>1, <2>2, <3>1, RootedCopy
    <3> QED
      BY <2>1, <2>2, <2>5, <2>6, <3>1, <3>2 DEF Clean
  <2>9. AuthorityInv'
    <3>1. joins' \in 0..MaxJoins /\ \A j \in Skills : auth'.st[j].joined <= joins'
      BY <1>1, <1>3, <2>1, <2>2, AuthorityAssumption
    <3>2. /\ auth' \in Auths /\ saved' \in Auths /\ revoking' \in SUBSET Skills
          /\ Sound(auth') /\ Follows(saved', auth', revoking')
          /\ ~halfDone' => Clean(saved', auth', revoking')
      BY <1>3, <2>2, <2>3, <2>6, <2>7, <2>8
    <3> QED
      BY <3>1, <3>2 DEF AuthorityInv
  <2>10. RecoveryStep
    BY <1>3, <2>1, <2>2 DEF RecoveryStep
  <2> QED
    BY <2>9, <2>10 DEF AuthorityStepped
<1>4. CASE saved' = Retried(saved) /\ revoking' = {} /\ UNCHANGED <<auth, joins>>
  <2>1. AuthorityInv'
    BY <1>1, <1>2, <1>4 DEF AuthorityInv
  <2>2. RecoveryStep
    BY <1>4 DEF RecoveryStep
  <2> QED
    BY <2>1, <2>2 DEF AuthorityStepped
<1> QED
  BY <1>3, <1>4 DEF Grants

LEMMA GovernActivatesStep ==
    ASSUME AuthorityInv, NEW k \in Skills, GovernActivates(k) PROVE AuthorityStepped
<1>1. /\ Grants(saved, k, ~MayJoin(k), FALSE) /\ UNCHANGED halfDone
      /\ MayJoin(k) \/ Recovered(k)
      /\ k = 1 \/ auth.act[1] # 0 \/ auth.auto
  BY DEF GovernActivates
<1>2. MayJoin(k) \in BOOLEAN /\ (MayJoin(k) => auth.st[k].susp # auth.st[k].champ)
  BY DEF MayJoin
<1>3. Recovered(k) => auth.st[k].trial = [status |-> "passed", deps |-> Upstream(auth, k)]
  <2>1. auth.st[k].trial \in Trials
    BY DEF AuthorityInv, Auths, Rows
  <2> QED
    BY <2>1 DEF Recovered, Trials
<1>4. (~MayJoin(k)) \in BOOLEAN /\ FALSE \in BOOLEAN
  OBVIOUS
<1> DEFINE recovering == ~MayJoin(k)
<1>5. /\ recovering \in BOOLEAN /\ Grants(saved, k, recovering, FALSE)
      /\ recovering \/ auth.st[k].susp # auth.st[k].champ
      /\ recovering => auth.st[k].trial = [status |-> "passed", deps |-> Upstream(auth, k)]
  BY <1>1, <1>2, <1>3
<1> HIDE DEF recovering
<1> QED
  BY <1>1, <1>4, <1>5, GrantsStep

LEMMA GovernRestsStep ==
    ASSUME AuthorityInv, GovernRests PROVE AuthorityStepped
<1>1. /\ Active(auth) = {} /\ auth' = [auth EXCEPT !.mode = "shadow"]
      /\ saved' = [Retried(saved) EXCEPT !.mode = "shadow"] /\ revoking' = {}
      /\ UNCHANGED <<joins, halfDone>>
  BY DEF GovernRests
<1>2. auth \in Auths /\ Sound(auth) /\ joins \in 0..MaxJoins /\ \A j \in Skills : auth.st[j].joined <= joins
  BY DEF AuthorityInv
<1>3. /\ Retried(saved) \in Auths /\ Follows(Retried(saved), auth, {})
      /\ ~halfDone => Clean(Retried(saved), auth, {})
  BY RetriedClean
<1>4. /\ auth' \in Auths /\ auth'.st = auth.st /\ auth'.act = auth.act /\ auth'.auto = auth.auto
  BY <1>1, <1>2 DEF Auths
<1>5. /\ saved' \in Auths /\ saved'.st = Retried(saved).st /\ saved'.act = Retried(saved).act
      /\ saved'.auto = Retried(saved).auto /\ saved'.mode = "shadow"
  BY <1>1, <1>3 DEF Auths
<1>6. Follows(saved', auth', {})
  BY <1>2, <1>3, <1>4, <1>5, FollowsCopy
<1>7. Sound(auth')
  <2>1. \A j \in Skills : auth'.st[j].champ >= auth.st[j].champ
    BY <1>2, <1>4 DEF Auths, Rows, Marks
  <2> QED
    BY <1>2, <1>4, <2>1, SoundCopy
<1>8. Active(auth') = {}
  BY <1>1, <1>4 DEF Active
<1>9. ~halfDone' => Clean(saved', auth', revoking')
  BY <1>1, <1>3, <1>4, <1>5, <1>8 DEF Clean, Rooted
<1>10. AuthorityInv'
  BY <1>1, <1>2, <1>4, <1>5, <1>6, <1>7, <1>9 DEF AuthorityInv
<1>11. RecoveryStep
  BY <1>4 DEF RecoveryStep
<1> QED
  BY <1>10, <1>11 DEF AuthorityStepped

LEMMA RowFacts ==
    ASSUME NEW a \in Auths, NEW k \in Skills, NEW row \in Rows
    PROVE  LET b == [a EXCEPT !.st[k] = row]
           IN  /\ b \in Auths /\ b.st[k] = row /\ \A j \in Skills \ {k} : b.st[j] = a.st[j]
               /\ b.act = a.act /\ b.mode = a.mode /\ b.auto = a.auto /\ b.consent = a.consent
BY DEF Auths

\* What memory learns of a row, without the database.
LEMMA FollowsKept ==
    ASSUME NEW d \in Auths, NEW a \in Auths, NEW b \in Auths, NEW rev \in SUBSET Skills,
           Follows(d, a, rev), b.act = a.act,
           \A j \in Skills : SameRow(b.st[j], a.st[j]) /\ b.st[j].joined = a.st[j].joined,
           \A j \in Skills : b.act[j] # 0 /\ b.st[j].champ = b.act[j] => a.st[j].champ = a.act[j]
    PROVE  Follows(d, b, rev)
BY DEF Follows, SameRow

\* A trial of row k changes, in memory or in both.
LEMMA TrialStep ==
    ASSUME AuthorityInv, NEW k \in Skills, NEW trial \in Trials,
           auth' = [auth EXCEPT !.st[k] = [auth.st[k] EXCEPT !.trial = trial]],
           saved' = [saved EXCEPT !.st[k] = auth'.st[k]] \/ UNCHANGED saved,
           UNCHANGED <<revoking, joins, halfDone>>
    PROVE  AuthorityStepped
<1>1. /\ auth \in Auths /\ saved \in Auths /\ revoking \in SUBSET Skills
      /\ joins \in 0..MaxJoins /\ \A j \in Skills : auth.st[j].joined <= joins
      /\ Sound(auth) /\ Follows(saved, auth, revoking)
      /\ ~halfDone => Clean(saved, auth, revoking)
  BY DEF AuthorityInv
<1> DEFINE row == [auth.st[k] EXCEPT !.trial = trial]
           b == [auth EXCEPT !.st[k] = row]
           d == [saved EXCEPT !.st[k] = row]
<1>2. /\ auth.st[k] \in Rows /\ row \in Rows /\ SameRow(row, auth.st[k])
      /\ row.joined = auth.st[k].joined /\ row.champ = auth.st[k].champ
  BY <1>1 DEF Auths, Rows, SameRow
<1>3. auth' = b
  OBVIOUS
<1> HIDE DEF row
<1>4. /\ b \in Auths /\ b.st[k] = row /\ \A j \in Skills \ {k} : b.st[j] = auth.st[j]
      /\ b.act = auth.act /\ b.mode = auth.mode /\ b.auto = auth.auto
  BY <1>1, <1>2, RowFacts
<1>5. /\ d \in Auths /\ d.st[k] = row /\ \A j \in Skills \ {k} : d.st[j] = saved.st[j]
      /\ d.act = saved.act /\ d.mode = saved.mode /\ d.auto = saved.auto
  BY <1>1, <1>2, RowFacts
<1>6. saved' = d \/ saved' = saved
  BY <1>3, <1>4
<1> HIDE DEF b, d
<1>7. \A j \in Skills : /\ SameRow(b.st[j], auth.st[j]) /\ b.st[j].joined = auth.st[j].joined
                       /\ b.st[j].champ = auth.st[j].champ
  BY <1>2, <1>4 DEF SameRow
<1>8. Sound(b)
  <2>1. \A j \in Skills : b.st[j].champ >= auth.st[j].champ
    BY <1>1, <1>7 DEF Auths, Rows, Marks
  <2> QED
    BY <1>1, <1>4, <1>7, <2>1, SoundCopy DEF SameRow
<1>9. Rooted(auth) => Rooted(b)
  BY <1>1, <1>4, <1>7, RootedCopy DEF SameRow
<1>10. Follows(saved, b, revoking) /\ Follows(d, b, revoking)
  BY <1>1, <1>4, <1>5, <1>7, <1>8, FollowsKept, FollowsRow
<1>11. ~halfDone => Clean(saved, b, revoking) /\ Clean(d, b, revoking)
  BY <1>1, <1>4, <1>5, <1>9 DEF Clean, Active
<1>12. AuthorityInv'
  BY <1>1, <1>3, <1>4, <1>5, <1>6, <1>7, <1>8, <1>10, <1>11 DEF AuthorityInv
<1>13. RecoveryStep
  BY <1>3, <1>4 DEF RecoveryStep
<1> QED
  BY <1>12, <1>13 DEF AuthorityStepped

LEMMA TrialStartsStep ==
    ASSUME AuthorityInv, NEW k \in Skills, TrialStarts(k) PROVE AuthorityStepped
<1> DEFINE trial == [status |-> "collecting", deps |-> Upstream(auth, k)]
<1>1. auth \in Auths /\ auth.st[k] \in Rows
  BY DEF AuthorityInv, Auths
<1>2. trial \in Trials
  BY <1>1, UpstreamType DEF Trials
<1>3. /\ auth' = [auth EXCEPT !.st[k].trial = trial]
      /\ saved' = [saved EXCEPT !.st[k] = auth'.st[k]] \/ UNCHANGED saved
      /\ UNCHANGED <<revoking, joins, halfDone>>
  BY DEF TrialStarts
<1> HIDE DEF trial
<1>4. auth' = [auth EXCEPT !.st[k] = [auth.st[k] EXCEPT !.trial = trial]]
  BY <1>1, <1>3 DEF Auths
<1> QED
  BY <1>2, <1>3, <1>4, TrialStep

LEMMA TrialEndsStep ==
    ASSUME AuthorityInv, NEW k \in Skills, TrialEnds(k) PROVE AuthorityStepped
<1>1. auth \in Auths /\ auth.st[k] \in Rows /\ auth.st[k].trial \in Trials
  BY DEF AuthorityInv, Auths, Rows
<1>2. PICK verdict \in {"passed", "failed", "context_changed"} :
         auth' = [auth EXCEPT !.st[k].trial.status = verdict]
  BY Zenon DEF TrialEnds
<1>3. saved' = [saved EXCEPT !.st[k] = auth'.st[k]] /\ UNCHANGED <<revoking, joins, halfDone>>
  BY DEF TrialEnds
<1> DEFINE trial == [auth.st[k].trial EXCEPT !.status = verdict]
<1>4. auth' = [auth EXCEPT !.st[k] = [auth.st[k] EXCEPT !.trial = trial]]
  BY <1>1, <1>2 DEF Auths
<1>5. trial \in Trials
  BY <1>1 DEF Trials
<1> HIDE DEF trial
<1> QED
  BY <1>3, <1>4, <1>5, TrialStep

LEMMA CrownChangesStep ==
    ASSUME AuthorityInv, NEW k \in Skills, CrownChanges(k) PROVE AuthorityStepped
<1>1. /\ auth \in Auths /\ saved \in Auths /\ revoking \in SUBSET Skills
      /\ joins \in 0..MaxJoins /\ \A j \in Skills : auth.st[j].joined <= joins
      /\ Sound(auth) /\ Follows(saved, auth, revoking)
      /\ ~halfDone => Clean(saved, auth, revoking)
  BY DEF AuthorityInv
<1>0. PICK recovering \in BOOLEAN : recovering = FALSE
  OBVIOUS
<1> DEFINE v == auth.st[k].champ
           row == [auth.st[k] EXCEPT !.champ = v + 1]
           a == [auth EXCEPT !.st[k] = row]
           d == [saved EXCEPT !.st[k] = row]
           b == Activated(a, k, recovering)
           rows == {j \in Skills : b.st[j] # auth.st[j]}
           replaces == auth.mode = "active" /\ auth.act[k] = v
<1>2. /\ auth.st[k] \in Rows /\ v \in Nat /\ v >= 1 /\ auth.act[k] \in Nat /\ auth.act[k] <= v
      /\ auth.st[k].susp \in Nat /\ auth.st[k].susp <= v /\ v < MaxCrowns /\ MaxCrowns \in Nat
  BY <1>1, AuthorityAssumption DEF Auths, Rows, Marks, Sound, CrownChanges
<1>3. /\ row \in Rows /\ row.champ = v + 1 /\ SameRow(row, auth.st[k])
      /\ row.joined = auth.st[k].joined
  BY <1>2 DEF Rows, Marks, SameRow
<1>4. [auth EXCEPT !.st[k].champ = v + 1] = a
  BY <1>1, <1>2 DEF Auths
<1> HIDE DEF row
<1>5. /\ a \in Auths /\ a.st[k] = row /\ \A j \in Skills \ {k} : a.st[j] = auth.st[j]
      /\ a.act = auth.act /\ a.mode = auth.mode /\ a.auto = auth.auto
  BY <1>1, <1>3, RowFacts
<1>6. /\ d \in Auths /\ d.st[k] = row /\ \A j \in Skills \ {k} : d.st[j] = saved.st[j]
      /\ d.act = saved.act /\ d.mode = saved.mode /\ d.auto = saved.auto
  BY <1>1, <1>3, RowFacts
<1>7. \/ /\ auth' = a /\ saved' = d /\ UNCHANGED <<revoking, joins, halfDone>>
      \/ /\ auth' = a /\ UNCHANGED <<saved, revoking, joins, halfDone>>
      \/ replaces /\ Suspends(a, d, k, "replaced", revoking) /\ UNCHANGED <<joins, halfDone>>
      \/ /\ replaces /\ halfDone' = TRUE
         /\ auth' = a /\ saved' = Retried(d) /\ revoking' = {} /\ UNCHANGED joins
      \/ /\ replaces /\ joins < MaxJoins
         /\ auth' = b /\ saved' = Stored(Retried(d), b, rows)
         /\ revoking' = {} /\ joins' = joins + 1 /\ UNCHANGED halfDone
  <2>1. [saved EXCEPT !.st[k] = a.st[k]] = d
    BY <1>5
  <2> HIDE DEF a, d, v
  <2> QED
    BY <1>0, <1>4, <2>1 DEF CrownChanges, v
<1> HIDE DEF a, d
<1>8. \A j \in Skills : /\ SameRow(a.st[j], auth.st[j]) /\ a.st[j].joined = auth.st[j].joined
  BY <1>3, <1>5 DEF SameRow
<1>9. Sound(a)
  <2>1. \A j \in Skills : a.st[j].champ >= auth.st[j].champ
    <3>1. a.st[k].champ >= auth.st[k].champ
      BY <1>2, <1>3, <1>5
    <3>2. \A j \in Skills \ {k} : auth.st[j].champ \in Int /\ a.st[j].champ = auth.st[j].champ
      BY <1>1, <1>5 DEF Auths, Rows, Marks
    <3> QED
      BY <3>1, <3>2
  <2> QED
    BY <1>1, <1>5, <1>8, <2>1, SoundCopy DEF SameRow
<1>10. Rooted(auth) => Rooted(a)
  BY <1>1, <1>5, <1>8, RootedCopy DEF SameRow
<1>11. Follows(d, a, revoking)
  BY <1>1, <1>5, <1>6, <1>8, <1>9, FollowsRow
<1>12. Follows(saved, a, revoking)
  <2>1. \A j \in Skills : a.act[j] # 0 /\ a.st[j].champ = a.act[j] => auth.st[j].champ = auth.act[j]
    BY <1>2, <1>3, <1>5
  <2> QED
    BY <1>1, <1>5, <1>8, <2>1, FollowsKept
<1>13. ~halfDone => Clean(saved, a, revoking) /\ Clean(d, a, revoking)
  BY <1>1, <1>5, <1>6, <1>10 DEF Clean, Active
<1>14. CASE auth' = a /\ saved' \in {saved, d} /\ UNCHANGED <<revoking, joins, halfDone>>
  <2>1. AuthorityInv'
    BY <1>1, <1>5, <1>6, <1>8, <1>9, <1>11, <1>12, <1>13, <1>14 DEF AuthorityInv
  <2>2. RecoveryStep
    BY <1>5, <1>14 DEF RecoveryStep
  <2> QED
    BY <2>1, <2>2 DEF AuthorityStepped
<1>15. CASE replaces /\ Suspends(a, d, k, "replaced", revoking) /\ UNCHANGED <<joins, halfDone>>
  <2>1. k \in Active(a) /\ "replaced" \in Reasons
    BY <1>2, <1>5, <1>15 DEF Active, Reasons
  <2>2. \A j \in revoking : a.act[j] = 0 /\ a.st[j].active = 0
    BY <1>11 DEF Follows
  <2>3. /\ auth' \in Auths /\ saved' \in Auths /\ revoking' \in SUBSET Skills
        /\ Sound(auth') /\ Follows(saved', auth', revoking')
        /\ \A j \in Skills : auth'.act[j] \in {0, a.act[j]} /\ auth'.st[j].joined = a.st[j].joined
        /\ Rooted(a) /\ d.auto = a.auto => Clean(saved', auth', revoking')
    BY <1>1, <1>5, <1>6, <1>9, <1>11, <1>15, <2>1, <2>2, SuspendsStep
  <2>4. AuthorityInv'
    BY <1>1, <1>8, <1>13, <1>15, <2>3 DEF AuthorityInv, Clean
  <2>5. RecoveryStep
    BY <1>5, <2>3, NoRevival
  <2> QED
    BY <2>4, <2>5 DEF AuthorityStepped
<1>16. ASSUME replaces
       PROVE  Retried(d) \in Auths /\ Follows(Retried(d), a, {}) /\ Retried(d).auto = d.auto
  <2>1. CASE revoking = {}
    BY <1>6, <1>11, <2>1 DEF Retried
  <2>2. CASE revoking # {}
    <3>1. k \notin revoking
      BY <1>1, <1>2, <1>16 DEF Follows
    <3>2. \A j \in revoking : a.st[j] = auth.st[j]
      BY <1>1, <1>5, <3>1
    <3>3. Retried(d) = Stored(d, a, revoking)
      BY <1>5, <2>2, <3>2 DEF Retried, Stored
    <3>4. Follows(Stored(d, a, revoking), a, {})
      <4>1. \A j \in Skills \ revoking : a.st[j] = a.st[j] /\ a.act[j] \in {0, a.act[j]}
        OBVIOUS
      <4> QED
        BY <1>5, <1>6, <1>9, <1>11, <4>1, FollowsStored
    <3>5. Stored(d, a, revoking) \in Auths /\ Stored(d, a, revoking).auto = d.auto
      BY <1>5, <1>6, StoredFacts
    <3> QED
      BY <3>3, <3>4, <3>5
  <2> QED
    BY <2>1, <2>2
<1>17. CASE /\ replaces /\ halfDone' = TRUE
            /\ auth' = a /\ saved' = Retried(d) /\ revoking' = {} /\ UNCHANGED joins
  <2>1. AuthorityInv'
    BY <1>1, <1>5, <1>8, <1>9, <1>16, <1>17 DEF AuthorityInv
  <2>2. RecoveryStep
    BY <1>5, <1>17 DEF RecoveryStep
  <2> QED
    BY <2>1, <2>2 DEF AuthorityStepped
<1>18. CASE /\ replaces /\ joins < MaxJoins
            /\ auth' = b /\ saved' = Stored(Retried(d), b, rows)
            /\ revoking' = {} /\ joins' = joins + 1 /\ UNCHANGED halfDone
  <2>1. /\ b \in Auths /\ Sound(b) /\ b.auto = a.auto /\ b.mode = "active"
        /\ b.act[k] = a.st[k].champ
        /\ \A j \in Skills : b.st[j].joined <= joins + 1
        /\ \A j \in Skills \ {k} : b.act[j] \in {0, a.act[j]}
        /\ Rooted(a) /\ (k = 1 \/ a.act[1] # 0 \/ a.auto) => Rooted(b)
    <3>1. a.st[k].susp # a.st[k].champ
      BY <1>2, <1>3, <1>5 DEF SameRow
    <3>2. \A j \in Skills : a.st[j].joined <= joins
      BY <1>1, <1>8
    <3> HIDE DEF rows
    <3> QED
      BY <1>1, <1>5, <1>9, <1>18, <3>1, <3>2, SoundActivated
  <2>2. b.st[k].champ = v + 1
    <3>1. b.st[k].champ = a.st[k].champ
      <4> HIDE DEF rows
      <4> QED
        BY <1>1, <1>5, <1>18, AuthorityAssumption, ActivatedFacts
    <3> QED
      BY <1>3, <1>5, <3>1
  <2> HIDE DEF b
  <2>3. \A j \in Skills \ rows : b.st[j] = a.st[j] /\ b.act[j] \in {0, a.act[j]}
    <3>1. k \in rows
      BY <1>2, <2>2
    <3> QED
      BY <1>5, <2>1, <3>1
  <2> HIDE DEF rows
  <2>4. Retried(d) \in Auths /\ Follows(Retried(d), a, {}) /\ Retried(d).auto = d.auto
    BY <1>16, <1>18
  <2>5. Follows(Stored(Retried(d), b, rows), b, {})
    BY <1>5, <2>1, <2>3, <2>4, FollowsStored
  <2>6. /\ Stored(Retried(d), b, rows) \in Auths /\ Stored(Retried(d), b, rows).auto = d.auto
        /\ Stored(Retried(d), b, rows).mode = b.mode
    BY <2>1, <2>4, StoredFacts
  <2>7. ~halfDone => Clean(Stored(Retried(d), b, rows), b, {})
    <3> SUFFICES ASSUME ~halfDone PROVE Clean(Stored(Retried(d), b, rows), b, {})
      OBVIOUS
    <3>1. Rooted(a) /\ d.auto = a.auto
      BY <1>13 DEF Clean
    <3>2. k \in Active(a)
      BY <1>2, <1>5, <1>18 DEF Active
    <3>3. a.act[1] # 0 \/ a.auto
      BY <3>1, <3>2 DEF Rooted
    <3> QED
      BY <2>1, <2>6, <3>1, <3>3 DEF Clean
  <2>8. joins' \in 0..MaxJoins /\ \A j \in Skills : auth'.st[j].joined <= joins'
    BY <1>1, <1>18, <2>1, AuthorityAssumption
  <2>9. AuthorityInv'
    BY <1>18, <2>1, <2>5, <2>6, <2>7, <2>8 DEF AuthorityInv
  <2>10. RecoveryStep
    <3>1. auth'.act[k] = v + 1
      BY <1>3, <1>5, <1>18, <2>1
    <3> QED
      BY <1>2, <1>5, <1>18, <2>1, <3>1 DEF RecoveryStep
  <2> QED
    BY <2>9, <2>10 DEF AuthorityStepped
<1> QED
  BY <1>7, <1>14, <1>15, <1>17, <1>18

\* Every skill loses its authority.
LEMMA SwitchEndsStep ==
    ASSUME NEW a \in Auths, NEW d \in Auths, NEW mode \in {"off", "shadow"},
           revoking \in SUBSET Skills, Sound(a), Follows(d, a, revoking), SwitchEnds(a, d, mode)
    PROVE  /\ auth' \in Auths /\ saved' \in Auths /\ revoking' \in SUBSET Skills
           /\ Sound(auth') /\ Follows(saved', auth', revoking')
           /\ \A j \in Skills : auth'.act[j] = 0 /\ auth'.st[j].joined = a.st[j].joined
           /\ d.auto = a.auto => Clean(saved', auth', revoking')
<1> DEFINE r == Removed(a, 1)
           off == DeactivatedAll(a)
           b == [off EXCEPT !.mode = mode]
           rows == revoking \cup Active(a)
<1>1. 1 \in Skills /\ 1 \in Nat /\ \A j \in Skills : j >= 1
  BY SkillOrder
<1>2. /\ r \in Auths /\ r.mode = a.mode /\ r.auto = a.auto /\ r.consent = a.consent
      /\ \A j \in Skills :
            /\ r.act[j] = IF j >= 1 THEN 0 ELSE a.act[j]
            /\ ~(j >= 1) \/ a.act[j] = 0 => r.st[j] = a.st[j]
            /\ r.st[j].active = IF j >= 1 /\ a.act[j] # 0 THEN 0 ELSE a.st[j].active
            /\ r.st[j].champ = a.st[j].champ /\ r.st[j].joined = a.st[j].joined
  BY <1>1, RemovedFacts
<1>3. Sound(r)
  BY <1>1, SoundRemoved
<1> HIDE DEF r
<1>4. ASSUME NEW c, c \in {off, b}
      PROVE  /\ c \in Auths /\ c.act = r.act /\ c.st = r.st /\ c.auto = a.auto
             /\ Sound(c)
             /\ \A j \in Skills : /\ c.act[j] = 0 /\ c.st[j].joined = a.st[j].joined
                                  /\ c.st[j].champ = a.st[j].champ
             /\ \A j \in Skills \ rows : c.st[j] = a.st[j] /\ c.act[j] = a.act[j]
             /\ \A j \in rows : c.act[j] = 0 /\ c.st[j].active = 0
  <2>1. off = [r EXCEPT !.mode = IF a.mode = "off" THEN "off" ELSE "shadow"]
    BY DEF DeactivatedAll, r
  <2>2. off \in Auths /\ off.act = r.act /\ off.st = r.st /\ off.auto = a.auto
    BY <1>2, <2>1 DEF Auths
  <2> HIDE DEF off
  <2>3. b \in Auths /\ b.act = r.act /\ b.st = r.st /\ b.auto = a.auto
    BY <2>2 DEF Auths
  <2>4. c \in Auths /\ c.act = r.act /\ c.st = r.st /\ c.auto = a.auto
    BY <1>4, <2>2, <2>3
  <2> HIDE DEF b
  <2>5. Sound(c)
    <3>1. \A j \in Skills : c.st[j].champ >= r.st[j].champ
      BY <1>2, <2>4 DEF Auths, Rows, Marks
    <3> QED
      BY <1>2, <1>3, <2>4, <3>1, SoundCopy
  <2>6. \A j \in Skills : /\ c.act[j] = 0 /\ c.st[j].joined = a.st[j].joined
                         /\ c.st[j].champ = a.st[j].champ
    BY <1>1, <1>2, <2>4
  <2>7. \A j \in Skills \ rows : c.st[j] = a.st[j] /\ c.act[j] = a.act[j]
    BY <1>1, <1>2, <2>4 DEF Active
  <2>8. \A j \in rows : c.act[j] = 0 /\ c.st[j].active = 0
    BY <1>1, <1>2, <2>4 DEF Active, Follows
  <2> QED
    BY <2>4, <2>5, <2>6, <2>7, <2>8
<1>5. /\ b.mode = mode
      /\ \/ auth' = b /\ saved' = Stored(d, b, rows) /\ revoking' = {}
         \/ auth' = off /\ saved' = d /\ revoking' = rows
  <2>1. off \in Auths
    BY <1>4
  <2>2. b.mode = mode
    BY <2>1 DEF Auths
  <2> HIDE DEF off
  <2> QED
    BY <2>2 DEF SwitchEnds, off
<1>6. rows \subseteq Skills /\ revoking \subseteq rows
  BY DEF Active
<1>7. auth' \in {off, b}
  BY <1>5
<1> HIDE DEF off, b
<1>8. auth' \in {off, b} /\ Active(auth') = {} /\ auth'.auto = a.auto
  BY <1>4, <1>7 DEF Active
<1> HIDE DEF rows
<1>9. CASE auth' = b /\ saved' = Stored(d, b, rows) /\ revoking' = {}
  <2>1. /\ b \in Auths /\ Sound(b)
        /\ \A j \in Skills \ rows : b.st[j] = a.st[j] /\ b.act[j] \in {0, a.act[j]}
    BY <1>4
  <2>2. Follows(Stored(d, b, rows), b, {})
    BY <1>6, <2>1, FollowsStored
  <2>3. Stored(d, b, rows) \in Auths /\ Stored(d, b, rows).auto = d.auto
    BY <2>1, StoredFacts
  <2>4. d.auto = a.auto => Clean(saved', auth', revoking')
    BY <1>8, <1>9, <2>3 DEF Clean, Rooted
  <2> QED
    BY <1>4, <1>9, <2>1, <2>2, <2>3, <2>4
<1>10. CASE auth' = off /\ saved' = d /\ revoking' = rows
  <2>1. /\ off \in Auths /\ Sound(off)
        /\ \A j \in Skills : off.st[j].joined = a.st[j].joined /\ off.st[j].champ = a.st[j].champ
        /\ \A j \in Skills : off.act[j] \in {0, a.act[j]}
        /\ \A j \in Skills \ rows : off.st[j] = a.st[j] /\ off.act[j] = a.act[j]
        /\ \A j \in rows : off.act[j] = 0 /\ off.st[j].active = 0
    BY <1>4
  <2>2. Follows(d, off, rows)
    BY <1>6, <2>1, FollowsLeft
  <2>3. d.auto = a.auto => Clean(saved', auth', revoking')
    BY <1>8, <1>10 DEF Clean, Rooted
  <2> QED
    BY <1>4, <1>6, <1>10, <2>1, <2>2, <2>3
<1> QED
  BY <1>5, <1>9, <1>10

\* The policy or the mode changes, while nobody's authority does.
LEMMA PolicyStep ==
    ASSUME AuthorityInv, NEW a \in Auths, NEW d \in Auths, auth' = a, saved' = d,
           a.st = auth.st, a.act = auth.act, d.st = saved.st, d.act = saved.act,
           d.mode \in {saved.mode, "off", "shadow"}, UNCHANGED <<revoking, joins>>,
           \/ halfDone' = TRUE
           \/ /\ UNCHANGED halfDone /\ auth.mode # "active"
              /\ saved.auto = auth.auto => d.auto = a.auto
    PROVE  AuthorityStepped
<1>1. /\ auth \in Auths /\ saved \in Auths /\ revoking \in SUBSET Skills
      /\ joins \in 0..MaxJoins /\ \A j \in Skills : auth.st[j].joined <= joins
      /\ Sound(auth) /\ Follows(saved, auth, revoking)
      /\ ~halfDone => Clean(saved, auth, revoking)
  BY DEF AuthorityInv
<1>2. Follows(d, a, revoking)
  BY <1>1, FollowsCopy
<1>3. Sound(a)
  <2>1. \A j \in Skills : a.st[j].champ >= auth.st[j].champ
    BY <1>1 DEF Auths, Rows, Marks
  <2> QED
    BY <1>1, <2>1, SoundCopy
<1>4. ~halfDone' => Clean(d, a, revoking)
  <2> SUFFICES ASSUME ~halfDone' PROVE Clean(d, a, revoking)
    OBVIOUS
  <2>1. Clean(saved, auth, revoking) /\ auth.mode # "active" /\ d.auto = a.auto
    BY <1>1 DEF Clean
  <2>2. Active(a) = {}
    BY <2>1 DEF Clean, Rooted, Active
  <2> QED
    BY <2>1, <2>2 DEF Clean, Rooted
<1>5. AuthorityInv'
  BY <1>1, <1>2, <1>3, <1>4 DEF AuthorityInv
<1>6. RecoveryStep
  BY DEF RecoveryStep
<1> QED
  BY <1>5, <1>6 DEF AuthorityStepped

\* The step of a switch that ends everybody's authority.
LEMMA SwitchStep ==
    ASSUME AuthorityInv, NEW a \in Auths, NEW d \in Auths, NEW mode \in {"off", "shadow"},
           a.st = auth.st, a.act = auth.act, d.st = saved.st, d.act = saved.act,
           d.mode = saved.mode, saved.auto = auth.auto => d.auto = a.auto,
           SwitchEnds(a, d, mode), UNCHANGED <<joins, halfDone>>
    PROVE  AuthorityStepped
<1>1. /\ auth \in Auths /\ saved \in Auths /\ revoking \in SUBSET Skills
      /\ joins \in 0..MaxJoins /\ \A j \in Skills : auth.st[j].joined <= joins
      /\ Sound(auth) /\ Follows(saved, auth, revoking)
      /\ ~halfDone => Clean(saved, auth, revoking)
  BY DEF AuthorityInv
<1>2. Follows(d, a, revoking)
  BY <1>1, FollowsCopy
<1>3. Sound(a)
  <2>1. \A j \in Skills : a.st[j].champ >= auth.st[j].champ
    BY <1>1 DEF Auths, Rows, Marks
  <2> QED
    BY <1>1, <2>1, SoundCopy
<1>4. /\ auth' \in Auths /\ saved' \in Auths /\ revoking' \in SUBSET Skills
      /\ Sound(auth') /\ Follows(saved', auth', revoking')
      /\ \A j \in Skills : auth'.act[j] = 0 /\ auth'.st[j].joined = a.st[j].joined
      /\ d.auto = a.auto => Clean(saved', auth', revoking')
  BY <1>1, <1>2, <1>3, SwitchEndsStep
<1>5. AuthorityInv'
  BY <1>1, <1>4 DEF AuthorityInv, Clean
<1>6. RecoveryStep
  BY <1>4, NoRevival
<1> QED
  BY <1>5, <1>6 DEF AuthorityStepped

LEMMA SetParticipationStep ==
    ASSUME AuthorityInv, NEW enabled \in BOOLEAN, SetParticipation(enabled) PROVE AuthorityStepped
<1>1. auth \in Auths /\ saved \in Auths
  BY DEF AuthorityInv
<1> DEFINE a1 == [auth EXCEPT !.auto = enabled]
           a == [auth EXCEPT !.auto = enabled, !.consent = auth.consent \/ enabled]
           d1 == [saved EXCEPT !.auto = enabled]
           d == [saved EXCEPT !.auto = enabled, !.consent = saved.consent \/ enabled]
           mode == IF auth.mode = "off" THEN "off" ELSE "shadow"
<1>2. /\ a1 \in Auths /\ a1.st = auth.st /\ a1.act = auth.act
      /\ a \in Auths /\ a.st = auth.st /\ a.act = auth.act /\ a.auto = enabled
  BY <1>1 DEF Auths
<1>3. /\ d1 \in Auths /\ d1.st = saved.st /\ d1.act = saved.act /\ d1.mode = saved.mode
      /\ d \in Auths /\ d.st = saved.st /\ d.act = saved.act /\ d.mode = saved.mode
      /\ d.auto = enabled
  BY <1>1 DEF Auths
<1>4. /\ UNCHANGED joins
      /\ \/ SwitchEnds(a, d, mode) /\ UNCHANGED halfDone
         \/ /\ auth' \in {a1, a} /\ saved' \in {saved, d1, d}
            /\ halfDone' = TRUE /\ UNCHANGED revoking
  BY DEF SetParticipation
<1>5. mode \in {"off", "shadow"}
  OBVIOUS
<1> HIDE DEF a1, a, d1, d, mode
<1>6. CASE SwitchEnds(a, d, mode) /\ UNCHANGED halfDone
  BY <1>2, <1>3, <1>4, <1>5, <1>6, SwitchStep
<1>7. CASE /\ auth' \in {a1, a} /\ saved' \in {saved, d1, d}
           /\ halfDone' = TRUE /\ UNCHANGED revoking
  <2>1. PICK x \in Auths : x = auth' /\ x.st = auth.st /\ x.act = auth.act
    BY <1>2, <1>7
  <2>2. PICK y \in Auths : y = saved' /\ y.st = saved.st /\ y.act = saved.act /\ y.mode = saved.mode
    BY <1>1, <1>3, <1>7
  <2> QED
    BY <1>4, <1>7, <2>1, <2>2, PolicyStep
<1> QED
  BY <1>4, <1>6, <1>7

LEMMA SetModeStep ==
    ASSUME AuthorityInv, NEW mode \in {"off", "shadow"}, NEW preserve \in BOOLEAN,
           SetMode(mode, preserve)
    PROVE  AuthorityStepped
<1>1. auth \in Auths /\ saved \in Auths
  BY DEF AuthorityInv
<1> DEFINE ends == mode = "shadow" /\ auth.mode # "off" /\ ~preserve /\ auth.auto
           a == IF ends THEN [auth EXCEPT !.auto = FALSE] ELSE auth
           d == IF ends THEN [saved EXCEPT !.auto = FALSE] ELSE saved
           ax == [a EXCEPT !.mode = mode]
           dx == [d EXCEPT !.mode = mode]
<1>2. /\ a \in Auths /\ a.st = auth.st /\ a.act = auth.act
      /\ d \in Auths /\ d.st = saved.st /\ d.act = saved.act /\ d.mode = saved.mode
      /\ saved.auto = auth.auto => d.auto = a.auto
  BY <1>1 DEF Auths
<1>3. /\ UNCHANGED joins
      /\ \/ SwitchEnds(a, d, mode) /\ UNCHANGED halfDone
         \/ /\ auth.mode # "active" /\ auth' = ax /\ saved' = dx
            /\ UNCHANGED <<revoking, halfDone>>
         \/ /\ auth' = a /\ saved' \in {saved, d} /\ halfDone' = TRUE /\ UNCHANGED revoking
  BY DEF SetMode
<1> HIDE DEF a, d
<1>4. /\ ax \in Auths /\ ax.st = auth.st /\ ax.act = auth.act /\ ax.auto = a.auto
      /\ dx \in Auths /\ dx.st = saved.st /\ dx.act = saved.act /\ dx.auto = d.auto
      /\ dx.mode = mode
  BY <1>2 DEF Auths
<1> HIDE DEF ax, dx
<1>5. CASE SwitchEnds(a, d, mode) /\ UNCHANGED halfDone
  BY <1>2, <1>3, <1>5, SwitchStep
<1>6. CASE /\ auth.mode # "active" /\ auth' = ax /\ saved' = dx
           /\ UNCHANGED <<revoking, halfDone>>
  BY <1>2, <1>3, <1>4, <1>6, PolicyStep
<1>7. CASE auth' = a /\ saved' \in {saved, d} /\ halfDone' = TRUE /\ UNCHANGED revoking
  <2>1. PICK y \in Auths : y = saved' /\ y.st = saved.st /\ y.act = saved.act /\ y.mode = saved.mode
    BY <1>1, <1>2, <1>7
  <2> QED
    BY <1>2, <1>3, <1>7, <2>1, PolicyStep
<1> QED
  BY <1>3, <1>5, <1>6, <1>7

LEMMA SetActiveStep ==
    ASSUME AuthorityInv, SetActive PROVE AuthorityStepped
<1>1. PICK recovering \in BOOLEAN, consent \in BOOLEAN :
         /\ recovering = FALSE /\ consent = TRUE /\ Grants(saved, 1, recovering, consent)
  BY DEF SetActive
<1>2. UNCHANGED halfDone /\ auth.st[1].susp # auth.st[1].champ /\ 1 \in Skills
  BY SkillOrder DEF SetActive, MayJoin
<1> QED
  BY <1>1, <1>2, GrantsStep

\* What Uncovered changes.
LEMMA UncoveredFacts ==
    ASSUME NEW q \in Auths, NEW k \in Skills, k # 0, q = Removed(auth, k), auth.act[k] \in Marks
    PROVE  LET r == Uncovered(k)
           IN  /\ r \in Auths /\ r.act = q.act /\ r.mode = q.mode /\ r.auto = q.auto
               /\ r.st[k].susp = auth.act[k] /\ \A j \in Skills \ {k} : r.st[j] = q.st[j]
               /\ \A j \in Skills :
                     /\ r.st[j].active = q.st[j].active /\ r.st[j].champ = q.st[j].champ
                     /\ r.st[j].deps = q.st[j].deps /\ r.st[j].joined = q.st[j].joined
                     /\ r.st[j].proof = q.st[j].proof
<1> DEFINE row == [q.st[k] EXCEPT !.susp = auth.act[k], !.why = "coverage"]
           b == [q EXCEPT !.st[k] = row]
<1>1. q.st[k] \in Rows
  BY DEF Auths
<1>2. Uncovered(k) = [q EXCEPT !.st[k].susp = auth.act[k], !.st[k].why = "coverage"]
  BY DEF Uncovered
<1>3. Uncovered(k) = b
  BY <1>1, <1>2 DEF Auths, Rows
<1>4. /\ row \in Rows /\ row.susp = auth.act[k] /\ row.active = q.st[k].active
      /\ row.champ = q.st[k].champ /\ row.deps = q.st[k].deps /\ row.joined = q.st[k].joined
      /\ row.proof = q.st[k].proof
  BY <1>1 DEF Rows, Reasons
<1> HIDE DEF row
<1>5. /\ b \in Auths /\ b.st[k] = row /\ \A j \in Skills \ {k} : b.st[j] = q.st[j]
      /\ b.act = q.act /\ b.mode = q.mode /\ b.auto = q.auto
  BY <1>4, RowFacts
<1> HIDE DEF b
<1> QED
  BY <1>3, <1>4, <1>5

LEMMA SetCoverageStep ==
    ASSUME AuthorityInv, SetCoverage PROVE AuthorityStepped
<1>1. /\ auth \in Auths /\ saved \in Auths /\ revoking \in SUBSET Skills
      /\ joins \in 0..MaxJoins /\ \A j \in Skills : auth.st[j].joined <= joins
      /\ Sound(auth) /\ Follows(saved, auth, revoking)
  BY DEF AuthorityInv
<1>2. PICK k \in Active(auth) \cup {0}, stricter \in BOOLEAN :
         LET a == Covered(Uncovered(k), stricter)
         IN  \/ /\ auth' = a
                /\ saved' = Stored(Retried(saved), a, {j \in Skills : a.st[j] # auth.st[j]})
             \/ UNCHANGED auth /\ saved' = Retried(saved)
  BY Zenon DEF SetCoverage
<1>3. revoking' = {} /\ UNCHANGED <<joins, halfDone>>
  BY Zenon DEF SetCoverage
<1> DEFINE r == Uncovered(k)
           st == [j \in Skills |-> Closed(r.st[j], stricter)]
           mode == IF r.mode = "active" /\ Active(r) = {} THEN "shadow" ELSE r.mode
           a == [r EXCEPT !.st = st, !.mode = mode]
           changed == {j \in Skills : a.st[j] # auth.st[j]}
           e == Stored(Retried(saved), a, changed)
<1>5. (auth' = a /\ saved' = e) \/ (UNCHANGED auth /\ saved' = Retried(saved))
  <2>1. a = Covered(r, stricter)
    BY DEF Covered
  <2> HIDE DEF a
  <2> QED
    BY <1>2, <2>1
<1>4. /\ r \in Auths /\ Sound(r) /\ r.auto = auth.auto /\ r.mode = auth.mode
      /\ \A j \in Skills : /\ r.act[j] \in {0, auth.act[j]} /\ r.st[j].joined = auth.st[j].joined
                           /\ r.st[j].proof = auth.st[j].proof
      /\ k = 0 => r = auth
      /\ k # 0 => /\ r.act = Removed(auth, k).act
                  /\ \A j \in Skills : j < k => r.st[j].deps = auth.st[j].deps
  <2>1. CASE k = 0
    BY <1>1, <2>1 DEF Uncovered
  <2>2. CASE k # 0
    <3> DEFINE q == Removed(auth, k)
    <3>1. k \in Skills /\ k \in Nat /\ auth.act[k] \in Marks /\ auth.act[k] # 0 /\ auth.act[k] <= auth.st[k].champ
      BY <1>1, <2>2, SkillOrder DEF Active, Auths, Sound
    <3>2. /\ q \in Auths /\ q.mode = auth.mode /\ q.auto = auth.auto
          /\ \A j \in Skills :
                /\ q.act[j] = IF j >= k THEN 0 ELSE auth.act[j]
                /\ ~(j >= k) \/ auth.act[j] = 0 => q.st[j] = auth.st[j]
                /\ q.st[j].champ = auth.st[j].champ /\ q.st[j].joined = auth.st[j].joined
                /\ q.st[j].susp = auth.st[j].susp /\ q.st[j].proof = auth.st[j].proof
      BY <1>1, <3>1, RemovedFacts
    <3>3. Sound(q)
      BY <1>1, <3>1, SoundRemoved
    <3>4. q = Removed(auth, k)
      OBVIOUS
    <3> HIDE DEF q
    <3>5. /\ r \in Auths /\ r.act = q.act /\ r.mode = q.mode /\ r.auto = q.auto
          /\ r.st[k].susp = auth.act[k] /\ \A j \in Skills \ {k} : r.st[j] = q.st[j]
          /\ \A j \in Skills :
                /\ r.st[j].active = q.st[j].active /\ r.st[j].champ = q.st[j].champ
                /\ r.st[j].deps = q.st[j].deps /\ r.st[j].joined = q.st[j].joined
                /\ r.st[j].proof = q.st[j].proof
      BY <2>2, <3>1, <3>2, <3>4, UncoveredFacts
    <3> HIDE DEF r
    <3>6. Sound(r)
      <4>1. \A j \in Skills : Upstream(r, j) = Upstream(q, j)
        BY <3>5, UpstreamSame
      <4>2. ASSUME NEW j \in Skills
            PROVE  /\ r.st[j].champ >= 1 /\ r.act[j] <= r.st[j].champ /\ r.st[j].susp <= r.st[j].champ
                   /\ r.act[j] # 0 => /\ r.st[j].active = r.act[j] /\ r.st[j].deps = Upstream(r, j)
                                      /\ r.st[j].susp # r.act[j]
        <5>1. CASE j = k
          <6>1. k >= k /\ r.act[k] = 0
            BY <3>1, <3>2, <3>5
          <6> QED
            BY <3>1, <3>2, <3>3, <3>5, <5>1, <6>1 DEF Sound
        <5>2. CASE j # k
          BY <3>3, <3>5, <4>1, <5>2 DEF Sound
        <5> QED
          BY <5>1, <5>2
      <4> QED
        BY <4>2 DEF Sound
    <3>7. r.act = Removed(auth, k).act
      BY <3>5 DEF q
    <3>8. \A j \in Skills : j < k => r.st[j].deps = auth.st[j].deps
      BY <3>1, <3>2, <3>5, SkillOrder
    <3>9. \A j \in Skills : /\ r.act[j] \in {0, auth.act[j]} /\ r.st[j].joined = auth.st[j].joined
                           /\ r.st[j].proof = auth.st[j].proof
      BY <3>2, <3>5
    <3> QED
      BY <2>2, <3>2, <3>5, <3>6, <3>7, <3>8, <3>9
  <2> QED
    BY <2>1, <2>2
<1> HIDE DEF r
<1>6. /\ st \in [Skills -> Rows]
      /\ \A j \in Skills : /\ SameRow(st[j], r.st[j]) /\ st[j].joined = r.st[j].joined
                           /\ st[j].champ = r.st[j].champ
  <2> SUFFICES ASSUME NEW j \in Skills
               PROVE  /\ st[j] \in Rows /\ SameRow(st[j], r.st[j]) /\ st[j].joined = r.st[j].joined
                      /\ st[j].champ = r.st[j].champ
    OBVIOUS
  <2>1. r.st[j] \in Rows /\ r.st[j].trial \in Trials
    BY <1>4 DEF Auths, Rows
  <2> DEFINE trial == [r.st[j].trial EXCEPT !.status = "policy_changed"]
  <2>2. trial \in Trials
    BY <2>1 DEF Trials
  <2>3. [r.st[j] EXCEPT !.trial.status = "policy_changed"] = [r.st[j] EXCEPT !.trial = trial]
    BY <2>1 DEF Rows
  <2> HIDE DEF trial
  <2>4. st[j] \in {[r.st[j] EXCEPT !.trial = trial], r.st[j]}
    BY <2>3 DEF Closed
  <2> HIDE DEF st
  <2>5. \A row \in {[r.st[j] EXCEPT !.trial = trial], r.st[j]} :
           row \in Rows /\ SameRow(row, r.st[j]) /\ row.joined = r.st[j].joined /\ row.champ = r.st[j].champ
    BY <2>1, <2>2 DEF Rows, SameRow
  <2> QED
    BY <2>4, <2>5
<1>7. mode \in {"off", "shadow", "active"} /\ (Active(r) # {} => mode = r.mode)
  BY <1>4 DEF Auths
<1> HIDE DEF st, mode
<1>8. a \in Auths /\ a.st = st /\ a.mode = mode /\ a.act = r.act /\ a.auto = r.auto
  BY <1>4, <1>6, <1>7 DEF Auths
<1> HIDE DEF a
<1>9. Sound(a)
  <2>1. \A j \in Skills : a.st[j].champ >= r.st[j].champ
    BY <1>4, <1>6, <1>8 DEF Auths, Rows, Marks
  <2> QED
    BY <1>4, <1>6, <1>8, <2>1, SoundCopy DEF SameRow
<1>10. /\ Retried(saved) \in Auths /\ Follows(Retried(saved), auth, {})
       /\ ~halfDone => Clean(Retried(saved), auth, {})
  BY RetriedClean
<1>12. Follows(e, a, {})
  <2>1. \A j \in Skills \ changed : a.st[j] = auth.st[j] /\ a.act[j] \in {0, auth.act[j]}
    BY <1>4, <1>8
  <2> HIDE DEF changed
  <2> QED
    BY <1>1, <1>8, <1>9, <1>10, <2>1, FollowsStored
<1>13. e \in Auths /\ e.auto = Retried(saved).auto /\ e.mode = a.mode
  BY <1>8, <1>10, StoredFacts
<1> HIDE DEF changed, e
<1>14. Rooted(auth) => Rooted(a)
  <2> SUFFICES ASSUME Rooted(auth) PROVE Rooted(a)
    OBVIOUS
  <2>1. Active(a) = Active(r) /\ Active(r) \subseteq Active(auth)
    BY <1>4, <1>8 DEF Active
  <2>2. Active(a) # {} => a.mode = "active"
    BY <1>4, <1>7, <1>8, <2>1 DEF Rooted
  <2>3. \A j \in Skills : a.st[j].proof = auth.st[j].proof /\ a.st[j].deps = r.st[j].deps
    BY <1>4, <1>6, <1>8 DEF SameRow
  <2>4. CASE k = 0
    <3>1. Active(auth) # {} => a.mode = auth.mode
      BY <1>4, <1>7, <1>8, <2>4
    <3> QED
      BY <1>1, <1>4, <1>8, <2>3, <2>4, <3>1, RootedCopy
  <2>5. CASE k # 0
    <3>1. k \in Skills
      BY <2>5 DEF Active
    <3>2. \A j \in Skills : a.st[j].proof = auth.st[j].proof /\ (j < k => a.st[j].deps = auth.st[j].deps)
      BY <1>4, <2>3, <2>5
    <3>3. a.act = Removed(auth, k).act /\ a.auto = auth.auto
      BY <1>4, <1>8, <2>5
    <3> QED
      BY <1>1, <1>8, <2>2, <3>1, <3>2, <3>3, RootedRemoved
  <2> QED
    BY <2>4, <2>5
<1>15. ~halfDone => Clean(e, a, {})
  BY <1>4, <1>8, <1>10, <1>13, <1>14 DEF Clean, Rooted
<1>16. AuthorityInv'
  <2>1. \A j \in Skills : a.st[j].joined <= joins
    BY <1>1, <1>4, <1>6, <1>8
  <2>2. CASE auth' = a /\ saved' = e
    BY <1>1, <1>3, <1>8, <1>9, <1>12, <1>13, <1>15, <2>1, <2>2 DEF AuthorityInv
  <2>3. CASE UNCHANGED auth /\ saved' = Retried(saved)
    BY <1>1, <1>3, <1>10, <2>3 DEF AuthorityInv
  <2> QED
    BY <1>5, <2>2, <2>3
<1>17. RecoveryStep
  <2>1. \A j \in Skills : auth'.act[j] \in {0, auth.act[j]}
    BY <1>4, <1>5, <1>8
  <2> QED
    BY <2>1, NoRevival
<1> QED
  BY <1>16, <1>17 DEF AuthorityStepped

\* What a restart keeps: the saved skills up to the first that no longer fits.
LEMMA RestoredFacts ==
    ASSUME NEW d \in Auths, NEW unusable
    PROVE  LET m == RestoredMap(d, unusable)
           IN  /\ m \in [Skills -> Marks]
               /\ \A k \in Skills : m[k] \in {0, d.act[k]}
               /\ \A k \in Skills : m[k] # 0 =>
                     /\ d.mode = "active" /\ (d.auto \/ m[1] # 0)
                     /\ d.act[k] = d.st[k].champ /\ d.act[k] = d.st[k].active
                     /\ d.st[k].susp # d.act[k]
                     /\ Independent(d, d.act[k]) => ValidProof(d, k, Upstream(d, k))
                     /\ \A j \in Skills : j < k => m[j] = d.act[j]
<1> DEFINE fits(k) == /\ k \notin unusable
                      /\ d.act[k] = d.st[k].champ /\ d.act[k] = d.st[k].active
                      /\ d.st[k].susp # d.act[k]
                      /\ Independent(d, d.act[k]) => ValidProof(d, k, Upstream(d, k))
                      /\ \A j \in Skills : d.st[k].deps[j][1] # 0
                           => d.act[j] = d.st[k].deps[j][1]
           kept(k) == d.act[k] # 0 /\ \A j \in 1..k : d.act[j] # 0 => fits(j)
           stays(k) == kept(k) /\ d.mode = "active" /\ (d.auto \/ kept(1))
           m == RestoredMap(d, unusable)
<1>1. m = [k \in Skills |-> IF stays(k) THEN d.act[k] ELSE 0]
  BY DEF RestoredMap
<1>2. \A k \in Skills : d.act[k] \in Marks
  BY DEF Auths
<1>3. \A k \in Skills : m[k] = IF stays(k) THEN d.act[k] ELSE 0
  BY <1>1
<1>4. \A k \in Skills : kept(k) => d.act[k] # 0 /\ fits(k)
  BY SkillOrder
<1>5. \A k \in Skills, j \in Skills : kept(k) /\ j < k /\ d.act[j] # 0 => kept(j)
  <2> SUFFICES ASSUME NEW k \in Skills, NEW j \in Skills, kept(k), j < k, d.act[j] # 0,
                      NEW i \in 1..j, d.act[i] # 0
               PROVE  fits(i)
    OBVIOUS
  <2>1. i \in 1..k
    BY SkillOrder
  <2> HIDE DEF fits
  <2> QED
    BY <2>1
<1>6. m \in [Skills -> Marks]
  BY <1>1, <1>2, NoDepsType
<1> HIDE DEF kept, m
<1>7. ASSUME NEW k \in Skills, m[k] # 0 PROVE stays(k) /\ fits(k)
  BY <1>3, <1>4, <1>7
<1>8. ASSUME NEW k \in Skills, m[k] # 0, NEW j \in Skills, j < k PROVE m[j] = d.act[j]
  <2>1. stays(k)
    BY <1>7, <1>8
  <2>2. CASE d.act[j] = 0
    BY <1>3, <2>2
  <2>3. CASE d.act[j] # 0
    BY <1>3, <1>5, <1>8, <2>1, <2>3
  <2> QED
    BY <2>2, <2>3
<1>9. ASSUME NEW k \in Skills, m[k] # 0 PROVE d.auto \/ m[1] # 0
  <2>1. stays(k)
    BY <1>7, <1>9
  <2>2. kept(1) => stays(1) /\ d.act[1] # 0
    BY <1>4, <2>1, SkillOrder
  <2> QED
    BY <1>3, <2>1, <2>2, SkillOrder
<1>10. \A k \in Skills : m[k] \in {0, d.act[k]}
  BY <1>3
<1> HIDE DEF stays
<1>11. ASSUME NEW k \in Skills, m[k] # 0
       PROVE  /\ d.mode = "active" /\ (d.auto \/ m[1] # 0)
              /\ d.act[k] = d.st[k].champ /\ d.act[k] = d.st[k].active
              /\ d.st[k].susp # d.act[k]
              /\ Independent(d, d.act[k]) => ValidProof(d, k, Upstream(d, k))
              /\ \A j \in Skills : j < k => m[j] = d.act[j]
  <2>1. d.mode = "active"
    BY <1>7, <1>11 DEF stays
  <2> QED
    BY <1>7, <1>8, <1>9, <1>11, <2>1
<1> QED
  BY <1>6, <1>10, <1>11 DEF m

\* A restart takes over what the database says, as far as it fits.
LEMMA AuthorityRestartStep == AuthorityInv /\ AuthorityRestarts => AuthorityStepped
<1> SUFFICES ASSUME AuthorityInv, AuthorityRestarts PROVE AuthorityStepped
  OBVIOUS
<1>1. /\ auth \in Auths /\ saved \in Auths /\ revoking \in SUBSET Skills
      /\ joins \in 0..MaxJoins /\ \A k \in Skills : auth.st[k].joined <= joins
      /\ Sound(auth) /\ Follows(saved, auth, revoking)
  BY DEF AuthorityInv
<1>2. PICK unusable \in {{}} \cup {{k} : k \in Skills} :
         auth' = [saved EXCEPT !.act = RestoredMap(saved, unusable),
                    !.st = [k \in Skills |->
                            IF saved.mode = "active" /\ RestoredMap(saved, unusable)[k] # saved.st[k].active
                            THEN [saved.st[k] EXCEPT !.active = 0, !.deps = NoDeps]
                            ELSE saved.st[k]]]
  BY Zenon DEF AuthorityRestarts
<1> DEFINE map == RestoredMap(saved, unusable)
           st == [k \in Skills |-> IF saved.mode = "active" /\ map[k] # saved.st[k].active
                                   THEN [saved.st[k] EXCEPT !.active = 0, !.deps = NoDeps]
                                   ELSE saved.st[k]]
           a == [saved EXCEPT !.act = map, !.st = st]
           act == IF saved.mode = "active" THEN map ELSE saved.act
           e == [a EXCEPT !.act = act]
<1>3. /\ auth' = a /\ saved' = [auth' EXCEPT !.act = IF saved.mode = "active" THEN @ ELSE saved.act]
      /\ revoking' = {} /\ joins' = joins
  BY <1>2 DEF AuthorityRestarts
<1>4. /\ map \in [Skills -> Marks]
      /\ \A k \in Skills : map[k] \in {0, saved.act[k]}
      /\ \A k \in Skills : map[k] # 0 =>
            /\ saved.mode = "active" /\ (saved.auto \/ map[1] # 0)
            /\ saved.act[k] = saved.st[k].champ /\ saved.act[k] = saved.st[k].active
            /\ saved.st[k].susp # saved.act[k]
            /\ Independent(saved, saved.act[k]) => ValidProof(saved, k, Upstream(saved, k))
            /\ \A j \in Skills : j < k => map[j] = saved.act[j]
  BY <1>1, RestoredFacts
<1> HIDE DEF map
<1>5. ASSUME NEW k \in Skills
      PROVE  /\ st[k] \in Rows /\ st[k].champ = saved.st[k].champ /\ st[k].joined = saved.st[k].joined
             /\ st[k].susp = saved.st[k].susp /\ st[k].proof = saved.st[k].proof
             /\ map[k] # 0 => st[k] = saved.st[k]
  <2>1. saved.st[k] \in Rows
    BY <1>1 DEF Auths
  <2>2. map[k] # 0 => map[k] = saved.st[k].active
    BY <1>4
  <2> QED
    BY <2>1, <2>2, NoDepsType DEF Rows
<1>6. st \in [Skills -> Rows]
  BY <1>5
<1> HIDE DEF st
<1>7. /\ a \in Auths /\ a.act = map /\ a.st = st /\ a.mode = saved.mode /\ a.auto = saved.auto
  BY <1>1, <1>4, <1>6 DEF Auths
<1>8. /\ e \in Auths /\ e.act = act /\ e.st = st /\ e.mode = saved.mode /\ e.auto = saved.auto
  BY <1>1, <1>4, <1>6 DEF Auths
<1>9. saved' = e
  BY <1>3, <1>7
<1> HIDE DEF a, e
<1>10. ASSUME NEW k \in Skills, map[k] # 0
       PROVE  Upstream(a, k) = Upstream(saved, k) /\ st[k].deps = Upstream(saved, k)
  <2>1. \A j \in Skills : j < k => a.act[j] = saved.act[j] /\ a.st[j].joined = saved.st[j].joined
    BY <1>4, <1>5, <1>7, <1>10
  <2>2. Upstream(a, k) = Upstream(saved, k)
    BY <2>1, UpstreamSame
  <2>3. saved.mode = "active" /\ saved.act[k] # 0 /\ saved.st[k].active = saved.act[k]
    BY <1>4, <1>10
  <2> QED
    BY <1>1, <1>5, <1>10, <2>2, <2>3 DEF Follows
<1>11. Sound(a)
  <2> SUFFICES ASSUME NEW k \in Skills
               PROVE  /\ a.st[k].champ >= 1 /\ a.act[k] <= a.st[k].champ /\ a.st[k].susp <= a.st[k].champ
                      /\ a.act[k] # 0 => /\ a.st[k].active = a.act[k] /\ a.st[k].deps = Upstream(a, k)
                                         /\ a.st[k].susp # a.act[k]
    BY DEF Sound
  <2>1. saved.st[k].champ >= 1 /\ saved.st[k].susp <= saved.st[k].champ /\ saved.st[k].champ \in Nat
    BY <1>1 DEF Follows, Auths, Rows, Marks
  <2>2. CASE map[k] = 0
    BY <1>5, <1>7, <2>1, <2>2
  <2>3. CASE map[k] # 0
    <3>1. map[k] = saved.act[k]
      BY <1>4, <2>3
    <3> QED
      BY <1>4, <1>5, <1>7, <1>10, <2>1, <2>3, <3>1
  <2> QED
    BY <2>2, <2>3
<1>12. Follows(e, a, {})
  <2>1. \A k \in Skills : SameRow(e.st[k], a.st[k]) /\ e.st[k].joined = a.st[k].joined
    BY <1>7, <1>8 DEF SameRow
  <2>2. \A k \in Skills : e.st[k].champ >= 1 /\ e.st[k].susp <= e.st[k].champ
    BY <1>7, <1>8, <1>11 DEF Sound
  <2>3. \A k \in Skills : a.act[k] # 0 /\ a.st[k].champ = a.act[k] => e.st[k].champ = a.act[k]
    BY <1>7, <1>8
  <2>4. CASE saved.mode = "active"
    BY <1>7, <1>8, <1>11, <2>1, <2>2, <2>3, <2>4, FollowsWhole
  <2>5. CASE saved.mode # "active"
    BY <1>8, <2>1, <2>2, <2>3, <2>5 DEF Follows
  <2> QED
    BY <2>4, <2>5
<1>13. Clean(e, a, {})
  <2>1. \A k \in Active(a) : k \in Skills /\ map[k] # 0 /\ map[k] = saved.act[k]
    BY <1>4, <1>7 DEF Active
  <2>2. Active(a) # {} => saved.mode = "active" /\ (saved.auto \/ map[1] # 0)
    BY <1>4, <2>1
  <2>3. ASSUME NEW k \in Active(a), Independent(a, a.act[k])
        PROVE  a.st[k].proof = <<a.act[k], a.st[k].deps>>
    <3>1. Independent(saved, saved.act[k])
      BY <1>7, <2>1, <2>3 DEF Independent
    <3>2. ValidProof(saved, k, Upstream(saved, k))
      BY <1>4, <2>1, <3>1
    <3>3. saved.st[k].proof = <<saved.act[k], Upstream(saved, k)>>
      BY <3>2 DEF ValidProof
    <3> QED
      BY <1>5, <1>7, <1>10, <2>1, <3>3
  <2>4. Rooted(a)
    BY <1>7, <2>2, <2>3 DEF Rooted
  <2> QED
    BY <1>7, <1>8, <2>2, <2>4 DEF Clean
<1>14. \A k \in Skills : a.st[k].joined <= joins
  BY <1>1, <1>5, <1>7 DEF Follows
<1>15. AuthorityInv'
  BY <1>1, <1>3, <1>7, <1>8, <1>9, <1>11, <1>12, <1>13, <1>14 DEF AuthorityInv
<1>16. RecoveryStep
  BY <1>3, <1>4, <1>7 DEF RecoveryStep
<1> QED
  BY <1>15, <1>16 DEF AuthorityStepped

\* Every step of the authority keeps the invariant.
LEMMA AuthorityStep == AuthorityInv /\ [AuthorityNext]_authorityVars => AuthorityStepped
<1> SUFFICES ASSUME AuthorityInv, [AuthorityNext]_authorityVars PROVE AuthorityStepped
  OBVIOUS
<1>1. CASE UNCHANGED authorityVars
  <2>1. \A k \in Skills : auth'.act[k] \in {0, auth.act[k]}
    BY <1>1 DEF authorityVars
  <2>2. AuthorityInv'
    BY <1>1 DEF AuthorityInv, authorityVars
  <2> QED
    BY <2>1, <2>2, NoRevival DEF AuthorityStepped
<1>2. ASSUME NEW k \in Skills, GovernSuspends(k) PROVE AuthorityStepped
  BY <1>2, GovernSuspendsStep
<1>3. ASSUME NEW k \in Skills, GovernActivates(k) PROVE AuthorityStepped
  BY <1>3, GovernActivatesStep
<1>4. ASSUME NEW k \in Skills, TrialStarts(k) PROVE AuthorityStepped
  BY <1>4, TrialStartsStep
<1>5. ASSUME NEW k \in Skills, TrialEnds(k) PROVE AuthorityStepped
  BY <1>5, TrialEndsStep
<1>6. ASSUME NEW k \in Skills, CrownChanges(k) PROVE AuthorityStepped
  BY <1>6, CrownChangesStep
<1>7. ASSUME NEW enabled \in BOOLEAN, SetParticipation(enabled) PROVE AuthorityStepped
  BY <1>7, SetParticipationStep
<1>8. ASSUME NEW mode \in {"shadow", "off"}, SetMode(mode, FALSE) PROVE AuthorityStepped
  BY <1>8, SetModeStep
<1>9. CASE SetMode("shadow", TRUE)
  BY <1>9, SetModeStep
<1>10. CASE AuthorityNext
  BY <1>2, <1>3, <1>4, <1>5, <1>6, <1>7, <1>8, <1>9, <1>10, GovernRestsStep, SetActiveStep,
     SetCoverageStep, AuthorityRestartStep DEF AuthorityNext
<1> QED
  BY <1>1, <1>10

\* What a restart keeps when everything fits.
LEMMA RestoresAll ==
    ASSUME NEW d \in Auths, d.mode = "active",
           d.auto \/ d.act[1] # 0 \/ Active(d) = {},
           \A k \in Active(d) :
               /\ d.act[k] = d.st[k].champ /\ d.act[k] = d.st[k].active /\ d.st[k].susp # d.act[k]
               /\ d.st[k].deps = Upstream(d, k)
               /\ Independent(d, d.act[k]) => d.st[k].proof = <<d.act[k], d.st[k].deps>>
    PROVE  RestoredMap(d, {}) = d.act
<1> DEFINE fits(k) == /\ k \notin {}
                      /\ d.act[k] = d.st[k].champ /\ d.act[k] = d.st[k].active
                      /\ d.st[k].susp # d.act[k]
                      /\ Independent(d, d.act[k]) => ValidProof(d, k, Upstream(d, k))
                      /\ \A j \in Skills : d.st[k].deps[j][1] # 0
                           => d.act[j] = d.st[k].deps[j][1]
           kept(k) == d.act[k] # 0 /\ \A j \in 1..k : d.act[j] # 0 => fits(j)
<1>1. RestoredMap(d, {}) =
         [k \in Skills |-> IF kept(k) /\ d.mode = "active" /\ (d.auto \/ kept(1)) THEN d.act[k] ELSE 0]
  BY DEF RestoredMap
<1>2. ASSUME NEW k \in Skills, d.act[k] # 0 PROVE fits(k)
  <2>1. k \in Active(d) /\ d.st[k].deps = Upstream(d, k)
    BY <1>2 DEF Active
  <2>2. \A j \in Skills : Upstream(d, k)[j][1] # 0 => d.act[j] = Upstream(d, k)[j][1]
    BY DEF Upstream
  <2>3. Independent(d, d.act[k]) => ValidProof(d, k, Upstream(d, k))
    BY <2>1 DEF ValidProof
  <2> QED
    BY <2>1, <2>2, <2>3
<1>3. \A k \in Skills : kept(k) <=> d.act[k] # 0
  <2> HIDE DEF fits
  <2> QED
    BY <1>2, SkillOrder
<1> HIDE DEF kept
<1>4. \A k \in Skills : d.act[k] # 0 => d.auto \/ kept(1)
  BY <1>3, SkillOrder DEF Active
<1>5. RestoredMap(d, {}) = [k \in Skills |-> d.act[k]]
  BY <1>1, <1>3, <1>4
<1> QED
  BY <1>5 DEF Auths

LEMMA AuthorityBegins == AuthorityInit => AuthorityInv
<1> SUFFICES ASSUME AuthorityInit PROVE AuthorityInv
  OBVIOUS
<1> DEFINE row == [NewSkill EXCEPT !.champ = 1]
           st == [k \in Skills |-> row]
           act == [k \in Skills |-> 0]
<1>1. /\ auth = [st |-> st, act |-> act, mode |-> "shadow", auto |-> FALSE, consent |-> FALSE]
      /\ saved = auth /\ revoking = {} /\ joins = 0
  BY DEF AuthorityInit
<1>2. 1 \in Marks /\ 0 \in Marks /\ 0 \in 0..MaxJoins /\ NoDeps \in Compositions
  BY NoDepsType, AuthorityAssumption DEF Marks
<1>3. row \in Rows /\ row.champ = 1 /\ row.susp = 0 /\ row.joined = 0
  BY <1>2 DEF NewSkill, NoTrial, Rows, Trials, Reasons
<1> HIDE DEF row
<1>4. /\ st \in [Skills -> Rows] /\ act \in [Skills -> Marks]
      /\ \A k \in Skills : st[k] = row /\ act[k] = 0
  BY <1>2, <1>3
<1> HIDE DEF st, act
<1>5. auth \in Auths /\ auth.act = act /\ auth.st = st /\ auth.mode = "shadow"
  BY <1>1, <1>4 DEF Auths
<1>6. Sound(auth)
  BY <1>3, <1>4, <1>5 DEF Sound
<1>7. Follows(saved, auth, revoking)
  BY <1>1, <1>3, <1>4, <1>5 DEF Follows, SameRow
<1>8. Clean(saved, auth, revoking)
  BY <1>1, <1>4, <1>5 DEF Clean, Rooted, Active
<1> QED
  BY <1>1, <1>2, <1>3, <1>4, <1>5, <1>6, <1>7, <1>8 DEF AuthorityInv

LEMMA AuthorityImplied ==
    AuthorityInv => AuthorityTypeOK /\ CompositionProven /\ EntryIsRoot /\ AuthorityDurable
<1> SUFFICES ASSUME AuthorityInv
             PROVE  AuthorityTypeOK /\ CompositionProven /\ EntryIsRoot /\ AuthorityDurable
  OBVIOUS
<1>1. auth \in Auths /\ saved \in Auths /\ Sound(auth) /\ Follows(saved, auth, revoking)
  BY DEF AuthorityInv
<1>2. AuthorityTypeOK
  BY <1>1 DEF AuthorityTypeOK, Auths, Rows, Marks
<1>3. CompositionProven
  BY <1>1 DEF CompositionProven, Sound, Active
<1>4. EntryIsRoot
  BY DEF AuthorityInv, Clean, Rooted, EntryIsRoot
<1>5. ASSUME revoking = {}, ~halfDone
      PROVE  /\ \A k \in Skills : RestoredMap(saved, {})[k] \in {0, auth.act[k]}
             /\ (\A k \in Active(auth) : auth.st[k].champ = auth.act[k])
                   => RestoredMap(saved, {}) = auth.act
             /\ \A k \in Skills : saved.st[k].susp = auth.st[k].susp
  <2>1. Clean(saved, auth, {}) /\ Follows(saved, auth, {})
    BY <1>1, <1>5 DEF AuthorityInv
  <2>2. /\ \A k \in Skills : SameRow(saved.st[k], auth.st[k]) /\ saved.st[k].joined = auth.st[k].joined
        /\ saved.mode = "active" => saved.act = auth.act
    BY <2>1 DEF Follows
  <2>3. /\ RestoredMap(saved, {}) \in [Skills -> Marks]
        /\ \A k \in Skills : /\ RestoredMap(saved, {})[k] \in {0, saved.act[k]}
                             /\ RestoredMap(saved, {})[k] # 0 => saved.mode = "active"
    BY <1>1, RestoredFacts
  <2>4. \A k \in Skills : RestoredMap(saved, {})[k] \in {0, auth.act[k]}
    BY <2>2, <2>3
  <2>5. ASSUME \A k \in Active(auth) : auth.st[k].champ = auth.act[k]
        PROVE  RestoredMap(saved, {}) = auth.act
    <3>1. CASE saved.mode # "active"
      <4>1. \A k \in Skills : RestoredMap(saved, {})[k] = auth.act[k]
        BY <2>1, <2>3, <3>1 DEF Clean, Active
      <4> QED
        BY <1>1, <2>3, <4>1 DEF Auths
    <3>2. CASE saved.mode = "active"
      <4>1. saved.act = auth.act /\ Active(saved) = Active(auth) /\ saved.auto = auth.auto
        BY <2>1, <2>2, <3>2 DEF Active, Clean
      <4>2. saved.auto \/ saved.act[1] # 0 \/ Active(saved) = {}
        BY <2>1, <4>1 DEF Clean, Rooted
      <4>3. ASSUME NEW k \in Active(saved)
            PROVE  /\ saved.act[k] = saved.st[k].champ /\ saved.act[k] = saved.st[k].active
                   /\ saved.st[k].susp # saved.act[k] /\ saved.st[k].deps = Upstream(saved, k)
                   /\ Independent(saved, saved.act[k])
                        => saved.st[k].proof = <<saved.act[k], saved.st[k].deps>>
        <5>1. k \in Skills /\ auth.act[k] # 0 /\ auth.st[k].champ = auth.act[k]
          BY <2>5, <4>1 DEF Active
        <5>2. saved.st[k].champ = auth.act[k]
          BY <2>1, <5>1 DEF Follows
        <5>3. Upstream(saved, k) = Upstream(auth, k)
          BY <2>2, <4>1, <5>1, UpstreamSame
        <5>4. Independent(saved, saved.act[k]) => auth.st[k].proof = <<auth.act[k], auth.st[k].deps>>
          BY <2>1, <4>1 DEF Independent, Clean, Rooted
        <5> QED
          BY <1>1, <2>2, <4>1, <5>1, <5>2, <5>3, <5>4 DEF Sound, SameRow
      <4>4. RestoredMap(saved, {}) = saved.act
        BY <1>1, <3>2, <4>2, <4>3, RestoresAll
      <4> QED
        BY <4>1, <4>4
    <3> QED
      BY <3>1, <3>2
  <2> QED
    BY <2>2, <2>4, <2>5 DEF SameRow
<1>6. AuthorityDurable
  BY <1>5 DEF AuthorityDurable
<1> QED
  BY <1>2, <1>3, <1>4, <1>6

\* A skill acts only beside the skills it was proved with and under the entry, everything a restart
\* would restore is what acts now, and a suspended champion returns only through its own trial:
\* whatever writes fail and whenever the process restarts (learning.py 6224-6830, 7155-7406).
THEOREM AuthorityAlwaysProven == AuthoritySpec => AuthorityIsProven
<1>1. AuthorityInit => AuthorityInv
  BY AuthorityBegins
<1>2. AuthorityInv /\ [AuthorityNext]_authorityVars => AuthorityInv' /\ RecoveryStep
  BY AuthorityStep DEF AuthorityStepped
<1>3. AuthorityInv => AuthorityTypeOK /\ CompositionProven /\ EntryIsRoot /\ AuthorityDurable
  BY AuthorityImplied
<1>4. AuthoritySpec => [][RecoveryStep]_authorityVars
  BY <1>1, <1>2, PTL DEF AuthoritySpec
<1>5. AuthoritySpec => []AuthorityTypeOK /\ []EntryIsRoot /\ []CompositionProven /\ []AuthorityDurable
  BY <1>1, <1>2, <1>3, PTL DEF AuthoritySpec
<1>6. AuthoritySpec => RecoveryEarned
  BY <1>4 DEF RecoveryEarned, RecoveryStep
<1> QED
  BY <1>5, <1>6 DEF AuthorityIsProven

=============================================================================
