----------------------------- MODULE MCLearning -----------------------------
(***************************************************************************)
(* The learning engine's training and authority, the coach's studies, the  *)
(* continuity guard and the season clock, each checked on its own small    *)
(* instance: every behaviour belongs to one part and leaves the others in  *)
(* their initial state.                                                    *)
(***************************************************************************)
EXTENDS TrainingPublication, SkillAuthority, CoachStudies, IntegrityWindow, SeasonClock

VARIABLE part

learningVars == <<part, trainingVars, authorityVars, coachVars, vars, clockVars>>

LearningInit ==
    /\ part \in {"training", "authority", "coach", "window", "clock"}
    /\ TrainingInit /\ AuthorityInit /\ CoachInit /\ Init /\ ClockInit
    /\ part # "window" => incident = FALSE
    /\ context = CHOOSE c \in Contexts : TRUE        \* no context differs from another at first

LearningNext ==
    /\ UNCHANGED part
    /\ \/ /\ part = "training" /\ TrainingNext
          /\ UNCHANGED <<authorityVars, coachVars, vars, clockVars>>
       \/ /\ part = "authority" /\ AuthorityNext
          /\ UNCHANGED <<trainingVars, coachVars, vars, clockVars>>
       \/ /\ part = "coach" /\ CoachNext
          /\ UNCHANGED <<trainingVars, authorityVars, vars, clockVars>>
       \/ /\ part = "window" /\ Next
          /\ UNCHANGED <<trainingVars, authorityVars, coachVars, clockVars>>
       \/ /\ part = "clock" /\ ClockNext
          /\ UNCHANGED <<trainingVars, authorityVars, coachVars, vars>>

LearningSpec == LearningInit /\ [][LearningNext]_learningVars
=============================================================================
