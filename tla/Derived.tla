------------------------------- MODULE Derived -------------------------------
(* What is computed of the library: the semantic memory, analytics and revision *)
(* queue, the learning engine, and the collective insight.  They share the      *)
(* library and nothing else, so a behaviour is one of the four.                 *)
EXTENDS MemoryEngine, Collective

VARIABLE part       \* the component whose steps a behaviour takes

derivedVars == <<libraryVars, engineVars, analyticsVars, catalogueVars, analysed>>

DerivedInit ==
    /\ EngineInit /\ CollectiveInit
    /\ part \in {"memory", "analytics", "learning", "collective"}

DerivedNext ==
    /\ UNCHANGED part
    /\ \/ /\ part = "memory" /\ EngineNext
          /\ UNCHANGED <<analyticsVars, catalogueVars, analysed>>
       \/ /\ part = "analytics" /\ AnalyticsNext
          /\ UNCHANGED <<engineVars, catalogueVars, analysed>>
       \/ /\ part = "learning" /\ LearningNext
          /\ UNCHANGED <<engineVars, analysed>>
       \/ /\ part = "collective" /\ CollectiveNext
          /\ UNCHANGED engineVars

DerivedSpec == DerivedInit /\ [][DerivedNext]_<<derivedVars, part>>

-----------------------------------------------------------------------------
(* Properties, each where its part is run                                       *)

\* Every variable stays within the values the code can give it.
DerivedTypeOK == IF part = "memory" THEN EngineTypeOK ELSE CollectiveTypeOK

\* analytics_service.py, search_service.py: what is counted twice is the same.
CountsAgree == part = "analytics" => AnalyticsAgree /\ UnsolvedAgree

\* analytics_service.py:573-592: streaks are runs of consecutive days.
StreaksAreRuns == part = "analytics" => StreaksCorrect

\* revision_service.py:207-211: nothing due is missed but behind a full list.
NoneDueMissed == part = "analytics" => DueInOrder

\* learning/roadmap.py: what the planner builds passes the validator.
RoadmapsSound == part = "learning" => RoadmapSound

\* learning/recommend.py: as many recommendations as there are, the best first.
RecommendationsBest == part = "learning" => RecommendationsFull

\* learning/collective.py: no finding is left without evidence.
InsightGrounded == part = "collective" => EveryClaimGrounded

\* learning/collective.py, learning/roadmap.py: unpractised is not a struggle.
UntriedIsNoStruggle == part = "collective" => GapsAreNotStruggles
=============================================================================
