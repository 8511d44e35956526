------------------------------ MODULE MCMarket ------------------------------
(***************************************************************************)
(* The components that bring market data in and collect the evidence that  *)
(* the learning engine draws from it, each checked on its own small        *)
(* instance: every behaviour belongs to one part and leaves the others in  *)
(* their initial state, so the states of the parts add up and never        *)
(* multiply.                                                               *)
(***************************************************************************)
EXTENDS ProviderCalls, SolanaStream, EventOrder, RouteProbes, CurveMath, LearningCollection,
        CheckpointTurns

VARIABLE part

\* Reserves of a few units, where every rounding case of the quotes is met.
MCMarkets ==
    [vt : {2, 3, 7, 12}, vs : {3, 5, 8}, rt : {20}, rq : {1, 3}, known : {TRUE}]
        \cup [vt : {1, 12}, vs : {1, 8}, rt : {2}, rq : {0}, known : {FALSE}]

MCSchedules ==
    {s \in [lp : {0, 3}, protocol : {0, 1, 5}, creator : {0, 2}] :
        s.lp + s.protocol + s.creator <= BPS /\ (s.creator = 2 => s.lp = 3)}

MCBudgets == {1, 2, 7}

evidenceVars == <<collectionVars, turnVars>>
marketVars == <<part, quotaVars, streamVars, orderVars, probeVars, vars, evidenceVars>>

MarketInit ==
    /\ part \in {"calls", "stream", "order", "probes", "quotes", "collection", "turns"}
    /\ QuotaInit /\ StreamInit /\ OrderInit /\ ProbeInit /\ Init /\ CollectionInit /\ TurnsInit
    /\ part # "quotes" => /\ market = CHOOSE m \in Markets : TRUE
                          /\ schedule = CHOOSE s \in Schedules : TRUE

MarketNext ==
    /\ UNCHANGED part
    /\ \/ /\ part = "calls" /\ QuotaNext
          /\ UNCHANGED <<streamVars, orderVars, probeVars, vars, evidenceVars>>
       \/ /\ part = "stream" /\ StreamNext
          /\ UNCHANGED <<quotaVars, orderVars, probeVars, vars, evidenceVars>>
       \/ /\ part = "order" /\ OrderNext
          /\ UNCHANGED <<quotaVars, streamVars, probeVars, vars, evidenceVars>>
       \/ /\ part = "probes" /\ ProbeNext
          /\ UNCHANGED <<quotaVars, streamVars, orderVars, vars, evidenceVars>>
       \/ /\ part = "quotes" /\ Next
          /\ UNCHANGED <<quotaVars, streamVars, orderVars, probeVars, evidenceVars>>
       \/ /\ part = "collection" /\ CollectionNext
          /\ UNCHANGED <<quotaVars, streamVars, orderVars, probeVars, vars, turnVars>>
       \/ /\ part = "turns" /\ TurnsNext
          /\ UNCHANGED <<quotaVars, streamVars, orderVars, probeVars, vars, collectionVars>>

MarketSpec == MarketInit /\ [][MarketNext]_marketVars
=============================================================================
