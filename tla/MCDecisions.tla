----------------------------- MODULE MCDecisions ----------------------------
(***************************************************************************)
(* The parts of the decision path and of its governance, each checked by   *)
(* itself: a behaviour follows the part chosen at the start, the others    *)
(* stay as they began.  They share no variable, so the product of their    *)
(* states would show nothing more.                                         *)
(***************************************************************************)
EXTENDS Trading, Consensus, ShadowValidation, Evaluation, Release, RuleFacts

VARIABLE part

\* Agents that agree are heard: capping moves weight between them and loses none.
ASSUME UnanimityDecides ==
    \A scores \in [ShadowAgents -> Scores] :
        /\ WeightedSignal(scores, [a \in ShadowAgents |-> BuyThreshold]) = "BUY"
        /\ WeightedSignal(scores, [a \in ShadowAgents |-> SellThreshold]) = "SELL"
        /\ WeightedSignal(scores, [a \in ShadowAgents |-> 100]) = "HOLD"

partVars == <<part, tradingVars, consensusVars, shadowVars, evaluationVars, releaseVars>>

DecisionsInit ==
    /\ part \in {"trading", "consensus", "shadow", "evaluation", "release"}
    /\ TradingInit /\ ConsensusInit /\ ShadowInit /\ EvaluationInit /\ ReleaseInit

DecisionsNext ==
    /\ UNCHANGED part
    /\ \/ /\ part = "trading" /\ TradingNext
          /\ UNCHANGED <<consensusVars, shadowVars, evaluationVars, releaseVars>>
       \/ /\ part = "consensus" /\ ConsensusNext
          /\ UNCHANGED <<tradingVars, shadowVars, evaluationVars, releaseVars>>
       \/ /\ part = "shadow" /\ ShadowNext
          /\ UNCHANGED <<tradingVars, consensusVars, evaluationVars, releaseVars>>
       \/ /\ part = "evaluation" /\ EvaluationNext
          /\ UNCHANGED <<tradingVars, consensusVars, shadowVars, releaseVars>>
       \/ /\ part = "release" /\ ReleaseNext
          /\ UNCHANGED <<tradingVars, consensusVars, shadowVars, evaluationVars>>

DecisionsSpec == DecisionsInit /\ [][DecisionsNext]_partVars

\* Concurrent cycles, callers and release calls are interchangeable.
Interchangeable ==
    Permutations(Cycles) \cup Permutations(Callers) \cup Permutations(ReleaseCallers)
=============================================================================
