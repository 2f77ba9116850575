----------------------------- MODULE MCScenario -----------------------------
(* Model-checking instance of Scenario: three messages, so that the Timer  *)
(* thread can disconnect before, between, during and after the exchanges, *)
(* and a late answer can shift more than one later message's response.    *)
EXTENDS Scenario

MCNumMessages == 3
MCTimeoutSigns == {"positive", "negative"}
MCTimeoutSignsPositive == {"positive"}
=============================================================================
