------------------------------- MODULE ApiTokens -------------------------------
(***************************************************************************)
(* The API tokens of one provider of ai-proxy, which TokenFailover shares  *)
(* among the workers and from which TokenRetry takes those of a request.   *)
(***************************************************************************)
EXTENDS Integers, FiniteSets

CONSTANTS
  Token,
  NoToken   \* the empty token

ASSUME TokenAssumption == IsFiniteSet(Token) /\ NoToken \notin Token
=============================================================================
