----------------------------- MODULE TokenPairs -----------------------------
(***************************************************************************)
(* The values the renewable token stores and the token manager share         *)
(* (RenewableTokenEntry and RenewableTokenPair in                            *)
(* crates/facet-core/src/token/manager/mod.rs).  An entry's id is a fresh     *)
(* UUID and its hashed_refresh_token the HMAC of fresh random bytes, drawn    *)
(* together with its token, so one value, a pair, stands for the three.       *)
(***************************************************************************)
CONSTANTS Pairs,   \* token pairs that can be drawn
          Flows,   \* flow ids
          NoFlow,  \* stands for "no entry for this pair"
          NoPair   \* stands for "no entry for this flow"

ASSUME NoFlowAssumption == NoFlow \notin Flows
ASSUME NoPairAssumption == NoPair \notin Pairs
=============================================================================
