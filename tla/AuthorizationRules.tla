------------------------- MODULE AuthorizationRules -------------------------
(***************************************************************************)
(* The rule stores behind AuthorizationEvaluator: rules in memory             *)
(* (facet-core/src/auth/mem.rs) and in Postgres (facet-postgres/src/auth.rs).  *)
(*                                                                         *)
(* A path or an expression is the sequence of its parts between slashes, so    *)
(* "/b/k" is <<"", "b", "k">>.  How often the memory store holds a rule        *)
(* does not show in an evaluation, and a removal takes every copy: its         *)
(* vectors are sets here.  `surely' and `maybe' state what both stores          *)
(* promise: they differ in what a second rule for a resource and the removal    *)
(* of a rule with other actions do, and each lies between the two.             *)
(***************************************************************************)
EXTENDS Naturals, Sequences, Functions

CONSTANTS Participants,
          RuleSet,      \* rules somebody may save or remove: scope, actions, resource
          is_match(_, _), \* Regex::is_match: does an expression match a path
          Stores,       \* evaluators that may be configured: "memory", "postgres"
          MaxChanges    \* bound: calls that change the rules

ASSUME RulesAssumption == Stores \subseteq {"memory", "postgres"} /\ MaxChanges \in Nat

\* The fields of Rule.
ASSUME RuleSetAssumption ==
    \A r \in RuleSet : r = [scope |-> r.scope, actions |-> r.actions, resource |-> r.resource]

VARIABLES store,        \* which of the two it is
          rules,        \* rules[p]: the rules kept for a participant
          surely,       \* history: surely[p], rules no later call was about
          maybe,        \* history: maybe[p], rules saved and not removed as they were saved
          changes       \* calls so far

ruleVars == <<store, rules, surely, maybe, changes>>

\* The empty string: what precedes the first slash, or a value that is missing.
Empty == ""

\* Rule::new compiles the resource of every rule, so it is a regular expression wherever
\* it comes from: what it matches is not what it says letter by letter.
matches_resource(resource, path) == is_match(resource, path)

\* join(",") and split(","): no action comes back as the action "".
Stored(actions) == IF store = "postgres" /\ actions = <<>> THEN <<Empty>> ELSE actions

SameKey(r, s) == r.scope = s.scope /\ r.resource = s.resource

\* One of the rules of the participant allows the operation.
Allow(ruleset, operation) ==
    \E r \in ruleset : /\ r.scope = operation.scope
                       /\ operation.action \in Range(r.actions)
                       /\ matches_resource(r.resource, operation.resource)

\* Mutant: the rules of all participants are searched.
evaluate_AnyParticipant(p, operation) == \E q \in Participants : Allow(rules[q], operation)

evaluate(p, operation) == Allow(rules[p], operation)

RulesInit ==
    /\ store \in Stores
    /\ rules = [p \in Participants |-> {}]
    /\ surely = [p \in Participants |-> {}]
    /\ maybe = [p \in Participants |-> {}]
    /\ changes = 0

\* Mutant: ON CONFLICT DO NOTHING.
Saved_DoNothing(kept, rule) ==
    IF store = "postgres" /\ \E r \in kept : SameKey(r, rule)
    THEN kept ELSE kept \cup {[rule EXCEPT !.actions = Stored(@)]}

\* push, or the upsert on (participant, scope, resource).
Saved(kept, rule) ==
    {r \in kept : store = "memory" \/ ~SameKey(r, rule)}
        \cup {[rule EXCEPT !.actions = Stored(@)]}

SaveRule(p, rule) ==
    /\ rules' = [rules EXCEPT ![p] = Saved(@, rule)]
    /\ surely' = [surely EXCEPT ![p] = {r \in @ : ~SameKey(r, rule)} \cup {rule}]
    /\ maybe' = [maybe EXCEPT ![p] = @ \cup {rule}]
    /\ UNCHANGED store

\* retain compares the actions too; DELETE does not.
Removed(kept, rule) ==
    {r \in kept : IF store = "memory" THEN r # rule ELSE ~SameKey(r, rule)}

RemoveRule(p, rule) ==
    /\ rules' = [rules EXCEPT ![p] = Removed(@, rule)]
    /\ surely' = [surely EXCEPT ![p] = {r \in @ : ~SameKey(r, rule)}]
    /\ maybe' = [maybe EXCEPT ![p] = @ \ {rule}]
    /\ UNCHANGED store

RemoveRules(p) ==
    /\ rules' = [rules EXCEPT ![p] = {}]
    /\ surely' = [surely EXCEPT ![p] = {}]
    /\ maybe' = [maybe EXCEPT ![p] = {}]
    /\ UNCHANGED store

RulesNext ==
    /\ changes < MaxChanges /\ changes' = changes + 1
    /\ \E p \in Participants :
           \/ \E rule \in RuleSet : SaveRule(p, rule) \/ RemoveRule(p, rule)
           \/ RemoveRules(p)

\* Rules are kept as the store keeps them: Postgres one row for each scope and resource
\* of a participant (the primary key), never a row without an action.
RulesTypeOK ==
    /\ store \in Stores /\ changes \in 0..MaxChanges
    /\ \A p \in Participants :
        /\ surely[p] \subseteq RuleSet /\ maybe[p] \subseteq RuleSet
        /\ rules[p] \subseteq {[r EXCEPT !.actions = Stored(@)] : r \in RuleSet}
        /\ store = "postgres" => \A r, s \in rules[p] : SameKey(r, s) => r = s
=============================================================================
