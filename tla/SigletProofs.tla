---------------------------- MODULE SigletProofs ----------------------------
(***************************************************************************)
(* Proofs about Siglet: the handler of the signaling events on both planes    *)
(* (FlowHandler), for any flows, mappings, tokens and failures, and the        *)
(* process around it (SigletServer), for any configurations, requests and      *)
(* failures.                                                               *)
(***************************************************************************)
EXTENDS FlowHandler, SigletServer, FiniteSetTheorems, WellFoundedInduction, TLAPS

-----------------------------------------------------------------------------
(* The handler *)

StateShaped == DOMAIN state = Planes /\ \A pl \in Planes : DOMAIN state[pl] = Flows
EventShaped == DOMAIN event = Planes /\ \A pl \in Planes : DOMAIN event[pl] = Flows
CacheShaped == DOMAIN cached = Planes /\ \A pl \in Planes : DOMAIN cached[pl] = Flows

\* cleanup_tokens goes on to the cache only if there was nothing to revoke, and no token
\* is issued until it is done.
RemovalLate == \A pl \in Planes, f \in Flows : Removing(pl, f) => RowsOf(pl, f) = {}

\* A plane has a token of this flow's own to account for.
HasIssued(pl, f) == \E t \in delivered \cup unknown : t.plane = pl /\ t.flow = f

\* The record in the consumer's Vault was saved, or put back, behind the handler's back.
Strays(pl, f) == pl = "consumer" /\ f \in astray

Clean(pl, f) ==
    /\ RowsOf(pl, f) \subseteq unknown
    /\ cached[pl][f] # NoToken => HasIssued(pl, f) \/ Strays(pl, f)

\* EndedLeavesNothing, also while the next event of the flow is under way: it may fail, and
\* then leaves the flow in the state it was in.
GoneIsClean ==
    \A pl \in Planes, f \in Flows :
        state[pl][f] \in {"suspended", "terminated"} => Clean(pl, f)

\* Only Vault loses answers, and only its update_token is two steps.
OnlyVault ==
    /\ astray # {} => backend = "postgres_vault"
    /\ DOMAIN refresh = Flows
    /\ \A f \in Flows : refresh[f] # NoToken => backend = "postgres_vault"

FlowInv ==
    /\ StateShaped /\ EventShaped /\ CacheShaped
    /\ NoOrphanedToken /\ RemovalLate /\ GoneIsClean

\* What a step does to one flow on one plane keeps the invariant if it does so there and
\* changes nothing elsewhere.
LEMMA OneFlowStep ==
    ASSUME FlowInv, NEW pl \in Planes, NEW f \in Flows,
           StateShaped', EventShaped', CacheShaped',
           \A q \in Planes, e \in Flows : q # pl \/ e # f =>
               /\ state'[q][e] = state[q][e] /\ event'[q][e] = event[q][e]
               /\ cached'[q][e] = cached[q][e] /\ Strays(q, e)' = Strays(q, e)
               /\ RowsOf(q, e)' = RowsOf(q, e),
           delivered \subseteq delivered', unknown \subseteq unknown',
           NoOrphanedToken',
           Removing(pl, f)' => RowsOf(pl, f)' = {},
           state'[pl][f] \in {"suspended", "terminated"} => Clean(pl, f)'
    PROVE  FlowInv'
<1>1. ASSUME NEW q \in Planes, NEW e \in Flows, Removing(q, e)'
      PROVE  RowsOf(q, e)' = {}
  <2>1. CASE q = pl /\ e = f
    BY <1>1, <2>1
  <2>2. CASE q # pl \/ e # f
    BY <1>1, <2>2 DEF FlowInv, RemovalLate, Removing
  <2> QED
    BY <2>1, <2>2
<1>2. ASSUME NEW q \in Planes, NEW e \in Flows, state'[q][e] \in {"suspended", "terminated"}
      PROVE  Clean(q, e)'
  <2>1. CASE q = pl /\ e = f
    BY <1>2, <2>1
  <2>2. CASE q # pl \/ e # f
    <3>1. Clean(q, e)
      BY <1>2, <2>2 DEF FlowInv, GoneIsClean
    <3> QED
      BY <2>2, <3>1 DEF Clean, HasIssued
  <2> QED
    BY <2>1, <2>2
<1> QED
  BY <1>1, <1>2 DEF FlowInv, RemovalLate, GoneIsClean

\* Nothing has been issued.
LEMMA FlowInitInv == FlowInit => FlowInv
BY DEF FlowInit, FlowInv, StateShaped, EventShaped, CacheShaped, NoOrphanedToken, RemovalLate,
       GoneIsClean, Clean, Removing, RowsOf, Idle, Event

\* Steps that leave tokens, flows and events alone: the management API, an event that
\* fails before it begins, and the control plane's decision.
LEMMA QuietStep ==
    ASSUME FlowInv, UNCHANGED <<state, event, rows, cached, delivered, unknown, astray>>
    PROVE  FlowInv'
BY DEF FlowInv, StateShaped, EventShaped, CacheShaped, NoOrphanedToken, RemovalLate,
       GoneIsClean, Clean, HasIssued, Strays, Removing, RowsOf

\* A flow that goes on (prepared or started) owes nothing.
LEMMA GoesOn ==
    ASSUME FlowInv, NEW pl \in Planes, NEW f \in Flows, NEW s,
           s \notin {"suspended", "terminated"}, state' = [state EXCEPT ![pl][f] = s],
           cached' = cached \/ \E v : cached' = [cached EXCEPT ![pl][f] = v],
           astray' = astray \/ (pl = "consumer" /\ astray' = astray \ {f}),
           UNCHANGED <<event, rows, delivered, unknown>>
    PROVE  FlowInv'
<1>1. /\ StateShaped' /\ state'[pl][f] = s
      /\ \A q \in Planes, e \in Flows : q # pl \/ e # f => state'[q][e] = state[q][e]
  BY DEF FlowInv, StateShaped, EventShaped, CacheShaped
<1>2. /\ CacheShaped'
      /\ \A q \in Planes, e \in Flows : q # pl \/ e # f => cached'[q][e] = cached[q][e]
  <2>1. CASE cached' = cached
    BY <2>1 DEF FlowInv, CacheShaped
  <2>2. ASSUME NEW v, cached' = [cached EXCEPT ![pl][f] = v]
        PROVE  /\ CacheShaped'
               /\ \A q \in Planes, e \in Flows : q # pl \/ e # f => cached'[q][e] = cached[q][e]
    BY <2>2 DEF FlowInv, StateShaped, EventShaped, CacheShaped
  <2> QED
    BY <2>1, <2>2
<1>3. EventShaped' /\ NoOrphanedToken'
  BY DEF FlowInv, StateShaped, EventShaped, CacheShaped, NoOrphanedToken
<1>4. Removing(pl, f)' => RowsOf(pl, f)' = {}
  BY DEF FlowInv, RemovalLate, Removing, RowsOf
<1>5. \A q \in Planes, e \in Flows : RowsOf(q, e)' = RowsOf(q, e)
  BY DEF RowsOf
<1>6. \A q \in Planes, e \in Flows : q # pl \/ e # f => Strays(q, e)' = Strays(q, e)
  BY DEF Strays
<1> QED
  BY <1>1, <1>2, <1>3, <1>4, <1>5, <1>6, OneFlowStep

\* The steps of handle_flow that end without a token.
LEMMA BeginInv ==
    ASSUME FlowInv, NEW pl \in Planes, NEW f \in Flows,
           NotTheSource(pl, f) \/ FlowFails(pl, f) \/ BeginIssue(pl, f) \/ BeginCleanup(pl, f)
    PROVE  FlowInv'
<1>1. CASE NotTheSource(pl, f)
  <2>1. UNCHANGED <<event, rows, cached, delivered, unknown, astray>>
        /\ \E s \in {"started", "prepared"} : state' = [state EXCEPT ![pl][f] = s]
    BY <1>1 DEF NotTheSource, Respond, SetState
  <2> QED
    BY <2>1, GoesOn
<1>2. CASE FlowFails(pl, f)
  BY <1>2, QuietStep DEF FlowFails, flowVars
<1>3. CASE BeginIssue(pl, f) \/ BeginCleanup(pl, f)
  <2>1. UNCHANGED <<state, rows, cached, delivered, unknown, astray>>
    BY <1>3 DEF BeginIssue, BeginCleanup
  <2>2. PICK v : event' = [event EXCEPT ![pl][f] = v]
                 /\ v.kind \in {"issue", "suspend", "terminate"}
    <3>1. CASE BeginIssue(pl, f)
      <4> DEFINE w == [kind |-> "issue", type |-> ResolveTransferType(pl, f),
                       claims |-> ClaimsFor(pl, f, ResolveTransferType(pl, f))]
      <4>1. event' = [event EXCEPT ![pl][f] = w]
        BY <3>1, Zenon DEF BeginIssue
      <4>2. w.kind = "issue"
        BY Zenon
      <4> HIDE DEF w
      <4> QED
        BY <4>1, <4>2
    <3>2. CASE BeginCleanup(pl, f)
      <4>1. SetEvent(pl, f, "suspend") \/ SetEvent(pl, f, "terminate")
        BY <3>2 DEF BeginCleanup
      <4>2. Event("suspend").kind = "suspend" /\ Event("terminate").kind = "terminate"
        BY DEF Event
      <4> QED
        BY <4>1, <4>2 DEF SetEvent
    <3> QED
      BY <1>3, <3>1, <3>2
  <2>3. /\ EventShaped' /\ event'[pl][f] = v
        /\ \A q \in Planes, e \in Flows : q # pl \/ e # f => event'[q][e] = event[q][e]
    BY <2>2 DEF FlowInv, StateShaped, EventShaped, CacheShaped
  <2>4. ~Removing(pl, f)'
    BY <2>2, <2>3 DEF Removing
  <2>5. \A q \in Planes, e \in Flows : RowsOf(q, e)' = RowsOf(q, e)
    BY <2>1 DEF RowsOf
  <2>6. state'[pl][f] \in {"suspended", "terminated"} => Clean(pl, f)'
    BY <2>1 DEF FlowInv, GoneIsClean, Clean, HasIssued, Strays, RowsOf
  <2>7. StateShaped' /\ CacheShaped' /\ NoOrphanedToken'
    BY <2>1 DEF FlowInv, StateShaped, EventShaped, CacheShaped, NoOrphanedToken
  <2>8. \A q \in Planes, e \in Flows : Strays(q, e)' = Strays(q, e)
    BY <2>1 DEF Strays
  <2> QED
    BY <2>1, <2>3, <2>4, <2>5, <2>6, <2>7, <2>8, OneFlowStep
<1> QED
  BY <1>1, <1>2, <1>3

\* generate_pair: what it saves is accounted for, delivered or unknown.
LEMMA IssueInv ==
    ASSUME FlowInv, NEW pl \in Planes, NEW f \in Flows, Issue(pl, f) \/ IssueAckLost(pl, f)
    PROVE  FlowInv'
<1> DEFINE t == NewToken(pl, f)
<1>1. t.plane = pl /\ t.flow = f
  BY DEF NewToken
<1>2. /\ rows' = rows \cup {t} /\ UNCHANGED <<cached, astray>>
      /\ event' = [event EXCEPT ![pl][f] = Idle]
      /\ \/ /\ delivered' = delivered \cup {t} /\ UNCHANGED unknown
            /\ \E s \in {"started", "prepared"} : state' = [state EXCEPT ![pl][f] = s]
         \/ unknown' = unknown \cup {t} /\ UNCHANGED <<delivered, state>>
  BY DEF Issue, IssueAckLost, Respond, SetState, EventOver, SetEvent, Idle
<1> HIDE DEF t
<1>3. /\ EventShaped' /\ event'[pl][f] = Idle
      /\ \A q \in Planes, e \in Flows : q # pl \/ e # f => event'[q][e] = event[q][e]
  BY <1>2 DEF FlowInv, StateShaped, EventShaped, CacheShaped
<1>4. ~Removing(pl, f)'
  BY <1>3 DEF Removing, Idle, Event
<1>5. \A q \in Planes, e \in Flows : q # pl \/ e # f => RowsOf(q, e)' = RowsOf(q, e)
  BY <1>1, <1>2 DEF RowsOf
<1>6. NoOrphanedToken' /\ delivered \subseteq delivered' /\ unknown \subseteq unknown'
  BY <1>2 DEF FlowInv, NoOrphanedToken
<1>7. /\ StateShaped'
      /\ \A q \in Planes, e \in Flows : q # pl \/ e # f => state'[q][e] = state[q][e]
      /\ state'[pl][f] \in {"suspended", "terminated"} =>
             UNCHANGED state /\ unknown' = unknown \cup {t}
  <2>1. ASSUME NEW s \in {"started", "prepared"}, state' = [state EXCEPT ![pl][f] = s]
        PROVE  /\ StateShaped' /\ state'[pl][f] = s
               /\ \A q \in Planes, e \in Flows : q # pl \/ e # f => state'[q][e] = state[q][e]
    BY <2>1 DEF FlowInv, StateShaped, EventShaped, CacheShaped
  <2>2. CASE \E s \in {"started", "prepared"} : state' = [state EXCEPT ![pl][f] = s]
    BY <2>1, <2>2
  <2>3. CASE unknown' = unknown \cup {t} /\ UNCHANGED state
    BY <2>3 DEF FlowInv, StateShaped, EventShaped, CacheShaped
  <2> QED
    BY <1>2, <2>2, <2>3
<1>8. ASSUME state'[pl][f] \in {"suspended", "terminated"} PROVE Clean(pl, f)'
  <2>1. Clean(pl, f) /\ unknown' = unknown \cup {t}
    BY <1>7, <1>8 DEF FlowInv, GoneIsClean
  <2> QED
    BY <1>2, <1>6, <2>1 DEF Clean, HasIssued, Strays, RowsOf
<1>9. CacheShaped' /\ \A q \in Planes, e \in Flows : Strays(q, e)' = Strays(q, e)
  BY <1>2 DEF FlowInv, StateShaped, EventShaped, CacheShaped, Strays
<1> QED
  BY <1>2, <1>3, <1>4, <1>5, <1>6, <1>7, <1>8, <1>9, OneFlowStep

\* cleanup_tokens: a flow ends when its tokens are revoked, or when there were none and the
\* cache is empty.
LEMMA CleanupInv ==
    ASSUME FlowInv, NEW pl \in Planes, NEW f \in Flows,
           RevokeTokens(pl, f) \/ RemoveCached(pl, f) \/ EventFails(pl, f)
    PROVE  FlowInv'
<1>1. /\ \E k \in {"none", "suspend_remove", "terminate_remove"} :
            event' = [event EXCEPT ![pl][f] = Event(k)]
      /\ UNCHANGED <<delivered, unknown>>
  BY DEF RevokeTokens, RemoveCached, EventFails, FlowEnds, EventOver, SetEvent
<1>2. PICK k \in {"none", "suspend_remove", "terminate_remove"} :
        event' = [event EXCEPT ![pl][f] = Event(k)]
  BY <1>1
<1>3. /\ EventShaped' /\ event'[pl][f] = Event(k)
      /\ \A q \in Planes, e \in Flows : q # pl \/ e # f => event'[q][e] = event[q][e]
  BY <1>2 DEF FlowInv, StateShaped, EventShaped, CacheShaped
<1>4. rows' = rows \/ rows' = rows \ RowsOf(pl, f)
  BY DEF RevokeTokens, RemoveCached, EventFails
<1>5. /\ \A q \in Planes, e \in Flows : q # pl \/ e # f => RowsOf(q, e)' = RowsOf(q, e)
      /\ RowsOf(pl, f)' \subseteq RowsOf(pl, f) /\ NoOrphanedToken'
  BY <1>1, <1>4 DEF RowsOf, FlowInv, NoOrphanedToken
<1>6. /\ \/ UNCHANGED <<cached, astray>>
         \/ cached' = [cached EXCEPT ![pl][f] = NoToken] /\ Tidy(pl, f)
      /\ \A q \in Planes, e \in Flows : q # pl \/ e # f => Strays(q, e)' = Strays(q, e)
  <2>1. \/ UNCHANGED <<cached, astray>>
        \/ cached' = [cached EXCEPT ![pl][f] = NoToken] /\ Tidy(pl, f)
    BY DEF RevokeTokens, RemoveCached, EventFails
  <2> QED
    BY <2>1 DEF Tidy, Strays
<1>7. /\ CacheShaped'
      /\ \/ cached'[pl][f] = NoToken
         \/ cached'[pl][f] = cached[pl][f] /\ Strays(pl, f)' = Strays(pl, f)
      /\ \A q \in Planes, e \in Flows : q # pl \/ e # f => cached'[q][e] = cached[q][e]
  <2>1. CASE UNCHANGED <<cached, astray>>
    BY <2>1 DEF FlowInv, CacheShaped, Strays
  <2>2. CASE cached' = [cached EXCEPT ![pl][f] = NoToken]
    <3>1. /\ CacheShaped' /\ cached'[pl][f] = NoToken
          /\ \A q \in Planes, e \in Flows : q # pl \/ e # f => cached'[q][e] = cached[q][e]
      BY <2>2 DEF FlowInv, StateShaped, EventShaped, CacheShaped
    <3> QED
      BY <3>1
  <2> QED
    BY <1>6, <2>1, <2>2
<1>8. CASE UNCHANGED state
  <2>1. Removing(pl, f)' => RowsOf(pl, f)' = {}
    <3>1. CASE RevokeTokens(pl, f)
      BY <1>4, <3>1 DEF RevokeTokens, RowsOf, FlowInv, RemovalLate, Removing
    <3>2. CASE RemoveCached(pl, f) \/ EventFails(pl, f)
      <4>1. event' = [event EXCEPT ![pl][f] = Event("none")]
        BY <3>2 DEF RemoveCached, EventFails, FlowEnds, EventOver, SetEvent
      <4>2. event'[pl][f] = Event("none")
        BY <4>1 DEF FlowInv, StateShaped, EventShaped, CacheShaped
      <4> QED
        BY <4>2 DEF Removing, Event
    <3> QED
      BY <3>1, <3>2
  <2>2. state'[pl][f] \in {"suspended", "terminated"} => Clean(pl, f)'
    BY <1>1, <1>5, <1>7, <1>8 DEF FlowInv, GoneIsClean, Clean, HasIssued
  <2>3. StateShaped'
    BY <1>8 DEF FlowInv, StateShaped, EventShaped, CacheShaped
  <2> QED
    BY <1>1, <1>3, <1>5, <1>6, <1>7, <1>8, <2>1, <2>2, <2>3, OneFlowStep
<1>9. CASE FlowEnds(pl, f)
  <2>1. PICK s : state' = [state EXCEPT ![pl][f] = s]
    BY <1>9 DEF FlowEnds, SetState
  <2>2. /\ StateShaped'
        /\ \A q \in Planes, e \in Flows : q # pl \/ e # f => state'[q][e] = state[q][e]
    BY <2>1 DEF FlowInv, StateShaped, EventShaped, CacheShaped
  <2>3. event'[pl][f] = Event("none")
    BY <1>9 DEF FlowInv, StateShaped, EventShaped, CacheShaped, FlowEnds, EventOver, SetEvent
  <2>4. ~Removing(pl, f)'
    BY <2>3 DEF Removing, Event
  <2>5. Clean(pl, f)'
    <3>1. CASE RevokeTokens(pl, f)
      <4>1. UNCHANGED cached /\ Cleaning(pl, f)
        BY <3>1 DEF RevokeTokens
      <4>2. RowsOf(pl, f) # {} /\ rows' = rows \ RowsOf(pl, f)
        <5>1. CASE RowsOf(pl, f) # {} /\ rows' = rows \ RowsOf(pl, f)
          BY <5>1
        <5>2. CASE SetEvent(pl, f, IF event[pl][f].kind = "suspend" THEN "suspend_remove"
                                                              ELSE "terminate_remove")
          <6>1. PICK j \in {"suspend_remove", "terminate_remove"} :
                  event' = [event EXCEPT ![pl][f] = Event(j)]
            BY <5>2 DEF SetEvent
          <6>2. event'[pl][f] = Event(j)
            BY <6>1 DEF FlowInv, StateShaped, EventShaped, CacheShaped
          <6> QED
            BY <2>3, <6>1, <6>2 DEF Event
        <5> QED
          BY <3>1, <5>1, <5>2 DEF RevokeTokens
      <4>3. RowsOf(pl, f)' = {}
        BY <4>2 DEF RowsOf
      <4>4. HasIssued(pl, f)'
        BY <1>1, <4>2 DEF HasIssued, RowsOf, FlowInv, NoOrphanedToken
      <4> QED
        BY <4>3, <4>4 DEF Clean
    <3>2. CASE RemoveCached(pl, f)
      <4>1. Removing(pl, f) /\ UNCHANGED rows
        BY <3>2 DEF RemoveCached
      <4>2. RowsOf(pl, f) = {}
        BY <4>1 DEF FlowInv, RemovalLate
      <4>3. cached'[pl][f] = NoToken
        BY <1>7, <3>2 DEF RemoveCached, FlowInv, StateShaped, EventShaped, CacheShaped
      <4> QED
        BY <4>1, <4>2, <4>3 DEF Clean, RowsOf
    <3>3. CASE EventFails(pl, f)
      <4>1. UNCHANGED <<state, delivered, unknown>>
        BY <3>3 DEF EventFails
      <4>2. state[pl][f] \in {"suspended", "terminated"}
        BY <1>9, <4>1 DEF FlowEnds, SetState, FlowInv, StateShaped, EventShaped, CacheShaped
      <4> QED
        BY <1>5, <1>7, <4>1, <4>2 DEF FlowInv, GoneIsClean, Clean, HasIssued
    <3> QED
      BY <3>1, <3>2, <3>3
  <2> QED
    BY <1>1, <1>3, <1>5, <1>6, <1>7, <2>2, <2>4, <2>5, OneFlowStep
<1> QED
  BY <1>8, <1>9 DEF RevokeTokens, RemoveCached, EventFails

\* A record appears in the consumer's Vault without the handler: the flow strays if it had none.
LEMMA StrayInv ==
    ASSUME FlowInv, NEW f \in Flows, StartedAckLost(f) \/ RefreshWrites(f) PROVE FlowInv'
<1>0. "consumer" \in Planes
  BY DEF Planes
<1>1. UNCHANGED <<state, event, rows, delivered, unknown>>
  BY DEF StartedAckLost, RefreshWrites
<1>2. \/ UNCHANGED <<cached, astray>>
      \/ \E v : /\ cached' = [cached EXCEPT !["consumer"][f] = v]
                /\ \/ astray' = astray \cup {f}
                   \/ cached["consumer"][f] # NoToken /\ astray' = astray
  BY DEF StartedAckLost, RefreshWrites
<1>3. CASE UNCHANGED <<cached, astray>>
  BY <1>1, <1>3, QuietStep
<1>4. ASSUME NEW v, cached' = [cached EXCEPT !["consumer"][f] = v],
             \/ astray' = astray \cup {f}
             \/ cached["consumer"][f] # NoToken /\ astray' = astray
      PROVE  FlowInv'
  <2>1. /\ CacheShaped'
        /\ \A q \in Planes, e \in Flows : q # "consumer" \/ e # f => cached'[q][e] = cached[q][e]
    BY <1>0, <1>4 DEF FlowInv, CacheShaped
  <2>2. \A q \in Planes, e \in Flows : q # "consumer" \/ e # f => Strays(q, e)' = Strays(q, e)
    BY <1>4 DEF Strays
  <2>3. \A q \in Planes, e \in Flows : RowsOf(q, e)' = RowsOf(q, e)
    BY <1>1 DEF RowsOf
  <2>4. Removing("consumer", f)' => RowsOf("consumer", f)' = {}
    BY <1>0, <1>1, <2>3 DEF FlowInv, RemovalLate, Removing
  <2>5. ASSUME state'["consumer"][f] \in {"suspended", "terminated"} PROVE Clean("consumer", f)'
    <3>1. Clean("consumer", f)
      BY <1>0, <1>1, <2>5 DEF FlowInv, GoneIsClean
    <3> QED
      BY <1>0, <1>1, <1>4, <2>3, <3>1 DEF Clean, HasIssued, Strays
  <2>6. StateShaped' /\ EventShaped' /\ NoOrphanedToken'
    BY <1>1 DEF FlowInv, StateShaped, EventShaped, NoOrphanedToken
  <2> QED
    BY <1>0, <1>1, <2>1, <2>2, <2>3, <2>4, <2>5, <2>6, OneFlowStep
<1> QED
  BY <1>2, <1>3, <1>4

\* on_started caches a token only for a flow that is started then.
LEMMA StartedInv == ASSUME FlowInv, NEW f \in Flows, OnStarted(f) PROVE FlowInv'
<1>0. "consumer" \in Planes
  BY DEF Planes
<1>1. UNCHANGED <<event, rows, delivered, unknown>>
  BY DEF OnStarted
<1>2. \/ UNCHANGED <<cached, astray, state>>
      \/ /\ state' = [state EXCEPT !["consumer"][f] = "started"]
         /\ \/ UNCHANGED <<cached, astray>>
            \/ /\ cached' = [cached EXCEPT !["consumer"][f] = address[f].token]
               /\ astray' = astray \ {f}
  BY DEF OnStarted, SetState
<1>3. CASE UNCHANGED <<cached, astray, state>>
  BY <1>1, <1>3, QuietStep
<1>4. CASE /\ state' = [state EXCEPT !["consumer"][f] = "started"]
           /\ \/ UNCHANGED <<cached, astray>>
              \/ /\ cached' = [cached EXCEPT !["consumer"][f] = address[f].token]
                 /\ astray' = astray \ {f}
  <2>1. /\ cached' = cached \/ \E v : cached' = [cached EXCEPT !["consumer"][f] = v]
        /\ astray' = astray \/ astray' = astray \ {f}
    BY <1>4
  <2>2. "started" \notin {"suspended", "terminated"}
    OBVIOUS
  <2> QED
    BY <1>0, <1>1, <1>4, <2>1, <2>2, GoesOn
<1> QED
  BY <1>2, <1>3, <1>4

\* Every step on either plane, of the management API and of the control plane.
LEMMA FlowNextInv == FlowInv /\ [FlowNext]_flowVars => FlowInv'
<1> SUFFICES ASSUME FlowInv, [FlowNext]_flowVars PROVE FlowInv'
  OBVIOUS
<1>1. CASE UNCHANGED flowVars
  BY <1>1, QuietStep DEF flowVars
<1>2. ASSUME NEW pl \in Planes,
             \/ DeleteTransferTypeMapping(pl)
             \/ \E types \in Submissions[pl] :
                  CreateTransferTypeMapping(pl, types) \/ UpdateTransferTypeMapping(pl, types)
      PROVE  FlowInv'
  BY <1>2, QuietStep DEF DeleteTransferTypeMapping, CreateTransferTypeMapping,
                         UpdateTransferTypeMapping
<1>3. ASSUME NEW f \in Flows, StartedLost(f) \/ WantTerminated(f) \/ RefreshReads(f)
      PROVE  FlowInv'
  BY <1>3, QuietStep DEF StartedLost, WantTerminated, RefreshReads
<1>4. ASSUME NEW pl \in Planes, NEW f \in Flows, CleanupStep(pl, f) \/ EventFails(pl, f)
      PROVE  FlowInv'
  BY <1>4, BeginInv, CleanupInv DEF CleanupStep
<1> QED
  BY <1>1, <1>2, <1>3, <1>4, BeginInv, IssueInv, StartedInv, StrayInv DEF FlowNext

\* Tokens, flows and the event under way fit together on both planes.
THEOREM FlowInvariant == FlowSpec => []FlowInv
BY FlowInitInv, FlowNextInv, PTL DEF FlowSpec

\* handle_flow generates a token only when nothing after it can fail but the database's
\* answer: a valid token was handed out, or its call reported an error.
THEOREM TokensHandedOut == FlowSpec => []NoOrphanedToken
<1>1. FlowInv => NoOrphanedToken
  BY DEF FlowInv
<1> QED
  BY <1>1, FlowInvariant, PTL

\* A flow that was suspended or terminated, also by a repeated event or one that failed
\* half way, has no valid token that anybody was given, and a cached one only on a plane
\* that issued a token too, or where Vault kept or got back a record behind the handler.
THEOREM FlowsEndClean == FlowSpec => []EndedLeavesNothing
<1>1. FlowInit => OnlyVault
  BY DEF FlowInit, OnlyVault
<1>2. OnlyVault /\ [FlowNext]_flowVars => OnlyVault'
  <2> SUFFICES ASSUME OnlyVault, [FlowNext]_flowVars PROVE OnlyVault'
    OBVIOUS
  <2>1. ASSUME UNCHANGED backend, refresh' = refresh, astray' \subseteq astray PROVE OnlyVault'
    BY <2>1 DEF OnlyVault
  <2>2. CASE UNCHANGED flowVars
    BY <2>1, <2>2 DEF flowVars
  <2>3. ASSUME NEW pl \in Planes,
               \/ DeleteTransferTypeMapping(pl)
               \/ \E types \in Submissions[pl] :
                    CreateTransferTypeMapping(pl, types) \/ UpdateTransferTypeMapping(pl, types)
        PROVE  OnlyVault'
    BY <2>1, <2>3 DEF DeleteTransferTypeMapping, CreateTransferTypeMapping,
                      UpdateTransferTypeMapping
  <2>4. ASSUME NEW pl \in Planes, NEW f \in Flows,
               \/ NotTheSource(pl, f) \/ FlowFails(pl, f)
               \/ BeginIssue(pl, f) \/ Issue(pl, f) \/ IssueAckLost(pl, f)
        PROVE  OnlyVault'
    BY <2>1, <2>4 DEF NotTheSource, FlowFails, flowVars, BeginIssue, Issue, IssueAckLost
  <2>5. ASSUME NEW pl \in Planes, NEW f \in Flows, CleanupStep(pl, f) \/ EventFails(pl, f)
        PROVE  OnlyVault'
    BY <2>1, <2>5 DEF CleanupStep, BeginCleanup, RevokeTokens, RemoveCached, EventFails, Tidy
  <2>6. ASSUME NEW f \in Flows, OnStarted(f) \/ StartedLost(f) \/ WantTerminated(f)
        PROVE  OnlyVault'
    BY <2>1, <2>6 DEF OnStarted, StartedLost, WantTerminated
  <2>7. ASSUME NEW f \in Flows, StartedAckLost(f) \/ RefreshReads(f) \/ RefreshWrites(f)
        PROVE  OnlyVault'
    BY <2>7 DEF StartedAckLost, RefreshReads, RefreshWrites, OnlyVault
  <2> QED
    BY <2>2, <2>3, <2>4, <2>5, <2>6, <2>7 DEF FlowNext
<1>3. FlowInv /\ OnlyVault => EndedLeavesNothing
  BY DEF FlowInv, GoneIsClean, Clean, HasIssued, Strays, OnlyVault, EndedLeavesNothing
<1> QED
  BY <1>1, <1>2, <1>3, FlowInvariant, PTL DEF FlowSpec

-----------------------------------------------------------------------------
(* Loops: induction over the rounds, with sets in place of predicates *)

\* A set of naturals that has 0 and with each number the next has all: a least number
\* outside would have a predecessor inside.
LEMMA Induction ==
    ASSUME NEW S, 0 \in S, \A n \in Nat : n \in S => n + 1 \in S
    PROVE  \A n \in Nat : n \in S
<1> DEFINE T == {n \in Nat : n \notin S}
<1>1. SUFFICES ASSUME T # {} PROVE FALSE
  OBVIOUS
<1>2. PICK x \in T : \A y \in T : ~(<<y, x>> \in OpToRel(<, Nat))
  BY <1>1, NatLessThanWellFounded, WFMin, T \subseteq Nat
<1>3. \A y \in T : ~(y < x)
  BY <1>2, Zenon DEF OpToRel
<1>4. x \in Nat /\ x # 0 /\ x - 1 \in Nat /\ x - 1 < x /\ (x - 1) + 1 = x
  OBVIOUS
<1> QED
  BY <1>3, <1>4

\* Min is the least number of a set that has one.
LEMMA MinIsFirst ==
    ASSUME NEW S \in SUBSET Nat, S # {}
    PROVE  Min(S) \in S /\ \A y \in S : Min(S) <= y
<1>1. PICK x \in S : \A y \in S : ~(<<y, x>> \in OpToRel(<, Nat))
  BY NatLessThanWellFounded, WFMin
<1>2. \A y \in S : ~(y < x)
  BY <1>1, Zenon DEF OpToRel
<1>3. \A y \in S : x <= y
  BY <1>2
<1> QED
  BY <1>3 DEF Min

\* The fold takes the last round first.
LEMMA MaxIsLast ==
    ASSUME NEW k \in Nat, NEW s \in SUBSET (1..(k + 1)), k + 1 \in s
    PROVE  Max(s) = k + 1
<1>1. \A y \in s : k + 1 >= y
  OBVIOUS
<1>2. Max(s) \in s /\ \A y \in s : Max(s) >= y
  BY <1>1 DEF Max
<1>3. Max(s) \in 1..(k + 1)
  BY <1>2
<1>4. Max(s) >= k + 1
  BY <1>2
<1> QED
  BY <1>3, <1>4

\* What the fold of merge_claim_mappings computes, by the set of rounds done.
MergeRounds(f, root, ms, n) ==
    f = [s \in SUBSET (1..n) |-> IF s = {} THEN root
                                 ELSE MergeOne(f[s \ {Max(s)}], ms[Max(s)])]

\* It is defined: the rounds up to k + 1 are those up to k, and one more.
LEMMA MergeRoundsExist ==
    ASSUME NEW root, NEW ms, NEW n \in Nat
    PROVE  \E f : MergeRounds(f, root, ms, n)
<1> DEFINE S == {k \in Nat : \E f : MergeRounds(f, root, ms, k)}
<1>1. 0 \in S
  <2>1. \A s \in SUBSET (1..0) : s = {}
    OBVIOUS
  <2>2. MergeRounds([s \in SUBSET (1..0) |-> root], root, ms, 0)
    BY <2>1, Zenon DEF MergeRounds
  <2> QED
    BY <2>2
<1>2. ASSUME NEW k \in Nat, k \in S
      PROVE  k + 1 \in S
  <2>1. PICK f : MergeRounds(f, root, ms, k)
    BY <1>2
  <2> DEFINE g == [s \in SUBSET (1..(k + 1)) |->
                     IF k + 1 \in s THEN MergeOne(f[s \ {k + 1}], ms[k + 1]) ELSE f[s]]
  <2>2. ASSUME NEW s \in SUBSET (1..(k + 1))
        PROVE  g[s] = IF s = {} THEN root ELSE MergeOne(g[s \ {Max(s)}], ms[Max(s)])
    <3>1. \A t \in SUBSET (1..(k + 1)) : k + 1 \notin t => t \in SUBSET (1..k) /\ g[t] = f[t]
      OBVIOUS
    <3>2. CASE k + 1 \in s
      <4>1. Max(s) = k + 1
        BY <3>2, MaxIsLast
      <4>2. s \ {k + 1} \in SUBSET (1..(k + 1)) /\ k + 1 \notin s \ {k + 1}
        OBVIOUS
      <4>3. g[s] = MergeOne(f[s \ {k + 1}], ms[k + 1])
        BY <3>2
      <4>4. g[s \ {k + 1}] = f[s \ {k + 1}]
        BY <4>2, <3>1
      <4> HIDE DEF g
      <4> QED
        BY <3>2, <4>1, <4>3, <4>4
    <3>3. CASE k + 1 \notin s
      <4>1. s \in SUBSET (1..k) /\ g[s] = f[s]
        BY <3>1, <3>3
      <4>2. s \ {Max(s)} \in SUBSET (1..(k + 1)) /\ k + 1 \notin s \ {Max(s)}
        BY <3>3
      <4>3. g[s \ {Max(s)}] = f[s \ {Max(s)}]
        BY <4>2, <3>1
      <4>4. f[s] = IF s = {} THEN root ELSE MergeOne(f[s \ {Max(s)}], ms[Max(s)])
        BY <2>1, <4>1, Zenon DEF MergeRounds
      <4> HIDE DEF g
      <4> QED
        BY <4>1, <4>3, <4>4
    <3> QED
      BY <3>2, <3>3
  <2>3. g = [s \in SUBSET (1..(k + 1)) |-> g[s]]
    OBVIOUS
  <2>4. MergeRounds(g, root, ms, k + 1)
    <3> HIDE DEF g
    <3> QED
      BY <2>2, <2>3, Zenon DEF MergeRounds
  <2> QED
    BY <2>4
<1>3. \A k \in Nat : k \in S
  <2> HIDE DEF S
  <2> QED
    BY <1>1, <1>2, Induction
<1> QED
  BY <1>3

\* merge_claim_mappings starts with the root's mappings and runs one round for each
\* mapping of the endpoint, in their order.
LEMMA MergeInRounds ==
    ASSUME NEW root, NEW M, NEW ms \in Seq(M)
    PROVE  \E g : /\ g[0] = root
                  /\ \A n \in 1..Len(ms) : g[n] = MergeOne(g[n - 1], ms[n])
                  /\ merge_claim_mappings(root, ms) = g[Len(ms)]
<1> DEFINE f == CHOOSE h : MergeRounds(h, root, ms, Len(ms))
           g == [n \in 0..Len(ms) |-> f[1..n]]
<1>0. Len(ms) \in Nat /\ DOMAIN ms = 1..Len(ms)
  OBVIOUS
<1>1. MergeRounds(f, root, ms, Len(ms))
  BY <1>0, MergeRoundsExist, Zenon
<1>2. merge_claim_mappings(root, ms) = f[1..Len(ms)]
  BY <1>0, Zenon DEF merge_claim_mappings, FoldLeft, MapThenFoldSet, MergeRounds
<1> HIDE DEF f
<1>3. \A s \in SUBSET (1..Len(ms)) : f[s] = IF s = {} THEN root
                                 ELSE MergeOne(f[s \ {Max(s)}], ms[Max(s)])
  BY <1>1, Zenon DEF MergeRounds
<1>4. g[0] = root
  <2>1. 1..0 = {} /\ 1..0 \in SUBSET (1..Len(ms)) /\ 0 \in 0..Len(ms)
    BY <1>0
  <2> QED
    BY <2>1, <1>3
<1>5. ASSUME NEW n \in 1..Len(ms)
      PROVE  g[n] = MergeOne(g[n - 1], ms[n])
  <2>1. /\ 1..n \in SUBSET (1..Len(ms)) /\ 1..n # {}
        /\ n \in 0..Len(ms) /\ n - 1 \in 0..Len(ms)
    <3>1. n \in 1..n
      BY <1>0
    <3> QED
      BY <1>0, <3>1
  <2>4. (1..n) \ {n} = 1..(n - 1)
    BY <1>0
  <2>2. Max(1..n) = n
    <3>1. n - 1 \in Nat /\ (n - 1) + 1 = n /\ n \in 1..n /\ 1..n \in SUBSET (1..n)
      BY <1>0
    <3> QED
      BY <3>1, MaxIsLast, Zenon
  <2>3. f[1..n] = MergeOne(f[1..(n - 1)], ms[n])
    BY <1>3, <2>1, <2>2, <2>4
  <2> QED
    BY <2>1, <2>3
<1>6. g[Len(ms)] = f[1..Len(ms)]
  BY <1>0
<1> HIDE DEF g
<1> QED
  BY <1>2, <1>4, <1>5, <1>6
\* The same for map_claims.
MapRounds(f, claims, ms, n) ==
    f = [s \in SUBSET (1..n) |-> IF s = {} THEN claims
                                 ELSE MapOne(f[s \ {Max(s)}], ms[Max(s)])]

\* It is defined.
LEMMA MapRoundsExist ==
    ASSUME NEW claims, NEW ms, NEW n \in Nat
    PROVE  \E f : MapRounds(f, claims, ms, n)
<1> DEFINE S == {k \in Nat : \E f : MapRounds(f, claims, ms, k)}
<1>1. 0 \in S
  <2>1. \A s \in SUBSET (1..0) : s = {}
    OBVIOUS
  <2>2. MapRounds([s \in SUBSET (1..0) |-> claims], claims, ms, 0)
    BY <2>1, Zenon DEF MapRounds
  <2> QED
    BY <2>2
<1>2. ASSUME NEW k \in Nat, k \in S
      PROVE  k + 1 \in S
  <2>1. PICK f : MapRounds(f, claims, ms, k)
    BY <1>2
  <2> DEFINE g == [s \in SUBSET (1..(k + 1)) |->
                     IF k + 1 \in s THEN MapOne(f[s \ {k + 1}], ms[k + 1]) ELSE f[s]]
  <2>2. ASSUME NEW s \in SUBSET (1..(k + 1))
        PROVE  g[s] = IF s = {} THEN claims ELSE MapOne(g[s \ {Max(s)}], ms[Max(s)])
    <3>1. \A t \in SUBSET (1..(k + 1)) : k + 1 \notin t => t \in SUBSET (1..k) /\ g[t] = f[t]
      OBVIOUS
    <3>2. CASE k + 1 \in s
      <4>1. Max(s) = k + 1
        BY <3>2, MaxIsLast
      <4>2. s \ {k + 1} \in SUBSET (1..(k + 1)) /\ k + 1 \notin s \ {k + 1}
        OBVIOUS
      <4>3. g[s] = MapOne(f[s \ {k + 1}], ms[k + 1])
        BY <3>2
      <4>4. g[s \ {k + 1}] = f[s \ {k + 1}]
        BY <4>2, <3>1
      <4> HIDE DEF g
      <4> QED
        BY <3>2, <4>1, <4>3, <4>4
    <3>3. CASE k + 1 \notin s
      <4>1. s \in SUBSET (1..k) /\ g[s] = f[s]
        BY <3>1, <3>3
      <4>2. s \ {Max(s)} \in SUBSET (1..(k + 1)) /\ k + 1 \notin s \ {Max(s)}
        BY <3>3
      <4>3. g[s \ {Max(s)}] = f[s \ {Max(s)}]
        BY <4>2, <3>1
      <4>4. f[s] = IF s = {} THEN claims ELSE MapOne(f[s \ {Max(s)}], ms[Max(s)])
        BY <2>1, <4>1, Zenon DEF MapRounds
      <4> HIDE DEF g
      <4> QED
        BY <4>1, <4>3, <4>4
    <3> QED
      BY <3>2, <3>3
  <2>3. g = [s \in SUBSET (1..(k + 1)) |-> g[s]]
    OBVIOUS
  <2>4. MapRounds(g, claims, ms, k + 1)
    <3> HIDE DEF g
    <3> QED
      BY <2>2, <2>3, Zenon DEF MapRounds
  <2> QED
    BY <2>4
<1>3. \A k \in Nat : k \in S
  <2> HIDE DEF S
  <2> QED
    BY <1>1, <1>2, Induction
<1> QED
  BY <1>3

\* map_claims starts with the claims set before it and runs one round for each mapping, in
\* their order.
LEMMA MapInRounds ==
    ASSUME NEW claims, NEW M, NEW ms \in Seq(M)
    PROVE  \E g : /\ g[0] = claims
                  /\ \A n \in 1..Len(ms) : g[n] = MapOne(g[n - 1], ms[n])
                  /\ MapClaims(ms, claims) = g[Len(ms)]
<1> DEFINE f == CHOOSE h : MapRounds(h, claims, ms, Len(ms))
           g == [n \in 0..Len(ms) |-> f[1..n]]
<1>0. Len(ms) \in Nat /\ DOMAIN ms = 1..Len(ms)
  OBVIOUS
<1>1. MapRounds(f, claims, ms, Len(ms))
  BY <1>0, MapRoundsExist, Zenon
<1>2. MapClaims(ms, claims) = f[1..Len(ms)]
  BY <1>0, Zenon DEF MapClaims, FoldLeft, MapThenFoldSet, MapRounds
<1> HIDE DEF f
<1>3. \A s \in SUBSET (1..Len(ms)) : f[s] = IF s = {} THEN claims
                                 ELSE MapOne(f[s \ {Max(s)}], ms[Max(s)])
  BY <1>1, Zenon DEF MapRounds
<1>4. g[0] = claims
  <2>1. 1..0 = {} /\ 1..0 \in SUBSET (1..Len(ms)) /\ 0 \in 0..Len(ms)
    BY <1>0
  <2> QED
    BY <2>1, <1>3
<1>5. ASSUME NEW n \in 1..Len(ms)
      PROVE  g[n] = MapOne(g[n - 1], ms[n])
  <2>1. /\ 1..n \in SUBSET (1..Len(ms)) /\ 1..n # {}
        /\ n \in 0..Len(ms) /\ n - 1 \in 0..Len(ms)
    <3>1. n \in 1..n
      BY <1>0
    <3> QED
      BY <1>0, <3>1
  <2>4. (1..n) \ {n} = 1..(n - 1)
    BY <1>0
  <2>2. Max(1..n) = n
    <3>1. n - 1 \in Nat /\ (n - 1) + 1 = n /\ n \in 1..n /\ 1..n \in SUBSET (1..n)
      BY <1>0
    <3> QED
      BY <3>1, MaxIsLast, Zenon
  <2>3. f[1..n] = MapOne(f[1..(n - 1)], ms[n])
    BY <1>3, <2>1, <2>2, <2>4
  <2> QED
    BY <2>1, <2>3
<1>6. g[Len(ms)] = f[1..Len(ms)]
  BY <1>0
<1> HIDE DEF g
<1> QED
  BY <1>2, <1>4, <1>5, <1>6

\* No claim is named twice; a mapping of the list.
Distinct(ms) == \A i, j \in 1..Len(ms) : ms[i].to = ms[j].to => i = j
In(x, ms) == \E i \in 1..Len(ms) : ms[i] = x

\* A round puts the mapping in the place of the one for the same claim, and keeps the
\* others; no two mappings for one claim arise.
LEMMA MergeOneRound ==
    ASSUME NEW M, NEW merged \in Seq(M), NEW m \in M, Distinct(merged)
    PROVE  /\ MergeOne(merged, m) \in Seq(M)
           /\ Distinct(MergeOne(merged, m))
           /\ \A x : In(x, MergeOne(merged, m)) <=> x = m \/ (In(x, merged) /\ x.to # m.to)
<1> DEFINE I == {i \in 1..Len(merged) : merged[i].to = m.to}
           r == MergeOne(merged, m)
<1>1. r = IF I # {} /\ Min(I) # 0 THEN [merged EXCEPT ![Min(I)] = m] ELSE Append(merged, m)
  BY DEF MergeOne, SelectInSeq, ReplaceAt
<1>2. CASE I = {}
  <2>1. r = Append(merged, m)
    BY <1>1, <1>2
  <2>2. /\ r \in Seq(M) /\ Len(r) = Len(merged) + 1 /\ r[Len(merged) + 1] = m
        /\ \A i \in 1..Len(merged) : r[i] = merged[i]
    BY <2>1
  <2>3. \A i \in 1..Len(merged) : merged[i].to # m.to
    BY <1>2
  <2> HIDE DEF r, I
  <2>4. \A i \in 1..Len(r) : i = Len(merged) + 1 \/ i \in 1..Len(merged)
    BY <2>2
  <2>5. Distinct(r)
    BY <2>2, <2>3, <2>4 DEF Distinct
  <2>6. ASSUME NEW x PROVE In(x, r) <=> x = m \/ (In(x, merged) /\ x.to # m.to)
    <3>1. In(x, r) => x = m \/ (In(x, merged) /\ x.to # m.to)
      BY <2>2, <2>3, <2>4 DEF In
    <3>2. 1..Len(merged) \subseteq 1..Len(r) /\ Len(merged) + 1 \in 1..Len(r)
      BY <2>2
    <3>3. x = m \/ (In(x, merged) /\ x.to # m.to) => In(x, r)
      BY <2>2, <3>2 DEF In
    <3> QED
      BY <3>1, <3>3
  <2>7. r \in Seq(M) /\ Distinct(r) /\ \A x : In(x, r) <=> x = m \/ (In(x, merged) /\ x.to # m.to)
    BY <2>2, <2>5, <2>6
  <2> QED
    BY <2>7 DEF r
<1>3. CASE I # {}
  <2>1. Min(I) \in I
    <3>1. I \in SUBSET Nat
      OBVIOUS
    <3> HIDE DEF I
    <3> QED
      BY <1>3, <3>1, MinIsFirst
  <2> DEFINE k == Min(I)
  <2>2. r = [merged EXCEPT ![k] = m] /\ k \in 1..Len(merged) /\ merged[k].to = m.to
    BY <1>1, <1>3, <2>1
  <2> HIDE DEF r, I, k
  <2>3. /\ r \in Seq(M) /\ Len(r) = Len(merged) /\ r[k] = m
        /\ \A i \in 1..Len(merged) : i # k => r[i] = merged[i]
    BY <2>2
  <2>4. Distinct(r)
    BY <2>2, <2>3 DEF Distinct
  <2>5. ASSUME NEW x PROVE In(x, r) <=> x = m \/ (In(x, merged) /\ x.to # m.to)
    BY <2>2, <2>3 DEF In, Distinct
  <2>7. r \in Seq(M) /\ Distinct(r) /\ \A x : In(x, r) <=> x = m \/ (In(x, merged) /\ x.to # m.to)
    BY <2>3, <2>4, <2>5
  <2> QED
    BY <2>7 DEF r
<1> QED
  BY <1>2, <1>3

\* The merged list has the endpoint's mappings, and those of the root that it does not
\* override, and names no claim twice.
LEMMA MergeResult ==
    ASSUME NEW M, NEW root \in Seq(M), NEW ms \in Seq(M), Distinct(root), Distinct(ms)
    PROVE  /\ merge_claim_mappings(root, ms) \in Seq(M)
           /\ Distinct(merge_claim_mappings(root, ms))
           /\ \A x : In(x, merge_claim_mappings(root, ms)) <=>
                  \/ In(x, ms)
                  \/ In(x, root) /\ \A y : In(y, ms) => y.to # x.to
<1>1. PICK g : /\ g[0] = root
               /\ \A n \in 1..Len(ms) : g[n] = MergeOne(g[n - 1], ms[n])
               /\ merge_claim_mappings(root, ms) = g[Len(ms)]
  BY MergeInRounds
<1> DEFINE Good(n) ==
             /\ g[n] \in Seq(M) /\ Distinct(g[n])
             /\ \A x : In(x, g[n]) <=>
                    \/ \E j \in 1..n : ms[j] = x
                    \/ In(x, root) /\ \A j \in 1..n : ms[j].to # x.to
           S == {n \in Nat : n <= Len(ms) => Good(n)}
<1>2. 0 \in S
  <2>1. 1..0 = {}
    OBVIOUS
  <2>2. Good(0)
    BY <1>1, <2>1
  <2> QED
    BY <2>2
<1>3. ASSUME NEW n \in Nat, n \in S PROVE n + 1 \in S
  <2>1. SUFFICES ASSUME n + 1 <= Len(ms) PROVE Good(n + 1)
    OBVIOUS
  <2>2. Good(n) /\ n + 1 \in 1..Len(ms) /\ (n + 1) - 1 = n
    BY <1>3, <2>1
  <2> DEFINE m == ms[n + 1]
  <2>3. m \in M /\ g[n + 1] = MergeOne(g[n], m)
    BY <1>1, <2>2
  <2>4. /\ g[n + 1] \in Seq(M) /\ Distinct(g[n + 1])
        /\ \A x : In(x, g[n + 1]) <=> x = m \/ (In(x, g[n]) /\ x.to # m.to)
    <3>1. g[n] \in Seq(M) /\ Distinct(g[n])
      BY <2>2
    <3> HIDE DEF m
    <3> QED
      BY <2>3, <3>1, MergeOneRound
  <2>5. \A j \in 1..(n + 1) : j \in 1..n \/ j = n + 1
    OBVIOUS
  <2>6. \A j \in 1..n : j \in 1..(n + 1) /\ ms[j].to # m.to
    BY <2>2 DEF Distinct
  <2>7. n + 1 \in 1..(n + 1)
    OBVIOUS
  <2>8. \A x : In(x, g[n]) <=>
                    \/ \E j \in 1..n : ms[j] = x
                    \/ In(x, root) /\ \A j \in 1..n : ms[j].to # x.to
    BY <2>2
  <2>9. ASSUME NEW x
        PROVE  In(x, g[n + 1]) <=>
                    \/ \E j \in 1..(n + 1) : ms[j] = x
                    \/ In(x, root) /\ \A j \in 1..(n + 1) : ms[j].to # x.to
    BY <2>4, <2>5, <2>6, <2>7, <2>8
  <2> QED
    BY <2>4, <2>9
<1>4. \A n \in Nat : n \in S
  <2> HIDE DEF S
  <2> QED
    BY <1>2, <1>3, Induction
<1>5. Good(Len(ms))
  BY <1>4
<1>6. \A x : In(x, g[Len(ms)]) <=>
                  \/ In(x, ms)
                  \/ In(x, root) /\ \A y : In(y, ms) => y.to # x.to
  <2> TAKE x
  <2>1. In(x, ms) <=> \E j \in 1..Len(ms) : ms[j] = x
    BY DEF In
  <2>2. (\A y : In(y, ms) => y.to # x.to) <=> \A j \in 1..Len(ms) : ms[j].to # x.to
    BY DEF In
  <2> QED
    BY <1>5, <2>1, <2>2
<1> QED
  BY <1>1, <1>5, <1>6

\* The claims are those set before, and those of the mappings that are not skipped; a claim
\* has the value of its mapping, or keeps the one set before.
LEMMA MapResult ==
    ASSUME NEW M, NEW ms \in Seq(M), NEW claims, Distinct(ms)
    PROVE  /\ \A c : c \in DOMAIN MapClaims(ms, claims) <=>
                  c \in DOMAIN claims \/ \E x : In(x, ms) /\ ~Skipped(x) /\ x.to = c
           /\ \A x : In(x, ms) /\ ~Skipped(x) => MapClaims(ms, claims)[x.to] = Evaluate(x.from)
           /\ \A c \in DOMAIN claims :
                  (\A x : In(x, ms) /\ x.to = c => Skipped(x)) =>
                      MapClaims(ms, claims)[c] = claims[c]
<1>1. PICK g : /\ g[0] = claims
               /\ \A n \in 1..Len(ms) : g[n] = MapOne(g[n - 1], ms[n])
               /\ MapClaims(ms, claims) = g[Len(ms)]
  BY MapInRounds
<1> DEFINE Good(n) ==
             /\ \A c : c \in DOMAIN g[n] <=>
                    c \in DOMAIN claims \/ \E j \in 1..n : ~Skipped(ms[j]) /\ ms[j].to = c
             /\ \A j \in 1..n : ~Skipped(ms[j]) => g[n][ms[j].to] = Evaluate(ms[j].from)
             /\ \A c \in DOMAIN claims :
                    (\A j \in 1..n : ms[j].to = c => Skipped(ms[j])) => g[n][c] = claims[c]
           S == {n \in Nat : n <= Len(ms) => Good(n)}
<1>2. 0 \in S
  <2>1. 1..0 = {}
    OBVIOUS
  <2>2. Good(0)
    BY <1>1, <2>1
  <2> QED
    BY <2>2
<1>3. ASSUME NEW n \in Nat, n \in S PROVE n + 1 \in S
  <2>1. SUFFICES ASSUME n + 1 <= Len(ms) PROVE Good(n + 1)
    OBVIOUS
  <2>2. Good(n) /\ n + 1 \in 1..Len(ms) /\ (n + 1) - 1 = n
    BY <1>3, <2>1
  <2> DEFINE m == ms[n + 1]
  <2>3. g[n + 1] = MapOne(g[n], m)
    BY <1>1, <2>2
  <2>4. (\A j \in 1..(n + 1) : j \in 1..n \/ j = n + 1) /\ n + 1 \in 1..(n + 1)
    OBVIOUS
  <2>5. \A j \in 1..n : j \in 1..(n + 1) /\ ms[j].to # m.to
    BY <2>2 DEF Distinct
  <2>6. CASE Skipped(m)
    <3>1. g[n + 1] = g[n]
      BY <2>3, <2>6 DEF MapOne
    <3>2. \A c : c \in DOMAIN g[n + 1] <=>
              c \in DOMAIN claims \/ \E j \in 1..(n + 1) : ~Skipped(ms[j]) /\ ms[j].to = c
      BY <2>2, <2>4, <2>5, <2>6, <3>1
    <3>3. \A j \in 1..(n + 1) : ~Skipped(ms[j]) => g[n + 1][ms[j].to] = Evaluate(ms[j].from)
      BY <2>2, <2>4, <2>5, <2>6, <3>1
    <3>4. \A c \in DOMAIN claims :
              (\A j \in 1..(n + 1) : ms[j].to = c => Skipped(ms[j])) => g[n + 1][c] = claims[c]
      BY <2>2, <2>4, <2>5, <2>6, <3>1
    <3> QED
      BY <3>2, <3>3, <3>4
  <2>7. CASE ~Skipped(m)
    <3>1. g[n + 1] = [k \in DOMAIN g[n] \cup {m.to} |->
                         IF k = m.to THEN Evaluate(m.from) ELSE g[n][k]]
      BY <2>3, <2>7 DEF MapOne
    <3>2. /\ DOMAIN g[n + 1] = DOMAIN g[n] \cup {m.to} /\ g[n + 1][m.to] = Evaluate(m.from)
          /\ \A k \in DOMAIN g[n] : k # m.to => g[n + 1][k] = g[n][k]
      BY <3>1
    <3>3. \A c : c \in DOMAIN g[n + 1] <=>
              c \in DOMAIN claims \/ \E j \in 1..(n + 1) : ~Skipped(ms[j]) /\ ms[j].to = c
      BY <2>2, <2>4, <2>5, <2>7, <3>2
    <3>4. \A j \in 1..(n + 1) : ~Skipped(ms[j]) => g[n + 1][ms[j].to] = Evaluate(ms[j].from)
      BY <2>2, <2>4, <2>5, <2>7, <3>2
    <3>5. \A c \in DOMAIN claims :
              (\A j \in 1..(n + 1) : ms[j].to = c => Skipped(ms[j])) => g[n + 1][c] = claims[c]
      BY <2>2, <2>4, <2>5, <2>7, <3>2
    <3> QED
      BY <3>3, <3>4, <3>5
  <2> QED
    BY <2>6, <2>7
<1>4. \A n \in Nat : n \in S
  <2> HIDE DEF S
  <2> QED
    BY <1>2, <1>3, Induction
<1>5. Good(Len(ms)) /\ g[Len(ms)] = MapClaims(ms, claims)
  BY <1>1, <1>4
<1>6. \A c : c \in DOMAIN MapClaims(ms, claims) <=>
                  c \in DOMAIN claims \/ \E x : In(x, ms) /\ ~Skipped(x) /\ x.to = c
  BY <1>5 DEF In
<1>7. \A x : In(x, ms) /\ ~Skipped(x) => MapClaims(ms, claims)[x.to] = Evaluate(x.from)
  BY <1>5 DEF In
<1>8. \A c \in DOMAIN claims :
                  (\A x : In(x, ms) /\ x.to = c => Skipped(x)) =>
                      MapClaims(ms, claims)[c] = claims[c]
  BY <1>5 DEF In
<1> QED
  BY <1>6, <1>7, <1>8

-----------------------------------------------------------------------------
(* Claims as configured *)

\* What validate_transfer_types asks of one transfer type.
ValidType(type) ==
    /\ ValidMappings(type.claim_mappings)
    /\ \A i \in DOMAIN type.endpoint_mappings :
           ValidMappings(type.endpoint_mappings[i].claim_mappings)

\* What validate_claim_mappings accepts.
LEMMA ValidIsDistinct ==
    ASSUME NEW ms, IsVec(ms), ValidMappings(ms)
    PROVE  /\ Distinct(ms)
           /\ \A x : In(x, ms) => x.to \notin Reserved /\ Evaluate(x.from) # "invalid"
<1>1. ms \in Seq(Range(ms)) /\ DOMAIN ms = 1..Len(ms) /\ Len(ms) \in Nat
  BY DEF IsVec
<1>2. \A i \in 1..Len(ms) : /\ ms[i].to \notin Reserved /\ Evaluate(ms[i].from) # "invalid"
                            /\ \A j \in 1..(i - 1) : ms[j].to # ms[i].to
  BY <1>1 DEF ValidMappings
<1>3. Distinct(ms)
  <2>1. SUFFICES ASSUME NEW i \in 1..Len(ms), NEW j \in 1..Len(ms), ms[i].to = ms[j].to
                 PROVE  i = j
    BY DEF Distinct
  <2>2. ~(i < j) /\ ~(j < i)
    BY <1>1, <1>2, <2>1
  <2> QED
    BY <1>1, <2>2
<1> QED
  BY <1>2, <1>3 DEF In

\* resolve_endpoint finds a mapping of the list.
LEMMA MatchesIsIndex ==
    ASSUME NEW type, NEW f, IsVec(type.endpoint_mappings), type.endpoint_mappings # <<>>,
           EndpointResolves(type, f)
    PROVE  Matches(type, f) \in DOMAIN type.endpoint_mappings
<1> DEFINE I == {i \in 1..Len(type.endpoint_mappings) :
                    type.endpoint_mappings[i].value = metadata[f]}
<1>1. Matches(type, f) = IF I # {} THEN Min(I) ELSE 0
  BY DEF Matches, SelectInSeq
<1>2. I # {}
  BY <1>1 DEF EndpointResolves
<1>3. I \in SUBSET Nat /\ I \in SUBSET DOMAIN type.endpoint_mappings
  BY DEF IsVec
<1> HIDE DEF I
<1> QED
  BY <1>1, <1>2, <1>3, MinIsFirst

\* Of valid lists the merged one is valid, and has for each claim exactly the mapping that
\* decides it.
LEMMA MergedDecides ==
    ASSUME NEW type, NEW f, IsTransferType(type), ValidType(type), EndpointResolves(type, f)
    PROVE  /\ \E M : MergedMappings(type, f) \in Seq(M)
           /\ Distinct(MergedMappings(type, f))
           /\ \A x : In(x, MergedMappings(type, f)) =>
                  x.to \notin Reserved /\ Evaluate(x.from) # "invalid"
           /\ \A x, c : In(x, MergedMappings(type, f)) /\ x.to = c <=> x \in Deciding(type, f, c)
<1> DEFINE root == type.claim_mappings
           ms == type.endpoint_mappings[Matches(type, f)].claim_mappings
<1>1. /\ IsVec(root) /\ Distinct(root)
      /\ \A x : In(x, root) => x.to \notin Reserved /\ Evaluate(x.from) # "invalid"
  BY ValidIsDistinct DEF IsTransferType, ValidType
<1>2. \A s : IsVec(s) => s \in Seq(Range(s)) /\ DOMAIN s = 1..Len(s)
  BY DEF IsVec
<1>3. \A s, c : IsVec(s) => \A x : In(x, s) /\ x.to = c <=>
                                   x \in {m \in {s[i] : i \in DOMAIN s} : m.to = c}
  BY <1>2 DEF In
<1>4. CASE type.endpoint_mappings = <<>>
  <2>1. MergedMappings(type, f) = root
    BY <1>4 DEF MergedMappings
  <2>2. \A c : Deciding(type, f, c) = {m \in {root[i] : i \in DOMAIN root} : m.to = c}
    BY <1>4 DEF Deciding
  <2> HIDE DEF root
  <2>3. \A x, c : In(x, root) /\ x.to = c <=> x \in Deciding(type, f, c)
    BY <1>1, <1>3, <2>2
  <2> QED
    BY <1>1, <1>2, <2>1, <2>3
<1>5. CASE type.endpoint_mappings # <<>>
  <2>1. /\ IsVec(ms) /\ Distinct(ms)
        /\ \A x : In(x, ms) => x.to \notin Reserved /\ Evaluate(x.from) # "invalid"
    <3>1. Matches(type, f) \in DOMAIN type.endpoint_mappings
      BY <1>5, MatchesIsIndex DEF IsTransferType
    <3>2. IsVec(ms) /\ ValidMappings(ms)
      BY <3>1 DEF IsTransferType, ValidType
    <3> HIDE DEF ms
    <3> QED
      BY <3>2, ValidIsDistinct
  <2>2. MergedMappings(type, f) = merge_claim_mappings(root, ms)
    BY <1>5 DEF MergedMappings
  <2> DEFINE Entries(s, c) == {m \in {s[i] : i \in DOMAIN s} : m.to = c}
  <2>3. \A c : Deciding(type, f, c) = IF Entries(ms, c) # {} THEN Entries(ms, c)
                                                             ELSE Entries(root, c)
    BY <1>5 DEF Deciding
  <2> HIDE DEF root, ms
  <2> DEFINE M == Range(root) \cup Range(ms)
  <2>4. root \in Seq(M) /\ ms \in Seq(M)
    <3>1. root \in Seq(Range(root)) /\ ms \in Seq(Range(ms))
      BY <1>1, <1>2, <2>1
    <3> QED
      BY <3>1
  <2>5. /\ merge_claim_mappings(root, ms) \in Seq(M)
        /\ Distinct(merge_claim_mappings(root, ms))
        /\ \A x : In(x, merge_claim_mappings(root, ms)) <=>
                  \/ In(x, ms)
                  \/ In(x, root) /\ \A y : In(y, ms) => y.to # x.to
    BY <1>1, <2>1, <2>4, MergeResult
  <2>6. \A x, c : In(x, merge_claim_mappings(root, ms)) /\ x.to = c <=> x \in Deciding(type, f, c)
    <3> TAKE x, c
    <3>1. \A y : In(y, ms) /\ y.to = c <=> y \in Entries(ms, c)
      BY <1>3, <2>1
    <3>2. \A y : In(y, root) /\ y.to = c <=> y \in Entries(root, c)
      BY <1>3, <1>1
    <3>3. Deciding(type, f, c) = IF Entries(ms, c) # {} THEN Entries(ms, c) ELSE Entries(root, c)
      BY <2>3
    <3> HIDE DEF Entries
    <3> QED
      BY <2>5, <3>1, <3>2, <3>3
  <2> HIDE DEF M
  <2> QED
    BY <1>1, <2>1, <2>2, <2>5, <2>6
<1> QED
  BY <1>4, <1>5

\* ClaimsAsConfigured of one token.
ClaimsSound(pl, f, type, claims) ==
    \A claim \in DOMAIN claims \cup FlowClaims : AsConfigured(pl, f, type, claims, claim)

\* What generate_token hands to the token manager, for a valid transfer type whose endpoint
\* resolves: claims as configured, none of them reserved, no expression that does not compile.
LEMMA ClaimsForSound ==
    ASSUME NEW pl, NEW type, NEW f, IsTransferType(type), ValidType(type),
           EndpointResolves(type, f)
    PROVE  /\ ClaimsSound(pl, f, type, ClaimsFor(pl, f, type))
           /\ ~ReservedClaims(pl, f, type)
           /\ \A i \in DOMAIN MergedMappings(type, f) :
                   Evaluate(MergedMappings(type, f)[i].from) # "invalid"
<1> DEFINE ms == MergedMappings(type, f)
           own == [c \in IF RequiredSource(pl) = "provider" THEN FlowClaims ELSE {} |-> "flow"]
           claims == ClaimsFor(pl, f, type)
<1>1. PICK M : ms \in Seq(M)
  BY MergedDecides
<1>2. /\ Distinct(ms)
      /\ \A x : In(x, ms) => x.to \notin Reserved /\ Evaluate(x.from) # "invalid"
      /\ \A x, c : In(x, ms) /\ x.to = c <=> x \in Deciding(type, f, c)
  BY MergedDecides
<1>3. claims = MapClaims(ms, own)
  BY DEF ClaimsFor
<1>4. /\ \A c \in DOMAIN own : c \in FlowClaims /\ own[c] = "flow" /\ pl = "provider"
      /\ pl = "provider" => DOMAIN own = FlowClaims
  BY DEF RequiredSource
<1>5. \A c \in FlowClaims : c \notin Reserved
  BY DEF FlowClaims, Reserved
<1> HIDE DEF ms, own, claims
<1>6. /\ \A c : c \in DOMAIN claims <=>
                  c \in DOMAIN own \/ \E x : In(x, ms) /\ ~Skipped(x) /\ x.to = c
      /\ \A x : In(x, ms) /\ ~Skipped(x) => claims[x.to] = Evaluate(x.from)
      /\ \A c \in DOMAIN own :
                  (\A x : In(x, ms) /\ x.to = c => Skipped(x)) => claims[c] = own[c]
  BY <1>1, <1>2, <1>3, MapResult
<1>7. ClaimsSound(pl, f, type, claims)
  <2>1. SUFFICES ASSUME NEW claim \in DOMAIN claims \cup FlowClaims
                 PROVE  AsConfigured(pl, f, type, claims, claim)
    BY DEF ClaimsSound
  <2>2. CASE \E m \in Deciding(type, f, claim) : ~Skipped(m)
    BY <1>2, <1>6, <2>2 DEF AsConfigured
  <2>3. CASE \A m \in Deciding(type, f, claim) : Skipped(m)
    <3>1. \A x : In(x, ms) /\ x.to = claim => Skipped(x)
      BY <1>2, <2>3
    <3>2. claim \in DOMAIN claims <=> claim \in DOMAIN own
      BY <1>6, <3>1
    <3>3. pl = "provider" => claim \in DOMAIN claims /\ claims[claim] = "flow"
      BY <1>4, <1>6, <3>1, <3>2
    <3>4. pl # "provider" => claim \notin DOMAIN claims
      BY <1>4, <3>2
    <3> QED
      BY <2>3, <3>3, <3>4 DEF AsConfigured
  <2> QED
    BY <2>2, <2>3
<1>8. \A c \in DOMAIN claims : c \notin Reserved
  BY <1>2, <1>4, <1>5, <1>6
<1>9. \A i \in DOMAIN ms : Evaluate(ms[i].from) # "invalid"
  BY <1>1, <1>2 DEF In
<1> QED
  BY <1>7, <1>8, <1>9 DEF ms, claims, ReservedClaims

\* The repository has what the management API validated; an event that issues, and every
\* token saved, has the claims of one reading.
StoredValid ==
    /\ DOMAIN stored = Planes
    /\ \A pl \in Planes : stored[pl] # NoMapping =>
           stored[pl] \in Submissions[pl] /\ validate_transfer_types(stored[pl])
EventsSound ==
    \A pl \in Planes, f \in Flows : event[pl][f].kind = "issue" =>
        ClaimsSound(pl, f, event[pl][f].type, event[pl][f].claims)
RowsSound == \A r \in rows : ClaimsSound(r.plane, r.flow, r.type, r.claims)
MappingInv == EventShaped /\ StoredValid /\ EventsSound /\ RowsSound

\* The transfer type that is read, stored or configured, has been validated.
LEMMA ResolvedIsValid ==
    ASSUME StoredValid, NEW pl \in Planes, NEW f, ResolveTransferType(pl, f) # NoType
    PROVE  IsTransferType(ResolveTransferType(pl, f)) /\ ValidType(ResolveTransferType(pl, f))
<1>1. \A types : validate_transfer_types(types) =>
                     \A p \in DOMAIN types : ValidType(types[p])
  BY DEF validate_transfer_types, ValidType
<1>2. validate_transfer_types(transfer_type_mappings[pl])
  BY ConfigAssumption DEF ValidTransferTypes
<1>3. \E types \in Submissions[pl] \cup {transfer_type_mappings[pl]} :
         /\ validate_transfer_types(types) /\ profile[f] \in DOMAIN types
         /\ ResolveTransferType(pl, f) = types[profile[f]]
  BY <1>2 DEF ResolveTransferType, Lookup, StoredValid
<1> QED
  BY <1>1, <1>3, TypesAssumption

\* Nothing is stored, under way or saved.
LEMMA MappingInit == FlowInit => MappingInv
BY DEF FlowInit, MappingInv, EventShaped, StoredValid, EventsSound, RowsSound, Idle, Event

\* An event that begins or ends, with claims as configured if it issues.
LEMMA MappingStep ==
    ASSUME MappingInv, NEW pl \in Planes, NEW f \in Flows, NEW v,
           event' = [event EXCEPT ![pl][f] = v],
           v.kind = "issue" => ClaimsSound(pl, f, v.type, v.claims),
           stored' = stored
    PROVE  EventShaped' /\ StoredValid' /\ EventsSound'
<1>1. EventShaped' /\ StoredValid'
  BY DEF MappingInv, EventShaped, StoredValid
<1>2. ASSUME NEW q \in Planes, NEW e \in Flows, event'[q][e].kind = "issue"
      PROVE  ClaimsSound(q, e, event'[q][e].type, event'[q][e].claims)
  <2>1. CASE q = pl /\ e = f
    <3>1. event'[q][e] = v
      BY <2>1 DEF MappingInv, EventShaped
    <3> QED
      BY <1>2, <2>1, <3>1
  <2>2. CASE q # pl \/ e # f
    <3>1. event'[q][e] = event[q][e]
      BY <2>2 DEF MappingInv, EventShaped
    <3> QED
      BY <1>2, <3>1 DEF MappingInv, EventsSound
  <2> QED
    BY <2>1, <2>2
<1> QED
  BY <1>1, <1>2 DEF EventsSound

\* The row that generate_pair saves has the claims of its event.
LEMMA MappingIssue ==
    ASSUME MappingInv, NEW pl \in Planes, NEW f \in Flows,
           Issue(pl, f) \/ IssueAckLost(pl, f)
    PROVE  MappingInv'
<1> DEFINE t == NewToken(pl, f)
<1>1. event[pl][f].kind = "issue" /\ rows' = rows \cup {t} /\ stored' = stored
  BY DEF Issue, IssueAckLost
<1>2. event' = [event EXCEPT ![pl][f] = Event("none")]
  BY DEF Issue, IssueAckLost, EventOver, SetEvent
<1>3. Event("none").kind # "issue"
  BY DEF Event
<1>4. EventShaped' /\ StoredValid' /\ EventsSound'
  BY <1>1, <1>2, <1>3, MappingStep
<1>5. ClaimsSound(t.plane, t.flow, t.type, t.claims)
  <2>1. t.plane = pl /\ t.flow = f /\ t.type = event[pl][f].type /\ t.claims = event[pl][f].claims
    BY DEF NewToken
  <2> HIDE DEF t
  <2> QED
    BY <1>1, <2>1 DEF MappingInv, EventsSound
<1> HIDE DEF t
<1> QED
  BY <1>1, <1>4, <1>5 DEF MappingInv, RowsSound

\* Every step keeps the invariant; the management API replaces valid mappings by valid ones.
LEMMA MappingNext == MappingInv /\ [FlowNext]_flowVars => MappingInv'
<1> SUFFICES ASSUME MappingInv, [FlowNext]_flowVars PROVE MappingInv'
  OBVIOUS
<1> DEFINE Fewer == rows' \subseteq rows
<1>1. ASSUME UNCHANGED <<stored, event>>, Fewer PROVE MappingInv'
  BY <1>1 DEF MappingInv, EventShaped, StoredValid, EventsSound, RowsSound
<1>2. ASSUME NEW pl \in Planes, NEW f \in Flows, NEW k, k # "issue",
             event' = [event EXCEPT ![pl][f] = Event(k)], stored' = stored, Fewer
      PROVE  MappingInv'
  <2>1. Event(k).kind # "issue"
    BY <1>2 DEF Event
  <2>2. EventShaped' /\ StoredValid' /\ EventsSound'
    BY <1>2, <2>1, MappingStep
  <2> QED
    BY <1>2, <2>2 DEF MappingInv, RowsSound
<1>3. ASSUME NEW pl \in Planes, UNCHANGED <<event, rows>>,
             NEW types, stored' = [stored EXCEPT ![pl] = types],
             types # NoMapping => types \in Submissions[pl] /\ validate_transfer_types(types)
      PROVE  MappingInv'
  <2>1. StoredValid'
    BY <1>3 DEF MappingInv, StoredValid
  <2> QED
    BY <1>3, <2>1 DEF MappingInv, EventShaped, EventsSound, RowsSound
<1>4. ASSUME NEW pl \in Planes, NEW f \in Flows, BeginIssue(pl, f) PROVE MappingInv'
  <2> DEFINE type == ResolveTransferType(pl, f)
             v == [kind |-> "issue", type |-> type, claims |-> ClaimsFor(pl, f, type)]
  <2>1. /\ type # NoType /\ EndpointResolves(type, f)
        /\ event' = [event EXCEPT ![pl][f] = v] /\ UNCHANGED <<stored, rows>>
    BY <1>4, Zenon DEF BeginIssue, Accepts
  <2>2. v.type = type /\ v.claims = ClaimsFor(pl, f, type)
    OBVIOUS
  <2>3. IsTransferType(type) /\ ValidType(type)
    BY <2>1, ResolvedIsValid DEF MappingInv
  <2> HIDE DEF type
  <2>4. ClaimsSound(pl, f, v.type, v.claims)
    BY <2>1, <2>2, <2>3, ClaimsForSound, Zenon
  <2> HIDE DEF v
  <2>5. EventShaped' /\ StoredValid' /\ EventsSound'
    BY <2>1, <2>4, MappingStep
  <2> QED
    BY <2>1, <2>5 DEF MappingInv, RowsSound
<1>5. CASE UNCHANGED flowVars
  BY <1>1, <1>5 DEF flowVars
<1>6. ASSUME NEW pl \in Planes,
             \/ DeleteTransferTypeMapping(pl)
             \/ \E types \in Submissions[pl] :
                  CreateTransferTypeMapping(pl, types) \/ UpdateTransferTypeMapping(pl, types)
      PROVE  MappingInv'
  BY <1>3, <1>6 DEF DeleteTransferTypeMapping, CreateTransferTypeMapping,
       UpdateTransferTypeMapping, DeleteMapping, CreateMapping, UpdateMapping
<1>7. ASSUME NEW pl \in Planes, NEW f \in Flows, NotTheSource(pl, f) \/ FlowFails(pl, f)
      PROVE  MappingInv'
  BY <1>1, <1>7 DEF NotTheSource, FlowFails, flowVars
<1>8. ASSUME NEW pl \in Planes, NEW f \in Flows, CleanupStep(pl, f) \/ EventFails(pl, f)
      PROVE  MappingInv'
  <2>1. \E k : k # "issue" /\ event' = [event EXCEPT ![pl][f] = Event(k)]
    BY <1>8 DEF CleanupStep, EventFails, BeginCleanup, RevokeTokens, RemoveCached, FlowEnds,
         EventOver, SetEvent
  <2>2. stored' = stored /\ Fewer
    BY <1>8 DEF CleanupStep, EventFails, BeginCleanup, RevokeTokens, RemoveCached
  <2> QED
    BY <1>2, <2>1, <2>2
<1>9. ASSUME NEW f \in Flows,
             \/ OnStarted(f) \/ StartedAckLost(f) \/ StartedLost(f) \/ WantTerminated(f)
             \/ RefreshReads(f) \/ RefreshWrites(f)
      PROVE  MappingInv'
  BY <1>1, <1>9 DEF OnStarted, StartedAckLost, StartedLost, WantTerminated, RefreshReads,
                    RefreshWrites
<1> QED
  BY <1>4, <1>5, <1>6, <1>7, <1>8, <1>9, MappingIssue DEF FlowNext

\* The mappings in use are valid, and the claims of all tokens as configured.
THEOREM MappingInvariant == FlowSpec => []MappingInv
BY MappingInit, MappingNext, PTL DEF FlowSpec

\* BackstopNeverFires, for any mappings and any endpoint that matches: validation of the
\* separate lists is enough, the token manager never refuses what they are merged into.
THEOREM MergedMappingsAccepted == FlowSpec => []BackstopNeverFires
<1>1. MappingInv => BackstopNeverFires
  BY ResolvedIsValid, ClaimsForSound DEF MappingInv, BackstopNeverFires
<1> QED
  BY <1>1, MappingInvariant, PTL

\* ClaimsAsConfigured, for lists of any length: replacing in place and mapping in order give
\* each claim the value of the mapping that decides it, however the mappings change.
THEOREM TokensCarryConfiguredClaims == FlowSpec => []ClaimsAsConfigured
<1>1. MappingInv => ClaimsAsConfigured
  BY DEF MappingInv, RowsSound, ClaimsSound, ClaimsAsConfigured
<1> QED
  BY <1>1, MappingInvariant, PTL

-----------------------------------------------------------------------------
(* Types of the handler *)

FlowStates == {"none", "prepared", "started", "suspended", "terminated"}
EventKinds == {"none", "issue", "suspend", "terminate", "suspend_remove", "terminate_remove"}

\* What any step may do to each variable: one flow on one plane changes, and a token comes to
\* the cache from the address or from a refresh, and to the address when it is delivered.
EventStep ==
    event' = event \/ \E pl \in Planes, f \in Flows : \E v :
        event' = [event EXCEPT ![pl][f] = v] /\ v.kind \in EventKinds
StateStep ==
    state' = state \/ \E pl \in Planes, f \in Flows, s \in FlowStates :
        state' = [state EXCEPT ![pl][f] = s]
CacheStep ==
    cached' = cached \/ \E pl \in Planes, f \in Flows : \E v :
        /\ cached' = [cached EXCEPT ![pl][f] = v]
        /\ v = NoToken \/ \E e \in Flows : v \in {address[e].token, refresh[e]}
RefreshStep ==
    refresh' = refresh \/ \E f \in Flows : \E v :
        /\ refresh' = [refresh EXCEPT ![f] = v]
        /\ v = NoToken \/ v = cached["consumer"][f]
AddressStep ==
    address' = address \/ \E f \in Flows : \E v :
        /\ address' = [address EXCEPT ![f] = v]
        /\ v.token = NoToken \/ v.token \in delivered'
ScalarStep ==
    /\ backend' = backend /\ delivered \subseteq delivered' /\ RefreshStep
    /\ astray' \subseteq astray \/ \E f \in Flows : astray' = astray \cup {f}
    /\ wanted' = wanted \/ \E f \in Flows : wanted' = wanted \cup {f}
    /\ faults' = faults \/ (faults < MaxFaults /\ faults' = faults + 1)

\* Respond: the state, and for a provider the address.
LEMMA RespondShape ==
    ASSUME NEW pl \in Planes, NEW f \in Flows, NEW tx, NEW t,
           t = NoToken \/ t \in delivered', Respond(pl, f, tx, t)
    PROVE  StateStep /\ AddressStep
<1>1. StateStep
  BY DEF Respond, SetState, StateStep, FlowStates
<1>2. AddressStep
  <2> DEFINE v == [sent |-> TRUE, tx |-> tx, token |-> t]
  <2>1. address' = address \/ address' = [address EXCEPT ![f] = v]
    BY DEF Respond
  <2>2. v.token = t
    OBVIOUS
  <2> HIDE DEF v
  <2> QED
    BY <2>1, <2>2 DEF AddressStep
<1> QED
  BY <1>1, <1>2

\* The steps of handle_flow.
LEMMA BeginShape ==
    ASSUME NEW pl \in Planes, NEW f \in Flows,
           NotTheSource(pl, f) \/ BeginIssue(pl, f) \/ Issue(pl, f) \/ IssueAckLost(pl, f)
    PROVE  EventStep /\ StateStep /\ CacheStep /\ AddressStep /\ ScalarStep
<1>1. CASE NotTheSource(pl, f)
  <2>1. StateStep /\ AddressStep
    BY <1>1, RespondShape DEF NotTheSource
  <2>2. EventStep /\ CacheStep /\ ScalarStep
    BY <1>1 DEF NotTheSource, EventStep, CacheStep, ScalarStep, RefreshStep
  <2> QED
    BY <2>1, <2>2
<1>2. CASE BeginIssue(pl, f)
  <2> DEFINE v == [kind |-> "issue", type |-> ResolveTransferType(pl, f),
                   claims |-> ClaimsFor(pl, f, ResolveTransferType(pl, f))]
  <2>1. event' = [event EXCEPT ![pl][f] = v]
    BY <1>2, Zenon DEF BeginIssue
  <2>2. v.kind \in EventKinds
    BY DEF EventKinds
  <2> HIDE DEF v
  <2>3. EventStep
    BY <2>1, <2>2 DEF EventStep
  <2>4. StateStep /\ CacheStep /\ AddressStep /\ ScalarStep
    BY <1>2 DEF BeginIssue, StateStep, CacheStep, AddressStep, ScalarStep, RefreshStep
  <2> QED
    BY <2>3, <2>4
<1>3. CASE Issue(pl, f) \/ IssueAckLost(pl, f)
  <2>1. EventStep
    <3>1. event' = [event EXCEPT ![pl][f] = Event("none")]
      BY <1>3 DEF Issue, IssueAckLost, EventOver, SetEvent
    <3>2. Event("none").kind \in EventKinds
      BY DEF Event, EventKinds
    <3> QED
      BY <3>1, <3>2 DEF EventStep
  <2>2. CacheStep /\ ScalarStep
    BY <1>3 DEF Issue, IssueAckLost, CacheStep, ScalarStep, RefreshStep, Fault
  <2>3. StateStep /\ AddressStep
    <3>1. CASE Issue(pl, f)
      <4> DEFINE t == NewToken(pl, f)
      <4>1. t \in delivered' /\ Respond(pl, f, t.type.tx_renewal_support, t)
        BY <3>1 DEF Issue
      <4> HIDE DEF t
      <4> QED
        BY <4>1, RespondShape
    <3>2. CASE IssueAckLost(pl, f)
      BY <3>2 DEF IssueAckLost, StateStep, AddressStep
    <3> QED
      BY <1>3, <3>1, <3>2
  <2> QED
    BY <2>1, <2>2, <2>3
<1> QED
  BY <1>1, <1>2, <1>3

\* The steps of clean-up and the failure of an event.
LEMMA CleanupShape ==
    ASSUME NEW pl \in Planes, NEW f \in Flows, CleanupStep(pl, f) \/ EventFails(pl, f)
    PROVE  /\ EventStep /\ StateStep /\ CacheStep /\ AddressStep /\ ScalarStep
           /\ delivered' = delivered /\ unknown' = unknown
           /\ \E k \in EventKinds : k # "issue" /\ event' = [event EXCEPT ![pl][f] = Event(k)]
<1>1. /\ UNCHANGED <<address, wanted, backend, delivered, unknown>>
      /\ faults' = faults \/ (faults < MaxFaults /\ faults' = faults + 1)
      /\ refresh' = refresh /\ astray' \subseteq astray
  BY DEF CleanupStep, BeginCleanup, RevokeTokens, RemoveCached, EventFails, Fault, Tidy
<1>2. \E k \in EventKinds : k # "issue" /\ event' = [event EXCEPT ![pl][f] = Event(k)]
  BY DEF CleanupStep, BeginCleanup, RevokeTokens, RemoveCached, EventFails, FlowEnds, EventOver,
         SetEvent, EventKinds
<1>3. \A k : Event(k).kind = k
  BY DEF Event
<1>4. EventStep
  <2>1. PICK k \in EventKinds : event' = [event EXCEPT ![pl][f] = Event(k)]
    BY <1>2
  <2>2. Event(k).kind \in EventKinds
    BY <1>3
  <2> QED
    BY <2>1, <2>2 DEF EventStep
<1>5. StateStep
  BY DEF CleanupStep, BeginCleanup, RevokeTokens, RemoveCached, EventFails, FlowEnds, SetState,
         StateStep, FlowStates
<1>6. CacheStep
  BY DEF CleanupStep, BeginCleanup, RevokeTokens, RemoveCached, EventFails, CacheStep
<1> QED
  BY <1>1, <1>2, <1>4, <1>5, <1>6 DEF AddressStep, ScalarStep, RefreshStep

\* The consumer is notified, or not, and the control plane decides.
LEMMA StartedShape ==
    ASSUME NEW f \in Flows,
           \/ OnStarted(f) \/ StartedAckLost(f) \/ StartedLost(f) \/ WantTerminated(f)
           \/ RefreshReads(f) \/ RefreshWrites(f)
    PROVE  EventStep /\ StateStep /\ CacheStep /\ AddressStep /\ ScalarStep
<1>1. EventStep /\ ScalarStep
  <2>1. EventStep /\ RefreshStep
    BY DEF OnStarted, StartedAckLost, StartedLost, WantTerminated, RefreshReads, RefreshWrites,
           EventStep, RefreshStep
  <2>2. astray' \subseteq astray \/ \E e \in Flows : astray' = astray \cup {e}
    BY DEF OnStarted, StartedAckLost, StartedLost, WantTerminated, RefreshReads, RefreshWrites
  <2> QED
    BY <2>1, <2>2 DEF OnStarted, StartedAckLost, StartedLost, WantTerminated, RefreshReads,
                      RefreshWrites, ScalarStep, Fault
<1>2. StateStep
  <2>1. "consumer" \in Planes /\ "started" \in FlowStates
    BY DEF Planes, FlowStates
  <2> QED
    BY <2>1 DEF OnStarted, StartedAckLost, StartedLost, WantTerminated, RefreshReads,
                 RefreshWrites, StateStep, SetState
<1>3. CacheStep
  <2>1. "consumer" \in Planes
    BY DEF Planes
  <2> QED
    BY <2>1 DEF OnStarted, StartedAckLost, StartedLost, WantTerminated, RefreshReads,
                 RefreshWrites, CacheStep
<1>4. AddressStep
  <2>1. NotSent.token = NoToken
    BY DEF NotSent
  <2> QED
    BY <2>1 DEF OnStarted, StartedAckLost, StartedLost, WantTerminated, RefreshReads,
                 RefreshWrites, AddressStep
<1> QED
  BY <1>1, <1>2, <1>3, <1>4

\* Every step has this shape.
LEMMA StepShape ==
    ASSUME [FlowNext]_flowVars
    PROVE  EventStep /\ StateStep /\ CacheStep /\ AddressStep /\ ScalarStep
<1>1. CASE UNCHANGED flowVars
  BY <1>1 DEF flowVars, EventStep, StateStep, CacheStep, AddressStep, ScalarStep,
       RefreshStep
<1>2. ASSUME NEW pl \in Planes,
             \/ DeleteTransferTypeMapping(pl)
             \/ \E types \in Submissions[pl] :
                  CreateTransferTypeMapping(pl, types) \/ UpdateTransferTypeMapping(pl, types)
      PROVE  EventStep /\ StateStep /\ CacheStep /\ AddressStep /\ ScalarStep
  BY <1>2 DEF DeleteTransferTypeMapping, CreateTransferTypeMapping, UpdateTransferTypeMapping,
       EventStep, StateStep, CacheStep, AddressStep, ScalarStep, RefreshStep
<1>3. ASSUME NEW pl \in Planes, NEW f \in Flows, FlowFails(pl, f)
      PROVE  UNCHANGED flowVars
  BY <1>3 DEF FlowFails
<1> QED
  BY <1>1, <1>2, <1>3, BeginShape, CleanupShape, StartedShape DEF FlowNext

\* The values of the variables; tokens held or on their way were delivered.
StatesTyped == \A pl \in Planes, f \in Flows : state[pl][f] \in FlowStates
EventsTyped == \A pl \in Planes, f \in Flows : event[pl][f].kind \in EventKinds
TokensKnown ==
    /\ DOMAIN address = Flows
    /\ \A f \in Flows : address[f].token \in delivered \cup {NoToken}
    /\ \A pl \in Planes, f \in Flows : cached[pl][f] \in delivered \cup {NoToken}
    /\ DOMAIN refresh = Flows
    /\ \A f \in Flows : refresh[f] \in delivered \cup {NoToken}
ScalarsTyped ==
    backend \in Backends /\ wanted \subseteq Flows /\ astray \subseteq Flows /\ faults \in 0..MaxFaults

\* Tokens are numbered as they are saved, so none is saved twice, and those saved or being
\* issued stay within the bound.
Numbered ==
    /\ IsFiniteSet(delivered) /\ IsFiniteSet(unknown) /\ IsFiniteSet(Issuing)
    /\ delivered \cap unknown = {}
    /\ \A t \in delivered \cup unknown : t.id \in 1..Cardinality(delivered \cup unknown)
    /\ Cardinality(delivered \cup unknown) + Cardinality(Issuing) <= MaxTokens

FlowTyped == StatesTyped /\ EventsTyped /\ TokensKnown /\ ScalarsTyped /\ Numbered

\* Initially nothing is there.
LEMMA FlowTypedInit == FlowInit => FlowTyped
<1> SUFFICES ASSUME FlowInit PROVE FlowTyped
  OBVIOUS
<1>1. StatesTyped /\ EventsTyped /\ TokensKnown
  BY DEF FlowInit, StatesTyped, EventsTyped, TokensKnown, FlowStates, EventKinds, Idle, Event, NotSent
<1>2. ScalarsTyped
  BY FlowAssumption DEF FlowInit, ScalarsTyped
<1>3. Issuing = {} /\ delivered = {} /\ unknown = {}
  BY DEF FlowInit, Issuing, Idle, Event
<1>4. Cardinality({}) = 0 /\ IsFiniteSet({})
  BY FS_EmptySet
<1>5. Numbered
  BY <1>3, <1>4, FlowAssumption DEF Numbered
<1> QED
  BY <1>1, <1>2, <1>5 DEF FlowTyped

\* Values stay what they are.
LEMMA ValuesStep ==
    ASSUME FlowInv, FlowTyped, [FlowNext]_flowVars
    PROVE  StatesTyped' /\ EventsTyped' /\ TokensKnown' /\ ScalarsTyped'
<1>0. EventStep /\ StateStep /\ CacheStep /\ AddressStep /\ ScalarStep
  BY StepShape
<1>1. StatesTyped'
  BY <1>0 DEF StateStep, StatesTyped, FlowTyped, FlowInv, StateShaped
<1>2. EventsTyped'
  <2>1. ASSUME NEW q \in Planes, NEW e \in Flows, NEW v, v.kind \in EventKinds,
               event' = [event EXCEPT ![q][e] = v]
        PROVE  EventsTyped'
    <3>1. ASSUME NEW pl \in Planes, NEW f \in Flows
          PROVE  event'[pl][f] = v \/ event'[pl][f] = event[pl][f]
      BY <2>1 DEF FlowInv, EventShaped
    <3> QED
      BY <2>1, <3>1 DEF EventsTyped, FlowTyped
  <2>2. CASE event' = event
    BY <2>2 DEF EventsTyped, FlowTyped
  <2> QED
    BY <1>0, <2>1, <2>2 DEF EventStep
<1>3. TokensKnown'
  <2>1. DOMAIN address' = Flows
    BY <1>0 DEF AddressStep, TokensKnown, FlowTyped
  <2>2. ASSUME NEW f \in Flows PROVE address'[f].token \in delivered' \cup {NoToken}
    <3>1. CASE address' = address
      BY <1>0, <3>1 DEF TokensKnown, FlowTyped, ScalarStep
    <3>2. ASSUME NEW e \in Flows, NEW v, address' = [address EXCEPT ![e] = v],
                 v.token = NoToken \/ v.token \in delivered'
          PROVE  address'[f].token \in delivered' \cup {NoToken}
      <4>1. address'[f] = v \/ address'[f] = address[f]
        BY <3>2 DEF TokensKnown, FlowTyped
      <4> QED
        BY <1>0, <3>2, <4>1 DEF TokensKnown, FlowTyped, ScalarStep
    <3> QED
      BY <1>0, <3>1, <3>2 DEF AddressStep
  <2>3. ASSUME NEW pl \in Planes, NEW f \in Flows
        PROVE  cached'[pl][f] \in delivered' \cup {NoToken}
    <3>1. CASE cached' = cached
      BY <1>0, <3>1 DEF TokensKnown, FlowTyped, ScalarStep
    <3>2. ASSUME NEW q \in Planes, NEW e \in Flows, NEW v,
                 cached' = [cached EXCEPT ![q][e] = v],
                 v = NoToken \/ \E d \in Flows : v \in {address[d].token, refresh[d]}
          PROVE  cached'[pl][f] \in delivered' \cup {NoToken}
      <4>1. cached'[pl][f] = v \/ cached'[pl][f] = cached[pl][f]
        BY <3>2 DEF FlowInv, CacheShaped
      <4>2. v \in delivered \cup {NoToken} /\ cached[pl][f] \in delivered \cup {NoToken}
        BY <3>2 DEF TokensKnown, FlowTyped
      <4> QED
        BY <1>0, <4>1, <4>2 DEF ScalarStep
    <3> QED
      BY <1>0, <3>1, <3>2 DEF CacheStep
  <2>4. DOMAIN refresh' = Flows /\ \A f \in Flows : refresh'[f] \in delivered' \cup {NoToken}
    <3>1. "consumer" \in Planes /\ delivered \subseteq delivered'
      BY <1>0 DEF Planes, ScalarStep
    <3>2. CASE refresh' = refresh
      BY <3>1, <3>2 DEF TokensKnown, FlowTyped
    <3>3. ASSUME NEW e \in Flows, NEW v, refresh' = [refresh EXCEPT ![e] = v],
                 v = NoToken \/ v = cached["consumer"][e]
          PROVE  DOMAIN refresh' = Flows /\ \A f \in Flows : refresh'[f] \in delivered' \cup {NoToken}
      <4>1. v \in delivered' \cup {NoToken}
        BY <3>1, <3>3 DEF TokensKnown, FlowTyped
      <4> QED
        BY <3>1, <3>3, <4>1 DEF TokensKnown, FlowTyped
    <3> QED
      BY <1>0, <3>2, <3>3 DEF ScalarStep, RefreshStep
  <2> QED
    BY <2>1, <2>2, <2>3, <2>4 DEF TokensKnown
<1>4. ScalarsTyped'
  BY <1>0, FlowAssumption DEF ScalarStep, ScalarsTyped, FlowTyped
<1> QED
  BY <1>1, <1>2, <1>3, <1>4

\* Which events issue after a step of one event.
LEMMA IssuingStep ==
    ASSUME FlowInv, NEW pl \in Planes, NEW f \in Flows, NEW v,
           event' = [event EXCEPT ![pl][f] = v]
    PROVE  /\ v.kind = "issue" => Issuing' = Issuing \cup {<<pl, f>>}
           /\ v.kind # "issue" => Issuing' = Issuing \ {<<pl, f>>}
<1>1. /\ event'[pl][f] = v
      /\ \A q \in Planes, e \in Flows : q # pl \/ e # f => event'[q][e] = event[q][e]
  BY DEF FlowInv, EventShaped
<1>2. \A x \in Planes \X Flows : /\ x = <<pl, f>> <=> x[1] = pl /\ x[2] = f
                                 /\ x[1] \in Planes /\ x[2] \in Flows
  OBVIOUS
<1>3. \A x \in Planes \X Flows :
        event'[x[1]][x[2]].kind = IF x = <<pl, f>> THEN v.kind ELSE event[x[1]][x[2]].kind
  BY <1>1, <1>2
<1>4. <<pl, f>> \in Planes \X Flows
  OBVIOUS
<1> QED
  BY <1>3, <1>4 DEF Issuing

\* Saving a token: it has the next number, so it is new, and its event issues no more.
LEMMA NumberedIssue ==
    ASSUME FlowInv, Numbered, NEW pl \in Planes, NEW f \in Flows,
           Issue(pl, f) \/ IssueAckLost(pl, f)
    PROVE  Numbered'
<1> DEFINE t == NewToken(pl, f)
           all == delivered \cup unknown
           n == Cardinality(all)
<1>1. /\ \/ delivered' = delivered \cup {t} /\ unknown' = unknown
         \/ unknown' = unknown \cup {t} /\ delivered' = delivered
      /\ event[pl][f].kind = "issue"
      /\ event' = [event EXCEPT ![pl][f] = Event("none")]
  BY DEF Issue, IssueAckLost, EventOver, SetEvent
<1>2. t.id = n + 1
  BY DEF NewToken
<1>3. IsFiniteSet(all) /\ n \in Nat
  BY FS_Union, FS_CardinalityType DEF Numbered
<1>4. \A x \in all : x.id \in 1..n
  BY DEF Numbered
<1>5. n + Cardinality(Issuing) <= MaxTokens /\ delivered \cap unknown = {}
  BY DEF Numbered
<1>6. (delivered \cup unknown)' = all \cup {t}
  BY <1>1
<1>7. t \notin all /\ \A x \in all \cup {t} : x.id \in 1..(n + 1)
  <2> HIDE DEF t, n, all
  <2> QED
    BY <1>2, <1>3, <1>4
<1>8. Cardinality(all \cup {t}) = n + 1
  <2> HIDE DEF t, all
  <2> QED
    BY <1>3, <1>7, FS_AddElement
<1> HIDE DEF t
<1>9. delivered' \cap unknown' = {}
  BY <1>1, <1>5, <1>7
<1> HIDE DEF n, all
<1>10. IsFiniteSet(delivered') /\ IsFiniteSet(unknown')
  BY <1>1, FS_AddElement DEF Numbered
<1>11. /\ IsFiniteSet(Issuing') /\ Cardinality(Issuing') = Cardinality(Issuing) - 1
       /\ Cardinality(Issuing) \in Nat
  <2>1. Event("none").kind # "issue"
    BY DEF Event
  <2>2. Issuing' = Issuing \ {<<pl, f>>}
    BY <1>1, <2>1, IssuingStep
  <2>3. <<pl, f>> \in Issuing /\ IsFiniteSet(Issuing)
    BY <1>1 DEF Issuing, Numbered
  <2>4. /\ IsFiniteSet(Issuing \ {<<pl, f>>}) /\ Cardinality(Issuing) \in Nat
        /\ Cardinality(Issuing \ {<<pl, f>>}) = Cardinality(Issuing) - 1
    BY <2>3, FS_RemoveElement, FS_CardinalityType
  <2> QED
    BY <2>2, <2>4
<1>12. (n + 1) + Cardinality(Issuing') <= MaxTokens
  BY <1>3, <1>5, <1>11, FlowAssumption
<1> QED
  BY <1>6, <1>7, <1>8, <1>9, <1>10, <1>11, <1>12 DEF Numbered

\* No other step saves a token, and only handle_flow begins to issue, below the bound.
LEMMA NumberedStep ==
    ASSUME FlowInv, Numbered, [FlowNext]_flowVars
    PROVE  Numbered'
<1>1. ASSUME UNCHANGED <<delivered, unknown>>, IsFiniteSet(Issuing'),
             Cardinality(delivered \cup unknown) + Cardinality(Issuing') <= MaxTokens
      PROVE  Numbered'
  BY <1>1 DEF Numbered
<1>2. ASSUME UNCHANGED <<delivered, unknown, event>> PROVE Numbered'
  BY <1>2 DEF Numbered, Issuing
<1>3. /\ Cardinality(delivered \cup unknown) \in Nat /\ Cardinality(Issuing) \in Nat
      /\ IsFiniteSet(Issuing)
  BY FS_Union, FS_CardinalityType DEF Numbered
<1>4. ASSUME NEW pl \in Planes, NEW f \in Flows, BeginIssue(pl, f) PROVE Numbered'
  <2> DEFINE v == [kind |-> "issue", type |-> ResolveTransferType(pl, f),
                   claims |-> ClaimsFor(pl, f, ResolveTransferType(pl, f))]
  <2>1. event' = [event EXCEPT ![pl][f] = v]
    BY <1>4, Zenon DEF BeginIssue
  <2>2. /\ UNCHANGED <<delivered, unknown>>
        /\ Cardinality(delivered \cup unknown) + Cardinality(Issuing) < MaxTokens
    BY <1>4 DEF BeginIssue
  <2>3. v.kind = "issue"
    OBVIOUS
  <2> HIDE DEF v
  <2>4. Issuing' = Issuing \cup {<<pl, f>>}
    BY <2>1, <2>3, IssuingStep
  <2>5. IsFiniteSet(Issuing') /\ Cardinality(Issuing') <= Cardinality(Issuing) + 1
    <3>1. /\ IsFiniteSet(Issuing \cup {<<pl, f>>})
          /\ Cardinality(Issuing \cup {<<pl, f>>}) =
               IF <<pl, f>> \in Issuing THEN Cardinality(Issuing) ELSE Cardinality(Issuing) + 1
      BY <1>3, FS_AddElement
    <3> QED
      BY <1>3, <2>4, <3>1
  <2>6. Cardinality(Issuing') \in Nat
    BY <2>5, FS_CardinalityType
  <2>7. Cardinality(delivered \cup unknown) + Cardinality(Issuing') <= MaxTokens
    BY <1>3, <2>2, <2>5, <2>6, FlowAssumption
  <2> QED
    BY <1>1, <2>2, <2>5, <2>7
<1>5. ASSUME NEW pl \in Planes, NEW f \in Flows, CleanupStep(pl, f) \/ EventFails(pl, f)
      PROVE  Numbered'
  <2>1. PICK k \in EventKinds : k # "issue" /\ event' = [event EXCEPT ![pl][f] = Event(k)]
    BY <1>5, CleanupShape
  <2>2. Event(k).kind # "issue"
    BY <2>1 DEF Event
  <2>3. Issuing' = Issuing \ {<<pl, f>>}
    BY <2>1, <2>2, IssuingStep
  <2>4. IsFiniteSet(Issuing') /\ Cardinality(Issuing') <= Cardinality(Issuing)
    <3>1. /\ IsFiniteSet(Issuing \ {<<pl, f>>})
          /\ Cardinality(Issuing \ {<<pl, f>>}) =
               IF <<pl, f>> \in Issuing THEN Cardinality(Issuing) - 1 ELSE Cardinality(Issuing)
      BY <1>3, FS_RemoveElement
    <3> QED
      BY <1>3, <2>3, <3>1
  <2>5. Cardinality(Issuing') \in Nat
    BY <2>4, FS_CardinalityType
  <2>6. delivered' = delivered /\ unknown' = unknown
    BY <1>5, CleanupShape
  <2>7. Cardinality(delivered \cup unknown) + Cardinality(Issuing) <= MaxTokens
    BY DEF Numbered
  <2>8. Cardinality(delivered \cup unknown) + Cardinality(Issuing') <= MaxTokens
    BY <1>3, <2>4, <2>5, <2>7, FlowAssumption
  <2> QED
    BY <1>1, <2>4, <2>6, <2>8
<1>6. CASE UNCHANGED flowVars
  BY <1>2, <1>6 DEF flowVars
<1>7. ASSUME NEW pl \in Planes,
             \/ DeleteTransferTypeMapping(pl)
             \/ \E types \in Submissions[pl] :
                  CreateTransferTypeMapping(pl, types) \/ UpdateTransferTypeMapping(pl, types)
      PROVE  Numbered'
  BY <1>2, <1>7 DEF DeleteTransferTypeMapping, CreateTransferTypeMapping, UpdateTransferTypeMapping
<1>8. ASSUME NEW pl \in Planes, NEW f \in Flows, NotTheSource(pl, f) \/ FlowFails(pl, f)
      PROVE  Numbered'
  BY <1>2, <1>8 DEF NotTheSource, FlowFails, flowVars
<1>9. ASSUME NEW f \in Flows,
             \/ OnStarted(f) \/ StartedAckLost(f) \/ StartedLost(f) \/ WantTerminated(f)
             \/ RefreshReads(f) \/ RefreshWrites(f)
      PROVE  Numbered'
  BY <1>2, <1>9 DEF OnStarted, StartedAckLost, StartedLost, WantTerminated, RefreshReads,
                    RefreshWrites
<1> QED
  BY <1>4, <1>5, <1>6, <1>7, <1>8, <1>9, NumberedIssue DEF FlowNext

\* FlowTypeOK: in particular whatever a consumer holds, or is on its way to one, was handed
\* out in a response, and no token is saved twice.
THEOREM FlowTypeCorrect == FlowSpec => []FlowTypeOK
<1>1. FlowInv /\ FlowTyped /\ [FlowNext]_flowVars => FlowTyped'
  BY ValuesStep, NumberedStep DEF FlowTyped
<1>2. FlowSpec => []FlowTyped
  BY <1>1, FlowTypedInit, FlowInvariant, PTL DEF FlowSpec
<1>3. MappingInv /\ FlowTyped => FlowTypeOK
  <2> SUFFICES ASSUME MappingInv, FlowTyped PROVE FlowTypeOK
    OBVIOUS
  <2>1. Cardinality(delivered) + Cardinality(unknown) <= MaxTokens
    <3>1. IsFiniteSet(delivered) /\ IsFiniteSet(unknown) /\ IsFiniteSet(Issuing)
      BY DEF FlowTyped, Numbered
    <3>2. /\ Cardinality(delivered \cup unknown) =
               Cardinality(delivered) + Cardinality(unknown) - Cardinality(delivered \cap unknown)
      BY <3>1, FS_Union
    <3>3. Cardinality(delivered \cap unknown) = 0
      BY FS_EmptySet DEF FlowTyped, Numbered
    <3>4. /\ Cardinality(delivered) \in Nat /\ Cardinality(unknown) \in Nat
          /\ Cardinality(Issuing) \in Nat
      BY <3>1, FS_CardinalityType
    <3>5. Cardinality(delivered \cup unknown) + Cardinality(Issuing) <= MaxTokens
      BY DEF FlowTyped, Numbered
    <3> QED
      BY <3>2, <3>3, <3>4, <3>5, FlowAssumption
  <2>2. \A pl \in Planes : stored[pl] \in Submissions[pl] \cup {NoMapping}
    BY DEF MappingInv, StoredValid
  <2> QED
    BY <2>1, <2>2 DEF FlowTyped, StatesTyped, EventsTyped, TokensKnown, ScalarsTyped, FlowTypeOK,
         FlowStates, EventKinds
<1> QED
  BY <1>2, <1>3, MappingInvariant, PTL

-----------------------------------------------------------------------------
(* The process *)

\* The part of the type invariant the argument needs.
ServerTyped ==
    /\ server \in [Servers -> {"absent", "starting", "serving", "draining", "joined"} \cup Ended]
    /\ open \in [Requests -> Servers \cup {None}]
    /\ crashes \in Nat

\* No task is spawned before the assembly is complete.
NotSpawned == run \in {"load", "assemble"} => \A s \in Servers : server[s] = "absent"

\* run_server cleans up only after a signal.
CleansUpOnSignal == run \in {"cleanup", "returned_ok"} => signalled

\* As long as nothing failed from outside, a request under way has its server: a server
\* ends only when it has drained, or never served.
OpenIsServed ==
    crashes = 0 /\ run # "returned_err" =>
        \A r \in Requests : open[r] # None => server[open[r]] \in {"serving", "draining"}

AllJoined == run = "returned_ok" => \A s \in Servers : server[s] = "joined"

ServerInv == ServerTyped /\ NotSpawned /\ CleansUpOnSignal /\ OpenIsServed /\ AllJoined

\* Initially nothing runs.
LEMMA ServerInit == Init => ServerInv
BY DEF Init, ServerInv, ServerTyped, NotSpawned, CleansUpOnSignal, OpenIsServed,
       AllJoined, Ended

\* main up to the spawning of the servers.
LEMMA ServerStartInv ==
    ASSUME ServerInv, Load \/ Assemble \/ AssemblyFails \/ Spawn
    PROVE  ServerInv'
<1>1. CASE Load
  BY <1>1 DEF Load, ServerInv, ServerTyped, NotSpawned, CleansUpOnSignal, OpenIsServed,
              AllJoined, Ended
<1>2. CASE Assemble
  BY <1>2 DEF Assemble, ServerInv, ServerTyped, NotSpawned, CleansUpOnSignal,
              OpenIsServed, AllJoined, Ended
<1>3. CASE AssemblyFails
  BY <1>3 DEF AssemblyFails, ServerInv, ServerTyped, NotSpawned, CleansUpOnSignal,
              OpenIsServed, AllJoined, Ended
<1>4. CASE Spawn
  <2>1. crashes = 0 => \A r \in Requests : open[r] = None
    BY <1>4 DEF Spawn, ServerInv, ServerTyped, NotSpawned, OpenIsServed
  <2> QED
    BY <1>4, <2>1 DEF Spawn, ServerInv, ServerTyped, NotSpawned, CleansUpOnSignal,
                      OpenIsServed, AllJoined
<1> QED
  BY <1>1, <1>2, <1>3, <1>4

\* A server's own steps: it serves no one before it is bound, and drains before it ends.
LEMMA TaskInv ==
    ASSUME ServerInv, NEW s \in Servers,
           Bind(s) \/ Crash(s) \/ StopListening(s) \/ Drain(s) \/ JoinNext(s)
    PROVE  ServerInv'
<1> USE DEF ServerInv, ServerTyped, Ended
<1>1. CASE Bind(s)
  <2>1. /\ ServerTyped' /\ UNCHANGED <<open, crashes, run, signalled>>
        /\ server[s] = "starting"
        /\ \A t \in Servers : t # s => server'[t] = server[t]
    BY <1>1 DEF Bind
  <2> QED
    BY <2>1 DEF NotSpawned, CleansUpOnSignal, OpenIsServed, AllJoined
<1>2. CASE Crash(s)
  BY <1>2 DEF Crash, Running, NotSpawned, CleansUpOnSignal, OpenIsServed, AllJoined
<1>3. CASE StopListening(s) \/ Drain(s)
  BY <1>3 DEF StopListening, Drain, NotSpawned, CleansUpOnSignal, OpenIsServed, AllJoined
<1>4. CASE JoinNext(s)
  BY <1>4 DEF JoinNext, NotSpawned, CleansUpOnSignal, OpenIsServed, AllJoined
<1> QED
  BY <1>1, <1>2, <1>3, <1>4

\* A failure ends run_server with an error, and the requests are not waited for.
LEMMA FailFastInv ==
    ASSUME ServerInv, NEW s \in Servers, FailFast(s)
    PROVE  ServerInv'
BY DEF FailFast, ServerInv, ServerTyped, NotSpawned, CleansUpOnSignal, OpenIsServed,
       AllJoined, Ended

\* Requests come to a server that serves.
LEMMA RequestInv ==
    ASSUME ServerInv, NEW r \in Requests, Accept(r) \/ Answer(r)
    PROVE  ServerInv'
<1> USE DEF ServerInv, ServerTyped
<1>1. CASE Accept(r)
  BY <1>1 DEF Accept, Running, NotSpawned, CleansUpOnSignal, OpenIsServed, AllJoined
<1>2. CASE Answer(r)
  BY <1>2 DEF Answer, Running, NotSpawned, CleansUpOnSignal, OpenIsServed, AllJoined
<1> QED
  BY <1>1, <1>2

\* The signal, the select it wins, and the end of the cleanup loop.
LEMMA StopInv ==
    ASSUME ServerInv, Signal \/ ShutDown \/ Return
    PROVE  ServerInv'
<1> USE DEF ServerInv, ServerTyped, NotSpawned, CleansUpOnSignal, OpenIsServed, AllJoined
<1>1. CASE Signal
  BY <1>1 DEF Signal, Running
<1>2. CASE ShutDown
  BY <1>2 DEF ShutDown
<1>3. CASE Return
  BY <1>3 DEF Return
<1> QED
  BY <1>1, <1>2, <1>3

\* Every step of the process.
LEMMA ServerNext == ServerInv /\ [Next]_vars => ServerInv'
<1> SUFFICES ASSUME ServerInv, [Next]_vars PROVE ServerInv'
  OBVIOUS
<1>1. CASE UNCHANGED vars
  BY <1>1 DEF vars, ServerInv, ServerTyped, NotSpawned, CleansUpOnSignal, OpenIsServed,
              AllJoined
<1> QED
  BY <1>1, ServerStartInv, TaskInv, FailFastInv, RequestInv, StopInv DEF Next

\* run_server returns Ok only on a signal, with every server joined, and unless a server
\* failed, with every accepted request answered.
THEOREM GracefulShutdown == Spec => []ShutdownIsGraceful
<1>1. ServerInv => ShutdownIsGraceful
  <2> SUFFICES ASSUME ServerInv, run = "returned_ok", crashes = 0, NEW r \in Requests
               PROVE  open[r] = None
    BY DEF ShutdownIsGraceful, ServerInv, CleansUpOnSignal, AllJoined
  <2> QED
    BY DEF ServerInv, ServerTyped, OpenIsServed, AllJoined
<1> QED
  BY <1>1, ServerInit, ServerNext, PTL DEF Spec

\* TypeOK: the part that the shutdown does not need; the assembly, a list that depends on the
\* configuration, is never left at a step it does not have.
THEOREM ServerTypeCorrect == Spec => []TypeOK
<1> DEFINE Rest == /\ config \in Configs /\ assembled \in 0..Len(Assembly)
                   /\ cancelled \in BOOLEAN /\ signalled \in BOOLEAN
                   /\ run \in {"load", "assemble", "select", "cleanup", "returned_ok",
                               "returned_err", "refused"}
                   /\ crashes \in 0..MaxCrashes
<1>1. Init => Rest
  <2>1. Len(Assembly) \in Nat
    BY DEF Assembly
  <2>2. 0 \in 0..Len(Assembly) /\ 0 \in 0..MaxCrashes
    BY <2>1, ServerAssumption
  <2> QED
    BY <2>2, ServerAssumption DEF Init
<1>2. Rest /\ [Next]_vars => Rest'
  <2> SUFFICES ASSUME Rest, [Next]_vars PROVE Rest'
    OBVIOUS
  <2>1. config' = config /\ Len(Assembly)' = Len(Assembly) /\ Len(Assembly) \in Nat
    BY DEF Next, vars, Bind, Crash, StopListening, Drain, FailFast, JoinNext, Accept, Answer, Load, Assemble,
           AssemblyFails, Spawn, Signal, ShutDown, Return, Assembly
  <2>2. assembled' = assembled \/ (assembled < Len(Assembly) /\ assembled' = assembled + 1)
    BY DEF Next, vars, Bind, Crash, StopListening, Drain, FailFast, JoinNext, Accept, Answer, Load, Assemble,
           AssemblyFails, Spawn, Signal, ShutDown, Return
  <2>3. crashes' = crashes \/ (crashes < MaxCrashes /\ crashes' = crashes + 1)
    BY DEF Next, vars, Bind, Crash, StopListening, Drain, FailFast, JoinNext, Accept, Answer, Load, Assemble,
           AssemblyFails, Spawn, Signal, ShutDown, Return
  <2>4. /\ cancelled' \in {cancelled, TRUE} /\ signalled' \in {signalled, TRUE}
        /\ run' \in {run, "assemble", "refused", "returned_err", "select", "cleanup", "returned_ok"}
    BY DEF Next, vars, Bind, Crash, StopListening, Drain, FailFast, JoinNext, Accept, Answer, Load, Assemble,
           AssemblyFails, Spawn, Signal, ShutDown, Return
  <2>5. assembled' \in 0..Len(Assembly)' /\ crashes' \in 0..MaxCrashes
    <3> DEFINE n == Len(Assembly)
    <3>1. /\ n \in Nat /\ assembled \in 0..n
          /\ assembled' = assembled \/ (assembled < n /\ assembled' = assembled + 1)
      BY <2>1, <2>2
    <3> HIDE DEF n
    <3>2. assembled' \in 0..n
      BY <3>1
    <3> QED
      BY <2>1, <2>3, <3>2, ServerAssumption DEF n
  <2> QED
    BY <2>1, <2>4, <2>5
<1>3. ServerInv /\ Rest => TypeOK
  BY DEF ServerInv, ServerTyped, TypeOK
<1> QED
  BY <1>1, <1>2, <1>3, ServerInit, ServerNext, PTL DEF Spec

\* What validate accepts is refused later only for the length of its server secret, and no
\* server of it is in another's way: as long as nothing fails from outside, no server fails and
\* main returns no error.
WeakSecret == config.server_secret.bytes \in MinServerSecret..(MinSecretLength - 1)
StartsClean ==
    crashes = 0 /\ ~WeakSecret =>
        /\ run # "returned_err"
        /\ \A s \in Servers : server[s] \notin {"failed", "aborted"}
Validated == run \notin {"load", "refused"} => validate(config)
NotBefore == run \in {"load", "refused"} => \A s \in Servers : server[s] = "absent"

StartInv ==
    /\ config \in Configs /\ crashes \in Nat
    /\ server \in [Servers -> {"absent", "starting", "serving", "draining", "joined"} \cup Ended]
    /\ Validated /\ NotBefore /\ StartsClean

\* A configuration that validate accepts meets the conditions of every step of the assembly.
LEMMA ValidIsAccepted ==
    ASSUME config \in Configs, validate(config), ~WeakSecret, NEW step
    PROVE  Accepted(step)
<1>1. /\ config.vault.url # None
      /\ resolved_auth(config.vault).type = "kubernetes_service_account" =>
            resolved_auth(config.vault).token # None \/ resolved_auth(config.vault).token_file # None
  BY DEF validate, ValidVault
<1>2. config.server_secret.bytes # None =>
        config.server_secret.hex /\ config.server_secret.bytes >= MinSecretLength
  BY ServerAssumption DEF validate, ValidSecret, WeakSecret, MinServerSecret, MinSecretLength
<1> QED
  BY <1>1, <1>2 DEF Accepted

\* Each API of a valid configuration has a port of its own.
LEMMA ValidBinds ==
    ASSUME validate(config), NEW s \in Servers, server[s] = "starting"
    PROVE  ~Taken(config.ports[s])
BY DEF validate, ValidPorts, Taken

\* Every step keeps it: only what comes from outside makes a server or the assembly fail.
LEMMA StartStep == StartInv /\ [Next]_vars => StartInv'
<1> SUFFICES ASSUME StartInv, [Next]_vars PROVE StartInv'
  OBVIOUS
<1> USE DEF StartInv, Validated, NotBefore, StartsClean, WeakSecret
<1>1. CASE UNCHANGED vars
  BY <1>1 DEF vars
<1>2. CASE Load
  BY <1>2 DEF Load
<1>3. CASE Assemble
  <2>1. crashes = 0 /\ ~WeakSecret => Accepted(Assembly[assembled + 1])
    BY <1>3, ValidIsAccepted DEF Assemble
  <2> QED
    BY <1>3, <2>1 DEF Assemble
<1>4. CASE AssemblyFails
  BY <1>4 DEF AssemblyFails
<1>5. CASE Spawn
  BY <1>5 DEF Spawn, Ended
<1>6. ASSUME NEW s \in Servers, Bind(s) PROVE StartInv'
  <2>1. validate(config)
    BY <1>6 DEF Bind
  <2>2. server' = [server EXCEPT ![s] = "serving"]
    BY <1>6, <2>1, ValidBinds DEF Bind
  <2> QED
    BY <1>6, <2>2 DEF Bind, Ended
<1>7. ASSUME NEW s \in Servers, Crash(s) PROVE StartInv'
  BY <1>7 DEF Crash, Running, Ended
<1>8. ASSUME NEW s \in Servers, StopListening(s) \/ Drain(s) PROVE StartInv'
  BY <1>8 DEF StopListening, Drain, Ended
<1>9. ASSUME NEW s \in Servers, FailFast(s) PROVE StartInv'
  BY <1>9 DEF FailFast, Ended
<1>10. ASSUME NEW s \in Servers, JoinNext(s) PROVE StartInv'
  BY <1>10 DEF JoinNext, Ended
<1>11. ASSUME NEW r \in Requests, Accept(r) \/ Answer(r) PROVE StartInv'
  BY <1>11 DEF Accept, Answer
<1>12. CASE Signal \/ ShutDown \/ Return
  BY <1>12 DEF Signal, ShutDown, Return, Running
<1> QED
  BY <1>1, <1>2, <1>3, <1>4, <1>5, <1>6, <1>7, <1>8, <1>9, <1>10, <1>11, <1>12 DEF Next

\* The part of ValidConfigStarts that is about safety.
THEOREM ValidConfigIsEnough == Spec => []StartsClean
<1>1. Init => StartInv
  BY DEF Init, StartInv, Validated, NotBefore, StartsClean
<1>2. StartInv => StartsClean
  BY DEF StartInv
<1> QED
  BY <1>1, <1>2, StartStep, PTL DEF Spec
=============================================================================
