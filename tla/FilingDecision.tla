--------------------------- MODULE FilingDecision ---------------------------
(***************************************************************************)
(* What the filing-work ledger promises, without leases, clocks, attempts  *)
(* or transactions: a reviewed filing is decided at most once, by the      *)
(* newest of the workers that were given it; evidence, of whatever filing, *)
(* appears in the step that accepts the filing it comes from and nowhere   *)
(* else, completely, and is never taken back; a filing shows the filing    *)
(* that was accepted last among those that mention it; an accepted         *)
(* document is the reviewed one; and filings that rest on the same         *)
(* document agree about it.                                                *)
(***************************************************************************)
EXTENDS Naturals

CONSTANTS Filing, Checksum, Reported, Provenance, Null

VARIABLES
    reviewed,  \* the provenance under which each filing was reviewed
    granted,   \* how many workers were given the filing so far
    decision,  \* the verdict, the document, and the worker that decided
    evidence,  \* the stored lines, each with the filing it comes from
    shown      \* the filing whose document each filing shows

decisionVars == <<reviewed, granted, decision, evidence, shown>>

Verdict == {"ACCEPTED", "QUARANTINED"}

Decided(f) == decision[f] # Null

Init ==
    /\ reviewed = [f \in Filing |-> Null]
    /\ granted = [f \in Filing |-> 0]
    /\ decision = [f \in Filing |-> Null]
    /\ evidence = {}
    /\ shown = [f \in Filing |-> Null]

\* Filings become reviewed in batches; a review is never revised.
Review ==
    /\ reviewed' \in [Filing -> Provenance \cup {Null}]
    /\ \A f \in Filing : reviewed[f] # Null => reviewed'[f] = reviewed[f]
    /\ UNCHANGED <<granted, decision, evidence, shown>>

Grant(f) ==
    /\ reviewed[f] # Null
    /\ ~Decided(f)
    /\ granted' = [granted EXCEPT ![f] = @ + 1]
    /\ UNCHANGED <<reviewed, decision, evidence, shown>>

Agrees(c, verdict) ==
    \A g \in Filing : Decided(g) /\ decision[g].document = c => decision[g].verdict = verdict

\* The evidence that accepting document c of f leaves: what was there before,
\* and lines of f for whatever nobody had reported or f reports anew.
Publishes(f, c) ==
    /\ evidence \subseteq evidence'
    /\ \A e \in evidence' \ evidence : e.source = f /\ e.line \in Reported[f][c]
    /\ \A l \in Reported[f][c] : \E e \in evidence' : e.line = l
    /\ shown' = [g \in Filing |->
                   IF \E l \in Reported[f][c] : l[1] = g THEN f ELSE shown[g]]

Decide(f, verdict, c) ==
    /\ granted[f] > 0
    /\ ~Decided(f)
    /\ verdict = "ACCEPTED" => reviewed[f].expected \in {Null, c}
    /\ Agrees(c, verdict)
    /\ decision' = [decision EXCEPT ![f] =
                      [verdict |-> verdict, document |-> c, by |-> granted[f]]]
    /\ IF verdict = "ACCEPTED" THEN Publishes(f, c) ELSE UNCHANGED <<evidence, shown>>
    /\ UNCHANGED <<reviewed, granted>>

Next ==
    \/ Review
    \/ \E f \in Filing : Grant(f)
    \/ \E f \in Filing, verdict \in Verdict, c \in Checksum : Decide(f, verdict, c)

Spec == Init /\ [][Next]_decisionVars
=============================================================================
