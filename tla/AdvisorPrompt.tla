---------------------------- MODULE AdvisorPrompt ----------------------------
(***************************************************************************)
(* One analysis of a finding by the model provider, apart from the circuit *)
(* breaker (ai/advisor.go): the exclusions, the projection of the finding  *)
(* and the plan, the loop that drops parts of the projection until the     *)
(* request fits the configured size, and the validation of the answer.     *)
(*                                                                         *)
(* A list is reduced to its length and a text to its number of runes.      *)
(* Details, summaries and API versions are cleared from the front of a     *)
(* list, so the number that is left stands for them.  Whether a request    *)
(* fits depends on the encoding and is a free choice in every attempt.     *)
(* Citations are positions in the finding's evidence.                      *)
(***************************************************************************)
EXTENDS Integers, Sequences, FiniteSetsExt

CONSTANTS
    PromptSubjects,     \* what is analysed: sizes, texts, source and namespaces
    PromptAnswers,      \* answers of the provider
    PromptExcluded,     \* excluded sources and namespaces
    MaxProjectedEvidence, MaxProjectedResources, MaxProjectedActions,
    MaxProjectedSteps, MaxAttempts

ASSUME PromptAssumption ==
    /\ {MaxProjectedEvidence, MaxProjectedResources, MaxProjectedActions,
        MaxProjectedSteps, MaxAttempts} \subseteq Nat
    /\ \A s \in PromptSubjects :
         {s.evidence, s.resources, s.actions, s.steps, s.text} \subseteq Nat
    \* The attempts are more than the parts of the largest projection: 189 and 256.
    /\ 3 * MaxProjectedSteps + 3 * MaxProjectedEvidence + 2 * MaxProjectedResources
         + 4 * MaxProjectedActions + 41 <= MaxAttempts

VARIABLES
    promptSubject, promptState, prompt, promptAttempts, promptAnswer

promptVars == <<promptSubject, promptState, prompt, promptAttempts, promptAnswer>>

Cap(n, limit) == Min({n, limit})

\* A projection that keeps every resource.
ProjectAllResources(s) ==
    LET e == Cap(s.evidence, MaxProjectedEvidence)
        r == s.resources
        a == Cap(s.actions, MaxProjectedActions)
        steps == Cap(s.steps, MaxProjectedSteps)
    IN [rollback |-> steps, verification |-> steps, categories |-> steps,
        evidence |-> e, details |-> e, summaries |-> e,
        resources |-> r, versions |-> r,
        actions |-> a, descriptions |-> a, targets |-> a, targetVersions |-> a,
        title |-> Cap(s.text, 500), blast |-> Cap(s.text, 700),
        advice |-> Cap(s.text, 700), rootCause |-> Cap(s.text, 900),
        id |-> Cap(s.text, 200), source |-> Cap(s.text, 120),
        planId |-> Cap(s.text, 200), findingId |-> Cap(s.text, 200),
        labels |-> IF s.text = 0 THEN 0 ELSE 3]

\* projectAdvisorInput, projectResource, boundedSanitizedStrings: every text is
\* cut to its limit, every list to its length limit; evidence without a source
\* identifier is not counted in subject.evidence.
ProjectAdvisorInput(s) ==
    LET e == Cap(s.evidence, MaxProjectedEvidence)
        r == Cap(s.resources, MaxProjectedResources)
        a == Cap(s.actions, MaxProjectedActions)
        steps == Cap(s.steps, MaxProjectedSteps)
    IN [rollback |-> steps, verification |-> steps, categories |-> steps,
        evidence |-> e, details |-> e, summaries |-> e,
        resources |-> r, versions |-> r,
        actions |-> a, descriptions |-> a, targets |-> a, targetVersions |-> a,
        title |-> Cap(s.text, 500), blast |-> Cap(s.text, 700),
        advice |-> Cap(s.text, 700), rootCause |-> Cap(s.text, 900),
        id |-> Cap(s.text, 200), source |-> Cap(s.text, 120),
        planId |-> Cap(s.text, 200), findingId |-> Cap(s.text, 200),
        labels |-> IF s.text = 0 THEN 0 ELSE 3]

\* Dropping the last element of a list drops what is left of its parts.
DropEvidence(p) == [p EXCEPT !.evidence = @ - 1, !.summaries = Cap(@, p.evidence - 1)]
DropResource(p) == [p EXCEPT !.resources = @ - 1, !.versions = Cap(@, p.resources - 1)]
DropAction(p) == [p EXCEPT !.actions = @ - 1, !.targets = Cap(@, p.actions - 1),
                           !.targetVersions = Cap(@, p.actions - 1)]

Less(p, part) == [on |-> p[part] > 0, next |-> [p EXCEPT ![part] = @ - 1]]
Halve(p, part, limit) == [on |-> p[part] > limit, next |-> [p EXCEPT ![part] = @ \div 2]]
Clear(p, part) == [on |-> p[part] > 0, next |-> [p EXCEPT ![part] = 0]]

\* shrinkProjectedInput: the first rung that applies.
ShrinkLadder(p) ==
    << Less(p, "rollback"), Less(p, "verification"), Less(p, "categories"),
       Less(p, "details"), Less(p, "descriptions"),
       [on |-> p.resources > 8, next |-> DropResource(p)],
       [on |-> p.evidence > 4, next |-> DropEvidence(p)],
       [on |-> p.actions > 8, next |-> DropAction(p)],
       Halve(p, "title", 160), Halve(p, "blast", 160), Halve(p, "advice", 160),
       Halve(p, "rootCause", 160),
       Clear(p, "advice"), Clear(p, "blast"), Clear(p, "rootCause"),
       Less(p, "summaries"), Less(p, "versions"), Less(p, "targetVersions"),
       [on |-> p.resources > 0, next |-> DropResource(p)],
       [on |-> p.evidence > 0, next |-> DropEvidence(p)],
       Less(p, "targets"),
       [on |-> p.actions > 1, next |-> DropAction(p)],
       Halve(p, "id", 32), Halve(p, "source", 32), Halve(p, "title", 32),
       Halve(p, "planId", 32), Halve(p, "findingId", 32),
       Clear(p, "title"), Clear(p, "source"), Clear(p, "id"),
       Clear(p, "findingId"), Clear(p, "planId"), Less(p, "labels"),
       [on |-> p.actions > 0, next |-> [p EXCEPT !.actions = 0]] >>

Rungs(p) == {i \in DOMAIN ShrinkLadder(p) : ShrinkLadder(p)[i].on}
CanShrink(p) == Rungs(p) # {}
Shrink(p) == ShrinkLadder(p)[Min(Rungs(p))].next

\* projectedEvidenceSourceIDs, taken from the projection that is sent.
CitableEvidence(p) == 1 .. p.evidence

\* checkExclusions looks at the source and at every namespace of the finding,
\* of its resources and of the targets of the plan.
Excluded(s) == (s.namespaces \cup {s.source}) \cap PromptExcluded # {}

PromptInit ==
    /\ promptSubject \in PromptSubjects
    /\ promptState = "new"
    /\ prompt = ProjectAdvisorInput(promptSubject)
    /\ promptAttempts = 0
    /\ promptAnswer = <<>>

PromptExclude ==
    /\ promptState = "new" /\ Excluded(promptSubject)
    /\ promptState' = "excluded"
    /\ UNCHANGED <<promptSubject, prompt, promptAttempts, promptAnswer>>

\* buildRequestBody: an attempt that fits is sent.
PromptFits ==
    /\ promptState = "new" /\ ~Excluded(promptSubject)
    /\ promptAttempts < MaxAttempts
    /\ promptState' = "sent"
    /\ UNCHANGED <<promptSubject, prompt, promptAttempts, promptAnswer>>

\* buildRequestBody: an attempt that does not fit drops something and tries again.
PromptTooLarge ==
    /\ promptState = "new" /\ ~Excluded(promptSubject)
    /\ promptAttempts < MaxAttempts /\ CanShrink(prompt)
    /\ prompt' = Shrink(prompt)
    /\ promptAttempts' = promptAttempts + 1
    /\ UNCHANGED <<promptSubject, promptState, promptAnswer>>

\* buildRequestBody: nothing is left to drop, or the attempts are used up.
PromptRefuse ==
    /\ promptState = "new" /\ ~Excluded(promptSubject)
    /\ promptAttempts = MaxAttempts \/ ~CanShrink(prompt)
    /\ promptState' = "refused"
    /\ UNCHANGED <<promptSubject, prompt, promptAttempts, promptAnswer>>

\* validateProviderOutput
ValidAnswer(a) ==
    /\ a.complete /\ a.confidence \in {"low", "medium", "high"}
    /\ a.action \in {0} \cup (1 .. promptSubject.actions)
    /\ a.citations \subseteq CitableEvidence(prompt)
    /\ CitableEvidence(prompt) # {} => a.citations # {}

PromptAccept(a) ==
    /\ promptState = "sent" /\ ValidAnswer(a)
    /\ promptState' = "accepted" /\ promptAnswer' = <<a>>
    /\ UNCHANGED <<promptSubject, prompt, promptAttempts>>

PromptReject(a) ==
    /\ promptState = "sent" /\ ~ValidAnswer(a)
    /\ promptState' = "rejected"
    /\ UNCHANGED <<promptSubject, prompt, promptAttempts, promptAnswer>>

PromptNext ==
    \/ PromptExclude \/ PromptFits \/ PromptTooLarge \/ PromptRefuse
    \/ \E a \in PromptAnswers : PromptAccept(a) \/ PromptReject(a)

PromptSpec == PromptInit /\ [][PromptNext]_promptVars

-----------------------------------------------------------------------------

PromptTypeOK ==
    /\ promptSubject \in PromptSubjects
    /\ promptState \in {"new", "excluded", "sent", "refused", "accepted", "rejected"}
    /\ DOMAIN prompt = DOMAIN ProjectAdvisorInput(promptSubject)
    /\ \A part \in DOMAIN prompt : prompt[part] \in Nat
    /\ promptAttempts \in 0 .. MaxAttempts

\* An analysis is given up only when nothing is left that could be dropped: the
\* 256 attempts of buildRequestBody are more than shrinkProjectedInput needs for
\* the largest projection, so the loop bound never turns away a finding whose
\* request would still have fitted.
RefusedOnlyWhenEmpty == promptState = "refused" => ~CanShrink(prompt)

=============================================================================
