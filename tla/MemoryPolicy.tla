---------------------------- MODULE MemoryPolicy ----------------------------
(* The policy engine in memory: packages/harness/src/policy/in-memory.ts.  *)

\* Defect (for WritesAreRuled): one predicate is enough.
matchesInPart(plan, rule) == \E p \in DOMAIN rule : rule[p] = plan[p]

\* A rule is a record of the predicates it states, among toolName, mode and
\* tenantId; it matches a plan that satisfies all of them.
matchesRule(plan, rule) == \A p \in DOMAIN rule : rule[p] = plan[p]

\* Reads and drafts are allowed; a writing tool is blocked unless a rule
\* matches, and then still needs an approval.
evaluate(plan, allowRules) ==
    IF plan.mode # "approved_execute" THEN "allow"
    ELSE IF \E rule \in allowRules : matchesRule(plan, rule) THEN "require_approval"
    ELSE "deny"
==============================================================================
