--------------------------- MODULE MCAgentContext ---------------------------
EXTENDS AgentContext

\* A small page: four targets, three evidence paths.
Clause(category, mode, result, targets, evidence) ==
    [category |-> category, mode |-> mode, result |-> result,
     targets |-> targets, evidence |-> evidence]

MCClauses ==
    {{},
     {Clause("preserved", "none", "pass", {3, 4}, {3}),
      Clause("expected-dependent", "permitted", "pass", {1, 2}, {1, 2})},
     {Clause("preserved", "none", "none", {1, 2, 3}, {1, 2, 3})},
     {Clause("expected-dependent", "permitted", "unavailable", {4}, {3}),
      Clause("requested", "none", "pass", {1, 4}, {1, 2})},
     {Clause("expected-dependent", "permitted", "pass", {1}, {1}),
      Clause("expected-dependent", "permitted", "conflict", {2}, {2}),
      Clause("expected-dependent", "required", "pass", {3}, {3})},
     {Clause("requested", "none", "fail", {2}, {2, 3}),
      Clause("protected", "none", "pass", {2}, {1})}}

Requirement(category, mode, status, targets) ==
    [category |-> category, mode |-> mode, status |-> status, targets |-> targets]

MCFidelities ==
    {None, [state |-> "not-evaluated", results |-> << >>]}
    \cup {[state |-> "fail", results |-> r] : r \in
        {<< Requirement("requested", "none", "fail", {1}), Requirement("protected", "none", "fail", {4}) >>,
         << Requirement("protected", "none", "unavailable", {1}), Requirement("requested", "none", "fail", {2}),
            Requirement("expected-dependent", "required", "fail", {3}), Requirement("preserved", "none", "fail", {4}) >>,
         << Requirement("protected", "none", "pass", {1}), Requirement("preserved", "none", "pass", {2}),
            Requirement("expected-dependent", "permitted", "fail", {3}) >>}}

MCPairs == {{}, {[subject |-> 1, related |-> 4, evidence |-> {1, 2}],
                 [subject |-> 2, related |-> 3, evidence |-> {3}]}}

MCUnexpected == {{}, {[targets |-> {4}, evidence |-> {2}]}}

MCDiagnostics == {{}, {[target |-> 1, code |-> "target-hidden"], [target |-> 3, code |-> "partial-evidence"],
                       [target |-> 2, code |-> "blocked-request"]}}

\* One page seen alone, compared with an earlier one, and judged; and evidence
\* that is about another page, or about another comparison.
Alone == [observation |-> "now", before |-> None, comparison |-> None, baseline |-> None,
          change |-> None, evaluation |-> None, fidelity |-> None]
Judged == [Alone EXCEPT !.before = "then", !.comparison = [before |-> "then", after |-> "now"],
                        !.baseline = "then", !.change = "wanted",
                        !.evaluation = [before |-> "then", after |-> "now", change |-> "wanted", baseline |-> "then"]]
MCSources ==
    {[Judged EXCEPT !.fidelity = "now"],
     [Judged EXCEPT !.fidelity = "then"],
     [Alone EXCEPT !.baseline = "then"],
     [Judged EXCEPT !.comparison = [before |-> "now", after |-> "then"]],
     [Judged EXCEPT !.evaluation = [before |-> "then", after |-> "now", change |-> "other", baseline |-> "then"]]}

MCRequests ==
    [sources : {[Judged EXCEPT !.fidelity = "now"]}, focus : {{}, {3}, {1, 2}}, clauses : MCClauses,
     unexpected : MCUnexpected, fidelity : MCFidelities, fidelityRequired : BOOLEAN,
     pairs : MCPairs, geometry : {1 .. 4, {1, 2}, {}}, diagnostics : MCDiagnostics]
    \cup [sources : MCSources, focus : {{1}}, clauses : {{}}, unexpected : {{}}, fidelity : {None},
          fidelityRequired : {TRUE}, pairs : {{}}, geometry : {1 .. 4}, diagnostics : {{}}]

Input(target, required, refs, candidates) ==
    [target |-> target, required |-> required, refs |-> refs, candidates |-> candidates]
Candidate(id, refs) == [id |-> id, refs |-> refs]

MCCorrelating ==
    {{},
     {Input(1, TRUE, {1}, {Candidate(1, {1}), Candidate(1, {2})})},
     {Input(1, FALSE, {1, 2, 3}, {Candidate(1, {1}), Candidate(2, {2}), Candidate(3, {3})}),
      Input(2, TRUE, {}, {Candidate(2, {1})})},
     {Input(3, TRUE, {2}, {}), Input(4, FALSE, {}, {})},
     {Input(1, FALSE, {}, {Candidate(1, {1})}), Input(2, TRUE, {}, {Candidate(1, {1}), Candidate(2, {1})}),
      Input(3, TRUE, {}, {Candidate(3, {2})})},
     {Input(1, TRUE, {1}, {Candidate(1, {1}), Candidate(2, {1}), Candidate(3, {1})})},
     {Input(1, TRUE, {1}, {}), Input(1, FALSE, {2}, {})}}
=============================================================================
