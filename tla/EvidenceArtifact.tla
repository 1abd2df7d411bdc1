-------------------------- MODULE EvidenceArtifact --------------------------
(***************************************************************************)
(* The artifacts under a project's evidence root, as far as the viewer's   *)
(* authoring writes tell them apart: their family and the artifacts they   *)
(* name.  An artifact is named by the number of its directory; ids are     *)
(* fresh, so a number is never used twice.                                 *)
(***************************************************************************)
EXTENDS Naturals, Sequences

Nobody == 0     \* "names no artifact"

References == {"external-reference-imported", "external-reference-approved"}
Sources == References \cup {"observation"}
Families == Sources \cup {"visual-annotation", "change-contract",
                          "visual-change-workflow"}

\* `from` is what an artifact was made from: an annotation's source, an
\* approved reference's imported one, the annotation a contract or a workflow
\* was promoted from (which the contract itself does not record).  `target`
\* is what a workflow froze as its goal: a change contract or an approved
\* reference.  `supersedes` is the predecessor an annotation or a reference
\* revises.
Artifact == [family : Families, from : Nat, target : Nat, supersedes : Nat]

Made(family, from, target, supersedes) ==
    [family |-> family, from |-> from, target |-> target,
     supersedes |-> supersedes]

Captured == Made("observation", Nobody, Nobody, Nobody)

\* What the command line left before the viewer was opened: an observation and
\* an imported reference that was approved.
AlreadyThere == << Captured,
               Made("external-reference-imported", Nobody, Nobody, Nobody),
               Made("external-reference-approved", 2, Nobody, Nobody) >>

-----------------------------------------------------------------------------
Has(log, i, families) == i \in DOMAIN log /\ log[i].family \in families

\* The artifact names only artifacts that are there and are of the right
\* family, and an annotation revises one of the same source.
Rests(log, a) ==
    \/ a = Captured
    \/ /\ a.family = "visual-annotation" /\ Has(log, a.from, Sources)
       /\ \/ a.supersedes = Nobody
          \/ /\ Has(log, a.supersedes, {"visual-annotation"})
             /\ log[a.supersedes].from = a.from
    \/ /\ a.family = "change-contract"
       /\ Has(log, a.from, {"visual-annotation"})
       /\ Has(log, log[a.from].from, {"observation"})
    \/ /\ a.family = "external-reference-imported"
       /\ Has(log, a.supersedes, References)
    \/ /\ a.family = "external-reference-approved"
       /\ Has(log, a.from, {"external-reference-imported"})
       /\ a.supersedes = log[a.from].supersedes
       /\ a.supersedes # Nobody => Has(log, a.supersedes, References)
    \/ /\ a.family = "visual-change-workflow"
       /\ Has(log, a.from, {"visual-annotation"})
       /\ \/ Has(log, a.target, {"change-contract"}) /\ log[a.target].from = a.from
          \/ Has(log, a.target, {"external-reference-approved"})
             /\ log[a.from].from = a.target

\* Nobody has revised the annotation yet that this one revises.
Unrevised(log, a) ==
    a.family = "visual-annotation" /\ a.supersedes # Nobody
        => \A i \in DOMAIN log : ~ ( /\ log[i].family = "visual-annotation"
                                     /\ log[i].supersedes = a.supersedes )

Grounded(log, a) == Rests(log, a) /\ Unrevised(log, a)
=============================================================================
