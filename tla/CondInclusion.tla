--------------------------- MODULE CondInclusion ---------------------------
(***************************************************************************)
(* What conditional inclusion promises, independently of how the lexical   *)
(* parser keeps its books: a stack of open #if sections, each of which is  *)
(* in its live group, still seeking a group, or done with its live group.  *)
(* Text is live exactly when every open section is in its live group.      *)
(***************************************************************************)
EXTENDS Naturals, Sequences

VARIABLE sections

Status == {"live", "seek", "done"}

TypeOK == sections \in Seq(Status)

Init == sections = <<>>

\* The state in which a condition leaves a section that was seeking.
Try(holds) == IF holds THEN "live" ELSE "seek"

Top == sections[Len(sections)]
SetTop(status) == sections' = [sections EXCEPT ![Len(sections)] = status]

Open(holds) == sections' = Append(sections, Try(holds))

Elif(holds) ==
    /\ sections # <<>>
    /\ SetTop(IF Top = "seek" THEN Try(holds) ELSE "done")

Else ==
    /\ sections # <<>>
    /\ SetTop(IF Top = "seek" THEN "live" ELSE "done")

Close ==
    /\ sections # <<>>
    /\ sections' = SubSeq(sections, 1, Len(sections) - 1)

Next ==
    \/ \E holds \in BOOLEAN : Open(holds) \/ Elif(holds)
    \/ Else
    \/ Close

Spec == Init /\ [][Next]_sections

Live == \A i \in DOMAIN sections : sections[i] = "live"
=============================================================================
