----------------------------- MODULE MC_Locator -----------------------------
(* Model-checking instance of Locator: a schema whose first level is       *)
(* class=od/rd, expver; three databases under two roots; the root r1       *)
(* listed twice; one request value holds a regex metacharacter.            *)
EXTENDS Locator, TLC

CONSTANTS r1, r2, d1, d2, d3, s1

MCAttrs == {"class", "expver"}
\* "e." is an expver holding the regex metacharacter '.': unescaped it
\* matches the directory names of e1 and e2.
MCValues == {"od", "rd", "e1", "e2", "e."}
MCPatternMatches == {<<"e.", "e1">>, <<"e.", "e2">>}
MCSchemaRule == [class |-> {"od", "rd"}, expver |-> Always]
MCRoots == {r1, r2}
MCRootList == <<r1, r2, r1>>
MCDirs == {d1, d2, d3}
MCDirRoot == (d1 :> r1) @@ (d2 :> r1) @@ (d3 :> r2)
MCDirKey == (d1 :> [class |-> "od", expver |-> "e1"])
         @@ (d2 :> [class |-> "rd", expver |-> "e1"])
         @@ (d3 :> [class |-> "od", expver |-> "e2"])
MCKeys == {MCDirKey[d] : d \in MCDirs}
MCSegments == {s1}
\* every attribute, class only, expver only, nothing, and an expver whose
\* regex matches other databases' names
MCRequests == { [class |-> "od", expver |-> "e1"], [class |-> "od"],
                [expver |-> "e1"], [a \in {} |-> "od"],
                [class |-> "od", expver |-> "e."] }

=============================================================================
