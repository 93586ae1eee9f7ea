----------------------------- MODULE MCWebSession -----------------------------
(* One tab with two requests at once; one tab and an incident; two tabs of  *)
(* one browser.                                                             *)
EXTENDS WebSession, TLC

CONSTANTS t1, t2, p1, p2

Tab1 == {<<t1, "session">>, <<t1, p1>>}
Tab2 == {<<t2, "session">>}

MCCalls == Tab1 \cup Tab2 \cup {<<t1, p2>>}

MCScenarios ==
  {[calls |-> Tab1 \cup {<<t1, p2>>}, spent |-> 1],
   [calls |-> {<<t1, "session">>} \cup Tab2, spent |-> 1]}
  \cup {[calls |-> {<<t1, "session">>, <<t1, p>>}, spent |-> 0] : p \in Pages}

\* Nothing tells one page of a tab from another.
MCSymmetry == Permutations(Pages)
=============================================================================
