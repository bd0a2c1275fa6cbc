----------------------------- MODULE MCCoreSync ------------------------------
(* Node a has records in two conversations and a summary of one of them;   *)
(* node b only receives.                                                   *)
EXTENDS CoreSync

CONSTANTS a, b, c1, c2

MCNodes == {a, b}

m1 == [id |-> 1, node |-> a, conv |-> c1]
m2 == [id |-> 2, node |-> a, conv |-> c2]
m3 == [id |-> 3, node |-> a, conv |-> c2]

s1 == [id |-> 1, node |-> a, conv |-> c1, level |-> 1, raws |-> {m1}, children |-> {}]

NoSummary == {}
TwoMessages == {m1, m2}
ThreeMessages == {m1, m2, m3}
OneSummary == {s1}
=============================================================================
