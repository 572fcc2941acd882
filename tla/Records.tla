------------------------------- MODULE Records -------------------------------
(***************************************************************************)
(* What the normalizers of coordinator.py do with lists of records.        *)
(***************************************************************************)
EXTENDS Integers, FiniteSets, SequencesExt

\* The elements of s, each mapped; SubSeq makes TLC evaluate them at once.
Each(s, F(_)) == SubSeq([i \in DOMAIN s |-> F(s[i])], 1, Len(s))

\* The numbers of a finite set, in order.
InOrder(S) ==
  [n \in 1 .. Cardinality(S) |-> CHOOSE i \in S : Cardinality({j \in S : j <= i}) = n]

\* The elements of s at the places S, in the order of s.
At(s, S) ==
  LET order == InOrder(S)
  IN  SubSeq([n \in 1 .. Cardinality(S) |-> s[order[n]]], 1, Cardinality(S))

\* The elements that pass the test (SelectSeq, in a form that can be expanded).
Where(s, Test(_)) == At(s, {i \in DOMAIN s : Test(s[i])})

\* The places of s where a value is for the first time.
FirstPlaces(s) == {i \in DOMAIN s : \A j \in 1 .. i - 1 : s[j] # s[i]}

\* The first element of each key.
Distinct(s, Key(_)) == At(s, FirstPlaces([i \in DOMAIN s |-> Key(s[i])]))

Least(S) == CHOOSE i \in S : \A j \in S : i <= j

Keys(s) == {s[i].key : i \in DOMAIN s}
=============================================================================
