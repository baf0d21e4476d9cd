------------------------------ MODULE MCDispatch ------------------------------
(***************************************************************************)
(* Dispatch for TLC: two classes, of one pattern or of two; a class lacks  *)
(* at most one method, and at most one class is no bean.  Classes can be   *)
(* exchanged with one another, and patterns.                               *)
(***************************************************************************)
EXTENDS Dispatch, TLC

MCApps ==
  [pattern : [Class -> Pattern],
   methods : [Class -> {M \in SUBSET Annotation : Cardinality(Annotation \ M) < 2}],
   beanless : {B \in SUBSET Class : Cardinality(B) < 2},
   message : {M \in SUBSET Pattern : M # {}}]

Symmetry == Permutations(Class) \cup Permutations(Pattern)

==============================================================================
