---------------------------- MODULE SubjectList ----------------------------
(***************************************************************************)
(* Lists of rbacv1.Subject as the controllers of the Bulward manager treat *)
(* them (pkg/manager/internal/controllers/extractors.go).                  *)
(*                                                                         *)
(* A subject is a natural number: the rank of its printed form             *)
(* Subject.String(), by which the code compares, among those of all        *)
(* subjects.  Sorting is spelled out, because SortSeq is built into the    *)
(* tools and has no definition that a proof could use.                     *)
(***************************************************************************)
EXTENDS Naturals, Sequences, SequencesExt

\* sort.Slice: at place i the subject with fewer than i of the list below it, and
\* at least i not above it.
Sorted(list) ==
  LET Below(x)  == Cardinality({j \in DOMAIN list : list[j] < x})
      UpTo(x)   == Cardinality({j \in DOMAIN list : list[j] <= x})
  IN [i \in DOMAIN list |-> CHOOSE x \in ToSet(list) : Below(x) < i /\ i <= UpTo(x)]

\* The loop of extractSubjects: a subject like the one before it is left out.
\* kept[i]: filteredSubjects after i rounds.
WithoutRepeats(list) ==
  LET kept[i \in 0..Len(list)] ==
        IF i = 0 THEN <<>>
        ELSE IF i = 1 \/ list[i - 1] # list[i] THEN Append(kept[i - 1], list[i])
        ELSE kept[i - 1]
  IN kept[Len(list)]

\* Faulty: duplicates dropped without sorting.
ExtractUnsorted(subjects) == WithoutRepeats(subjects)

ExtractSubjects(subjects) == WithoutRepeats(Sorted(subjects))

\* In increasing order, and so without repetitions.
Increasing(list) == \A i, j \in DOMAIN list : i < j => list[i] < list[j]

\* What it is for: one list for every set of subjects.
Ranked(S) == CHOOSE list \in [1..Cardinality(S) -> S] : ToSet(list) = S /\ Increasing(list)
=============================================================================
