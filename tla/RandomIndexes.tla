---------------------------- MODULE RandomIndexes ----------------------------
(***************************************************************************)
(* GetRandomIndexes (pkg/shared/utilities.go): the indexes of the DGSs     *)
(* that removeDGSColReplicas marks for deletion.  It draws an index, draws *)
(* again while the index has been drawn before, and so on until it has     *)
(* count of them.  DGSCollection uses what is shown here: the last index   *)
(* is never drawn, and the loop only ends if it need not be.  The names    *)
(* differ from those of DGSCollection's specification because the proofs   *)
(* about the two are in one module.                                        *)
(***************************************************************************)
EXTENDS Integers, Sequences

CONSTANTS
    Arguments   \* the arguments it is called with: pairs <<length, count>>;
                \* it panics if count is larger than length

ASSUME ArgumentsAssumption ==
    /\ Arguments \subseteq Nat \X Nat
    /\ \A a \in Arguments : a[2] <= a[1]

VARIABLES
    length, count,      \* the arguments
    sliceToReturn,      \* the indexes found so far
    rand,               \* the index drawn last
    at                  \* "draw", "compare" or "return"

indexesVars == <<length, count, sliceToReturn, rand, at>>

IndexesInit ==
    /\ \E a \in Arguments : length = a[1] /\ count = a[2]
    /\ sliceToReturn = <<>>
    /\ rand = 0
    /\ at = IF count = 0 THEN "return" ELSE "draw"

\* The values GetRandomInt may return.
GetRandomInt(min, max) == IF max - min <= 0 THEN {0} ELSE min..max - 1

Draw(r) ==
    /\ at = "draw"
    /\ r \in GetRandomInt(0, length - 1)
    /\ rand' = r
    /\ at' = "compare"
    /\ UNCHANGED <<length, count, sliceToReturn>>

\* Mutant of Found: the first index is skipped in the comparison.
FoundButFirst == \E j \in DOMAIN sliceToReturn : j > 1 /\ sliceToReturn[j] = rand

Found == \E j \in DOMAIN sliceToReturn : sliceToReturn[j] = rand

\* Mutant of Compare: it wants one index too many.
CompareOneMore ==
    /\ at = "compare"
    /\ \/ Found /\ at' = "draw" /\ UNCHANGED sliceToReturn
       \/ /\ ~Found
          /\ sliceToReturn' = Append(sliceToReturn, rand)
          /\ at' = IF Len(sliceToReturn') > count THEN "return" ELSE "draw"
    /\ UNCHANGED <<length, count, rand>>

Compare ==
    /\ at = "compare"
    /\ \/ Found /\ at' = "draw" /\ UNCHANGED sliceToReturn
       \/ /\ ~Found
          /\ sliceToReturn' = Append(sliceToReturn, rand)
          /\ at' = IF Len(sliceToReturn') = count THEN "return" ELSE "draw"
    /\ UNCHANGED <<length, count, rand>>

DrawAny == \E r \in 0..length : Draw(r)
IndexesNext == DrawAny \/ Compare

\* Every number that rand.Intn can return comes up again and again.
IndexesFairness ==
    /\ WF_indexesVars(Compare)
    /\ \A r \in UNION {GetRandomInt(0, a[1] - 1) : a \in Arguments} : SF_indexesVars(Draw(r))

IndexesSpec == IndexesInit /\ [][IndexesNext]_indexesVars
IndexesFairSpec == IndexesSpec /\ IndexesFairness

-----------------------------------------------------------------------------
(* What must hold.                                                         *)

\* What is returned can be used by removeDGSColReplicas: count different
\* indexes into a slice of the given length.  The last of two or more DGSs is
\* never among them.
IndexesAreUsable ==
    /\ at = "return" => Len(sliceToReturn) = count
    /\ \A i \in DOMAIN sliceToReturn :
        /\ sliceToReturn[i] \in 0..length - 1
        /\ length >= 2 => sliceToReturn[i] # length - 1
        /\ \A j \in DOMAIN sliceToReturn : sliceToReturn[i] = sliceToReturn[j] => i = j

\* The comment on GetRandomIndexes says that it returns count indexes.  It
\* does when an index is to spare; asked for all of two or more it draws for
\* ever, and so hangs the worker that scales a collection to nothing.
ReturnsIfOneIsSpare ==
    /\ count < length \/ length <= 1 => <>(at = "return")
    /\ count = length /\ length > 1 => [](at # "return")
=============================================================================
