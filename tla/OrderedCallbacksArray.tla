----------------------- MODULE OrderedCallbacksArray ------------------------
(***************************************************************************)
(* The list of callbacks that the composite receiver inherits              *)
(* (src/contracts/0.8.9/OrderedCallbacksArray.sol).  Entries are shifted   *)
(* one by one, in place.  Indexes count from 0, as in the code.            *)
(***************************************************************************)
EXTENDS Integers, Sequences, SequencesExt

CONSTANT MAX_CALLBACKS_COUNT

ASSUME CallbacksAssumption == MAX_CALLBACKS_COUNT \in Nat

\* What push() leaves in the new entry until it is written.
ZeroAddress == "0x0"

\* lo, ..., hi
Ascending(lo, hi) == [k \in 1 .. hi - lo + 1 |-> lo + k - 1]

\* list with the entries at positions, in this order, overwritten by the entry
\* that is distance away.
Shifted(list, positions, distance) ==
    FoldLeft(LAMBDA l, k : [l EXCEPT ![k + 1] = l[k + 1 + distance]], list, positions)

\* Mutant: the entries are shifted from the first to the last.
Inserted_Forwards(list, callback, atIndex) ==
    LET pushed == Append(list, ZeroAddress)
    IN  [Shifted(pushed, Ascending(atIndex + 1, Len(list)), -1) EXCEPT ![atIndex + 1] = callback]

\* _insertCallback, from the last entry to the first.
Inserted(list, callback, atIndex) ==
    LET pushed == Append(list, ZeroAddress)
    IN  [Shifted(pushed, Reverse(Ascending(atIndex + 1, Len(list))), -1)
            EXCEPT ![atIndex + 1] = callback]

MayInsert(list, atIndex) == atIndex <= Len(list) /\ Len(list) < MAX_CALLBACKS_COUNT

\* removeCallback
Removed(list, atIndex) == Front(Shifted(list, Ascending(atIndex, Len(list) - 2), 1))

MayRemove(list, atIndex) == atIndex < Len(list)
=============================================================================
