-------------------------- MODULE MCSlotTransport --------------------------
(* Instances of SlotTransport for TLC.                                     *)
EXTENDS SlotTransport, TLC, Functions

CONSTANTS
    WriterCalls,  \* bounds on the calls of a writer and of a reader
    ReaderCalls,
    MaxEvents     \* bound on the calls of all, and all that disturbs them

CallsOfEach == [w \in Writer |-> WriterCalls] @@ [r \in Reader |-> ReaderCalls]

\* A lane executed twice counts as two events, a second reader as three.
FewEvents ==
    LET events == FoldFunction(+, 0, calls) + timeouts + 2 * repeats + lapses + expiries
        readers == {r \in Reader : calls[r] > 0}
    IN events + 3 * (Cardinality(readers) - 1) <= MaxEvents

\* Keys behave alike, and so do readers.
Symmetry == Permutations(Key) \cup Permutations(Reader)

=============================================================================
