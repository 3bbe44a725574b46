--------------------------- MODULE MCAddressSpace ---------------------------
(* Small instances of AddressSpace for TLC.                                  *)
EXTENDS AddressSpace

Symmetry == Permutations(Task)

\* With tables of two pages the window is pages 2 and 3.
MCImage ==
    {[pages |-> <<[page |-> 2, fl |-> "RO", val |-> "text"]>>, ok |-> TRUE],
     [pages |-> <<[page |-> 2, fl |-> "RW", val |-> "zero"],
                  [page |-> 3, fl |-> "RW", val |-> "text"]>>, ok |-> FALSE]}

============================================================================
