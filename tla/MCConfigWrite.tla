--------------------------- MODULE MCConfigWrite ---------------------------
(* Small instances of ConfigWrite for TLC.                                 *)
EXTENDS ConfigWrite, TLC

CONSTANTS a, b, bad

MCContents == {a, b, bad}
MCValid == {a, b}
MCSize == [c \in MCContents \union {Torn} |->
             CASE c = a -> 3 [] c = b -> 3 [] c = bad -> 4 [] c = Torn -> 1]

(* The two contents that pass the test are alike.                          *)
Alike == Permutations({a, b})

(* Bound: once somebody has edited the file, one failing call per job, and *)
(* the kind of server that renames over a file.                            *)
Bounded == edits > 0 => faults <= 1 /\ server = "replaces"
=============================================================================
