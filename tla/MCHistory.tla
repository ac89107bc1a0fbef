----------------------------- MODULE MCHistory -----------------------------
(* Instances of History for TLC.                                           *)
EXTENDS History, TLC

Symmetry == Permutations(Procs)
Empty == {{}}
OneBlock == {{BatchSize + 1}}
GenesisMayBe == {{}, {0}}
GenesisSealed == {{}}
Intervals == {{}} \cup {lo..hi : lo \in 0..MaxBlock, hi \in 1..MaxBlock}
=============================================================================
