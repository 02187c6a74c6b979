---------------------------- MODULE MCLspCompile ----------------------------
(* The file entry of one workspace and the file other of a second one both   *)
(* import lib.                                                               *)
EXTENDS LspCompile, TLC

CONSTANTS entry, lib, other, w1, w2

MCEntries == w1 :> {entry} @@ w2 :> {other}
MCEntriesOne == w1 :> {entry}
MCImports == entry :> {lib} @@ lib :> {} @@ other :> {lib}
MCImportsOne == entry :> {lib} @@ lib :> {}

(* The odd edits introduce a syntax error, the even ones repair it. *)
MCFaulty == {<<x, v>> \in Files \X (1..MaxEdits) : v % 2 = 1}

(* The threads of the pool are alike. *)
Symmetry == Permutations(Threads)
=============================================================================
