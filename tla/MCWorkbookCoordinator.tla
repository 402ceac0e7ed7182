----------------------- MODULE MCWorkbookCoordinator -----------------------
(* Small instances of WorkbookCoordinator: session s1 makes two mutations   *)
(* of one turn in parallel, session s2 a third.                             *)
EXTENDS WorkbookCoordinator, TLC

CONSTANTS c1, c2, c3, r1, s1, s2, d1, d2

MCSessions == {s1, s2}

(* Three mutations, for the change of identity. *)
MCWriters == {c1, c2, c3}
MCWritersSession == c1 :> s1 @@ c2 :> s1 @@ c3 :> s2

MCRestores == {c3}

(* Three mutations and a read, for the safety of the queue. *)
MCMixed == {c1, c2, c3, r1}
MCMixedSession == c1 :> s1 @@ c2 :> s1 @@ c3 :> s2 @@ r1 :> s2

MCDocuments == {d1, d2}
MCOneDocument == {d1}
MCSymmetry == Permutations({c1, c2}) \cup Permutations({d1, d2})
=============================================================================
