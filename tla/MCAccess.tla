----------------------------- MODULE MCAccess ------------------------------
(* TLC instances of Access and, under it, of Startup: an older database with *)
(* one user, or none.                                                        *)
EXTENDS Access, TLC
CONSTANTS p1, p2, ann, bob
OldDatabase == <<ann>>
OneGrant == {<<"reporter", "sight">>}
ProcessSymmetry == Permutations(Processes)
=============================================================================
