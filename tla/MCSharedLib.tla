---------------------------- MODULE MCSharedLib -----------------------------
(* Small instances of SharedLib.                                           *)
EXTENDS SharedLib, TLC

CONSTANTS p1, p2

Login(n, a, k, h) == [index |-> n, account |-> a, key |-> k, http |-> h]

\* Two indices, one of them as a C int that does not fit uint8 and one of them
\* beyond the last valid index; two keys for the first; no URL; what fails.
MCLogins ==
  {Login(1, 5, p1, TRUE), Login(257, 5, p2, TRUE), Login(255, 5, p2, FALSE),
   Login(255, 5, p1, TRUE), Login(1, 5, BadKey, TRUE), Login(1, 0, p1, TRUE)}
MCCInts == {1, 257, 255, 2}
MCNonces == {AskForNonce, 1, -2}

\* Two clients of two indices, and a failure.
MCLoginsOfTwo ==
  {Login(1, 5, p1, TRUE), Login(2, 5, p2, TRUE), Login(2, 5, BadKey, TRUE)}
MCCIntsOfTwo == {1, 2}
MCNoncesOfTwo == {AskForNonce}

ThreadSymmetry == Permutations(Threads)
=============================================================================
