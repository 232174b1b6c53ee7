---------------------------- MODULE MCToolPolicy ----------------------------
(* Instances of ToolPolicy for TLC: requests and the tools they call. *)
EXTENDS ToolPolicy, TLC

CONSTANTS r1, r2, r3, write, read

\* Two requests of a tool that needs a confirmation, one of a tool that does
\* not.
MixedTools == (r1 :> write) @@ (r2 :> write) @@ (r3 :> read)

\* Two requests of a tool that needs a confirmation.
WriteTools == (r1 :> write) @@ (r2 :> write)

\* The requests of the confirmed tool are interchangeable, and so are the
\* executors.
PolicySymmetry == Permutations({r1, r2}) \cup Permutations(Executors)
=============================================================================
